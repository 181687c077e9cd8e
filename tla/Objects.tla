------------------------------ MODULE Objects ------------------------------
(***************************************************************************)
(* DockerContainer custom resources, as the API server stores them, and    *)
(* the calls this program makes on them: finalizers, the status            *)
(* subresource and optimistic concurrency by resourceVersion.  The server  *)
(* is outside src/ and is modelled from how src/ uses it; the contents of  *)
(* the objects are those of src/internal/api/container.go.                 *)
(*                                                                         *)
(* An object is identified by its UID, which the server never reuses: a    *)
(* UID goes from Unborn to a record, and from a record to Gone.            *)
(***************************************************************************)
EXTENDS Naturals

CONSTANTS
  Names,     \* names of DockerContainer objects in the namespace
  UIDs,      \* object identities the server can hand out; bounds creations
  Configs,   \* everything of a ContainerSpec but DesiredState
  Readers,   \* clients that keep a resourceVersion between a read and a write
  Unborn, Gone

VARIABLES
  cr,        \* cr[u]: the stored DockerContainer with UID u
  fresh      \* fresh[r]: the UIDs whose resourceVersion, as read by r, is current

objVars == <<cr, fresh>>

PodPhases   == {"Pending", "Running", "Succeeded", "Failed"}
Terminal    == {"Succeeded", "Failed"}
OwnPhases   == {"Stopping", "Stopped", "Updating"}
NoPhase     == ""
Phases      == {NoPhase} \cup PodPhases \cup OwnPhases
DesiredStates == {"Running", "Stopped"}

\* A DockerContainer: spec (config, desired), metadata (name, finalizer,
\* deletionTimestamp) and status.  currentPodName, reason, exitCode and the
\* times come and go with the phase and are not kept apart.
ContainerObjects ==
  [name : Names, config : Configs, desired : DesiredStates,
   fin : BOOLEAN, deleting : BOOLEAN, phase : Phases]

ASSUME DistinctNulls ==
  /\ Unborn # Gone
  /\ Unborn \notin ContainerObjects /\ Gone \notin ContainerObjects

ObjectsTypeOK ==
  /\ cr \in [UIDs -> ContainerObjects \cup {Unborn, Gone}]
  /\ fresh \in [Readers -> SUBSET UIDs]

ObjectsInit ==
  /\ cr = [u \in UIDs |-> Unborn]
  /\ fresh = [r \in Readers |-> {}]

Exists(u) == cr[u] \notin {Unborn, Gone}
Stored    == {u \in UIDs : Exists(u)}
Named(n)  == {u \in Stored : cr[u].name = n}

\* A terminating object without finalizers is removed by the server.
Settled(obj) == IF obj.deleting /\ ~obj.fin THEN Gone ELSE obj

\* The server stores obj under UID u.  A write that changes nothing keeps the
\* resourceVersion; any other write makes every earlier read of u stale.
Store(u, obj) ==
  /\ cr' = [cr EXCEPT ![u] = Settled(obj)]
  /\ fresh' = IF Settled(obj) = cr[u] THEN fresh
              ELSE [r \in Readers |-> fresh[r] \ {u}]

\* Reads: the reader now holds the current resourceVersion of us.
Read(r, us) == fresh' = [fresh EXCEPT ![r] = us]

\* An Update or UpdateStatus carrying the resourceVersion reader r holds for
\* u.  It fails with a conflict (or NotFound) when the object has changed.
ConditionalStore(r, u, obj) ==
  IF u \in fresh[r] THEN Store(u, obj) ELSE UNCHANGED <<cr, fresh>>

\* What NewContainer hands to the server: desired Running, no finalizer.
NewContainer(n, c) ==
  [name |-> n, config |-> c, desired |-> "Running",
   fin |-> FALSE, deleting |-> FALSE, phase |-> NoPhase]

CreateContainer(u, n, c) ==
  /\ cr[u] = Unborn
  /\ Named(n) = {}
  /\ Store(u, NewContainer(n, c))

\* A client's read-modify-write of spec.desiredState, at its successful write.
SetDesiredState(u, d) ==
  /\ Exists(u) /\ cr[u].desired # d
  /\ Store(u, [cr[u] EXCEPT !.desired = d])

\* compose apply's read-modify-write of the whole spec: it also asks for Running.
SetSpec(u, c) ==
  /\ Exists(u) /\ <<cr[u].config, cr[u].desired>> # <<c, "Running">>
  /\ Store(u, [cr[u] EXCEPT !.config = c, !.desired = "Running"])

\* Delete by name: a finalizer turns it into a deletionTimestamp.
DeleteContainer(u) ==
  /\ Exists(u) /\ ~cr[u].deleting
  /\ Store(u, [cr[u] EXCEPT !.deleting = TRUE])
=============================================================================
