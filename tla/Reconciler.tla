----------------------------- MODULE Reconciler -----------------------------
(***************************************************************************)
(* The controller of src/internal/controller/reconciler.go at the          *)
(* granularity of its API calls.                                           *)
(*                                                                         *)
(* A pass (ReconcileAll) lists the DockerContainers and reconciles the     *)
(* listed copies one after the other; nothing is read again during the     *)
(* pass except the Pod, so every decision is taken on the copy and every   *)
(* write of the object carries the copy's resourceVersion.  Between two    *)
(* calls, clients edit and delete the objects, the kubelet and others act  *)
(* on the Pods, and the controller process may die and start again.        *)
(*                                                                         *)
(* Controllers is a set because deploy/install.yaml runs a Deployment      *)
(* without leader election: a rolling update overlaps two processes.       *)
(***************************************************************************)
EXTENDS Cluster

CONSTANTS Controllers, NoUID, NoView

VARIABLES
  at,      \* at[c]: the API call controller c is about to make
  item,    \* item[c]: the object being reconciled
  snap,    \* snap[c][u]: the listed copy of u, until u has been reconciled
  seen,    \* seen[c]: status.phase of the Pod the last Get or Create returned
  failed   \* failed[c]: a Reconcile of this pass has returned an error

ctlVars == <<at, item, snap, seen, failed>>
vars == <<cr, fresh, pod, at, item, snap, seen, failed>>

ASSUME ControllersRead == Controllers \subseteq Readers
ASSUME NoUIDNotUID == NoUID \notin UIDs

Between == {"idle", "next"}
Calls == {"stopDelete", "stopPhase", "stoppedStatus",
          "runCreate", "updateDelete", "updatePhase", "runStatus",
          "finalDelete", "finalUpdate"}

\* The fields of a listed copy the controller uses: it replaces the status
\* as a whole and never reads it.
View(o) == [config |-> o.config, desired |-> o.desired,
            fin |-> o.fin, deleting |-> o.deleting]
Views == [config : Configs, desired : DesiredStates,
          fin : BOOLEAN, deleting : BOOLEAN]

ASSUME NoViewNotView == NoView \notin Views

CtlTypeOK ==
  /\ at \in [Controllers -> Between \cup Calls]
  /\ item \in [Controllers -> UIDs \cup {NoUID}]
  /\ snap \in [Controllers -> [UIDs -> Views \cup {NoView}]]
  /\ seen \in [Controllers -> {NoPhase} \cup PodPhases]
  /\ failed \in [Controllers -> BOOLEAN]

TypeOK == ClusterTypeOK /\ CtlTypeOK

NothingListed == [u \in UIDs |-> NoView]

Init ==
  /\ ClusterInit
  /\ at = [c \in Controllers |-> "idle"]
  /\ item = [c \in Controllers |-> NoUID]
  /\ snap = [c \in Controllers |-> NothingListed]
  /\ seen = [c \in Controllers |-> NoPhase]
  /\ failed = [c \in Controllers |-> FALSE]

Listed(c, u) == snap[c][u] # NoView

\* The listed copies that Reconcile sends to finalize, to the Stopped branch
\* and to the Running branch.
ToFinalize(c, u) == Listed(c, u) /\ snap[c][u].deleting
ToClaim(c, u)    == Listed(c, u) /\ ~snap[c][u].deleting /\ ~snap[c][u].fin
ToStop(c, u)     == Listed(c, u) /\ ~snap[c][u].deleting /\ snap[c][u].fin
                    /\ snap[c][u].desired # "Running"
ToRun(c, u)      == Listed(c, u) /\ ~snap[c][u].deleting /\ snap[c][u].fin
                    /\ snap[c][u].desired = "Running"

\* Controller c goes on with object u at call `call`.
GoTo(c, u, call, phase) ==
  /\ at' = [at EXCEPT ![c] = call]
  /\ item' = [item EXCEPT ![c] = u]
  /\ seen' = [seen EXCEPT ![c] = phase]
  /\ UNCHANGED <<snap, failed>>

\* Reconcile returns for u, well or with an error; the error is joined to the
\* result of the pass and the pass goes on.
Return(c, u, ok) ==
  /\ at' = [at EXCEPT ![c] = "next"]
  /\ item' = [item EXCEPT ![c] = NoUID]
  /\ seen' = [seen EXCEPT ![c] = NoPhase]
  /\ snap' = [snap EXCEPT ![c][u] = NoView]
  /\ failed' = [failed EXCEPT ![c] = @ \/ ~ok]

Picks(c, u) == at[c] = "next" /\ u \in UIDs
About(c, call, u) == at[c] = call /\ u = item[c]

\* The object a copy stands for when it is sent back in an Update of the main
\* resource: spec and metadata of the copy, and the stored status.
Merged(u, v) ==
  [cr[u] EXCEPT !.config = v.config, !.desired = v.desired,
                !.fin = v.fin, !.deleting = v.deleting]

\* updatePhase, updateStatus and updateStoppedStatus: an UpdateStatus with
\* the copy's resourceVersion; the server keeps spec and metadata.
WriteStatus(c, u, phase) ==
  /\ ConditionalStore(c, u, [cr[u] EXCEPT !.phase = phase])
  /\ Return(c, u, u \in fresh[c])

----------------------------------------------------------------------------
(* ReconcileAll                                                            *)

\* Mutant of List: objects being deleted are left out.
ListLive(c) ==
  /\ at[c] = "idle"
  /\ at' = [at EXCEPT ![c] = "next"]
  /\ snap' = [snap EXCEPT ![c] =
                [u \in UIDs |-> IF Exists(u) /\ ~cr[u].deleting THEN View(cr[u]) ELSE NoView]]
  /\ Read(c, Stored)
  /\ UNCHANGED <<cr, pod, item, seen, failed>>

\* List succeeds; the order in which the items come is left open.
List(c) ==
  /\ at[c] = "idle"
  /\ at' = [at EXCEPT ![c] = "next"]
  /\ snap' = [snap EXCEPT ![c] =
                [u \in UIDs |-> IF Exists(u) THEN View(cr[u]) ELSE NoView]]
  /\ Read(c, Stored)
  /\ UNCHANGED <<cr, pod, item, seen, failed>>

\* All items done: wait for the ticker.
PassEnds(c) ==
  /\ at[c] = "next"
  /\ snap[c] = NothingListed
  /\ at' = [at EXCEPT ![c] = "idle"]
  /\ fresh' = [fresh EXCEPT ![c] = {}]
  /\ failed' = [failed EXCEPT ![c] = FALSE]
  /\ UNCHANGED <<cr, pod, item, snap, seen>>

\* Mutant of AddFinalizer: the copy is sent without its resourceVersion.
ForceFinalizer(c, u) ==
  /\ Picks(c, u) /\ ToClaim(c, u)
  /\ IF Exists(u) THEN Store(u, Merged(u, [snap[c][u] EXCEPT !.fin = TRUE]))
                  ELSE UNCHANGED <<cr, fresh>>
  /\ Return(c, u, Exists(u))
  /\ UNCHANGED pod

(* Reconcile, line 63: a new object first gets the finalizer.              *)
AddFinalizer(c, u) ==
  /\ Picks(c, u) /\ ToClaim(c, u)
  /\ ConditionalStore(c, u, Merged(u, [snap[c][u] EXCEPT !.fin = TRUE]))
  /\ Return(c, u, u \in fresh[c])
  /\ UNCHANGED pod

\* Mutant of StopGet: nothing to report when there is no Pod.
StopGetSilent(c, u) ==
  /\ Picks(c, u) /\ ToStop(c, u)
  /\ IF HasPod(u) THEN GoTo(c, u, "stopDelete", NoPhase) ELSE Return(c, u, TRUE)
  /\ UNCHANGED clusterVars

(* Reconcile, line 77: desired state Stopped.                              *)
StopGet(c, u) ==
  /\ Picks(c, u) /\ ToStop(c, u)
  /\ GoTo(c, u, IF HasPod(u) THEN "stopDelete" ELSE "stoppedStatus", NoPhase)
  /\ UNCHANGED clusterVars

\* Mutant of StopDelete: Stopped is reported as soon as the Delete is accepted.
StopDeleteDone(c, u) ==
  /\ About(c, "stopDelete", u)
  /\ UNCHANGED <<cr, fresh>>
  /\ \/ HasPod(u) /\ GracefulDelete(u) /\ GoTo(c, u, "stoppedStatus", NoPhase)
     \/ ~HasPod(u) /\ Return(c, u, FALSE) /\ UNCHANGED pod

StopDelete(c, u) ==
  /\ About(c, "stopDelete", u)
  /\ UNCHANGED <<cr, fresh>>
  /\ \/ /\ HasPod(u)
        /\ GracefulDelete(u)
        /\ GoTo(c, u, "stopPhase", NoPhase)
     \/ ~HasPod(u) /\ Return(c, u, FALSE) /\ UNCHANGED pod

StopPhase(c, u) ==
  /\ About(c, "stopPhase", u)
  /\ WriteStatus(c, u, "Stopping")
  /\ UNCHANGED pod

StoppedStatus(c, u) ==
  /\ About(c, "stoppedStatus", u)
  /\ WriteStatus(c, u, "Stopped")
  /\ UNCHANGED pod

\* Mutant of RunGet: any Pod under the name will do.
RunGetAny(c, u) ==
  /\ Picks(c, u) /\ ToRun(c, u)
  /\ UNCHANGED clusterVars
  /\ IF HasPod(u) THEN GoTo(c, u, "runStatus", pod[u].phase)
                  ELSE GoTo(c, u, "runCreate", NoPhase)

\* Mutant of RunGet: a finished Pod is replaced like an outdated one.
RunGetAgain(c, u) ==
  /\ Picks(c, u) /\ ToRun(c, u)
  /\ UNCHANGED clusterVars
  /\ IF ~HasPod(u) THEN GoTo(c, u, "runCreate", NoPhase)
     ELSE IF pod[u].hash # snap[c][u].config \/ pod[u].phase \in Terminal
       THEN GoTo(c, u, "updateDelete", NoPhase)
       ELSE GoTo(c, u, "runStatus", pod[u].phase)

(* Reconcile, line 91: desired state Running.                              *)
RunGet(c, u) ==
  /\ Picks(c, u) /\ ToRun(c, u)
  /\ UNCHANGED clusterVars
  /\ \/ ~HasPod(u) /\ GoTo(c, u, "runCreate", NoPhase)
     \/ /\ HasPod(u) /\ pod[u].hash # snap[c][u].config
        /\ GoTo(c, u, "updateDelete", NoPhase)
     \/ /\ HasPod(u) /\ pod[u].hash = snap[c][u].config
        /\ GoTo(c, u, "runStatus", pod[u].phase)

\* Mutant of RunCreate: the created Pod is not handed on to updateStatus.
RunCreateNil(c, u) ==
  /\ About(c, "runCreate", u)
  /\ UNCHANGED <<cr, fresh>>
  /\ \/ /\ ~HasPod(u)
        /\ pod' = [pod EXCEPT ![u] = PodFor(snap[c][u].config)]
        /\ GoTo(c, u, "runStatus", NoPod)
     \/ HasPod(u) /\ Return(c, u, FALSE) /\ UNCHANGED pod

\* Create fails with AlreadyExists when the name is taken by then.
RunCreate(c, u) ==
  /\ About(c, "runCreate", u)
  /\ UNCHANGED <<cr, fresh>>
  /\ \/ /\ ~HasPod(u)
        /\ pod' = [pod EXCEPT ![u] = PodFor(snap[c][u].config)]
        /\ GoTo(c, u, "runStatus", "Pending")
     \/ HasPod(u) /\ Return(c, u, FALSE) /\ UNCHANGED pod

UpdateDelete(c, u) ==
  /\ About(c, "updateDelete", u)
  /\ UNCHANGED <<cr, fresh>>
  /\ \/ /\ HasPod(u)
        /\ GracefulDelete(u)
        /\ GoTo(c, u, "updatePhase", NoPhase)
     \/ ~HasPod(u) /\ Return(c, u, FALSE) /\ UNCHANGED pod

UpdatePhase(c, u) ==
  /\ About(c, "updatePhase", u)
  /\ WriteStatus(c, u, "Updating")
  /\ UNCHANGED pod

RunStatus(c, u) ==
  /\ About(c, "runStatus", u)
  /\ WriteStatus(c, u, seen[c])
  /\ UNCHANGED pod

\* Mutant of FinalGet: the owner reference is trusted to take the Pod away.
FinalGetNoPod(c, u) ==
  /\ Picks(c, u) /\ ToFinalize(c, u)
  /\ UNCHANGED clusterVars
  /\ GoTo(c, u, "finalUpdate", NoPhase)

(* finalize: the Pod first, without grace; the finalizer once it is gone.  *)
FinalGet(c, u) ==
  /\ Picks(c, u) /\ ToFinalize(c, u)
  /\ UNCHANGED clusterVars
  /\ IF snap[c][u].fin
       THEN GoTo(c, u, IF HasPod(u) THEN "finalDelete" ELSE "finalUpdate", NoPhase)
       ELSE Return(c, u, TRUE)

FinalDelete(c, u) ==
  /\ About(c, "finalDelete", u)
  /\ ForceDelete(u)
  /\ Return(c, u, HasPod(u))
  /\ UNCHANGED <<cr, fresh>>

FinalUpdate(c, u) ==
  /\ About(c, "finalUpdate", u)
  /\ ConditionalStore(c, u, Merged(u, [snap[c][u] EXCEPT !.fin = FALSE]))
  /\ Return(c, u, u \in fresh[c])
  /\ UNCHANGED pod

\* The steps of c's own code.
Step(c, u) ==
  \/ AddFinalizer(c, u)
  \/ StopGet(c, u) \/ StopDelete(c, u) \/ StopPhase(c, u) \/ StoppedStatus(c, u)
  \/ RunGet(c, u) \/ RunCreate(c, u) \/ UpdateDelete(c, u)
  \/ UpdatePhase(c, u) \/ RunStatus(c, u)
  \/ FinalGet(c, u) \/ FinalDelete(c, u) \/ FinalUpdate(c, u)

Controller(c) == List(c) \/ PassEnds(c) \/ \E u \in UIDs : Step(c, u)

----------------------------------------------------------------------------
(* Faults.  The next call of c for u fails (or the answer of the last one  *)
(* was lost): the error is joined and the pass goes on.  A crash loses the *)
(* pass; after the last item it differs in nothing from the pass's end.    *)
CallFails(c, u) ==
  /\ \/ Picks(c, u) /\ Listed(c, u)
     \/ at[c] \in Calls /\ u = item[c]
  /\ Return(c, u, FALSE)
  /\ UNCHANGED clusterVars

Crash(c) ==
  /\ at[c] \in Calls \/ (at[c] = "next" /\ snap[c] # NothingListed)
  /\ at' = [at EXCEPT ![c] = "idle"]
  /\ item' = [item EXCEPT ![c] = NoUID]
  /\ seen' = [seen EXCEPT ![c] = NoPhase]
  /\ snap' = [snap EXCEPT ![c] = NothingListed]
  /\ failed' = [failed EXCEPT ![c] = FALSE]
  /\ fresh' = [fresh EXCEPT ![c] = {}]
  /\ UNCHANGED <<cr, pod>>

Fault(c) == Crash(c) \/ \E u \in UIDs : CallFails(c, u)

(* Clients: the docker and kubectl commands, at their successful writes.   *)
Client ==
  /\ \E u \in UIDs :
       \/ \E n \in Names, g \in Configs : CreateContainer(u, n, g)
       \/ \E d \in DesiredStates : SetDesiredState(u, d)
       \/ \E g \in Configs : SetSpec(u, g)
       \/ DeleteContainer(u)
  /\ UNCHANGED <<pod, ctlVars>>

Node ==
  /\ \E u \in UIDs : Kubelet(u) \/ OwnerGone(u)
  /\ UNCHANGED ctlVars

Eviction ==
  /\ \E u \in UIDs : PodRemovedByOthers(u)
  /\ UNCHANGED ctlVars

Next ==
  \/ \E c \in Controllers : Controller(c) \/ Fault(c)
  \/ Client \/ Node \/ Eviction

Spec == Init /\ [][Next]_vars

----------------------------------------------------------------------------
(* Properties.                                                             *)

\* One controller process at a time, as with replicas: 1 outside a rollout.
OneController == \A c, d \in Controllers : c = d

\* With one controller, no Pod outlives its DockerContainer: whenever the Pod
\* of a UID exists, the object with that UID is still stored and still held
\* by the finalizer, also when it was deleted while the controller was about
\* to create the Pod from an old copy, or crashed in between
\* (reconciler.go:59-104, finalize at 116-140).
NoOrphanPod == \A u \in UIDs : HasPod(u) => Exists(u) /\ cr[u].fin

\* With one controller, the status turns to Stopped only when the object asks
\* for Stopped and its Pod is gone at that very moment, although the Pod was
\* looked up in an earlier call (reconciler.go:78-88).
StoppedIsTrue ==
  [][\A u \in UIDs :
       Exists(u) /\ Exists(u)' /\ cr[u].phase # "Stopped" /\ cr'[u].phase = "Stopped"
         => cr[u].desired = "Stopped" /\ ~HasPod(u)]_vars

\* The controller, which sends whole copies back, never undoes what a client
\* wrote meanwhile: its steps change neither the spec nor the deletion mark
\* of any object, and take the finalizer only from a deleted one
\* (reconciler.go:64-67, 106-140, 151-166).
ClientWritesSurvive ==
  [][(\E c \in Controllers : Controller(c)) =>
       \A u \in UIDs : Exists(u) =>
         \/ Exists(u)' /\ View(cr'[u]) \in {View(cr[u]), [View(cr[u]) EXCEPT !.fin = TRUE]}
         \/ cr'[u] = Gone /\ cr[u].deleting]_vars

\* With one controller, a status that reports a Pod's phase is only written
\* while the object asks for Running, and never reports a Pod of an outdated
\* spec: the Pod there, if any, has the hash of the stored spec
\* (reconciler.go:91-103, container.go:210-216).
ReportedPodIsCurrent ==
  [][\A u \in UIDs :
       Exists(u) /\ Exists(u)' /\ cr[u].phase # cr'[u].phase /\ cr'[u].phase \in PodPhases
         => /\ cr[u].desired = "Running"
            /\ HasPod(u) => pod[u].hash = cr[u].config]_vars

\* With one controller, a Pod of the stored spec is left alone while the
\* object asks for Running and the copy being worked on is current, across
\* the separate Get and Delete calls (reconciler.go:77-84, 94-98).
WantedPodIsKept ==
  [][\A c \in Controllers, u \in UIDs :
       (/\ Controller(c) /\ u \in fresh[c] /\ HasPod(u)
        /\ cr[u].desired = "Running" /\ ~cr[u].deleting /\ pod[u].hash = cr[u].config)
         => pod'[u] = pod[u]]_vars

\* Clients see the controller, when it is one, as Lifecycle describes it.
Promise == INSTANCE Lifecycle
  WITH Readers <- Readers \ Controllers,
       fresh <- [r \in Readers \ Controllers |-> fresh[r]],
       busy <- {u \in UIDs : HasPod(u)},
       Reported <- Phases \ {NoPhase}
ImplementsLifecycle == Promise!LifeSpec

----------------------------------------------------------------------------
(* Liveness.  The ticker and the Deployment's restart keep the controller  *)
(* going, the kubelet ends the Pods it was told to end, and the garbage    *)
(* collector its orphans.  Clients, evictions and failing calls can spoil  *)
(* every pass, so the promises hold from the time they stop.               *)

Fairness ==
  /\ \A c \in Controllers : WF_vars(Controller(c))
  /\ \A u \in UIDs : WF_vars((PodStopped(u) \/ OwnerGone(u)) /\ UNCHANGED ctlVars)

FairSpec == Spec /\ Fairness

Disturbance == Client \/ Eviction \/ \E c \in Controllers : Fault(c)
Quiet == <>[][~Disturbance]_vars

\* Once things are quiet every deleted object disappears, with its Pod: the
\* finalizer wedges nothing (reconciler.go:116-140).
DeletionCompletes ==
  Quiet => <>[](\A u \in UIDs : Exists(u) => ~cr[u].deleting)

\* Once things are quiet an object that asks for Stopped loses its Pod for
\* good and says so (reconciler.go:77-88).
StopConverges ==
  Quiet => <>[](\A u \in UIDs : Exists(u) /\ cr[u].desired = "Stopped"
                  => ~HasPod(u) /\ cr[u].phase = "Stopped")

\* Once things are quiet an object that asks for Running has a Pod of its
\* current spec that nobody is deleting, and reports that Pod's phase
\* (reconciler.go:91-103).
RunConverges ==
  Quiet => <>[](\A u \in UIDs : Exists(u) /\ cr[u].desired = "Running"
                  => /\ HasPod(u) /\ ~pod[u].dying
                     /\ pod[u].hash = cr[u].config
                     /\ cr[u].phase \in PodPhases)

\* Two controllers can leave a Pod behind a removed object, but it refers to
\* that object and is collected, also when disturbances never stop
\* (reconciler.go:93, container.go:190-195).
OrphansCollected == \A u \in UIDs : (cr[u] = Gone /\ HasPod(u)) ~> ~HasPod(u)
=============================================================================
