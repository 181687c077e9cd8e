--------------------------- MODULE DockerCliProofs ---------------------------
(***************************************************************************)
(* What the container commands guarantee for every set of processes,       *)
(* commands, arguments, names and objects.  Every step of a command is, on *)
(* the variables of Reconciler, a client's write, a read that only the     *)
(* command itself remembers, or nothing; so what ReconcilerProofs shows of *)
(* the objects, the copies and the Pods holds beside the commands too.     *)
(***************************************************************************)
EXTENDS DockerCli, ReconcilerProofs

USE DEF Exists, HasPod, Listed

----------------------------------------------------------------------------
(* Types.  Create is called with a name only.                              *)

CreatesNamed == \A p \in Procs : cmd[p].at = "create" => cmd[p].arg.name \in Names

CliType == CliTypeOK /\ CreatesNamed

\* The record that replaces a command: the fields an action writes are typed.
LEMMA CommandChanges ==
  ASSUME CliType, NEW p \in Procs, NEW x \in Commands, cmd' = [cmd EXCEPT ![p] = x],
         x.at = "create" => x.arg.name \in Names
  PROVE  CliType'
  BY DEF CliType, CliTypeOK, CreatesNamed

LEMMA IdleType ==
  ASSUME NEW result \in Ended
  PROVE  Idle(result) \in Commands /\ Idle(result).at = result
  BY AttemptsPositive DEF Idle, Commands, Callsites, DesiredStates

LEMMA EndsType ==
  ASSUME CliType, NEW p \in Procs, NEW result \in Ended, Ends(p, result)
  PROVE  CliType'
  BY IdleType, CommandChanges DEF Ends, Ended

LEMMA CommandType ==
  ASSUME TypeInv, CliType, NEW p \in Procs, Command(p)
  PROVE  CliType'
<1> USE DEF Callsites, Waiting, Ended
<1>c. cmd[p] \in Commands /\ cmd[p].arg.name \in Names \cup {NoName}
  BY ArgsKnown DEF CliType, CliTypeOK, Commands, NoArg
<1>e. \A result \in Ended : Ends(p, result) => CliType'
  BY EndsType
<1>n. \A u \in Stored : u \in UIDs /\ cr[u].name \in Names
  BY StoredIsObject DEF Stored, TypeInv, ObjInv, ContainerObjects
<1>g. \A l \in Callsites \ {"create"} : Goes(p, l) => CliType'
  <2> SUFFICES ASSUME NEW l \in Callsites \ {"create"}, Goes(p, l) PROVE CliType'
    OBVIOUS
  <2> DEFINE x == [cmd[p] EXCEPT !.at = l]
  <2>1. x \in Commands /\ x.at = l
    BY <1>c DEF Commands
  <2>2. cmd' = [cmd EXCEPT ![p] = x]
    BY DEF Goes
  <2> QED BY <2>1, <2>2, CommandChanges
<1>r. \A n \in Names \cup {NoName} : Resolved(p, n) => CliType'
  <2> SUFFICES ASSUME NEW n \in Names \cup {NoName}, Resolved(p, n) PROVE CliType'
    OBVIOUS
  <2> DEFINE x == [cmd[p] EXCEPT !.name = n, !.at = IF cmd[p].op = "rm" THEN "delete" ELSE "get"]
  <2>1. x \in Commands /\ x.at # "create"
    BY <1>c DEF Commands
  <2>2. cmd' = [cmd EXCEPT ![p] = x]
    BY <1>c DEF Resolved, CliType, CliTypeOK
  <2> QED BY <2>1, <2>2, CommandChanges
<1>1. CASE RunCommand(p)
  <2>1. ASSUME NEW u \in UIDs,
               cmd' = [cmd EXCEPT ![p].at = "waitTerminal", ![p].name = cmd[p].arg.name, ![p].hold = u]
        PROVE  CliType'
    <3> DEFINE x == [cmd[p] EXCEPT !.at = "waitTerminal", !.name = cmd[p].arg.name, !.hold = u]
    <3>1. x \in Commands /\ x.at # "create"
      BY <1>c DEF Commands
    <3>2. cmd' = [cmd EXCEPT ![p] = x]
      BY <1>c, <2>1 DEF CliType, CliTypeOK
    <3> QED BY <3>1, <3>2, CommandChanges
  <2> QED BY <1>1, <1>e, <2>1 DEF RunCommand
<1>2. CASE WaitForTerminal(p)
  BY <1>2, <1>e DEF WaitForTerminal
<1>3. CASE ResolveGet(p)
  BY <1>3, <1>c, <1>g, <1>r DEF ResolveGet
<1>4. CASE ResolveList(p)
  BY <1>4, <1>e, <1>n, <1>r DEF ResolveList
<1>5. CASE SetGet(p)
  <2>1. ASSUME NEW u \in UIDs, cmd' = [cmd EXCEPT ![p].at = "update", ![p].hold = u]
        PROVE  CliType'
    <3> DEFINE x == [cmd[p] EXCEPT !.at = "update", !.hold = u]
    <3>1. x \in Commands /\ x.at # "create"
      BY <1>c DEF Commands
    <3>2. cmd' = [cmd EXCEPT ![p] = x]
      BY <1>c, <2>1 DEF CliType, CliTypeOK
    <3> QED BY <3>1, <3>2, CommandChanges
  <2> QED BY <1>5, <1>e, <1>n, <2>1 DEF SetGet, Named
<1>6. CASE SetUpdate(p)
  <2>1. ASSUME cmd' = [cmd EXCEPT ![p].at = "wait", ![p].tries = 0]
        PROVE  CliType'
    <3> DEFINE x == [cmd[p] EXCEPT !.at = "wait", !.tries = 0]
    <3>0. 0 \in 0 .. Attempts - 1
      BY AttemptsPositive
    <3>1. x \in Commands /\ x.at # "create"
      BY <1>c, <3>0 DEF Commands
    <3>2. cmd' = [cmd EXCEPT ![p] = x]
      BY <1>c, <2>1 DEF CliType, CliTypeOK
    <3> QED BY <3>1, <3>2, CommandChanges
  <2>2. ASSUME cmd[p].tries + 1 < Attempts, cmd' = [cmd EXCEPT ![p].at = "get", ![p].tries = @ + 1]
        PROVE  CliType'
    <3> DEFINE x == [cmd[p] EXCEPT !.at = "get", !.tries = @ + 1]
    <3>1. cmd[p].tries \in 0 .. Attempts - 1
      BY <1>c DEF Commands
    <3>2. cmd[p].tries + 1 \in 0 .. Attempts - 1
      BY <2>2, <3>1, AttemptsPositive
    <3>3. x \in Commands /\ x.at # "create"
      BY <1>c, <3>2 DEF Commands
    <3>4. cmd' = [cmd EXCEPT ![p] = x]
      BY <1>c, <2>2 DEF CliType, CliTypeOK
    <3> QED BY <3>3, <3>4, CommandChanges
  <2> QED BY <1>6, <1>e, <2>1, <2>2 DEF SetUpdate
<1>7. CASE WaitForPhase(p)
  <2>1. ASSUME cmd' = [cmd EXCEPT ![p].at = "get", ![p].goal = "Running"]
        PROVE  CliType'
    <3> DEFINE x == [cmd[p] EXCEPT !.at = "get", !.goal = "Running"]
    <3>1. x \in Commands /\ x.at # "create"
      BY <1>c DEF Commands, DesiredStates
    <3>2. cmd' = [cmd EXCEPT ![p] = x]
      BY <1>c, <2>1 DEF CliType, CliTypeOK
    <3> QED BY <3>1, <3>2, CommandChanges
  <2> QED BY <1>7, <1>e, <2>1 DEF WaitForPhase
<1>8. CASE RmDelete(p)
  <2>1. ASSUME NEW u \in UIDs, cmd' = [cmd EXCEPT ![p].at = "waitGone", ![p].hold = u]
        PROVE  CliType'
    <3> DEFINE x == [cmd[p] EXCEPT !.at = "waitGone", !.hold = u]
    <3>1. x \in Commands /\ x.at # "create"
      BY <1>c DEF Commands
    <3>2. cmd' = [cmd EXCEPT ![p] = x]
      BY <1>c, <2>1 DEF CliType, CliTypeOK
    <3> QED BY <3>1, <3>2, CommandChanges
  <2> QED BY <1>8, <1>e, <1>n, <2>1 DEF RmDelete, Named
<1>9. CASE WaitForDeletion(p)
  BY <1>9, <1>e DEF WaitForDeletion
<1> QED BY <1>1, <1>2, <1>3, <1>4, <1>5, <1>6, <1>7, <1>8, <1>9 DEF Command

LEMMA InvokeType ==
  ASSUME CliType, NEW p \in Procs, NEW o \in Ops, NEW a \in Args, Invoke(p, o, a)
  PROVE  CliType'
<1> DEFINE start == IF o \in RunOps THEN "create" ELSE "resolve"
           d == IF o \in {"stop", "restart"} THEN "Stopped" ELSE "Running"
           x == [Idle(start) EXCEPT !.op = o, !.arg = a, !.goal = d]
<1>1. d \in DesiredStates /\ start \in Callsites
  BY DEF DesiredStates, Callsites
<1>2. start = "create" => a.name \in Names
  BY DEF Invoke
<1>3. cmd' = [cmd EXCEPT ![p] = x]
  BY DEF Invoke
<1> HIDE DEF start, d
<1>4. Idle(start) \in Commands /\ Idle(start).at = start
  BY <1>1, AttemptsPositive DEF Idle, Commands, DesiredStates
<1>5. x \in Commands /\ x.at = start /\ x.arg = a
  BY <1>1, <1>4 DEF Commands
<1> QED BY <1>2, <1>3, <1>5, CommandChanges

LEMMA InitCliType == CliInit => CliType
  BY IdleType DEF CliInit, CliType, CliTypeOK, CreatesNamed, Ended

LEMMA NextCliType == TypeInv /\ CliType /\ [CliNext]_allVars => CliType'
<1> SUFFICES ASSUME TypeInv, CliType, [CliNext]_allVars PROVE CliType'
  OBVIOUS
<1>1. CASE UNCHANGED cmd
  BY <1>1 DEF CliType, CliTypeOK, CreatesNamed
<1>2. ASSUME NEW p \in Procs, GivesUp(p) PROVE CliType'
  BY <1>2, EndsType DEF GivesUp, Ended
<1> QED BY <1>1, <1>2, CommandType, InvokeType DEF CliNext, Rest, allVars

----------------------------------------------------------------------------
(* Commands are clients.                                                   *)

\* A command remembers the resourceVersion of what it has just read.
Reads(p) == /\ \E us \in SUBSET Stored : Read(p, us)
            /\ UNCHANGED <<cr, pod>> /\ UNCHANGED ctlVars

\* A write that stores what is there already is no write.
LEMMA SameDesired ==
  ASSUME TypeInv, NoneReleased, NEW u \in UIDs, Exists(u), NEW d,
         cr[u].desired = d, Store(u, [cr[u] EXCEPT !.desired = d])
  PROVE  UNCHANGED <<cr, fresh>>
<1>1. cr[u] \in ContainerObjects /\ cr \in [UIDs -> ContainerObjects \cup {Unborn, Gone}]
  BY DEF TypeInv, ObjInv, ObjectsTypeOK
<1>2. [cr[u] EXCEPT !.desired = d] = cr[u]
  BY <1>1 DEF ContainerObjects
<1>3. Settled([cr[u] EXCEPT !.desired = d]) = cr[u]
  BY <1>1, <1>2 DEF NoneReleased, Settled
<1> QED BY <1>1, <1>3 DEF Store

LEMMA CommandIsClient ==
  ASSUME TypeInv, NoneReleased, CliType, NEW p \in Procs, Command(p)
  PROVE  Client \/ Reads(p) \/ UNCHANGED vars
<1> USE DEF vars, ctlVars
<1>1. CASE RunCommand(p)
  <2>1. CASE \E u \in UIDs, g \in Configs : CreateContainer(u, cmd[p].arg.name, g)
    BY <1>1, <2>1 DEF RunCommand, At, CliType, CreatesNamed, Client
  <2>2. CASE UNCHANGED objVars
    BY <1>1, <2>2 DEF RunCommand, objVars
  <2> QED BY <1>1, <2>1, <2>2 DEF RunCommand
<1>2. CASE \/ WaitForTerminal(p) \/ ResolveGet(p) \/ ResolveList(p) \/ WaitForPhase(p)
           \/ WaitForDeletion(p)
  BY <1>2 DEF WaitForTerminal, ResolveGet, ResolveList, WaitForPhase, WaitForDeletion
<1>3. CASE SetGet(p)
  BY <1>3 DEF SetGet, Named, Reads
<1>4. CASE SetUpdate(p)
  <2> DEFINE u == cmd[p].hold
             d == cmd[p].goal
  <2>1. CASE u \in fresh[p] /\ Store(u, [cr[u] EXCEPT !.desired = d])
    <3>1. u \in UIDs /\ Exists(u) /\ d \in DesiredStates
      BY <2>1, ProcsRead DEF TypeInv, ObjInv, ObjectsTypeOK, FreshStored, CliType, CliTypeOK, Commands
    <3>2. CASE cr[u].desired = d
      BY <1>4, <2>1, <3>1, <3>2, SameDesired DEF SetUpdate
    <3>3. CASE cr[u].desired # d
      BY <1>4, <2>1, <3>1, <3>3 DEF SetUpdate, SetDesiredState, Client
    <3> QED BY <3>2, <3>3
  <2>2. CASE UNCHANGED <<cr, fresh>>
    BY <1>4, <2>2 DEF SetUpdate
  <2> QED BY <1>4, <2>1, <2>2 DEF SetUpdate
<1>5. CASE RmDelete(p)
  <2>1. CASE \E u \in Named(cmd[p].name) : DeleteContainer(u)
    BY <1>5, <2>1 DEF RmDelete, Named, Stored, Client
  <2>2. CASE UNCHANGED objVars
    BY <1>5, <2>2 DEF RmDelete, objVars
  <2> QED BY <1>5, <2>1, <2>2 DEF RmDelete
<1> QED BY <1>1, <1>2, <1>3, <1>4, <1>5 DEF Command

\* Every step of the composed system, seen from Reconciler.
LEMMA CliStep ==
  ASSUME TypeInv, NoneReleased, CliType, [CliNext]_allVars
  PROVE  [Next]_vars \/ \E p \in Procs : Reads(p)
<1>1. CASE Rest
  BY <1>1 DEF Rest, Next
<1>2. CASE UNCHANGED allVars
  BY <1>2 DEF allVars
<1>3. ASSUME NEW p \in Procs, Command(p)
      PROVE  [Next]_vars \/ Reads(p)
  BY <1>3, CommandIsClient DEF Next
<1>4. ASSUME NEW p \in Procs, GivesUp(p) \/ \E o \in Ops, a \in Args : Invoke(p, o, a)
      PROVE  UNCHANGED vars
  BY <1>4 DEF GivesUp, Invoke
<1> QED BY <1>1, <1>2, <1>3, <1>4 DEF CliNext

LEMMA ReadsObj ==
  ASSUME TypeInv, NEW p \in Procs, Reads(p)
  PROVE  /\ TypeInv'
         /\ \A c \in Controllers : fresh'[c] = fresh[c]
<1>1. ObjInv' /\ \A c \in Controllers : fresh'[c] = fresh[c]
  BY ProcsRead, ControllersRead DEF Reads, Read, Stored, TypeInv, ObjInv, ObjectsTypeOK, FreshStored
<1> QED BY <1>1, PodUnchanged, CtlUnchanged DEF Reads, TypeInv

LEMMA ReadsCopy ==
  ASSUME TypeInv, CopyInv, NEW p \in Procs, Reads(p)
  PROVE  CopyInv'
<1>1. OnlyStales /\ OnlyDrops
  BY ReadsObj DEF Reads, OnlyStales, OnlyDrops, ctlVars
<1>2. NoneReleased' /\ WorkFits'
  BY DEF Reads, CopyInv, NoneReleased, WorkFits, Fits, ctlVars
<1> QED BY <1>1, <1>2, CopiesStayCurrent DEF CopyInv

LEMMA ReadsPod ==
  ASSUME PodInv, NEW p \in Procs, Reads(p)
  PROVE  PodInv'
  BY DEF Reads, PodInv, NoOrphanPod, ClaimedStay, SeenStays, Relies, ctlVars

SharedInv == TypeInv /\ CopyInv /\ CliType

\* Reconciler's invariants hold of the composed system.
THEOREM SharedCorrect == CliSpec => []SharedInv
<1>1. CliInit => SharedInv
  BY InitType, InitCopy, InitCliType DEF CliInit, SharedInv
<1>2. SharedInv /\ [CliNext]_allVars => SharedInv'
  <2> SUFFICES ASSUME SharedInv, [CliNext]_allVars PROVE SharedInv'
    OBVIOUS
  <2>1. [Next]_vars \/ \E p \in Procs : Reads(p)
    BY CliStep DEF SharedInv, CopyInv
  <2>2. TypeInv' /\ CopyInv'
    BY <2>1, NextType, NextCopy, ReadsObj, ReadsCopy DEF SharedInv
  <2>3. CliType'
    BY NextCliType DEF SharedInv
  <2> QED BY <2>2, <2>3 DEF SharedInv
<1> QED BY <1>1, <1>2, PTL DEF CliSpec

\* Every command stays within its types: a process never holds more than one
\* object, and setDesiredState never makes more than its attempts.
THEOREM CliTypeCorrect == CliSpec => []CliTypeOK
<1>1. SharedInv => CliTypeOK
  BY DEF SharedInv, CliType
<1> QED BY <1>1, SharedCorrect, PTL

\* With one controller, so do the invariants about the Pods.
THEOREM SharedPods == ASSUME OneController PROVE CliSpec => []PodInv
<1>1. CliInit => PodInv
  BY InitPod DEF CliInit
<1>2. SharedInv /\ PodInv /\ [CliNext]_allVars => PodInv'
  <2> SUFFICES ASSUME SharedInv, PodInv, [CliNext]_allVars PROVE PodInv'
    OBVIOUS
  <2>1. [Next]_vars \/ \E p \in Procs : Reads(p)
    BY CliStep DEF SharedInv, CopyInv
  <2> QED BY <2>1, NextPod, ReadsPod DEF SharedInv
<1> QED BY <1>1, <1>2, SharedCorrect, PTL DEF CliSpec

----------------------------------------------------------------------------
(* rm.  What it deleted cannot come back under its name: an object marked  *)
(* for deletion keeps its name and its mark until it is gone, and a UID is *)
(* never used again.  When the name finds nothing, the object is gone, and *)
(* with it, by NoOrphanPod, its Pod.                                       *)

Doomed(u, n) == \/ cr[u] = Gone
                \/ Exists(u) /\ cr[u].deleting /\ cr[u].name = n

\* A controller writes under the name the object has, and only what is there.
LEMMA StepKeepsName ==
  ASSUME TypeInv, NEW c \in Controllers, NEW u \in UIDs, Step(c, u)
  PROVE  \/ UNCHANGED cr
         \/ Exists(u) /\ \E obj : obj.name = cr[u].name /\ Store(u, obj)
<1>1. u \in fresh[c] => Exists(u) /\ cr[u] \in ContainerObjects
  BY ControllersRead, StoredIsObject DEF TypeInv, ObjInv, FreshStored
<1>2. CASE AddFinalizer(c, u) \/ FinalUpdate(c, u)
  <2>1. PICK v : ConditionalStore(c, u, Merged(u, v))
    BY <1>2 DEF AddFinalizer, FinalUpdate
  <2>2. u \in fresh[c] => Merged(u, v).name = cr[u].name
    BY <1>1 DEF Merged, ContainerObjects
  <2> QED BY <1>1, <2>1, <2>2 DEF ConditionalStore
<1>3. CASE StopPhase(c, u) \/ StoppedStatus(c, u) \/ UpdatePhase(c, u) \/ RunStatus(c, u)
  <2>1. PICK phase : ConditionalStore(c, u, [cr[u] EXCEPT !.phase = phase])
    BY <1>3 DEF StopPhase, StoppedStatus, UpdatePhase, RunStatus, WriteStatus
  <2>2. u \in fresh[c] => [cr[u] EXCEPT !.phase = phase].name = cr[u].name
    BY <1>1 DEF ContainerObjects
  <2> QED BY <1>1, <2>1, <2>2 DEF ConditionalStore
<1> QED BY <1>2, <1>3 DEF Step, StopGet, StopDelete, RunGet, RunCreate, UpdateDelete, FinalGet,
      FinalDelete, clusterVars

\* A client's write of an object that exists keeps its name and its mark.
LEMMA ClientKeepsMark ==
  ASSUME TypeInv, Client
  PROVE  \E u \in UIDs : \E obj \in ContainerObjects :
           /\ Store(u, obj) /\ cr[u] # Gone
           /\ Exists(u) => obj.name = cr[u].name /\ (cr[u].deleting => obj.deleting)
<1>1. PICK u \in UIDs :
        \/ \E n \in Names, g \in Configs : CreateContainer(u, n, g)
        \/ \E d \in DesiredStates : SetDesiredState(u, d)
        \/ \E g \in Configs : SetSpec(u, g)
        \/ DeleteContainer(u)
  BY DEF Client
<1>2. Exists(u) => cr[u] \in ContainerObjects
  BY StoredIsObject DEF TypeInv, ObjInv
<1>3. CASE \E n \in Names, g \in Configs : CreateContainer(u, n, g)
  <2>1. PICK n \in Names, g \in Configs : CreateContainer(u, n, g)
    BY <1>3
  <2>2. NewContainer(n, g) \in ContainerObjects
    BY DEF NewContainer, ContainerObjects, DesiredStates, Phases
  <2> QED BY <2>1, <2>2, DistinctNulls DEF CreateContainer
<1>4. ASSUME NEW d \in DesiredStates, SetDesiredState(u, d)
      PROVE  \E obj \in ContainerObjects :
               /\ Store(u, obj) /\ cr[u] # Gone
               /\ obj.name = cr[u].name /\ (cr[u].deleting => obj.deleting)
  BY <1>2, <1>4 DEF SetDesiredState, ContainerObjects
<1>5. ASSUME NEW g \in Configs, SetSpec(u, g)
      PROVE  \E obj \in ContainerObjects :
               /\ Store(u, obj) /\ cr[u] # Gone
               /\ obj.name = cr[u].name /\ (cr[u].deleting => obj.deleting)
  <2> DEFINE obj == [cr[u] EXCEPT !.config = g, !.desired = "Running"]
  <2>1. Exists(u) /\ Store(u, obj)
    BY <1>5 DEF SetSpec
  <2>2. obj \in ContainerObjects /\ obj.name = cr[u].name /\ obj.deleting = cr[u].deleting
    BY <1>2, <2>1 DEF ContainerObjects, DesiredStates
  <2> QED BY <2>1, <2>2
<1>6. CASE DeleteContainer(u)
  <2> DEFINE obj == [cr[u] EXCEPT !.deleting = TRUE]
  <2>1. Exists(u) /\ Store(u, obj)
    BY <1>6 DEF DeleteContainer
  <2>2. obj \in ContainerObjects /\ obj.name = cr[u].name /\ obj.deleting
    BY <1>2, <2>1 DEF ContainerObjects
  <2> QED BY <2>1, <2>2
<1> QED BY <1>1, <1>3, <1>4, <1>5, <1>6

LEMMA DoomedStays ==
  ASSUME SharedInv, [CliNext]_allVars, NEW u \in UIDs, NEW n, Doomed(u, n)
  PROVE  Doomed(u, n)'
<1> USE DEF SharedInv, Doomed
<1>t. cr \in [UIDs -> ContainerObjects \cup {Unborn, Gone}]
  BY DEF TypeInv, ObjInv, ObjectsTypeOK
<1>1. CASE UNCHANGED cr
  BY <1>1
<1>2. CASE Client
  <2>1. PICK w \in UIDs : \E obj \in ContainerObjects :
           /\ Store(w, obj) /\ cr[w] # Gone
           /\ Exists(w) => obj.name = cr[w].name /\ (cr[w].deleting => obj.deleting)
    BY <1>2, ClientKeepsMark
  <2>2. PICK obj \in ContainerObjects :
           /\ Store(w, obj) /\ cr[w] # Gone
           /\ Exists(w) => obj.name = cr[w].name /\ (cr[w].deleting => obj.deleting)
    BY <2>1
  <2>3. CASE w = u
    <3>1. cr'[u] = Settled(obj) /\ obj.deleting /\ obj.name = n
      BY <1>t, <2>2, <2>3 DEF Store
    <3> QED BY <3>1, DistinctNulls DEF Settled
  <2>4. CASE w # u
    BY <1>t, <2>2, <2>4 DEF Store
  <2> QED BY <2>3, <2>4
<1>3. ASSUME NEW c \in Controllers, NEW w \in UIDs, Step(c, w)
      PROVE  Doomed(u, n)'
  <2>1. CASE Exists(w) /\ \E obj : obj.name = cr[w].name /\ Store(w, obj)
    <3>1. PICK obj : obj.name = cr[w].name /\ Store(w, obj)
      BY <2>1
    <3>2. CASE cr[u] = Gone \/ w # u
      BY <1>t, <2>1, <3>1, <3>2 DEF Store
    <3>3. CASE w = u /\ Exists(u) /\ cr[u].deleting /\ cr[u].name = n
      <4>1. cr'[u] = Settled(obj)
        BY <1>t, <3>1, <3>3 DEF Store
      <4>2. \/ Exists(u)' /\ View(cr'[u]) \in {View(cr[u]), [View(cr[u]) EXCEPT !.fin = TRUE]}
            \/ cr'[u] = Gone
        BY <1>3, <3>3, StepKeepsView
      <4>3. Exists(u)' => cr'[u].deleting
        BY <3>3, <4>2, DistinctNulls DEF View
      <4> QED BY <3>1, <3>3, <4>1, <4>2, <4>3 DEF Settled
    <3> QED BY <3>2, <3>3
  <2> QED BY <1>1, <1>3, <2>1, StepKeepsName
<1>4. CASE \E c \in Controllers : List(c) \/ PassEnds(c) \/ Fault(c)
  BY <1>1, <1>4 DEF List, PassEnds, Fault, Crash, CallFails, clusterVars
<1>5. CASE Node \/ Eviction \/ UNCHANGED vars
  BY <1>1, <1>5 DEF Node, Eviction, Kubelet, PodStarts, PodExits, PodStopped, OwnerGone,
    PodRemovedByOthers, vars
<1>6. CASE \E p \in Procs : Reads(p)
  BY <1>1, <1>6 DEF Reads
<1> QED BY <1>2, <1>3, <1>4, <1>5, <1>6, CliStep DEF CopyInv, Next, Controller

\* What a waiting rm has deleted.
RmDeleted == \A p \in Procs :
               cmd[p].at = "waitGone" => cmd[p].hold \in UIDs /\ Doomed(cmd[p].hold, cmd[p].name)

LEMMA NextRmDeleted ==
  ASSUME SharedInv, RmDeleted, [CliNext]_allVars
  PROVE  RmDeleted'
<1> SUFFICES ASSUME NEW p \in Procs, cmd'[p].at = "waitGone"
             PROVE  cmd'[p].hold \in UIDs /\ Doomed(cmd[p].hold, cmd[p].name)'
  BY DEF RmDeleted
<1>t. cmd \in [Procs -> Commands]
  BY DEF SharedInv, CliType, CliTypeOK
<1>1. CASE cmd'[p] = cmd[p]
  <2>1. PICK u, n : u = cmd[p].hold /\ n = cmd[p].name
    OBVIOUS
  <2>2. u \in UIDs /\ Doomed(u, n)'
    BY <1>1, <2>1, DoomedStays DEF RmDeleted
  <2> QED BY <1>1, <2>1, <2>2 DEF Doomed
\* Only the Delete itself starts the wait.
<1>2. CASE cmd'[p] # cmd[p]
  <2>1. PICK q \in Procs : \/ Command(q) \/ GivesUp(q)
                           \/ \E o \in Ops, a \in Args : Invoke(q, o, a)
    BY <1>2 DEF CliNext, Rest, allVars
  <2>2. q = p
    BY <1>t, <1>2, <2>1 DEF Command, GivesUp, Invoke, RunCommand, WaitForTerminal, ResolveGet,
      ResolveList, Resolved, SetGet, SetUpdate, WaitForPhase, RmDelete, WaitForDeletion, Ends, Goes
  <2>3. RmDelete(p)
    <3>e. \A result \in Ended : ~Ends(p, result)
      BY <1>t DEF Ends, Idle, Ended
    <3>c. "at" \in DOMAIN cmd[p]
      BY <1>t DEF Commands
    <3>f. ~(WaitForTerminal(p) \/ WaitForDeletion(p) \/ GivesUp(p))
      BY <3>e DEF WaitForTerminal, WaitForDeletion, GivesUp, Ended
    <3>h. ~RunCommand(p)
      BY <1>t, <3>c, <3>e DEF RunCommand, Ended
    <3>i. ~(ResolveGet(p) \/ ResolveList(p))
      BY <1>t, <3>c, <3>e DEF ResolveGet, ResolveList, Resolved, Goes, Ended
    <3>j. ~SetGet(p)
      BY <1>t, <3>c, <3>e DEF SetGet, Ended
    <3>k. ~SetUpdate(p)
      BY <1>t, <3>c, <3>e DEF SetUpdate, Ended
    <3>l. ~WaitForPhase(p)
      BY <1>t, <3>c, <3>e DEF WaitForPhase, Ended
    <3>g. ASSUME NEW o \in Ops, NEW a \in Args, Invoke(p, o, a)
          PROVE  FALSE
      BY <1>t, <3>g DEF Invoke, Idle
    <3> QED BY <2>1, <2>2, <3>f, <3>g, <3>h, <3>i, <3>j, <3>k, <3>l DEF Command
  <2>4. PICK u \in Named(cmd[p].name) :
          /\ IF cr[u].deleting THEN UNCHANGED objVars ELSE DeleteContainer(u)
          /\ cmd' = [cmd EXCEPT ![p].at = "waitGone", ![p].hold = u]
    BY <1>t, <2>3 DEF RmDelete, Ends, Idle
  <2>5. u \in UIDs /\ Exists(u) /\ cr[u].name = cmd[p].name /\ cr[u] \in ContainerObjects
    BY <2>4, StoredIsObject DEF Named, Stored, SharedInv, TypeInv, ObjInv
  <2>6. cmd'[p].hold = u /\ cmd'[p].name = cmd[p].name
    BY <1>t, <2>4, <2>5 DEF Commands
  <2>7. CASE cr[u].deleting
    BY <2>4, <2>5, <2>6, <2>7 DEF Doomed, objVars
  <2>8. CASE ~cr[u].deleting
    <3> DEFINE obj == [cr[u] EXCEPT !.deleting = TRUE]
    <3>1. obj \in ContainerObjects /\ obj.deleting /\ obj.name = cmd[p].name
      BY <2>5 DEF ContainerObjects
    <3>2. cr'[u] = Settled(obj)
      BY <2>4, <2>5, <2>8 DEF DeleteContainer, Store, SharedInv, TypeInv, ObjInv, ObjectsTypeOK
    <3> HIDE DEF obj
    <3> QED BY <2>5, <2>6, <3>1, <3>2, DistinctNulls DEF Doomed, Settled
  <2> QED BY <2>7, <2>8
<1> QED BY <1>1, <1>2

\* With one controller, when rm answers that the container is removed, the
\* object it deleted is gone and so is its Pod, although the command looks at
\* nothing but the name.
THEOREM RmComplete == ASSUME OneController PROVE CliSpec => RmLeavesNothing
<1>1. CliInit => RmDeleted
  BY DEF CliInit, Idle, RmDeleted
<1>2. SharedInv /\ RmDeleted /\ [CliNext]_allVars => RmDeleted'
  BY NextRmDeleted
<1>3. SharedInv /\ PodInv /\ RmDeleted /\ [CliNext]_allVars =>
        [\A p \in Procs :
           At(p, "waitGone") /\ cmd'[p].at = "ok"
             => cr[cmd[p].hold] = Gone /\ ~HasPod(cmd[p].hold)]_allVars
  <2> SUFFICES ASSUME SharedInv, PodInv, RmDeleted, [CliNext]_allVars,
                      NEW p \in Procs, At(p, "waitGone"), cmd'[p].at = "ok"
               PROVE  cr[cmd[p].hold] = Gone /\ ~HasPod(cmd[p].hold)
    OBVIOUS
  <2>t. cmd \in [Procs -> Commands]
    BY DEF SharedInv, CliType, CliTypeOK
  <2>1. Missing(p)
    <3>1. PICK q \in Procs : \/ Command(q) \/ GivesUp(q)
                             \/ \E o \in Ops, a \in Args : Invoke(q, o, a)
      BY DEF CliNext, Rest, allVars, At
    <3>2. q = p
      BY <2>t, <3>1 DEF At, Command, GivesUp, Invoke, RunCommand, WaitForTerminal, ResolveGet,
        ResolveList, Resolved, SetGet, SetUpdate, WaitForPhase, RmDelete, WaitForDeletion, Ends, Goes
    <3>3. ~GivesUp(p) /\ ~\E o \in Ops, a \in Args : Invoke(p, o, a)
      BY <2>t DEF At, GivesUp, Ends, Idle, Invoke, Ended
    <3>4. WaitForDeletion(p)
      BY <3>1, <3>2, <3>3 DEF At, Command, RunCommand, WaitForTerminal, ResolveGet, ResolveList,
        SetGet, SetUpdate, WaitForPhase, RmDelete
    <3> QED BY <3>4 DEF WaitForDeletion
  <2>2. cmd[p].hold \in UIDs /\ Doomed(cmd[p].hold, cmd[p].name)
    BY DEF RmDeleted, At
  <2>3. cr[cmd[p].hold] = Gone
    BY <2>1, <2>2 DEF Doomed, Missing, Named, Stored
  <2> QED BY <2>2, <2>3 DEF PodInv, NoOrphanPod
<1> QED BY <1>1, <1>2, <1>3, SharedCorrect, SharedPods, PTL DEF CliSpec, RmLeavesNothing

----------------------------------------------------------------------------
(* The composed system implements Reconciler with the controllers as its   *)
(* only readers: a command's steps are client steps there, or hidden.      *)

CtlFresh == [c \in Controllers |-> fresh[c]]

LEMMA InitControlled == Init => Controlled!Init
  BY ControllersRead DEF Init, ClusterInit, ObjectsInit, NothingListed, NoPhase, Controlled!Init,
    Controlled!ClusterInit, Controlled!ObjectsInit, Controlled!NothingListed, Controlled!NoPhase

LEMMA StoreControlled ==
  ASSUME TypeInv, NEW u \in UIDs, NEW obj, Store(u, obj)
  PROVE  Controlled!Store(u, obj)
<1>1. CtlFresh' = IF Settled(obj) = cr[u] THEN CtlFresh
                  ELSE [c \in Controllers |-> CtlFresh[c] \ {u}]
  BY ControllersRead DEF Store, CtlFresh, TypeInv, ObjInv, ObjectsTypeOK
<1> QED BY <1>1 DEF Controlled!Store, Controlled!Settled, Settled, Store, CtlFresh

LEMMA ConditionalStoreControlled ==
  ASSUME TypeInv, NEW c \in Controllers, NEW u \in UIDs, NEW obj, ConditionalStore(c, u, obj)
  PROVE  Controlled!ConditionalStore(c, u, obj)
<1>1. CASE u \in fresh[c]
  BY <1>1, StoreControlled DEF ConditionalStore, Controlled!ConditionalStore
<1>2. CASE u \notin fresh[c]
  BY <1>2 DEF ConditionalStore, Controlled!ConditionalStore
<1> QED BY <1>1, <1>2

LEMMA ReturnControlled ==
  ASSUME NEW c, NEW u, NEW ok, Return(c, u, ok)
  PROVE  Controlled!Return(c, u, ok)
  BY DEF Return, Controlled!Return, NoPhase, Controlled!NoPhase

LEMMA GoToControlled ==
  ASSUME NEW c, NEW u, NEW call, NEW phase, GoTo(c, u, call, phase)
  PROVE  Controlled!GoTo(c, u, call, phase)
  BY DEF GoTo, Controlled!GoTo

LEMMA WriteStatusControlled ==
  ASSUME TypeInv, NEW c \in Controllers, NEW u \in UIDs, NEW phase, WriteStatus(c, u, phase)
  PROVE  Controlled!WriteStatus(c, u, phase)
<1>1. PICK obj : obj = [cr[u] EXCEPT !.phase = phase] /\ ConditionalStore(c, u, obj)
  BY DEF WriteStatus
<1>2. PICK ok : ok = (u \in fresh[c]) /\ Return(c, u, ok)
  BY DEF WriteStatus
<1>3. Controlled!ConditionalStore(c, u, obj) /\ Controlled!Return(c, u, ok)
  BY <1>1, <1>2, ConditionalStoreControlled, ReturnControlled
<1> QED BY <1>1, <1>2, <1>3 DEF Controlled!WriteStatus

LEMMA StepControlled ==
  ASSUME TypeInv, NEW c \in Controllers, NEW u \in UIDs, Step(c, u)
  PROVE  Controlled!Step(c, u)
<1> USE DEF HasPod, Controlled!HasPod, Listed, Controlled!Listed, Picks, Controlled!Picks,
            About, Controlled!About, NoPhase, Controlled!NoPhase, clusterVars, Controlled!clusterVars
<1>1. CASE AddFinalizer(c, u)
  <2>1. PICK obj : /\ obj = Merged(u, [snap[c][u] EXCEPT !.fin = TRUE])
                   /\ ConditionalStore(c, u, obj)
    BY <1>1 DEF AddFinalizer
  <2>2. PICK ok : ok = (u \in fresh[c]) /\ Return(c, u, ok)
    BY <1>1 DEF AddFinalizer
  <2>3. Controlled!ConditionalStore(c, u, obj) /\ Controlled!Return(c, u, ok)
    BY <2>1, <2>2, ConditionalStoreControlled, ReturnControlled
  <2>4. Controlled!AddFinalizer(c, u)
    BY <1>1, <2>1, <2>2, <2>3 DEF AddFinalizer, Controlled!AddFinalizer, ToClaim,
      Controlled!ToClaim, Merged, Controlled!Merged
  <2> QED BY <2>4 DEF Controlled!Step
<1>2. CASE StopGet(c, u)
  <2>1. Controlled!StopGet(c, u)
    BY <1>2 DEF StopGet, Controlled!StopGet, ToStop, Controlled!ToStop, GoTo, Controlled!GoTo
  <2> QED BY <2>1 DEF Controlled!Step
<1>3. CASE StopDelete(c, u)
  <2>1. Controlled!StopDelete(c, u)
    BY <1>3, GoToControlled, ReturnControlled DEF StopDelete, Controlled!StopDelete,
      GracefulDelete, Controlled!GracefulDelete, Terminal, Controlled!Terminal
  <2> QED BY <2>1 DEF Controlled!Step
<1>4. CASE StopPhase(c, u)
  BY <1>4, WriteStatusControlled DEF StopPhase, Controlled!StopPhase, Controlled!Step
<1>5. CASE StoppedStatus(c, u)
  BY <1>5, WriteStatusControlled DEF StoppedStatus, Controlled!StoppedStatus, Controlled!Step
<1>6. CASE RunGet(c, u)
  <2>1. Controlled!RunGet(c, u)
    BY <1>6, GoToControlled DEF RunGet, Controlled!RunGet, ToRun, Controlled!ToRun
  <2> QED BY <2>1 DEF Controlled!Step
<1>7. CASE RunCreate(c, u)
  <2>1. Controlled!RunCreate(c, u)
    BY <1>7, GoToControlled, ReturnControlled DEF RunCreate, Controlled!RunCreate, PodFor,
      Controlled!PodFor
  <2> QED BY <2>1 DEF Controlled!Step
<1>8. CASE UpdateDelete(c, u)
  <2>1. Controlled!UpdateDelete(c, u)
    BY <1>8, GoToControlled, ReturnControlled DEF UpdateDelete, Controlled!UpdateDelete,
      GracefulDelete, Controlled!GracefulDelete, Terminal, Controlled!Terminal
  <2> QED BY <2>1 DEF Controlled!Step
<1>9. CASE UpdatePhase(c, u)
  BY <1>9, WriteStatusControlled DEF UpdatePhase, Controlled!UpdatePhase, Controlled!Step
<1>10. CASE RunStatus(c, u)
  <2>1. Controlled!WriteStatus(c, u, seen[c])
    <3>1. PICK phase : phase = seen[c] /\ WriteStatus(c, u, phase)
      BY <1>10 DEF RunStatus
    <3> QED BY <3>1, WriteStatusControlled
  <2> QED BY <1>10, <2>1 DEF RunStatus, Controlled!RunStatus, Controlled!Step
<1>11. CASE FinalGet(c, u)
  <2>1. Controlled!FinalGet(c, u)
    BY <1>11, GoToControlled, ReturnControlled DEF FinalGet, Controlled!FinalGet, ToFinalize,
      Controlled!ToFinalize
  <2> QED BY <2>1 DEF Controlled!Step
<1>12. CASE FinalDelete(c, u)
  <2>1. PICK ok : ok = HasPod(u) /\ Return(c, u, ok)
    BY <1>12 DEF FinalDelete
  <2>2. Controlled!FinalDelete(c, u)
    BY <1>12, <2>1, ReturnControlled DEF FinalDelete, Controlled!FinalDelete, ForceDelete,
      Controlled!ForceDelete
  <2> QED BY <2>2 DEF Controlled!Step
<1>13. CASE FinalUpdate(c, u)
  <2>1. PICK obj : /\ obj = Merged(u, [snap[c][u] EXCEPT !.fin = FALSE])
                   /\ ConditionalStore(c, u, obj)
    BY <1>13 DEF FinalUpdate
  <2>2. PICK ok : ok = (u \in fresh[c]) /\ Return(c, u, ok)
    BY <1>13 DEF FinalUpdate
  <2>3. Controlled!ConditionalStore(c, u, obj) /\ Controlled!Return(c, u, ok)
    BY <2>1, <2>2, ConditionalStoreControlled, ReturnControlled
  <2>4. Controlled!FinalUpdate(c, u)
    BY <1>13, <2>1, <2>2, <2>3 DEF FinalUpdate, Controlled!FinalUpdate, Merged, Controlled!Merged
  <2> QED BY <2>4 DEF Controlled!Step
<1> QED BY <1>1, <1>2, <1>3, <1>4, <1>5, <1>6, <1>7, <1>8, <1>9, <1>10, <1>11,
           <1>12, <1>13 DEF Step

\* The begin and end of a pass, and the faults.
LEMMA PassControlled ==
  ASSUME TypeInv, NEW c \in Controllers, List(c) \/ PassEnds(c) \/ Fault(c)
  PROVE  Controlled!Controller(c) \/ Controlled!Fault(c)
<1> USE DEF TypeInv, ObjInv, ObjectsTypeOK
<1>1. CASE List(c)
  <2>1. CtlFresh' = [CtlFresh EXCEPT ![c] = Stored]
    BY <1>1, ControllersRead DEF List, Read, CtlFresh
  <2>2. Controlled!List(c)
    BY <1>1, <2>1 DEF List, Controlled!List, Controlled!Read, Controlled!Stored,
      Stored, Controlled!Exists, View, Controlled!View, CtlFresh
  <2> QED BY <2>2 DEF Controlled!Controller
<1>2. CASE PassEnds(c)
  <2>1. CtlFresh' = [CtlFresh EXCEPT ![c] = {}]
    BY <1>2, ControllersRead DEF PassEnds, CtlFresh
  <2>2. Controlled!PassEnds(c)
    BY <1>2, <2>1 DEF PassEnds, Controlled!PassEnds, NothingListed, Controlled!NothingListed, CtlFresh
  <2> QED BY <2>2 DEF Controlled!Controller
<1>3. CASE Crash(c)
  <2>1. CtlFresh' = [CtlFresh EXCEPT ![c] = {}]
    BY <1>3, ControllersRead DEF Crash, CtlFresh
  <2>2. Controlled!Crash(c)
    BY <1>3, <2>1 DEF Crash, Controlled!Crash, NothingListed, Controlled!NothingListed, Calls,
      Controlled!Calls, NoPhase, Controlled!NoPhase, CtlFresh
  <2> QED BY <2>2 DEF Controlled!Fault
<1>4. ASSUME NEW u \in UIDs, CallFails(c, u)
      PROVE  Controlled!Fault(c)
  <2>1. Controlled!CallFails(c, u)
    BY <1>4, ReturnControlled DEF CallFails, Controlled!CallFails, Picks, Controlled!Picks,
      Listed, Controlled!Listed, Calls, Controlled!Calls, clusterVars, Controlled!clusterVars
  <2> QED BY <2>1 DEF Controlled!Fault
<1> QED BY <1>1, <1>2, <1>3, <1>4 DEF Fault

LEMMA ClientControlled ==
  ASSUME TypeInv, Client
  PROVE  Controlled!Client
<1> USE DEF Exists, Controlled!Exists, Controlled!Named, Controlled!Stored, Named, Stored
<1>1. PICK u \in UIDs :
        \/ \E n \in Names, g \in Configs : CreateContainer(u, n, g)
        \/ \E d \in DesiredStates : SetDesiredState(u, d)
        \/ \E g \in Configs : SetSpec(u, g)
        \/ DeleteContainer(u)
  BY DEF Client
<1>2. CASE \E n \in Names, g \in Configs : CreateContainer(u, n, g)
  BY <1>2, StoreControlled DEF CreateContainer, Controlled!CreateContainer, NewContainer,
    Controlled!NewContainer, NoPhase, Controlled!NoPhase, Client, Controlled!Client,
    ctlVars, Controlled!ctlVars
<1>3. ASSUME NEW d \in DesiredStates, SetDesiredState(u, d)
      PROVE  Controlled!Client
  <2>1. PICK obj : obj = [cr[u] EXCEPT !.desired = d] /\ Store(u, obj)
    BY <1>3 DEF SetDesiredState
  <2>2. Controlled!Store(u, [cr[u] EXCEPT !.desired = d])
    BY <2>1, StoreControlled DEF Controlled!Store
  <2>3. Controlled!SetDesiredState(u, d)
    BY <1>3, <2>2 DEF SetDesiredState, Controlled!SetDesiredState
  <2>4. d \in Controlled!DesiredStates
    BY DEF DesiredStates, Controlled!DesiredStates
  <2> QED BY <2>3, <2>4 DEF Client, Controlled!Client, ctlVars, Controlled!ctlVars
<1>4. ASSUME NEW g \in Configs, SetSpec(u, g)
      PROVE  Controlled!Client
  <2>1. PICK obj : obj = [cr[u] EXCEPT !.config = g, !.desired = "Running"] /\ Store(u, obj)
    BY <1>4 DEF SetSpec
  <2>2. Controlled!Store(u, [cr[u] EXCEPT !.config = g, !.desired = "Running"])
    BY <2>1, StoreControlled DEF Controlled!Store
  <2>3. Controlled!SetSpec(u, g)
    BY <1>4, <2>2 DEF SetSpec, Controlled!SetSpec
  <2> QED BY <2>3 DEF Client, Controlled!Client, ctlVars, Controlled!ctlVars
<1>5. CASE DeleteContainer(u)
  <2>1. PICK obj : obj = [cr[u] EXCEPT !.deleting = TRUE] /\ Store(u, obj)
    BY <1>5 DEF DeleteContainer
  <2>2. Controlled!Store(u, [cr[u] EXCEPT !.deleting = TRUE])
    BY <2>1, StoreControlled DEF Controlled!Store
  <2>3. Controlled!DeleteContainer(u)
    BY <1>5, <2>2 DEF DeleteContainer, Controlled!DeleteContainer
  <2> QED BY <2>3 DEF Client, Controlled!Client, ctlVars, Controlled!ctlVars
<1> QED BY <1>1, <1>2, <1>3, <1>4, <1>5

LEMMA PodStepControlled ==
  ASSUME Node \/ Eviction
  PROVE  Controlled!Node \/ Controlled!Eviction
  BY DEF Node, Eviction, Kubelet, PodStarts, PodExits, PodStopped, OwnerGone, PodRemovedByOthers,
    GracefulDelete, Terminal, HasPod, ctlVars, Controlled!Node, Controlled!Eviction,
    Controlled!Kubelet, Controlled!PodStarts, Controlled!PodExits, Controlled!PodStopped,
    Controlled!OwnerGone, Controlled!PodRemovedByOthers, Controlled!GracefulDelete,
    Controlled!Terminal, Controlled!HasPod, Controlled!ctlVars

\* The container commands beside any number of controllers are clients as
\* Reconciler knows them: each of their calls is one of the writes Client
\* allows, or changes nothing the controllers can see.
THEOREM ReconcilerImplemented == CliSpec => ImplementsReconciler
<1>1. CliInit => Controlled!Init
  BY InitControlled DEF CliInit
<1>2. SharedInv /\ [CliNext]_allVars => [Controlled!Next]_(Controlled!vars)
  <2> SUFFICES ASSUME SharedInv, [CliNext]_allVars
               PROVE  Controlled!Next \/ UNCHANGED Controlled!vars
    OBVIOUS
  <2>1. [Next]_vars \/ \E p \in Procs : Reads(p)
    BY CliStep DEF SharedInv, CopyInv
  <2>2. CASE UNCHANGED vars
    BY <2>2 DEF vars, Controlled!vars
  <2>3. CASE \E p \in Procs : Reads(p)
    <3>1. UNCHANGED CtlFresh
      BY <2>3, ReadsObj DEF CtlFresh, SharedInv
    <3> QED BY <2>3, <3>1 DEF Reads, ctlVars, Controlled!vars, CtlFresh
  <2>4. CASE Client
    BY <2>4, ClientControlled DEF SharedInv, Controlled!Next
  <2>5. ASSUME NEW c \in Controllers, Controller(c) \/ Fault(c)
        PROVE  Controlled!Next
    <3>1. Controlled!Controller(c) \/ Controlled!Fault(c)
      BY <2>5, StepControlled, PassControlled DEF SharedInv, Controller, Controlled!Controller
    <3> QED BY <3>1 DEF Controlled!Next
  <2>6. CASE Node \/ Eviction
    BY <2>6, PodStepControlled DEF Controlled!Next
  <2> QED BY <2>1, <2>2, <2>3, <2>4, <2>5, <2>6 DEF Next
<1> QED BY <1>1, <1>2, SharedCorrect, PTL DEF CliSpec, ImplementsReconciler, Controlled!Spec
=============================================================================
