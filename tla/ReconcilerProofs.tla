-------------------------- MODULE ReconcilerProofs --------------------------
(***************************************************************************)
(* What Reconciler guarantees for every set of names, objects, specs,      *)
(* readers and controllers.                                                *)
(***************************************************************************)
EXTENDS Reconciler, TLAPS

USE DEF Exists, HasPod, Listed

----------------------------------------------------------------------------
(* Types.  They are not inductive: a conditional write edits the stored    *)
(* object, which must be there when the reader's resourceVersion is        *)
(* current, and a controller in the middle of an object must hold its copy *)
(* (and, when it is about to report a Pod, that Pod's phase).               *)

FreshStored == \A r \in Readers : \A u \in fresh[r] : Exists(u)

WorkListed == \A c \in Controllers :
                at[c] \in Calls => item[c] \in UIDs /\ Listed(c, item[c])

SeenPhase == \A c \in Controllers : at[c] = "runStatus" => seen[c] \in PodPhases

ObjInv  == ObjectsTypeOK /\ FreshStored
PodType == pod \in [UIDs -> Pods \cup {NoPod}]
CtlInv  == CtlTypeOK /\ WorkListed /\ SeenPhase
TypeInv == ObjInv /\ PodType /\ CtlInv

\* A stored object is a record, and a copy of it is a View.
LEMMA StoredIsObject ==
  ASSUME ObjectsTypeOK, NEW u \in UIDs, Exists(u)
  PROVE  cr[u] \in ContainerObjects /\ View(cr[u]) \in Views
  BY DEF ObjectsTypeOK, ContainerObjects, View, Views

\* A server write of an object keeps the types, and no reader keeps the
\* resourceVersion of a removed object.
LEMMA StoreInv ==
  ASSUME ObjInv, NEW u \in UIDs, NEW obj \in ContainerObjects, Store(u, obj)
  PROVE  ObjInv'
<1> USE DEF ObjInv, ObjectsTypeOK, Store, Settled
<1>1. ObjectsTypeOK'
  OBVIOUS
<1>2. FreshStored'
  BY DistinctNulls DEF FreshStored
<1> QED BY <1>1, <1>2

\* So does a conditional write, which otherwise does nothing.
LEMMA ConditionalStoreInv ==
  ASSUME ObjInv, NEW r \in Readers, NEW u \in UIDs, NEW obj,
         u \in fresh[r] => obj \in ContainerObjects,
         ConditionalStore(r, u, obj)
  PROVE  ObjInv'
<1>1. CASE u \in fresh[r]
  BY <1>1, StoreInv DEF ConditionalStore
<1>2. CASE u \notin fresh[r]
  BY <1>2 DEF ConditionalStore, ObjInv, ObjectsTypeOK, FreshStored
<1> QED BY <1>1, <1>2

\* A copy sent back in an Update is an object again.
LEMMA MergedType ==
  ASSUME ObjInv, NEW r \in Readers, NEW u \in UIDs, u \in fresh[r], NEW v \in Views
  PROVE  Merged(u, v) \in ContainerObjects
<1>1. cr[u] \in ContainerObjects
  BY StoredIsObject DEF ObjInv, FreshStored
<1> QED BY <1>1 DEF Merged, ContainerObjects, Views

\* Dropping a Pod, or marking it, keeps the types.
LEMMA GracefulDeleteType ==
  ASSUME NEW u \in UIDs, PodType, HasPod(u), GracefulDelete(u)
  PROVE  PodType'
<1>1. pod[u] \in Pods
  BY DEF PodType
<1>2. [pod[u] EXCEPT !.dying = TRUE] \in Pods
  BY <1>1 DEF Pods
<1> QED BY <1>2 DEF GracefulDelete, PodType

\* The controller's own variables, after GoTo and after Return.
LEMMA GoToInv ==
  ASSUME CtlInv, NEW c \in Controllers, NEW u \in UIDs, Listed(c, u),
         NEW call \in Calls, NEW phase \in {NoPhase} \cup PodPhases, GoTo(c, u, call, phase),
         call = "runStatus" => phase \in PodPhases
  PROVE  CtlInv'
<1> USE DEF CtlInv, GoTo
<1>1. CtlTypeOK'
  BY DEF CtlTypeOK
<1>2. WorkListed'
  BY DEF CtlTypeOK, WorkListed
<1>3. SeenPhase'
  BY DEF CtlTypeOK, SeenPhase
<1> QED BY <1>1, <1>2, <1>3

LEMMA ReturnInv ==
  ASSUME CtlInv, NEW c \in Controllers, NEW u \in UIDs, NEW ok, Return(c, u, ok)
  PROVE  CtlInv'
<1> USE DEF CtlInv, Return, Between, Calls
<1>1. CtlTypeOK'
  BY DEF CtlTypeOK
<1>2. WorkListed'
  BY DEF CtlTypeOK, WorkListed
<1>3. SeenPhase'
  BY DEF CtlTypeOK, SeenPhase
<1> QED BY <1>1, <1>2, <1>3

\* An UpdateStatus of a phase keeps everything in its types.
LEMMA WriteStatusInv ==
  ASSUME TypeInv, NEW c \in Controllers, NEW u \in UIDs, NEW phase \in Phases,
         WriteStatus(c, u, phase)
  PROVE  ObjInv' /\ CtlInv'
<1>1. c \in Readers
  BY ControllersRead
<1>2. u \in fresh[c] => [cr[u] EXCEPT !.phase = phase] \in ContainerObjects
  BY <1>1, StoredIsObject DEF TypeInv, ObjInv, FreshStored, ContainerObjects
<1>3. ObjInv'
  BY <1>1, <1>2, ConditionalStoreInv DEF WriteStatus, TypeInv
<1>4. CtlInv'
  BY ReturnInv DEF WriteStatus, TypeInv
<1> QED BY <1>3, <1>4

\* Nothing of the objects, the Pods or the controllers changes.
LEMMA ObjUnchanged == ASSUME ObjInv, UNCHANGED <<cr, fresh>> PROVE ObjInv'
  BY DEF ObjInv, ObjectsTypeOK, FreshStored

LEMMA PodUnchanged == ASSUME PodType, UNCHANGED pod PROVE PodType'
  BY DEF PodType

LEMMA CtlUnchanged == ASSUME CtlInv, UNCHANGED ctlVars PROVE CtlInv'
  BY DEF CtlInv, CtlTypeOK, WorkListed, SeenPhase, ctlVars

LEMMA InitType == Init => TypeInv
<1> SUFFICES ASSUME Init PROVE TypeInv
  OBVIOUS
<1> USE DEF Init, ClusterInit, ObjectsInit
<1>1. ObjInv
  BY DEF ObjInv, ObjectsTypeOK, FreshStored
<1>2. PodType
  BY DEF PodType
<1>3. CtlInv
  BY DEF CtlInv, CtlTypeOK, WorkListed, SeenPhase, NothingListed, Between, Calls
<1> QED BY <1>1, <1>2, <1>3 DEF TypeInv

----------------------------------------------------------------------------
(* The actions, one by one.                                                *)

LEMMA ListType ==
  ASSUME TypeInv, NEW c \in Controllers, List(c)
  PROVE  TypeInv'
<1> USE DEF TypeInv, List
<1>1. ObjInv'
  BY ControllersRead DEF ObjInv, ObjectsTypeOK, FreshStored, Read, Stored
<1>2. \A u \in UIDs : (IF Exists(u) THEN View(cr[u]) ELSE NoView) \in Views \cup {NoView}
  BY StoredIsObject DEF ObjInv
<1>3. CtlTypeOK'
  BY <1>2 DEF CtlInv, CtlTypeOK, Between
<1>4. WorkListed' /\ SeenPhase'
  BY DEF CtlInv, CtlTypeOK, WorkListed, SeenPhase, Calls
<1> QED BY <1>1, <1>3, <1>4, PodUnchanged DEF CtlInv

LEMMA PassEndsType ==
  ASSUME TypeInv, NEW c \in Controllers, PassEnds(c)
  PROVE  TypeInv'
<1> USE DEF TypeInv, PassEnds
<1>1. ObjInv'
  BY ControllersRead DEF ObjInv, ObjectsTypeOK, FreshStored
<1>2. CtlInv'
  BY DEF CtlInv, CtlTypeOK, WorkListed, SeenPhase, Between, Calls
<1> QED BY <1>1, <1>2, PodUnchanged

LEMMA CrashType ==
  ASSUME TypeInv, NEW c \in Controllers, Crash(c)
  PROVE  TypeInv'
<1> USE DEF TypeInv, Crash
<1>1. ObjInv'
  BY ControllersRead DEF ObjInv, ObjectsTypeOK, FreshStored
<1>2. CtlInv'
  BY DEF CtlInv, CtlTypeOK, WorkListed, SeenPhase, NothingListed, Between, Calls
<1> QED BY <1>1, <1>2, PodUnchanged

LEMMA CallFailsType ==
  ASSUME TypeInv, NEW c \in Controllers, NEW u \in UIDs, CallFails(c, u)
  PROVE  TypeInv'
<1> USE DEF TypeInv
<1>1. CtlInv'
  BY ReturnInv DEF CallFails
<1> QED BY <1>1, ObjUnchanged, PodUnchanged DEF CallFails, clusterVars

LEMMA StepType ==
  ASSUME TypeInv, NEW c \in Controllers, NEW u \in UIDs, Step(c, u)
  PROVE  TypeInv'
<1> USE DEF TypeInv, Calls
<1>c. c \in Readers
  BY ControllersRead
<1>v. Listed(c, u) => snap[c][u] \in Views
  BY DEF CtlInv, CtlTypeOK
<1>f. Listed(c, u) => \A b \in BOOLEAN : [snap[c][u] EXCEPT !.fin = b] \in Views
  BY <1>v DEF Views
<1>w. at[c] \in Calls /\ u = item[c] => Listed(c, u)
  BY DEF CtlInv, WorkListed
<1>1. CASE AddFinalizer(c, u)
  <2>1. u \in fresh[c] => Merged(u, [snap[c][u] EXCEPT !.fin = TRUE]) \in ContainerObjects
    BY <1>1, <1>c, <1>f, MergedType DEF AddFinalizer, ToClaim
  <2>2. ObjInv'
    BY <1>1, <1>c, <2>1, ConditionalStoreInv DEF AddFinalizer
  <2>3. CtlInv'
    BY <1>1, ReturnInv DEF AddFinalizer
  <2> QED BY <1>1, <2>2, <2>3, PodUnchanged DEF AddFinalizer
<1>2. CASE StopGet(c, u)
  <2>1. CtlInv'
    BY <1>2, GoToInv DEF StopGet, ToStop
  <2> QED BY <1>2, <2>1, ObjUnchanged, PodUnchanged DEF StopGet, clusterVars
<1>3. CASE StopDelete(c, u)
  <2>1. CtlInv'
    BY <1>3, <1>w, GoToInv, ReturnInv DEF StopDelete, About
  <2>2. PodType'
    BY <1>3, GracefulDeleteType, PodUnchanged DEF StopDelete
  <2> QED BY <1>3, <2>1, <2>2, ObjUnchanged DEF StopDelete
<1>4. CASE StopPhase(c, u)
  BY <1>4, WriteStatusInv, PodUnchanged DEF StopPhase, Phases, OwnPhases
<1>5. CASE StoppedStatus(c, u)
  BY <1>5, WriteStatusInv, PodUnchanged DEF StoppedStatus, Phases, OwnPhases
<1>6. CASE RunGet(c, u)
  <2>1. CASE ~HasPod(u) /\ GoTo(c, u, "runCreate", NoPhase)
    BY <1>6, <2>1, GoToInv, ObjUnchanged, PodUnchanged DEF RunGet, ToRun, clusterVars
  <2>2. CASE HasPod(u) /\ GoTo(c, u, "updateDelete", NoPhase)
    BY <1>6, <2>2, GoToInv, ObjUnchanged, PodUnchanged DEF RunGet, ToRun, clusterVars
  <2>3. CASE HasPod(u) /\ GoTo(c, u, "runStatus", pod[u].phase)
    <3>1. pod[u].phase \in PodPhases
      BY <2>3 DEF PodType, Pods
    <3> QED BY <1>6, <2>3, <3>1, GoToInv, ObjUnchanged, PodUnchanged DEF RunGet, ToRun, clusterVars
  <2> QED BY <1>6, <2>1, <2>2, <2>3 DEF RunGet
<1>7. CASE RunCreate(c, u)
  <2>1. CtlInv'
    BY <1>7, <1>w, GoToInv, ReturnInv DEF RunCreate, About, PodPhases
  <2>2. Listed(c, u) /\ PodFor(snap[c][u].config) \in Pods
    BY <1>7, <1>v, <1>w DEF RunCreate, About, PodFor, Pods, PodPhases, Views
  <2>3. PodType'
    BY <1>7, <2>2 DEF RunCreate, PodType
  <2> QED BY <1>7, <2>1, <2>3, ObjUnchanged DEF RunCreate
<1>8. CASE UpdateDelete(c, u)
  <2>1. CtlInv'
    BY <1>8, <1>w, GoToInv, ReturnInv DEF UpdateDelete, About
  <2>2. PodType'
    BY <1>8, GracefulDeleteType, PodUnchanged DEF UpdateDelete
  <2> QED BY <1>8, <2>1, <2>2, ObjUnchanged DEF UpdateDelete
<1>9. CASE UpdatePhase(c, u)
  BY <1>9, WriteStatusInv, PodUnchanged DEF UpdatePhase, Phases, OwnPhases
<1>10. CASE RunStatus(c, u)
  <2>1. seen[c] \in Phases
    BY DEF CtlInv, CtlTypeOK, Phases
  <2> QED BY <1>10, <2>1, WriteStatusInv, PodUnchanged DEF RunStatus
<1>11. CASE FinalGet(c, u)
  <2>1. CtlInv'
    BY <1>11, GoToInv, ReturnInv DEF FinalGet, ToFinalize
  <2> QED BY <1>11, <2>1, ObjUnchanged, PodUnchanged DEF FinalGet, clusterVars
<1>12. CASE FinalDelete(c, u)
  <2>1. CtlInv'
    BY <1>12, ReturnInv DEF FinalDelete
  <2>2. PodType'
    BY <1>12 DEF FinalDelete, ForceDelete, PodType
  <2> QED BY <1>12, <2>1, <2>2, ObjUnchanged DEF FinalDelete
<1>13. CASE FinalUpdate(c, u)
  <2>1. u \in fresh[c] => Merged(u, [snap[c][u] EXCEPT !.fin = FALSE]) \in ContainerObjects
    BY <1>13, <1>c, <1>f, <1>w, MergedType DEF FinalUpdate, About
  <2>2. ObjInv'
    BY <1>13, <1>c, <2>1, ConditionalStoreInv DEF FinalUpdate
  <2>3. CtlInv'
    BY <1>13, ReturnInv DEF FinalUpdate
  <2> QED BY <1>13, <2>2, <2>3, PodUnchanged DEF FinalUpdate
<1> QED BY <1>1, <1>2, <1>3, <1>4, <1>5, <1>6, <1>7, <1>8, <1>9, <1>10, <1>11,
           <1>12, <1>13 DEF Step

LEMMA ClientType ==
  ASSUME TypeInv, Client
  PROVE  TypeInv'
<1> USE DEF TypeInv
<1>1. PICK u \in UIDs :
        \/ \E n \in Names, g \in Configs : CreateContainer(u, n, g)
        \/ \E d \in DesiredStates : SetDesiredState(u, d)
        \/ \E g \in Configs : SetSpec(u, g)
        \/ DeleteContainer(u)
  BY DEF Client
<1>2. Exists(u) => cr[u] \in ContainerObjects
  BY StoredIsObject DEF ObjInv
<1>3. \E obj \in ContainerObjects : Store(u, obj)
  <2>1. CASE \E n \in Names, g \in Configs : CreateContainer(u, n, g)
    BY <2>1 DEF CreateContainer, NewContainer, ContainerObjects, DesiredStates, Phases
  <2>2. CASE \E d \in DesiredStates : SetDesiredState(u, d)
    BY <1>2, <2>2 DEF SetDesiredState, ContainerObjects
  <2>3. CASE \E g \in Configs : SetSpec(u, g)
    BY <1>2, <2>3 DEF SetSpec, ContainerObjects, DesiredStates
  <2>4. CASE DeleteContainer(u)
    BY <1>2, <2>4 DEF DeleteContainer, ContainerObjects
  <2> QED BY <1>1, <2>1, <2>2, <2>3, <2>4
<1> QED BY <1>3, StoreInv, PodUnchanged, CtlUnchanged DEF Client, ctlVars

\* The kubelet, the garbage collector and the others change Pods only.
LEMMA PodStepType ==
  ASSUME TypeInv, Node \/ Eviction
  PROVE  TypeInv'
<1> USE DEF TypeInv
<1>1. PICK u \in UIDs : Kubelet(u) \/ OwnerGone(u) \/ PodRemovedByOthers(u)
  BY DEF Node, Eviction
<1>2. UNCHANGED <<cr, fresh>> /\ UNCHANGED ctlVars
  BY DEF Node, Eviction, Kubelet, PodStarts, PodExits, PodStopped, OwnerGone, PodRemovedByOthers
<1>3. HasPod(u) /\ pod[u] \in Pods
  BY <1>1 DEF Kubelet, PodStarts, PodExits, PodStopped, OwnerGone, PodRemovedByOthers, PodType
<1>4. \A ph \in PodPhases : [pod[u] EXCEPT !.phase = ph] \in Pods
  BY <1>3 DEF Pods
<1>5. PodType'
  <2>1. CASE PodStarts(u)
    BY <2>1, <1>4 DEF PodStarts, PodType, PodPhases
  <2>2. CASE PodExits(u)
    BY <2>2, <1>4 DEF PodExits, PodType, PodPhases, Terminal
  <2>3. CASE PodStopped(u)
    BY <2>3 DEF PodStopped, PodType
  <2>4. CASE OwnerGone(u) \/ PodRemovedByOthers(u)
    BY <2>4, <1>3, GracefulDeleteType DEF OwnerGone, PodRemovedByOthers
  <2> QED BY <1>1, <2>1, <2>2, <2>3, <2>4 DEF Kubelet
<1> QED BY <1>2, <1>5, ObjUnchanged, CtlUnchanged

LEMMA NextType == TypeInv /\ [Next]_vars => TypeInv'
<1> SUFFICES ASSUME TypeInv, [Next]_vars PROVE TypeInv'
  OBVIOUS
<1>1. ASSUME NEW c \in Controllers, Controller(c) \/ Fault(c) PROVE TypeInv'
  BY <1>1, ListType, PassEndsType, StepType, CrashType, CallFailsType DEF Controller, Fault
<1>2. CASE UNCHANGED vars
  BY <1>2, ObjUnchanged, PodUnchanged, CtlUnchanged DEF TypeInv, vars, ctlVars
<1> QED BY <1>1, <1>2, ClientType, PodStepType DEF Next

THEOREM TypesStrengthened == Spec => []TypeInv
  BY InitType, NextType, PTL DEF Spec

\* Every variable keeps its type, for any number of controllers.
THEOREM TypeCorrect == Spec => []TypeOK
<1>1. TypeInv => TypeOK
  BY DEF TypeInv, ObjInv, PodType, CtlInv, TypeOK, ClusterTypeOK
<1> QED BY <1>1, TypesStrengthened, PTL

----------------------------------------------------------------------------
(* Copies.  For any number of controllers: a copy whose resourceVersion is *)
(* current equals the object, a controller works on a copy that calls for  *)
(* what it is doing, and the server keeps no released object.              *)

CopiesCurrent == \A c \in Controllers : \A u \in fresh[c] :
                   Listed(c, u) => View(cr[u]) = snap[c][u]

\* The copies call is made for.
Fits(call, v) ==
  /\ v.fin
  /\ v.deleting <=> call \in {"finalDelete", "finalUpdate"}
  /\ call \in {"stopDelete", "stopPhase", "stoppedStatus"} => v.desired # "Running"
  /\ call \in {"runCreate", "updateDelete", "updatePhase", "runStatus"} => v.desired = "Running"

WorkFits == \A c \in Controllers : at[c] \in Calls => Fits(at[c], snap[c][item[c]])

NoneReleased == \A u \in UIDs : Exists(u) => cr[u].fin \/ ~cr[u].deleting

CopyInv == CopiesCurrent /\ WorkFits /\ NoneReleased

\* How a step leaves the readers: whatever is still current has not changed.
OnlyStales == \A c \in Controllers : \A u \in fresh'[c] : u \in fresh[c] /\ cr'[u] = cr[u]

\* How a step leaves the copies: kept or dropped.
OnlyDrops == \A c \in Controllers, u \in UIDs : snap'[c][u] \in {snap[c][u], NoView}

\* A conditional write makes every reader's copy of a changed object stale.
LEMMA WriteStales ==
  ASSUME TypeInv, NEW r, NEW u \in UIDs, NEW obj,
         Store(u, obj) \/ ConditionalStore(r, u, obj)
  PROVE  OnlyStales
<1> USE ControllersRead DEF TypeInv, ObjInv, ObjectsTypeOK, OnlyStales
<1>1. CASE Store(u, obj)
  BY <1>1 DEF Store
<1>2. CASE ConditionalStore(r, u, obj)
  BY <1>1, <1>2 DEF ConditionalStore, Store
<1> QED BY <1>1, <1>2

\* What a write stores is settled.
LEMMA WriteSettles ==
  ASSUME TypeInv, NoneReleased, NEW r, NEW u \in UIDs, NEW obj,
         Store(u, obj) \/ ConditionalStore(r, u, obj)
  PROVE  NoneReleased'
<1> USE DEF TypeInv, ObjInv, ObjectsTypeOK, NoneReleased
<1>1. CASE Store(u, obj)
  BY <1>1 DEF Store, Settled
<1>2. CASE ConditionalStore(r, u, obj)
  BY <1>1, <1>2 DEF ConditionalStore, Store, Settled
<1> QED BY <1>1, <1>2

LEMMA CopiesStayCurrent ==
  ASSUME TypeInv, CopiesCurrent, OnlyStales, OnlyDrops
  PROVE  CopiesCurrent'
  BY ControllersRead DEF TypeInv, ObjInv, ObjectsTypeOK, CopiesCurrent, OnlyStales, OnlyDrops, View

\* A step of a controller's own code writes its object conditionally, or
\* writes no object.
LEMMA StepWrites ==
  ASSUME NEW c \in Controllers, NEW u \in UIDs, Step(c, u)
  PROVE  \/ UNCHANGED <<cr, fresh>>
         \/ \E obj : ConditionalStore(c, u, obj)
  BY DEF Step, AddFinalizer, StopGet, StopDelete, StopPhase, StoppedStatus, RunGet, RunCreate,
    UpdateDelete, UpdatePhase, RunStatus, FinalGet, FinalDelete, FinalUpdate, WriteStatus,
    clusterVars

\* It ends with a Return, or with a GoTo to a call the copy fits.
LEMMA StepMoves ==
  ASSUME TypeInv, WorkFits, NEW c \in Controllers, NEW u \in UIDs, Step(c, u)
  PROVE  \/ \E ok : Return(c, u, ok)
         \/ \E call \in Calls : \E phase : GoTo(c, u, call, phase) /\ Fits(call, snap[c][u])
<1> USE DEF Calls, Fits
<1>1. CASE AddFinalizer(c, u) \/ StopPhase(c, u) \/ StoppedStatus(c, u) \/ UpdatePhase(c, u)
           \/ RunStatus(c, u) \/ FinalDelete(c, u) \/ FinalUpdate(c, u)
  BY <1>1 DEF AddFinalizer, StopPhase, StoppedStatus, UpdatePhase, RunStatus, FinalDelete,
    FinalUpdate, WriteStatus
<1>2. CASE StopGet(c, u)
  BY <1>2 DEF StopGet, ToStop
<1>3. CASE RunGet(c, u)
  BY <1>3 DEF RunGet, ToRun
<1>4. CASE FinalGet(c, u)
  BY <1>4 DEF FinalGet, ToFinalize
<1>5. CASE StopDelete(c, u)
  BY <1>5 DEF StopDelete, About, WorkFits
<1>6. CASE RunCreate(c, u)
  BY <1>6 DEF RunCreate, About, WorkFits
<1>7. CASE UpdateDelete(c, u)
  BY <1>7 DEF UpdateDelete, About, WorkFits
<1> QED BY <1>1, <1>2, <1>3, <1>4, <1>5, <1>6, <1>7 DEF Step

LEMMA InitCopy == Init => CopyInv
  BY ControllersRead DEF Init, ClusterInit, ObjectsInit, CopyInv, CopiesCurrent, WorkFits,
    NoneReleased, Calls, NothingListed

LEMMA StepCopy ==
  ASSUME TypeInv, CopyInv, NEW c \in Controllers, NEW u \in UIDs, Step(c, u)
  PROVE  CopyInv'
<1> USE DEF CopyInv
<1>1. OnlyStales /\ NoneReleased'
  <2>1. CASE UNCHANGED <<cr, fresh>>
    BY <2>1 DEF OnlyStales, NoneReleased
  <2>2. CASE \E obj : ConditionalStore(c, u, obj)
    BY <2>2, WriteStales, WriteSettles
  <2> QED BY <2>1, <2>2, StepWrites
<1>2. OnlyDrops /\ WorkFits'
  <2>1. CASE \E ok : Return(c, u, ok)
    BY <2>1 DEF Return, OnlyDrops, WorkFits, TypeInv, CtlInv, CtlTypeOK, WorkListed, Calls
  <2>2. CASE \E call \in Calls : \E phase : GoTo(c, u, call, phase) /\ Fits(call, snap[c][u])
    BY <2>2 DEF GoTo, OnlyDrops, WorkFits, TypeInv, CtlInv, CtlTypeOK, Fits
  <2> QED BY <2>1, <2>2, StepMoves
<1> QED BY <1>1, <1>2, CopiesStayCurrent

\* What changes no object and no controller changes no copy.
LEMMA CopyUnchanged ==
  ASSUME CopyInv, UNCHANGED <<cr, fresh>>, UNCHANGED ctlVars
  PROVE  CopyInv'
  BY DEF CopyInv, CopiesCurrent, WorkFits, NoneReleased, View, Fits, ctlVars

LEMMA NextCopy == TypeInv /\ CopyInv /\ [Next]_vars => CopyInv'
<1> SUFFICES ASSUME TypeInv, CopyInv, [Next]_vars PROVE CopyInv'
  OBVIOUS
<1> USE DEF CopyInv
<1>1. ASSUME NEW c \in Controllers, List(c) PROVE CopyInv'
  <2> USE <1>1 DEF List
  <2>1. CopiesCurrent'
    BY ControllersRead DEF CopiesCurrent, Read, Stored, View, TypeInv, ObjInv, ObjectsTypeOK,
      CtlInv, CtlTypeOK
  <2>2. WorkFits'
    BY DEF WorkFits, Fits, Calls, TypeInv, CtlInv, CtlTypeOK
  <2>3. NoneReleased'
    BY DEF NoneReleased
  <2> QED BY <2>1, <2>2, <2>3
<1>2. ASSUME NEW c \in Controllers, PassEnds(c) \/ Crash(c) PROVE CopyInv'
  <2> USE <1>2 DEF PassEnds, Crash
  <2>1. OnlyStales /\ OnlyDrops
    BY ControllersRead DEF OnlyStales, OnlyDrops, NothingListed, TypeInv, ObjInv, ObjectsTypeOK,
      CtlInv, CtlTypeOK
  <2>2. WorkFits'
    BY DEF WorkFits, Fits, Calls, TypeInv, CtlInv, CtlTypeOK, WorkListed
  <2>3. NoneReleased'
    BY DEF NoneReleased
  <2> QED BY <2>1, <2>2, <2>3, CopiesStayCurrent
<1>3. ASSUME NEW c \in Controllers, NEW u \in UIDs, CallFails(c, u) PROVE CopyInv'
  <2> USE <1>3 DEF CallFails, clusterVars, Return
  <2>1. OnlyStales /\ NoneReleased'
    BY DEF OnlyStales, NoneReleased
  <2>2. OnlyDrops /\ WorkFits'
    BY DEF OnlyDrops, WorkFits, TypeInv, CtlInv, CtlTypeOK, WorkListed, Calls
  <2> QED BY <2>1, <2>2, CopiesStayCurrent
<1>4. CASE Client
  <2>1. PICK u \in UIDs : \E obj : Store(u, obj)
    BY <1>4 DEF Client, CreateContainer, SetDesiredState, SetSpec, DeleteContainer
  <2>2. UNCHANGED ctlVars
    BY <1>4 DEF Client
  <2>3. OnlyStales /\ NoneReleased'
    BY <2>1, WriteStales, WriteSettles
  <2>4. OnlyDrops /\ WorkFits'
    BY <2>2 DEF OnlyDrops, WorkFits, Fits, ctlVars
  <2> QED BY <2>3, <2>4, CopiesStayCurrent
<1>5. CASE Node \/ Eviction
  BY <1>5, CopyUnchanged DEF Node, Eviction, Kubelet, PodStarts, PodExits, PodStopped, OwnerGone,
    PodRemovedByOthers
<1>6. CASE UNCHANGED vars
  BY <1>6, CopyUnchanged DEF vars, ctlVars
<1> QED BY <1>1, <1>2, <1>3, <1>4, <1>5, <1>6, StepCopy DEF Next, Controller, Fault

THEOREM CopiesCorrect == Spec => []CopyInv
  BY InitCopy, NextCopy, TypesStrengthened, PTL, InitType, NextType DEF Spec

----------------------------------------------------------------------------
(* Client writes, for any number of controllers.                           *)

\* A copy of an object is sent back with its finalizer set or taken.
LEMMA MergedView ==
  ASSUME NEW u, cr[u] \in ContainerObjects, NEW b \in BOOLEAN
  PROVE  Merged(u, [View(cr[u]) EXCEPT !.fin = b]) = [cr[u] EXCEPT !.fin = b]
<1> DEFINE v == [View(cr[u]) EXCEPT !.fin = b]
           l == Merged(u, v)
           r == [cr[u] EXCEPT !.fin = b]
<1>1. /\ v.config = cr[u].config /\ v.desired = cr[u].desired
      /\ v.fin = b /\ v.deleting = cr[u].deleting
      /\ v \in Views
  BY DEF View, Views, ContainerObjects
<1> HIDE DEF v
<1>2. l \in ContainerObjects /\ r \in ContainerObjects
  BY <1>1 DEF Merged, ContainerObjects, Views
<1>3. /\ l.name = r.name /\ l.config = r.config /\ l.desired = r.desired
      /\ l.fin = r.fin /\ l.deleting = r.deleting /\ l.phase = r.phase
  BY <1>1 DEF Merged, ContainerObjects
<1> HIDE DEF l, r
<1>4. l = r
  BY <1>2, <1>3 DEF ContainerObjects
<1> QED BY <1>4 DEF l, r, v

LEMMA ViewOfFin ==
  ASSUME NEW o \in ContainerObjects
  PROVE  View([o EXCEPT !.fin = TRUE]) = [View(o) EXCEPT !.fin = TRUE]
<1> DEFINE l == View([o EXCEPT !.fin = TRUE])
           r == [View(o) EXCEPT !.fin = TRUE]
<1>1. l \in Views /\ r \in Views
  BY DEF View, Views, ContainerObjects
<1>2. /\ l.config = r.config /\ l.desired = r.desired
      /\ l.fin = r.fin /\ l.deleting = r.deleting
  BY DEF View, ContainerObjects
<1> HIDE DEF l, r
<1>3. l = r
  BY <1>1, <1>2 DEF Views
<1> QED BY <1>3 DEF l, r

\* One write of an object by the controller's own code.
LEMMA StepKeepsView ==
  ASSUME TypeInv, CopyInv, NEW c \in Controllers, NEW u \in UIDs, Step(c, u),
         NEW w \in UIDs, Exists(w)
  PROVE  \/ Exists(w)' /\ View(cr'[w]) \in {View(cr[w]), [View(cr[w]) EXCEPT !.fin = TRUE]}
         \/ FinalUpdate(c, u) /\ w = u /\ cr'[w] = Gone /\ cr[w].deleting
<1> USE DEF TypeInv, ObjInv, CopyInv
<1>t. cr \in [UIDs -> ContainerObjects \cup {Unborn, Gone}] /\ cr[w] \in ContainerObjects
  BY DEF ObjectsTypeOK
<1>a. cr[w].fin \/ ~cr[w].deleting
  BY DEF NoneReleased
<1>s. \A phase \in Phases : WriteStatus(c, u, phase) =>
        Exists(w)' /\ View(cr'[w]) = View(cr[w])
  <2> SUFFICES ASSUME NEW phase \in Phases, WriteStatus(c, u, phase)
               PROVE  Exists(w)' /\ View(cr'[w]) = View(cr[w])
    OBVIOUS
  <2>1. [cr[w] EXCEPT !.phase = phase] \in ContainerObjects
    BY <1>t DEF ContainerObjects
  <2>2. CASE w = u /\ u \in fresh[c]
    <3>1. Settled([cr[w] EXCEPT !.phase = phase]) = [cr[w] EXCEPT !.phase = phase]
      BY <1>t, <1>a DEF Settled, ContainerObjects
    <3>2. cr'[w] = [cr[w] EXCEPT !.phase = phase]
      BY <1>t, <2>2, <3>1 DEF WriteStatus, ConditionalStore, Store
    <3>3. View([cr[w] EXCEPT !.phase = phase]) = View(cr[w])
      BY <1>t DEF View, ContainerObjects
    <3> QED BY <2>1, <3>2, <3>3, DistinctNulls
  <2>3. CASE ~(w = u /\ u \in fresh[c])
    BY <1>t, <2>3 DEF WriteStatus, ConditionalStore, Store
  <2> QED BY <2>2, <2>3
<1>m. \A b \in BOOLEAN :
        /\ Listed(c, u) /\ u = w /\ u \in fresh[c]
        => /\ Merged(u, [snap[c][u] EXCEPT !.fin = b]) = [cr[w] EXCEPT !.fin = b]
           /\ snap[c][u].deleting = cr[w].deleting
  <2>1. Listed(c, u) /\ u = w /\ u \in fresh[c] => snap[c][u] = View(cr[w])
    BY DEF CopiesCurrent
  <2> QED BY <1>t, <2>1, MergedView DEF View
<1>1. CASE UNCHANGED cr
  BY <1>1 DEF View
<1>2. CASE StopPhase(c, u) \/ StoppedStatus(c, u) \/ UpdatePhase(c, u) \/ RunStatus(c, u)
  <2>1. {"Stopping", "Stopped", "Updating", seen[c]} \subseteq Phases
    BY DEF CtlInv, CtlTypeOK, Phases, OwnPhases
  <2> QED BY <1>2, <1>s, <2>1 DEF StopPhase, StoppedStatus, UpdatePhase, RunStatus
<1>3. CASE AddFinalizer(c, u)
  <2>1. CASE w = u /\ u \in fresh[c]
    <3>1. cr'[w] = Settled([cr[w] EXCEPT !.fin = TRUE])
      BY <1>3, <1>t, <1>m, <2>1 DEF AddFinalizer, ToClaim, ConditionalStore, Store
    <3>2. cr'[w] = [cr[w] EXCEPT !.fin = TRUE] /\ cr'[w] \in ContainerObjects
      BY <1>t, <3>1 DEF Settled, ContainerObjects
    <3>3. View([cr[w] EXCEPT !.fin = TRUE]) = [View(cr[w]) EXCEPT !.fin = TRUE]
      BY <1>t, ViewOfFin
    <3> QED BY <3>2, <3>3, DistinctNulls
  <2>2. CASE ~(w = u /\ u \in fresh[c])
    BY <1>3, <1>t, <2>2 DEF AddFinalizer, ConditionalStore, Store, View
  <2> QED BY <2>1, <2>2
<1>4. CASE FinalUpdate(c, u)
  <2>1. CASE w = u /\ u \in fresh[c]
    <3>1. Listed(c, u) /\ snap[c][u].deleting
      BY <1>4 DEF FinalUpdate, About, WorkFits, Fits, CtlInv, WorkListed, Calls
    <3>2. cr'[w] = Settled([cr[w] EXCEPT !.fin = FALSE]) /\ cr[w].deleting
      BY <1>4, <1>t, <1>m, <2>1, <3>1 DEF FinalUpdate, ConditionalStore, Store
    <3>3. cr'[w] = Gone
      BY <1>t, <3>2 DEF Settled, ContainerObjects
    <3> QED BY <1>4, <2>1, <3>2, <3>3
  <2>2. CASE ~(w = u /\ u \in fresh[c])
    BY <1>4, <1>t, <2>2 DEF FinalUpdate, ConditionalStore, Store, View
  <2> QED BY <2>1, <2>2
<1>5. CASE \/ StopGet(c, u) \/ StopDelete(c, u) \/ RunGet(c, u) \/ RunCreate(c, u)
           \/ UpdateDelete(c, u) \/ FinalGet(c, u) \/ FinalDelete(c, u)
  BY <1>1, <1>5 DEF StopGet, StopDelete, RunGet, RunCreate, UpdateDelete, FinalGet, FinalDelete,
    clusterVars
<1> QED BY <1>2, <1>3, <1>4, <1>5 DEF Step

\* No controller step, of however many controllers, undoes what a client
\* wrote between the controller's List and its write.
THEOREM ClientWritesPreserved == Spec => ClientWritesSurvive
<1>1. TypeInv /\ CopyInv /\ [Next]_vars =>
        [(\E c \in Controllers : Controller(c)) =>
           \A u \in UIDs : Exists(u) =>
             \/ Exists(u)' /\ View(cr'[u]) \in {View(cr[u]), [View(cr[u]) EXCEPT !.fin = TRUE]}
             \/ cr'[u] = Gone /\ cr[u].deleting]_vars
  <2> SUFFICES ASSUME TypeInv, CopyInv, NEW c \in Controllers, Controller(c),
                      NEW w \in UIDs, Exists(w)
               PROVE  \/ Exists(w)' /\ View(cr'[w]) \in {View(cr[w]), [View(cr[w]) EXCEPT !.fin = TRUE]}
                      \/ cr'[w] = Gone /\ cr[w].deleting
    OBVIOUS
  <2>1. CASE List(c) \/ PassEnds(c)
    BY <2>1 DEF List, PassEnds, View
  <2>2. CASE \E u \in UIDs : Step(c, u)
    BY <2>2, StepKeepsView
  <2> QED BY <2>1, <2>2 DEF Controller
<1> QED BY <1>1, TypesStrengthened, CopiesCorrect, PTL DEF Spec, ClientWritesSurvive

----------------------------------------------------------------------------
(* Pods, with one controller.  Beside NoOrphanPod: a claimed object that   *)
(* was listed is still there, since only its controller releases it; and   *)
(* what the controller saw of the Pod is still so when it acts on it,      *)
(* since only the controller makes Pods and nobody edits them.             *)

ClaimedStay == \A c \in Controllers, u \in UIDs :
                 Listed(c, u) /\ snap[c][u].fin => Exists(u) /\ cr[u].fin

\* What a call relies on the Pod p of its object to be.
Relies(call, v, p) ==
  /\ call \in {"stoppedStatus", "finalUpdate"} => p = NoPod
  /\ call = "runStatus" /\ p # NoPod => p.hash = v.config
  /\ call = "updateDelete" /\ p # NoPod => p.hash # v.config

SeenStays == \A c \in Controllers :
               at[c] \in Calls => Relies(at[c], snap[c][item[c]], pod[item[c]])

PodInv == NoOrphanPod /\ ClaimedStay /\ SeenStays

\* How a step leaves the Pods: kept, as far as they matter here, or dropped.
OnlyPodDrops == \A u \in UIDs : pod'[u] # NoPod => pod[u] # NoPod /\ pod'[u].hash = pod[u].hash

\* How a step leaves the objects: claimed ones stay.
KeepsClaims == \A u \in UIDs : Exists(u) /\ cr[u].fin => Exists(u)' /\ cr'[u].fin

LEMMA InitPod == Init => PodInv
  BY DEF Init, ClusterInit, ObjectsInit, PodInv, NoOrphanPod, ClaimedStay, SeenStays, Calls,
    NothingListed

\* Steps that claim, create and release nothing.
LEMMA QuietStep ==
  ASSUME TypeInv, PodInv, OnlyPodDrops, KeepsClaims, OnlyDrops,
         \A c \in Controllers :
           at'[c] \in Calls => /\ at'[c] = at[c] /\ item'[c] = item[c]
                               /\ snap'[c][item[c]] = snap[c][item[c]]
  PROVE  PodInv'
<1> USE DEF PodInv
<1>1. NoOrphanPod'
  BY DEF NoOrphanPod, OnlyPodDrops, KeepsClaims
<1>2. ClaimedStay'
  BY DEF ClaimedStay, OnlyDrops, KeepsClaims
<1>3. SeenStays'
  BY DEF SeenStays, Relies, OnlyPodDrops, TypeInv, CtlInv, WorkListed
<1> QED BY <1>1, <1>2, <1>3

\* A graceful deletion of a Pod only drops or marks it.
LEMMA GracefulDrops ==
  ASSUME PodType, NEW u \in UIDs, HasPod(u), GracefulDelete(u)
  PROVE  OnlyPodDrops
<1>1. pod[u] \in Pods
  BY DEF PodType
<1>2. [pod[u] EXCEPT !.dying = TRUE].hash = pod[u].hash
  BY <1>1 DEF Pods
<1> QED BY <1>2 DEF GracefulDelete, OnlyPodDrops, PodType

LEMMA StepKeepsClaims ==
  ASSUME TypeInv, CopyInv, NEW c \in Controllers, NEW u \in UIDs, Step(c, u)
  PROVE  \A w \in UIDs : (w # u \/ ~FinalUpdate(c, u)) =>
           (Exists(w) /\ cr[w].fin => Exists(w)' /\ cr'[w].fin)
<1> SUFFICES ASSUME NEW w \in UIDs, w # u \/ ~FinalUpdate(c, u), Exists(w), cr[w].fin
             PROVE  Exists(w)' /\ cr'[w].fin
  OBVIOUS
<1>1. Exists(w)' /\ View(cr'[w]) \in {View(cr[w]), [View(cr[w]) EXCEPT !.fin = TRUE]}
  BY StepKeepsView
<1>2. View(cr'[w]).fin = TRUE
  <2>1. cr[w].fin = TRUE
    BY StoredIsObject DEF TypeInv, ObjInv, ContainerObjects
  <2> QED BY <1>1, <2>1 DEF View
<1> QED BY <1>1, <1>2 DEF View

LEMMA StepPod ==
  ASSUME OneController, TypeInv, CopyInv, PodInv, NEW c \in Controllers, NEW u \in UIDs, Step(c, u)
  PROVE  PodInv'
<1> USE DEF TypeInv, PodInv
<1>c. \A d \in Controllers : d = c
  BY DEF OneController
<1>l. at[c] \in Calls => Listed(c, item[c]) /\ snap[c][item[c]].fin
  BY DEF CtlInv, WorkListed, CopyInv, WorkFits, Fits
<1>k. \A w \in UIDs : (w # u \/ ~FinalUpdate(c, u)) =>
        (Exists(w) /\ cr[w].fin => Exists(w)' /\ cr'[w].fin)
  BY StepKeepsClaims
<1>r. ASSUME NEW ok, Return(c, u, ok)
      PROVE  OnlyDrops /\ at'[c] \notin Calls /\ snap'[c][u] = NoView
  BY <1>r DEF Return, OnlyDrops, CtlInv, CtlTypeOK, Calls
<1>g. ASSUME NEW call, NEW phase, GoTo(c, u, call, phase)
      PROVE  UNCHANGED snap /\ at'[c] = call /\ item'[c] = u
  BY <1>g DEF GoTo, CtlInv, CtlTypeOK
<1>1. CASE /\ OnlyPodDrops /\ KeepsClaims
           /\ \E ok : Return(c, u, ok)
  BY <1>1, <1>c, <1>r, QuietStep
\* A step that goes on to a call which the Pod, after the step, allows.
<1>2. CASE /\ OnlyPodDrops /\ KeepsClaims
           /\ \E call \in Calls : \E phase :
                GoTo(c, u, call, phase) /\ Relies(call, snap[c][u], pod'[u])
  <2>1. NoOrphanPod'
    BY <1>2 DEF NoOrphanPod, OnlyPodDrops, KeepsClaims
  <2>2. ClaimedStay'
    BY <1>2, <1>g DEF ClaimedStay, KeepsClaims
  <2>3. SeenStays'
    BY <1>2, <1>c, <1>g DEF SeenStays, Relies
  <2> QED BY <2>1, <2>2, <2>3
<1>n. UNCHANGED pod => OnlyPodDrops
  BY DEF OnlyPodDrops
<1>w. ~FinalUpdate(c, u) => KeepsClaims
  BY <1>k DEF KeepsClaims
<1>3. CASE AddFinalizer(c, u) \/ StopPhase(c, u) \/ StoppedStatus(c, u) \/ UpdatePhase(c, u)
           \/ RunStatus(c, u)
  <2>1. ~FinalUpdate(c, u)
    BY <1>3 DEF AddFinalizer, Picks, StopPhase, StoppedStatus, UpdatePhase, RunStatus, FinalUpdate, About
  <2>2. UNCHANGED pod /\ \E ok : Return(c, u, ok)
    BY <1>3 DEF AddFinalizer, StopPhase, StoppedStatus, UpdatePhase, RunStatus, WriteStatus
  <2> QED BY <1>1, <1>n, <1>w, <2>1, <2>2
<1>4. CASE StopGet(c, u)
  <2>1. ~FinalUpdate(c, u)
    BY <1>4 DEF StopGet, Picks, FinalUpdate, About
  <2> QED BY <1>2, <1>4, <1>n, <1>w, <2>1 DEF StopGet, clusterVars, Calls, Relies
<1>5. CASE RunGet(c, u)
  <2>1. ~FinalUpdate(c, u)
    BY <1>5 DEF RunGet, Picks, FinalUpdate, About
  <2> QED BY <1>2, <1>5, <1>n, <1>w, <2>1 DEF RunGet, clusterVars, Calls, Relies
<1>6. CASE FinalGet(c, u)
  <2>1. ~FinalUpdate(c, u)
    BY <1>6 DEF FinalGet, Picks, FinalUpdate, About
  <2> QED BY <1>1, <1>2, <1>6, <1>n, <1>w, <2>1 DEF FinalGet, clusterVars, Calls, Relies
<1>7. CASE StopDelete(c, u) \/ UpdateDelete(c, u)
  <2>1. ~FinalUpdate(c, u)
    BY <1>7 DEF StopDelete, UpdateDelete, FinalUpdate, About
  <2>2. OnlyPodDrops
    BY <1>7, <1>n, GracefulDrops DEF StopDelete, UpdateDelete
  <2> QED BY <1>1, <1>2, <1>7, <1>w, <2>1, <2>2 DEF StopDelete, UpdateDelete, Calls, Relies
<1>8. CASE FinalDelete(c, u)
  <2>1. ~FinalUpdate(c, u)
    BY <1>8 DEF FinalDelete, FinalUpdate, About
  <2>2. OnlyPodDrops
    BY <1>8 DEF FinalDelete, ForceDelete, OnlyPodDrops, PodType
  <2> QED BY <1>1, <1>8, <1>w, <2>1, <2>2 DEF FinalDelete
<1>9. CASE RunCreate(c, u)
  <2>1. ~FinalUpdate(c, u) /\ UNCHANGED cr
    BY <1>9 DEF RunCreate, FinalUpdate, About
  <2>2. CASE HasPod(u)
    BY <1>1, <1>9, <1>n, <1>w, <2>1, <2>2 DEF RunCreate
  <2>3. CASE ~HasPod(u)
    <3>1. Exists(u) /\ cr[u].fin
      BY <1>9, <1>l DEF RunCreate, About, Calls, ClaimedStay
    <3>2. pod' = [pod EXCEPT ![u] = PodFor(snap[c][u].config)] /\ GoTo(c, u, "runStatus", "Pending")
      BY <1>9, <2>3 DEF RunCreate
    <3>3. NoOrphanPod'
      BY <2>1, <3>1, <3>2 DEF NoOrphanPod, PodType
    <3>4. ClaimedStay'
      BY <1>g, <2>1, <3>2 DEF ClaimedStay
    <3>5. SeenStays'
      BY <1>c, <1>g, <3>2 DEF SeenStays, Relies, PodFor, PodType
    <3> QED BY <3>3, <3>4, <3>5
  <2> QED BY <2>2, <2>3
<1>10. CASE FinalUpdate(c, u)
  <2>1. ~HasPod(u) /\ UNCHANGED pod
    BY <1>10 DEF FinalUpdate, About, Calls, SeenStays, Relies
  <2>2. PICK ok : Return(c, u, ok)
    BY <1>10 DEF FinalUpdate
  <2>3. NoOrphanPod'
    BY <1>k, <2>1 DEF NoOrphanPod
  <2>4. ClaimedStay'
    BY <1>c, <1>k, <1>r, <2>2 DEF ClaimedStay, OnlyDrops
  <2>5. SeenStays'
    BY <1>c, <1>r, <2>2 DEF SeenStays
  <2> QED BY <2>3, <2>4, <2>5
<1> QED BY <1>3, <1>4, <1>5, <1>6, <1>7, <1>8, <1>9, <1>10 DEF Step

LEMMA NextPod == OneController /\ TypeInv /\ CopyInv /\ PodInv /\ [Next]_vars => PodInv'
<1> SUFFICES ASSUME OneController, TypeInv, CopyInv, PodInv, [Next]_vars PROVE PodInv'
  OBVIOUS
<1> USE DEF TypeInv
<1>s. UNCHANGED cr => KeepsClaims
  BY DEF KeepsClaims
<1>n. UNCHANGED pod => OnlyPodDrops
  BY DEF OnlyPodDrops
<1>v. UNCHANGED ctlVars => /\ OnlyDrops
                           /\ \A c \in Controllers :
                                /\ at'[c] = at[c] /\ item'[c] = item[c]
                                /\ snap'[c][item[c]] = snap[c][item[c]]
  BY DEF OnlyDrops, ctlVars
<1>1. ASSUME NEW c \in Controllers, List(c) PROVE PodInv'
  <2> USE <1>1 DEF List, PodInv
  <2>1. NoOrphanPod'
    BY DEF NoOrphanPod
  <2>2. ClaimedStay'
    BY DEF ClaimedStay, OneController, View, CtlInv, CtlTypeOK
  <2>3. SeenStays'
    BY DEF SeenStays, OneController, Calls, CtlInv, CtlTypeOK
  <2> QED BY <2>1, <2>2, <2>3
<1>2. ASSUME NEW c \in Controllers, PassEnds(c) \/ Crash(c) PROVE PodInv'
  <2>1. OnlyDrops /\ at'[c] \notin Calls
    BY <1>2 DEF PassEnds, Crash, OnlyDrops, NothingListed, Calls, CtlInv, CtlTypeOK
  <2>2. UNCHANGED <<cr, pod>>
    BY <1>2 DEF PassEnds, Crash
  <2> QED BY <1>s, <1>n, <2>1, <2>2, QuietStep DEF OneController
<1>3. ASSUME NEW c \in Controllers, NEW u \in UIDs, CallFails(c, u) PROVE PodInv'
  <2>1. OnlyDrops /\ at'[c] \notin Calls
    BY <1>3 DEF CallFails, Return, OnlyDrops, Calls, CtlInv, CtlTypeOK
  <2>2. UNCHANGED <<cr, pod>>
    BY <1>3 DEF CallFails, clusterVars
  <2> QED BY <1>s, <1>n, <2>1, <2>2, QuietStep DEF OneController
<1>4. CASE Client
  <2>1. PICK u \in UIDs :
          \/ \E n \in Names, g \in Configs : CreateContainer(u, n, g)
          \/ \E d \in DesiredStates : SetDesiredState(u, d)
          \/ \E g \in Configs : SetSpec(u, g)
          \/ DeleteContainer(u)
    BY <1>4 DEF Client
  <2>2. \A w \in UIDs : w # u => cr'[w] = cr[w]
    BY <2>1 DEF CreateContainer, SetDesiredState, SetSpec, DeleteContainer, Store, ObjInv, ObjectsTypeOK
  <2>3. Exists(u) /\ cr[u].fin => Exists(u)' /\ cr'[u].fin
    <3> SUFFICES ASSUME Exists(u), cr[u].fin PROVE Exists(u)' /\ cr'[u].fin
      OBVIOUS
    <3>1. cr[u] \in ContainerObjects /\ cr \in [UIDs -> ContainerObjects \cup {Unborn, Gone}]
      BY DEF ObjInv, ObjectsTypeOK
    <3>2. PICK obj \in ContainerObjects : obj.fin /\ Store(u, obj)
      <4>1. CASE \E n \in Names, g \in Configs : CreateContainer(u, n, g)
        BY <4>1 DEF CreateContainer
      <4>2. CASE \E d \in DesiredStates : SetDesiredState(u, d)
        BY <3>1, <4>2 DEF SetDesiredState, ContainerObjects
      <4>3. CASE \E g \in Configs : SetSpec(u, g)
        BY <3>1, <4>3 DEF SetSpec, ContainerObjects, DesiredStates
      <4>4. CASE DeleteContainer(u)
        BY <3>1, <4>4 DEF DeleteContainer, ContainerObjects
      <4> QED BY <2>1, <4>1, <4>2, <4>3, <4>4
    <3>3. cr'[u] = obj
      BY <3>1, <3>2 DEF Store, Settled
    <3> QED BY <3>2, <3>3, DistinctNulls
  <2>4. KeepsClaims
    BY <2>2, <2>3 DEF KeepsClaims
  <2> QED BY <1>4, <1>n, <1>v, <2>4, QuietStep DEF Client
<1>5. CASE Node \/ Eviction
  <2>1. UNCHANGED cr /\ UNCHANGED ctlVars
    BY <1>5 DEF Node, Eviction, Kubelet, PodStarts, PodExits, PodStopped, OwnerGone, PodRemovedByOthers
  <2>2. PICK u \in UIDs : Kubelet(u) \/ OwnerGone(u) \/ PodRemovedByOthers(u)
    BY <1>5 DEF Node, Eviction
  <2>3. OnlyPodDrops
    <3>1. CASE PodStarts(u) \/ PodExits(u)
      <4>1. pod[u] \in Pods
        BY <3>1 DEF PodStarts, PodExits, PodType
      <4>2. PICK ph : pod' = [pod EXCEPT ![u].phase = ph]
        BY <3>1 DEF PodStarts, PodExits
      <4>3. [pod[u] EXCEPT !.phase = ph].hash = pod[u].hash
        BY <4>1 DEF Pods
      <4> QED BY <3>1, <4>2, <4>3 DEF PodStarts, PodExits, OnlyPodDrops, PodType
    <3>2. CASE PodStopped(u)
      BY <3>2 DEF PodStopped, OnlyPodDrops, PodType
    <3>3. CASE OwnerGone(u) \/ PodRemovedByOthers(u)
      BY <3>3, GracefulDrops DEF OwnerGone, PodRemovedByOthers
    <3> QED BY <2>2, <3>1, <3>2, <3>3 DEF Kubelet
  <2> QED BY <1>s, <1>v, <2>1, <2>3, QuietStep
<1>6. CASE UNCHANGED vars
  <2>1. UNCHANGED <<cr, pod>> /\ UNCHANGED ctlVars
    BY <1>6 DEF vars, ctlVars
  <2> QED BY <1>s, <1>n, <1>v, <2>1, QuietStep
<1> QED BY <1>1, <1>2, <1>3, <1>4, <1>5, <1>6, StepPod DEF Next, Controller, Fault

THEOREM PodsCorrect == ASSUME OneController PROVE Spec => []PodInv
<1>1. TypeInv /\ CopyInv /\ PodInv /\ [Next]_vars => PodInv'
  BY NextPod
<1> QED BY <1>1, InitPod, TypesStrengthened, CopiesCorrect, PTL DEF Spec

\* With one controller no Pod outlives the claim its object holds on it.
THEOREM NoOrphans == ASSUME OneController PROVE Spec => []NoOrphanPod
<1>1. PodInv => NoOrphanPod
  BY DEF PodInv
<1> QED BY <1>1, PodsCorrect, PTL

----------------------------------------------------------------------------
(* The status.                                                             *)

\* A write that keeps the phase of the object it edits.
LEMMA SamePhase ==
  ASSUME TypeInv, NEW u \in UIDs, NEW w \in UIDs, Exists(w), Exists(w)', NEW obj,
         u = w => obj.phase = cr[w].phase,
         Store(u, obj)
  PROVE  cr'[w].phase = cr[w].phase
  BY DEF Store, Settled, TypeInv, ObjInv, ObjectsTypeOK

\* The phase of an object changes in the four UpdateStatus calls only, and
\* only when the copy they rely on is current.
LEMMA PhaseChange ==
  ASSUME TypeInv, CopyInv, [Next]_vars, NEW w \in UIDs, Exists(w), Exists(w)',
         cr[w].phase # cr'[w].phase
  PROVE  \E c \in Controllers :
           /\ w \in fresh[c] /\ snap[c][w] = View(cr[w]) /\ Fits(at[c], snap[c][w])
           /\ \/ StopPhase(c, w) /\ cr'[w].phase = "Stopping"
              \/ StoppedStatus(c, w) /\ cr'[w].phase = "Stopped"
              \/ UpdatePhase(c, w) /\ cr'[w].phase = "Updating"
              \/ RunStatus(c, w) /\ cr'[w].phase = seen[c]
<1> USE DEF TypeInv
<1>t. cr \in [UIDs -> ContainerObjects \cup {Unborn, Gone}] /\ cr[w] \in ContainerObjects
  BY DEF ObjInv, ObjectsTypeOK
<1>1. ASSUME NEW c \in Controllers, NEW u \in UIDs, AddFinalizer(c, u) \/ FinalUpdate(c, u)
      PROVE  FALSE
  <2>1. PICK v : ConditionalStore(c, u, Merged(u, v))
    BY <1>1 DEF AddFinalizer, FinalUpdate
  <2>2. u = w => Merged(u, v).phase = cr[w].phase
    BY <1>t DEF Merged, ContainerObjects
  <2> QED BY <2>1, <2>2, SamePhase DEF ConditionalStore
<1>2. ASSUME Client PROVE FALSE
  <2>1. PICK u \in UIDs :
          \/ \E n \in Names, g \in Configs : CreateContainer(u, n, g)
          \/ \E d \in DesiredStates : SetDesiredState(u, d)
          \/ \E g \in Configs : SetSpec(u, g)
          \/ DeleteContainer(u)
    BY <1>2 DEF Client
  <2>2. PICK obj : Store(u, obj) /\ (u = w => obj.phase = cr[w].phase)
    <3>1. CASE \E n \in Names, g \in Configs : CreateContainer(u, n, g)
      BY <3>1 DEF CreateContainer
    <3>2. CASE \E d \in DesiredStates : SetDesiredState(u, d)
      BY <1>t, <3>2 DEF SetDesiredState, ContainerObjects
    <3>3. CASE \E g \in Configs : SetSpec(u, g)
      <4>1. PICK g \in Configs : SetSpec(u, g)
        BY <3>3
      <4>2. [cr[w] EXCEPT !.config = g, !.desired = "Running"].phase = cr[w].phase
        BY <1>t DEF ContainerObjects
      <4> QED BY <4>1, <4>2 DEF SetSpec
    <3>4. CASE DeleteContainer(u)
      BY <1>t, <3>4 DEF DeleteContainer, ContainerObjects
    <3> QED BY <2>1, <3>1, <3>2, <3>3, <3>4
  <2> QED BY <2>2, SamePhase
<1>3. ASSUME NEW c \in Controllers, NEW u \in UIDs, Step(c, u)
      PROVE  StopPhase(c, u) \/ StoppedStatus(c, u) \/ UpdatePhase(c, u) \/ RunStatus(c, u)
  BY <1>1, <1>3 DEF Step, StopGet, StopDelete, RunGet, RunCreate, UpdateDelete, FinalGet,
    FinalDelete, clusterVars
<1>4. PICK c \in Controllers, u \in UIDs : Step(c, u)
  <2>1. ~(Node \/ Eviction \/ UNCHANGED vars)
    BY DEF Node, Eviction, Kubelet, PodStarts, PodExits, PodStopped, OwnerGone,
      PodRemovedByOthers, vars
  <2>2. \A c \in Controllers : ~(List(c) \/ PassEnds(c) \/ Fault(c))
    BY DEF Fault, List, PassEnds, Crash, CallFails, clusterVars
  <2>3. PICK c \in Controllers : Controller(c) \/ Fault(c)
    BY <1>2, <2>1 DEF Next
  <2> QED BY <2>2, <2>3 DEF Controller
<1>5. ASSUME NEW phase \in Phases, WriteStatus(c, u, phase)
      PROVE  u = w /\ w \in fresh[c] /\ cr'[w].phase = phase
  <2>1. ConditionalStore(c, u, [cr[u] EXCEPT !.phase = phase])
    BY <1>5 DEF WriteStatus
  <2>2. u \in fresh[c] /\ u = w
    BY <1>t, <2>1 DEF ConditionalStore, Store
  <2>3. cr'[w] = [cr[w] EXCEPT !.phase = phase]
    BY <1>t, <2>1, <2>2 DEF ConditionalStore, Store, Settled
  <2> QED BY <1>t, <2>2, <2>3 DEF ContainerObjects
<1>6. {"Stopping", "Stopped", "Updating", seen[c]} \subseteq Phases
  BY DEF CtlInv, CtlTypeOK, Phases, OwnPhases
<1>7. u = w /\ w \in fresh[c]
  BY <1>3, <1>4, <1>5, <1>6 DEF StopPhase, StoppedStatus, UpdatePhase, RunStatus
<1>8. at[c] \in Calls /\ item[c] = w
  BY <1>3, <1>4, <1>7 DEF StopPhase, StoppedStatus, UpdatePhase, RunStatus, About, Calls
<1>9. snap[c][w] = View(cr[w]) /\ Fits(at[c], snap[c][w])
  BY <1>7, <1>8 DEF CopyInv, CopiesCurrent, WorkFits, CtlInv, WorkListed
<1> QED BY <1>3, <1>4, <1>5, <1>6, <1>7, <1>9 DEF StopPhase, StoppedStatus, UpdatePhase, RunStatus

\* With one controller, Stopped is only ever written while it is true.
THEOREM StoppedHonest == ASSUME OneController PROVE Spec => StoppedIsTrue
<1>1. TypeInv /\ CopyInv /\ PodInv /\ [Next]_vars =>
        [\A u \in UIDs :
           Exists(u) /\ Exists(u)' /\ cr[u].phase # "Stopped" /\ cr'[u].phase = "Stopped"
             => cr[u].desired = "Stopped" /\ ~HasPod(u)]_vars
  <2> SUFFICES ASSUME TypeInv, CopyInv, PodInv, [Next]_vars, NEW u \in UIDs, Exists(u), Exists(u)',
                      cr[u].phase # "Stopped", cr'[u].phase = "Stopped"
               PROVE  cr[u].desired = "Stopped" /\ ~HasPod(u)
    OBVIOUS
  <2>1. PICK c \in Controllers :
          /\ snap[c][u] = View(cr[u]) /\ Fits(at[c], snap[c][u])
          /\ StoppedStatus(c, u) \/ (RunStatus(c, u) /\ seen[c] = "Stopped")
    BY PhaseChange
  <2>2. StoppedStatus(c, u)
    BY <2>1 DEF TypeInv, CtlInv, CtlTypeOK, PodPhases, NoPhase
  <2>3. ~HasPod(u)
    BY <2>2 DEF StoppedStatus, About, Calls, PodInv, SeenStays, Relies
  <2>4. cr[u].desired # "Running" /\ cr[u].desired \in DesiredStates
    <3>1. cr[u] \in ContainerObjects
      BY StoredIsObject DEF TypeInv, ObjInv
    <3> QED BY <2>1, <2>2, <3>1 DEF StoppedStatus, About, Fits, View, ContainerObjects
  <2> QED BY <2>3, <2>4 DEF DesiredStates
<1> QED BY <1>1, TypesStrengthened, CopiesCorrect, PodsCorrect, PTL DEF Spec, StoppedIsTrue

\* With one controller, a reported Pod phase is that of a Pod of the stored
\* spec, and is wanted.
THEOREM ReportsCurrent == ASSUME OneController PROVE Spec => ReportedPodIsCurrent
<1>1. TypeInv /\ CopyInv /\ PodInv /\ [Next]_vars =>
        [\A u \in UIDs :
           Exists(u) /\ Exists(u)' /\ cr[u].phase # cr'[u].phase /\ cr'[u].phase \in PodPhases
             => /\ cr[u].desired = "Running"
                /\ HasPod(u) => pod[u].hash = cr[u].config]_vars
  <2> SUFFICES ASSUME TypeInv, CopyInv, PodInv, [Next]_vars, NEW u \in UIDs, Exists(u), Exists(u)',
                      cr[u].phase # cr'[u].phase, cr'[u].phase \in PodPhases
               PROVE  /\ cr[u].desired = "Running"
                      /\ HasPod(u) => pod[u].hash = cr[u].config
    OBVIOUS
  <2>1. PICK c \in Controllers :
          /\ snap[c][u] = View(cr[u]) /\ Fits(at[c], snap[c][u])
          /\ RunStatus(c, u)
    BY PhaseChange DEF PodPhases
  <2>2. at[c] = "runStatus" /\ item[c] = u
    BY <2>1 DEF RunStatus, About
  <2> QED BY <2>1, <2>2 DEF Fits, View, Calls, PodInv, SeenStays, Relies
<1> QED BY <1>1, TypesStrengthened, CopiesCorrect, PodsCorrect, PTL DEF Spec, ReportedPodIsCurrent

\* With one controller, no wanted Pod is deleted on a current copy.
THEOREM WantedPodsKept == ASSUME OneController PROVE Spec => WantedPodIsKept
<1>1. TypeInv /\ CopyInv /\ PodInv /\ [Next]_vars =>
        [\A c \in Controllers, u \in UIDs :
           (/\ Controller(c) /\ u \in fresh[c] /\ HasPod(u)
            /\ cr[u].desired = "Running" /\ ~cr[u].deleting /\ pod[u].hash = cr[u].config)
             => pod'[u] = pod[u]]_vars
  <2> SUFFICES ASSUME TypeInv, CopyInv, PodInv, NEW c \in Controllers, NEW u \in UIDs,
                      Controller(c), u \in fresh[c], HasPod(u), cr[u].desired = "Running",
                      ~cr[u].deleting, pod[u].hash = cr[u].config, pod'[u] # pod[u]
               PROVE  FALSE
    OBVIOUS
  <2> USE DEF TypeInv, PodType
  <2>1. PICK w \in UIDs : StopDelete(c, w) \/ RunCreate(c, w) \/ UpdateDelete(c, w) \/ FinalDelete(c, w)
    BY DEF Controller, List, PassEnds, Step, AddFinalizer, StopGet, StopPhase, StoppedStatus,
      RunGet, UpdatePhase, RunStatus, FinalGet, FinalUpdate, clusterVars
  <2>2. u = w /\ ~RunCreate(c, w)
    BY <2>1 DEF StopDelete, RunCreate, UpdateDelete, FinalDelete, GracefulDelete, ForceDelete
  <2>3. at[c] \in Calls /\ item[c] = u
    BY <2>1, <2>2 DEF StopDelete, UpdateDelete, FinalDelete, About, Calls
  <2>4. snap[c][u] = View(cr[u]) /\ Fits(at[c], snap[c][u]) /\ Relies(at[c], snap[c][u], pod[u])
    BY <2>3 DEF CopyInv, CopiesCurrent, WorkFits, CtlInv, WorkListed, PodInv, SeenStays
  <2>5. /\ snap[c][u].desired = "Running" /\ ~snap[c][u].deleting
        /\ snap[c][u].config = pod[u].hash
    BY <2>4 DEF View
  <2>6. at[c] \in {"stopDelete", "updateDelete", "finalDelete"}
    BY <2>1, <2>2 DEF StopDelete, UpdateDelete, FinalDelete, About
  <2> QED BY <2>4, <2>5, <2>6 DEF Fits, Relies
<1> QED BY <1>1, TypesStrengthened, CopiesCorrect, PodsCorrect, PTL DEF Spec, WantedPodIsKept
=============================================================================
