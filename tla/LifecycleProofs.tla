--------------------------- MODULE LifecycleProofs ---------------------------
(***************************************************************************)
(* Reconciler with one controller implements Lifecycle, for every set of   *)
(* names, objects, specs and readers: each step of the controller, of the  *)
(* clients and of the Pods is a step of Lifecycle or changes nothing a     *)
(* client can see.                                                         *)
(***************************************************************************)
EXTENDS ReconcilerProofs

USE DEF Exists, HasPod, Listed

\* The UIDs something runs for, and the clients' resourceVersions.
Busy == {u \in UIDs : HasPod(u)}
ClientFresh == [r \in Readers \ Controllers |-> fresh[r]]

\* Nothing a client can see changes.
Hidden == UNCHANGED <<cr, ClientFresh, Busy>>

LEMMA HiddenStutters == Hidden => UNCHANGED Promise!lifeVars
  BY DEF Hidden, Promise!lifeVars, Busy, ClientFresh

LEMMA InitImplements == Init => Promise!LifeInit
  BY DEF Init, ClusterInit, ObjectsInit, Promise!LifeInit, Promise!ObjectsInit

\* A write of an object is a write of it in Lifecycle.
LEMMA StoreImplements ==
  ASSUME TypeInv, NEW u \in UIDs, NEW obj, Store(u, obj)
  PROVE  Promise!Store(u, obj)
<1>1. ClientFresh' = IF Settled(obj) = cr[u] THEN ClientFresh
                     ELSE [r \in Readers \ Controllers |-> ClientFresh[r] \ {u}]
  BY DEF Store, ClientFresh, TypeInv, ObjInv, ObjectsTypeOK
<1> QED BY <1>1 DEF Promise!Store, Promise!Settled, Settled, Store, ClientFresh

LEMMA UseImplements ==
  ASSUME TypeInv, Client
  PROVE  Promise!LifeNext
<1> USE DEF Promise!Exists, Promise!Named, Promise!Stored, Named, Stored
<1>1. PICK u \in UIDs :
        \/ \E n \in Names, g \in Configs : CreateContainer(u, n, g)
        \/ \E d \in DesiredStates : SetDesiredState(u, d)
        \/ \E g \in Configs : SetSpec(u, g)
        \/ DeleteContainer(u)
  BY DEF Client
<1>2. UNCHANGED Busy
  BY DEF Client, Busy
<1>3. \/ \E n \in Names, g \in Configs : Promise!CreateContainer(u, n, g)
      \/ \E d \in Promise!DesiredStates : Promise!SetDesiredState(u, d)
      \/ \E g \in Configs : Promise!SetSpec(u, g)
      \/ Promise!DeleteContainer(u)
  <2>1. CASE \E n \in Names, g \in Configs : CreateContainer(u, n, g)
    BY <2>1, StoreImplements DEF CreateContainer, Promise!CreateContainer, NewContainer,
      Promise!NewContainer, NoPhase, Promise!NoPhase
  <2>2. ASSUME NEW d \in DesiredStates, SetDesiredState(u, d)
        PROVE  d \in Promise!DesiredStates /\ Promise!SetDesiredState(u, d)
    <3>0. PICK obj : obj = [cr[u] EXCEPT !.desired = d] /\ Store(u, obj)
      BY <2>2 DEF SetDesiredState
    <3>1. Promise!Store(u, obj)
      BY <3>0, StoreImplements
    <3>2. Promise!Store(u, [cr[u] EXCEPT !.desired = d])
      BY <3>0, <3>1 DEF Promise!Store
    <3> QED BY <2>2, <3>2 DEF SetDesiredState, Promise!SetDesiredState, DesiredStates,
      Promise!DesiredStates
  <2>3. ASSUME NEW g \in Configs, SetSpec(u, g)
        PROVE  Promise!SetSpec(u, g)
    <3>0. PICK obj : obj = [cr[u] EXCEPT !.config = g, !.desired = "Running"] /\ Store(u, obj)
      BY <2>3 DEF SetSpec
    <3>1. Promise!Store(u, obj)
      BY <3>0, StoreImplements
    <3>2. Promise!Store(u, [cr[u] EXCEPT !.config = g, !.desired = "Running"])
      BY <3>0, <3>1 DEF Promise!Store
    <3> QED BY <2>3, <3>2 DEF SetSpec, Promise!SetSpec
  <2>4. ASSUME DeleteContainer(u)
        PROVE  Promise!DeleteContainer(u)
    <3>0. PICK obj : obj = [cr[u] EXCEPT !.deleting = TRUE] /\ Store(u, obj)
      BY <2>4 DEF DeleteContainer
    <3>1. Promise!Store(u, obj)
      BY <3>0, StoreImplements
    <3>2. Promise!Store(u, [cr[u] EXCEPT !.deleting = TRUE])
      BY <3>0, <3>1 DEF Promise!Store
    <3> QED BY <2>4, <3>2 DEF DeleteContainer, Promise!DeleteContainer
  <2> QED BY <1>1, <2>1, <2>2, <2>3, <2>4
<1> QED BY <1>2, <1>3 DEF Promise!LifeNext, Promise!Use, Busy

\* The fields an object's steps look at, in Lifecycle's words.
LEMMA MergedFin ==
  ASSUME TypeInv, CopyInv, NEW c \in Controllers, NEW u \in UIDs, u \in fresh[c],
         Listed(c, u), NEW b \in BOOLEAN
  PROVE  /\ Merged(u, [snap[c][u] EXCEPT !.fin = b]) = [cr[u] EXCEPT !.fin = b]
         /\ snap[c][u] = View(cr[u])
         /\ Exists(u) /\ cr[u] \in ContainerObjects
<1>1. cr[u] \in ContainerObjects /\ Exists(u)
  BY ControllersRead, StoredIsObject DEF TypeInv, ObjInv, FreshStored
<1>2. snap[c][u] = View(cr[u])
  BY DEF CopyInv, CopiesCurrent
<1> QED BY <1>1, <1>2, MergedView

\* A step that leaves objects and Pods alone, and with them the clients.
LEMMA UnseenIsHidden ==
  ASSUME UNCHANGED <<cr, pod>>,
         UNCHANGED fresh \/ \E c \in Controllers : \E us : fresh' = [fresh EXCEPT ![c] = us],
         TypeInv
  PROVE  Hidden
<1>1. UNCHANGED ClientFresh
  BY DEF ClientFresh, TypeInv, ObjInv, ObjectsTypeOK
<1>2. UNCHANGED Busy
  BY DEF Busy
<1> QED BY <1>1, <1>2 DEF Hidden

\* A Pod that goes is a Finish; one that is only marked, or moves on, is still
\* there for the clients.
LEMMA DropImplements ==
  ASSUME TypeInv, NEW u \in UIDs, HasPod(u), UNCHANGED <<cr, fresh>>, NEW p,
         pod' = [pod EXCEPT ![u] = p]
  PROVE  Promise!Finish(u) \/ Hidden
<1> USE DEF TypeInv, PodType
<1>1. UNCHANGED ClientFresh
  BY DEF ClientFresh
<1>2. CASE p = NoPod
  <2>1. Busy' = Busy \ {u} /\ u \in Busy
    BY <1>2 DEF Busy
  <2> QED BY <1>1, <2>1 DEF Promise!Finish, Promise!objVars, Busy, ClientFresh
<1>3. CASE p # NoPod
  <2>1. UNCHANGED Busy
    BY <1>3 DEF Busy
  <2> QED BY <1>1, <2>1 DEF Hidden
<1> QED BY <1>2, <1>3

\* An UpdateStatus from a current copy is a Report, if the phase is honest.
LEMMA WriteImplements ==
  ASSUME TypeInv, CopyInv, NEW c \in Controllers, NEW u \in UIDs,
         at[c] \in Calls, u = item[c], at[c] \notin {"finalDelete", "finalUpdate"},
         NEW phase \in Phases \ {NoPhase}, WriteStatus(c, u, phase), UNCHANGED pod,
         phase \in {"Stopped", "Stopping"} => snap[c][u].desired # "Running",
         phase \in PodPhases \cup {"Updating"} => snap[c][u].desired = "Running",
         phase = "Stopped" => ~HasPod(u)
  PROVE  Promise!Report(u, phase) \/ Hidden
<1>1. CASE u \notin fresh[c]
  BY <1>1, UnseenIsHidden DEF WriteStatus, ConditionalStore
<1>2. CASE u \in fresh[c]
  <2>1. cr[u] \in ContainerObjects /\ Exists(u)
    BY <1>2, ControllersRead, StoredIsObject DEF TypeInv, ObjInv, FreshStored
  <2>2. snap[c][u] = View(cr[u]) /\ Fits(at[c], snap[c][u])
    BY <1>2 DEF CopyInv, CopiesCurrent, WorkFits, TypeInv, CtlInv, WorkListed
  <2>3. cr[u].fin /\ ~cr[u].deleting /\ cr[u].desired = snap[c][u].desired
    BY <2>2 DEF View, Fits
  <2>4. PICK obj : obj = [cr[u] EXCEPT !.phase = phase] /\ Store(u, obj)
    BY <1>2 DEF WriteStatus, ConditionalStore
  <2>5. Promise!Store(u, [cr[u] EXCEPT !.phase = phase])
    BY <2>4, StoreImplements DEF Promise!Store
  <2>6. phase \in {"Stopped", "Stopping"} => cr[u].desired = "Stopped"
    BY <2>1, <2>3 DEF ContainerObjects, DesiredStates
  <2>7. UNCHANGED Busy /\ (phase = "Stopped" => u \notin Busy)
    BY DEF Busy
  <2> QED BY <2>1, <2>3, <2>5, <2>6, <2>7 DEF Promise!Report, Promise!Exists, Busy,
    PodPhases, Promise!PodPhases
<1> QED BY <1>1, <1>2

LEMMA StepImplements ==
  ASSUME TypeInv, CopyInv, PodInv, NEW c \in Controllers, NEW u \in UIDs, Step(c, u)
  PROVE  Promise!LifeNext \/ Hidden
<1>p. (\/ Promise!Claim(u) \/ Promise!Launch(u) \/ Promise!Finish(u) \/ Promise!Release(u)
       \/ \E phase \in Phases \ {NoPhase} : Promise!Report(u, phase)) => Promise!LifeNext
  BY DEF Promise!LifeNext, Promise!Promised
<1>w. at[c] \in Calls /\ u = item[c] =>
        /\ Listed(c, u) /\ Fits(at[c], snap[c][u])
        /\ Relies(at[c], snap[c][u], pod[u])
  BY DEF TypeInv, CtlInv, WorkListed, CopyInv, WorkFits, PodInv, SeenStays
<1>1. CASE AddFinalizer(c, u)
  <2>0. UNCHANGED Busy
    BY <1>1 DEF AddFinalizer, Busy
  <2>1. CASE u \in fresh[c]
    <3>1. /\ Merged(u, [snap[c][u] EXCEPT !.fin = TRUE]) = [cr[u] EXCEPT !.fin = TRUE]
          /\ snap[c][u] = View(cr[u]) /\ Exists(u)
      BY <1>1, <2>1, MergedFin DEF AddFinalizer, ToClaim
    <3>2. PICK obj : obj = [cr[u] EXCEPT !.fin = TRUE] /\ Store(u, obj)
      BY <1>1, <2>1, <3>1 DEF AddFinalizer, ConditionalStore
    <3>3. Promise!Store(u, [cr[u] EXCEPT !.fin = TRUE])
      BY <3>2, StoreImplements DEF Promise!Store
    <3>4. ~cr[u].fin /\ ~cr[u].deleting
      BY <1>1, <3>1 DEF AddFinalizer, ToClaim, View
    <3> QED BY <1>p, <2>0, <3>1, <3>3, <3>4 DEF Promise!Claim, Promise!Exists, Busy
  <2>2. CASE u \notin fresh[c]
    BY <1>1, <2>2, UnseenIsHidden DEF AddFinalizer, ConditionalStore
  <2> QED BY <2>1, <2>2
<1>2. CASE StopGet(c, u) \/ RunGet(c, u) \/ FinalGet(c, u)
  BY <1>2, UnseenIsHidden DEF StopGet, RunGet, FinalGet, clusterVars
<1>3. CASE StopDelete(c, u) \/ UpdateDelete(c, u)
  <2>1. CASE HasPod(u)
    <3>1. UNCHANGED <<cr, fresh>> /\ \E p : pod' = [pod EXCEPT ![u] = p]
      BY <1>3, <2>1 DEF StopDelete, UpdateDelete, GracefulDelete
    <3> QED BY <1>p, <2>1, <3>1, DropImplements
  <2>2. CASE ~HasPod(u)
    BY <1>3, <2>2, UnseenIsHidden DEF StopDelete, UpdateDelete
  <2> QED BY <2>1, <2>2
<1>4. CASE FinalDelete(c, u)
  <2>1. CASE HasPod(u)
    BY <1>4, <1>p, <2>1, DropImplements DEF FinalDelete, ForceDelete
  <2>2. CASE ~HasPod(u)
    BY <1>4, <2>2, UnseenIsHidden DEF FinalDelete, ForceDelete, TypeInv, PodType
  <2> QED BY <2>1, <2>2
<1>5. CASE StopPhase(c, u)
  BY <1>5, <1>p, <1>w, WriteImplements DEF StopPhase, About, Calls, Phases, OwnPhases, NoPhase,
    PodPhases, Fits
<1>6. CASE StoppedStatus(c, u)
  BY <1>6, <1>p, <1>w, WriteImplements DEF StoppedStatus, About, Calls, Phases, OwnPhases, NoPhase,
    PodPhases, Fits, Relies
<1>7. CASE UpdatePhase(c, u)
  BY <1>7, <1>p, <1>w, WriteImplements DEF UpdatePhase, About, Calls, Phases, OwnPhases, NoPhase,
    PodPhases, Fits
<1>8. CASE RunStatus(c, u)
  <2>1. seen[c] \in PodPhases
    BY <1>8 DEF RunStatus, About, TypeInv, CtlInv, SeenPhase
  <2> QED BY <1>8, <1>p, <1>w, <2>1, WriteImplements DEF RunStatus, About, Calls, Phases, NoPhase,
    PodPhases, Fits
<1>9. CASE RunCreate(c, u)
  <2>1. CASE HasPod(u)
    BY <1>9, <2>1, UnseenIsHidden DEF RunCreate
  <2>2. CASE ~HasPod(u)
    <3>1. Exists(u) /\ cr[u].fin
      BY <1>9, <1>w DEF RunCreate, About, Calls, Fits, PodInv, ClaimedStay
    <3>2. Listed(c, u) /\ PodFor(snap[c][u].config) # NoPod
      <4>1. Listed(c, u)
        BY <1>9, <1>w DEF RunCreate, About, Calls
      <4>2. PodFor(snap[c][u].config) \in Pods
        BY <4>1 DEF PodFor, Pods, PodPhases, TypeInv, CtlInv, CtlTypeOK, Views
      <4> QED BY <4>1, <4>2, NoPodNotPod
    <3>3. Busy' = Busy \cup {u} /\ u \notin Busy
      BY <1>9, <2>2, <3>2 DEF RunCreate, Busy, TypeInv, PodType
    <3>4. UNCHANGED <<cr, fresh>> /\ UNCHANGED ClientFresh
      BY <1>9 DEF RunCreate, ClientFresh
    <3> QED BY <1>p, <3>1, <3>3, <3>4 DEF Promise!Launch, Promise!Exists, Promise!objVars, Busy,
      ClientFresh
  <2> QED BY <2>1, <2>2
<1>10. CASE FinalUpdate(c, u)
  <2>0. UNCHANGED Busy /\ u \notin Busy
    BY <1>10, <1>w DEF FinalUpdate, About, Calls, Relies, Busy
  <2>1. CASE u \in fresh[c]
    <3>1. /\ Merged(u, [snap[c][u] EXCEPT !.fin = FALSE]) = [cr[u] EXCEPT !.fin = FALSE]
          /\ snap[c][u] = View(cr[u]) /\ Exists(u)
          /\ Fits("finalUpdate", snap[c][u])
      BY <1>10, <1>w, <2>1, MergedFin DEF FinalUpdate, About, Calls
    <3>2. PICK obj : obj = [cr[u] EXCEPT !.fin = FALSE] /\ Store(u, obj)
      BY <1>10, <2>1, <3>1 DEF FinalUpdate, ConditionalStore
    <3>3. Promise!Store(u, [cr[u] EXCEPT !.fin = FALSE])
      BY <3>2, StoreImplements DEF Promise!Store
    <3>4. cr[u].fin /\ cr[u].deleting
      BY <3>1 DEF View, Fits
    <3> QED BY <1>p, <2>0, <3>1, <3>3, <3>4 DEF Promise!Release, Promise!Exists, Busy
  <2>2. CASE u \notin fresh[c]
    BY <1>10, <2>2, UnseenIsHidden DEF FinalUpdate, ConditionalStore
  <2> QED BY <2>1, <2>2
<1> QED BY <1>1, <1>2, <1>3, <1>4, <1>5, <1>6, <1>7, <1>8, <1>9, <1>10 DEF Step

\* The Pods' own steps, and those of the others that end them.
LEMMA PodStepImplements ==
  ASSUME TypeInv, Node \/ Eviction
  PROVE  Promise!LifeNext \/ Hidden
<1>1. PICK u \in UIDs : Kubelet(u) \/ OwnerGone(u) \/ PodRemovedByOthers(u)
  BY DEF Node, Eviction
<1>2. HasPod(u) /\ UNCHANGED <<cr, fresh>> /\ \E p : pod' = [pod EXCEPT ![u] = p]
  BY <1>1 DEF Kubelet, PodStarts, PodExits, PodStopped, OwnerGone, PodRemovedByOthers,
    GracefulDelete
<1> QED BY <1>2, DropImplements DEF Promise!LifeNext, Promise!Promised

\* With one controller, what clients see of Reconciler is a behaviour of
\* Lifecycle.
THEOREM LifecycleImplemented == ASSUME OneController PROVE Spec => ImplementsLifecycle
<1>1. TypeInv /\ CopyInv /\ PodInv /\ [Next]_vars => [Promise!LifeNext]_(Promise!lifeVars)
  <2> SUFFICES ASSUME TypeInv, CopyInv, PodInv, [Next]_vars
               PROVE  Promise!LifeNext \/ Hidden
    BY HiddenStutters
  <2>1. ASSUME NEW c \in Controllers, Controller(c) \/ Fault(c)
        PROVE  Promise!LifeNext \/ Hidden
    <3>1. CASE \E u \in UIDs : Step(c, u)
      BY <3>1, StepImplements
    <3>2. CASE List(c) \/ PassEnds(c) \/ Fault(c)
      <4>1. UNCHANGED <<cr, pod>>
        BY <3>2 DEF List, PassEnds, Fault, Crash, CallFails, clusterVars
      <4>2. UNCHANGED fresh \/ \E us : fresh' = [fresh EXCEPT ![c] = us]
        BY <3>2 DEF List, PassEnds, Fault, Crash, CallFails, clusterVars, Read
      <4> QED BY <4>1, <4>2, UnseenIsHidden
    <3> QED BY <2>1, <3>1, <3>2 DEF Controller
  <2>2. CASE UNCHANGED vars
    BY <2>2, UnseenIsHidden DEF vars
  <2> QED BY <2>1, <2>2, UseImplements, PodStepImplements DEF Next
<1> QED BY <1>1, InitImplements, TypesStrengthened, CopiesCorrect, PodsCorrect, PTL
  DEF Spec, ImplementsLifecycle, Promise!LifeSpec
=============================================================================
