---------------------------- MODULE ComposeProofs ----------------------------
(***************************************************************************)
(* What the compose commands guarantee for every set of projects, plans,   *)
(* users and objects.                                                      *)
(***************************************************************************)
EXTENDS Compose, SequenceTheorems, TLAPS

USE DEF Exists

----------------------------------------------------------------------------
(* Types of the commands.  What a command has left to do is of the kind    *)
(* its stage goes through; a stage belongs to the commands that reach it.  *)

VolumeEntries  == [claim : Claims, external : BOOLEAN]
ConfigEntries  == [map : Maps, data : Data]
ServiceEntries == [container : Names, config : Configs, service : Services]

Elems(list) == {list[i] : i \in DOMAIN list}

LeftFits(plan, stage, left) ==
  /\ stage \in {"checkVolumes", "volumes"} =>
       left \in Seq(VolumeEntries) \cap Seq(Elems(plan.volumes))
  /\ stage = "configs" =>
       left \in Seq(ConfigEntries) \cap Seq(Elems(plan.configs))
  /\ stage \in {"checkServices", "workloads", "dns", "waitPhases"} =>
       left \in Seq(ServiceEntries) \cap Seq(Elems(plan.services))
  /\ stage = "dns" => left # <<>>

TodoFits(stage, todo) ==
  /\ stage = "setStates" => todo \subseteq UIDs
  /\ stage = "dropContainers" => todo \subseteq Names
  /\ stage = "dropServices" => todo \subseteq Services
  /\ stage = "dropMaps" => todo \subseteq Maps
  /\ stage = "dropClaims" => todo \subseteq Claims
  /\ stage \notin {"setStates", "dropContainers", "dropServices", "dropMaps", "dropClaims"} => todo = {}

\* The commands that reach a stage.
Reaches(act, stage) ==
  /\ stage \in {"checkVolumes", "checkServices", "volumes", "configs", "workloads", "dns"} => act = "up"
  /\ stage \in {"containers", "dropContainers", "services", "dropServices", "maps", "dropMaps"}
       => act \in {"up", "down", "downVolumes"}
  /\ stage \in {"claims", "dropClaims"} => act = "downVolumes"
  /\ stage = "waitEmpty" => act \in {"down", "downVolumes"}
  /\ stage \in {"list", "setStates", "waitPhases"} => act \in {"stop", "start", "restart"}

Records == [act : Acts \cup {"none"}, at : Results \cup Stages, plan : PlanRecords \cup {NoPlan},
            left : Seq(VolumeEntries) \cup Seq(ConfigEntries) \cup Seq(ServiceEntries),
            todo : SUBSET (UIDs \cup Names \cup Services \cup Maps \cup Claims),
            goal : DesiredStates, waits : BOOLEAN]

\* A command under way of user p.
Fits(p, r) ==
  /\ r \in Records
  /\ r.at \in Stages /\ r.act \in Acts /\ r.plan \in PlansOf[p]
  /\ LeftFits(r.plan, r.at, r.left) /\ TodoFits(r.at, r.todo) /\ Reaches(r.act, r.at)

RunType ==
  /\ run \in [Users -> Records]
  /\ \A p \in Users : \/ \E result \in Results : run[p] = Done(result)
                      \/ Fits(p, run[p])

LEMMA DoneType ==
  ASSUME NEW result \in Results
  PROVE  /\ Done(result) \in Records
         /\ Done(result).at = result /\ Done(result).at \notin Stages
  BY DEF Done, Records, Results, Stages, DesiredStates

LEMMA ElemsSeq ==
  ASSUME NEW S, NEW s \in Seq(S)
  PROVE  s \in Seq(Elems(s))
<1>1. s \in [1 .. Len(s) -> S] /\ Len(s) \in Nat
  OBVIOUS
<1>2. s \in [1 .. Len(s) -> Elems(s)]
  BY <1>1 DEF Elems
<1> QED BY <1>1, <1>2, SeqDef

LEMMA PlanType ==
  ASSUME NEW p \in Users, NEW plan \in PlansOf[p]
  PROVE  /\ plan \in PlanRecords /\ plan.project \in Projects
         /\ plan.volumes \in Seq(VolumeEntries) \cap Seq(Elems(plan.volumes))
         /\ plan.configs \in Seq(ConfigEntries) \cap Seq(Elems(plan.configs))
         /\ plan.services \in Seq(ServiceEntries) \cap Seq(Elems(plan.services))
<1>1. plan \in PlanRecords
  BY PlansKnown
<1>2. PlanRecords = [project : Projects, volumes : Seq(VolumeEntries), configs : Seq(ConfigEntries),
                     services : Seq(ServiceEntries)]
  BY DEF PlanRecords, VolumeEntries, ConfigEntries, ServiceEntries
<1>3. /\ plan.project \in Projects /\ plan.volumes \in Seq(VolumeEntries)
      /\ plan.configs \in Seq(ConfigEntries) /\ plan.services \in Seq(ServiceEntries)
  BY <1>1, <1>2
<1> QED BY <1>1, <1>3, ElemsSeq

\* A command under way is not a result.
LEMMA UnderWay ==
  ASSUME RunType, NEW p \in Users, run[p].at \notin Results
  PROVE  Fits(p, run[p])
  BY DoneType DEF RunType

LEMMA RunChanges ==
  ASSUME RunType, NEW p \in Users, NEW x, Fits(p, x), run' = [run EXCEPT ![p] = x]
  PROVE  RunType' /\ run'[p] = x
  BY DEF RunType, Fits, Done

LEMMA EndsType ==
  ASSUME RunType, NEW p \in Users, NEW result \in Results, Ends(p, result)
  PROVE  RunType' /\ run'[p] = Done(result)
  BY DoneType DEF RunType, Ends, Done, Fits

\* A command keeps its plan, its act and its goal while it goes on.
GoesOn(p, x) ==
  /\ run'[p] = x /\ x.act = run[p].act /\ x.plan = run[p].plan
  /\ x.goal = run[p].goal /\ x.waits = run[p].waits

LEMMA EntersType ==
  ASSUME RunType, NEW p \in Users, Fits(p, run[p]),
         NEW stage \in Stages, NEW left, NEW todo, Enters(p, stage, left, todo),
         left \in Seq(VolumeEntries) \cup Seq(ConfigEntries) \cup Seq(ServiceEntries),
         todo \subseteq UIDs \cup Names \cup Services \cup Maps \cup Claims,
         LeftFits(run[p].plan, stage, left), TodoFits(stage, todo), Reaches(run[p].act, stage)
  PROVE  RunType' /\ \E x : GoesOn(p, x) /\ x.at = stage /\ x.left = left /\ x.todo = todo
<1> DEFINE x == [run[p] EXCEPT !.at = stage, !.left = left, !.todo = todo]
<1>1. /\ x \in Records /\ x.at = stage /\ x.left = left /\ x.todo = todo
      /\ x.act = run[p].act /\ x.plan = run[p].plan
      /\ x.goal = run[p].goal /\ x.waits = run[p].waits
  BY DEF Records, Fits
<1>2. Fits(p, x)
  BY <1>1 DEF Fits
<1>3. run' = [run EXCEPT ![p] = x]
  BY DEF Enters, RunType
<1> HIDE DEF x
<1>4. RunType' /\ run'[p] = x
  BY <1>2, <1>3, RunChanges
<1> QED BY <1>1, <1>4 DEF GoesOn

LEMMA ShiftsType ==
  ASSUME RunType, NEW p \in Users, Fits(p, run[p]), Shifts(p),
         run[p].left # <<>>, run[p].at # "dns"
  PROVE  RunType' /\ \E x : GoesOn(p, x) /\ x.at = run[p].at /\ x.todo = run[p].todo
                               /\ x.left = Tail(run[p].left)
<1> DEFINE x == [run[p] EXCEPT !.left = Tail(@)]
<1>1. \A S : run[p].left \in Seq(S) => Tail(run[p].left) \in Seq(S)
  OBVIOUS
<1>2. /\ x \in Records /\ x.left = Tail(run[p].left) /\ x.at = run[p].at
      /\ x.act = run[p].act /\ x.plan = run[p].plan /\ x.todo = run[p].todo
      /\ x.goal = run[p].goal /\ x.waits = run[p].waits
  BY <1>1 DEF Records, Fits
<1>3. Fits(p, x)
  BY <1>1, <1>2 DEF Fits, LeftFits
<1>4. run' = [run EXCEPT ![p] = x]
  BY DEF Shifts, RunType
<1> HIDE DEF x
<1>5. RunType' /\ run'[p] = x
  BY <1>3, <1>4, RunChanges
<1> QED BY <1>2, <1>5 DEF GoesOn

LEMMA DropsType ==
  ASSUME RunType, NEW p \in Users, Fits(p, run[p]), NEW y, Drops(p, y)
  PROVE  RunType' /\ \E x : GoesOn(p, x) /\ x.at = run[p].at /\ x.left = run[p].left
                               /\ x.todo = run[p].todo \ {y}
<1> DEFINE x == [run[p] EXCEPT !.todo = @ \ {y}]
<1>1. /\ x \in Records /\ x.left = run[p].left /\ x.at = run[p].at
      /\ x.act = run[p].act /\ x.plan = run[p].plan /\ x.todo = run[p].todo \ {y}
      /\ x.goal = run[p].goal /\ x.waits = run[p].waits
  BY DEF Records, Fits
<1>2. Fits(p, x)
  BY <1>1 DEF Fits, TodoFits
<1>3. run' = [run EXCEPT ![p] = x]
  BY DEF Drops, RunType
<1> HIDE DEF x
<1>4. RunType' /\ run'[p] = x
  BY <1>2, <1>3, RunChanges
<1> QED BY <1>1, <1>4 DEF GoesOn

----------------------------------------------------------------------------
(* Objects.  A reader's resourceVersion is of a stored object; the server  *)
(* keeps no released object; what runs is claimed by its object.           *)

FreshStored  == \A r \in Readers : \A u \in fresh[r] : Exists(u)
NoneReleased == \A u \in UIDs : Exists(u) => cr[u].fin \/ ~cr[u].deleting
BusyClaimed  == \A u \in busy : Exists(u) /\ cr[u].fin

LifeInv == LifeTypeOK /\ FreshStored /\ NoneReleased /\ BusyClaimed

LEMMA StoredIsObject ==
  ASSUME LifeInv, NEW u \in UIDs, Exists(u)
  PROVE  cr[u] \in ContainerObjects
  BY DEF LifeInv, LifeTypeOK, ObjectsTypeOK

\* A write that takes no finalizer from what is in use.
LEMMA StoreInv ==
  ASSUME LifeInv, NEW u \in UIDs, NEW obj \in ContainerObjects, Store(u, obj),
         u \in busy => obj.fin, UNCHANGED busy
  PROVE  LifeInv'
<1> USE DEF LifeInv, LifeTypeOK, ObjectsTypeOK, Store, Settled
<1>1. LifeTypeOK'
  OBVIOUS
<1>2. FreshStored'
  BY DistinctNulls DEF FreshStored
<1>3. NoneReleased'
  BY DEF NoneReleased
<1>4. BusyClaimed'
  BY DistinctNulls DEF BusyClaimed
<1> QED BY <1>1, <1>2, <1>3, <1>4

LEMMA ReadInv ==
  ASSUME LifeInv, NEW r \in Readers, NEW us \in SUBSET Stored, Read(r, us), UNCHANGED <<cr, busy>>
  PROVE  LifeInv'
  BY DEF LifeInv, LifeTypeOK, ObjectsTypeOK, Read, Stored, FreshStored, NoneReleased, BusyClaimed

LEMMA LifeUnchanged == ASSUME LifeInv, UNCHANGED lifeVars PROVE LifeInv'
  BY DEF LifeInv, LifeTypeOK, ObjectsTypeOK, FreshStored, NoneReleased, BusyClaimed, lifeVars

\* How a step leaves the objects of project q: none is new, and none asks for
\* another state.
NoneNew(q) == \A u \in UIDs : Exists(u)' /\ ProjectOf[cr'[u].config] = q =>
                /\ Exists(u) /\ ProjectOf[cr[u].config] = q
                /\ cr'[u].desired = cr[u].desired

\* A write that creates nothing in q and changes no state there.
LEMMA StoreNoneNew ==
  ASSUME LifeInv, NEW u \in UIDs, NEW obj, Store(u, obj), NEW q,
         ProjectOf[obj.config] = q =>
           Exists(u) /\ ProjectOf[cr[u].config] = q /\ obj.desired = cr[u].desired
  PROVE  NoneNew(q)
  BY DEF LifeInv, LifeTypeOK, ObjectsTypeOK, Store, Settled, NoneNew

\* What the controller promises touches neither spec nor project.
LEMMA PromisedStep ==
  ASSUME LifeInv, NEW u \in UIDs, Promised(u)
  PROVE  LifeInv' /\ \A q : NoneNew(q)
<1>t. Exists(u) => cr[u] \in ContainerObjects
  BY StoredIsObject
<1>1. CASE Claim(u)
  <2> DEFINE obj == [cr[u] EXCEPT !.fin = TRUE]
  <2>1. Exists(u) /\ Store(u, obj) /\ UNCHANGED busy
    BY <1>1 DEF Claim
  <2>2. /\ obj \in ContainerObjects /\ obj.fin
        /\ obj.config = cr[u].config /\ obj.desired = cr[u].desired
    BY <1>t, <2>1 DEF ContainerObjects
  <2> HIDE DEF obj
  <2> QED BY <2>1, <2>2, StoreInv, StoreNoneNew
<1>2. CASE Launch(u)
  <2>1. LifeInv'
    BY <1>2 DEF Launch, objVars, LifeInv, LifeTypeOK, ObjectsTypeOK, FreshStored, NoneReleased, BusyClaimed
  <2> QED BY <1>2, <2>1 DEF Launch, objVars, NoneNew
<1>3. CASE Finish(u)
  <2>1. LifeInv'
    BY <1>3 DEF Finish, objVars, LifeInv, LifeTypeOK, ObjectsTypeOK, FreshStored, NoneReleased, BusyClaimed
  <2> QED BY <1>3, <2>1 DEF Finish, objVars, NoneNew
<1>4. CASE Release(u)
  <2> DEFINE obj == [cr[u] EXCEPT !.fin = FALSE]
  <2>1. Exists(u) /\ Store(u, obj) /\ UNCHANGED busy /\ u \notin busy
    BY <1>4 DEF Release
  <2>2. /\ obj \in ContainerObjects
        /\ obj.config = cr[u].config /\ obj.desired = cr[u].desired
    BY <1>t, <2>1 DEF ContainerObjects
  <2> HIDE DEF obj
  <2> QED BY <2>1, <2>2, StoreInv, StoreNoneNew
<1>5. ASSUME NEW phase \in Reported, Report(u, phase)
      PROVE  LifeInv' /\ \A q : NoneNew(q)
  <2> DEFINE obj == [cr[u] EXCEPT !.phase = phase]
  <2>1. Exists(u) /\ Store(u, obj) /\ UNCHANGED busy /\ cr[u].fin
    BY <1>5 DEF Report
  <2>2. phase \in Phases
    BY ReportedPhases
  <2>3. /\ obj \in ContainerObjects /\ obj.fin
        /\ obj.config = cr[u].config /\ obj.desired = cr[u].desired
    BY <1>t, <2>1, <2>2 DEF ContainerObjects
  <2> HIDE DEF obj
  <2> QED BY <2>1, <2>3, StoreInv, StoreNoneNew
<1> QED BY <1>1, <1>2, <1>3, <1>4, <1>5 DEF Promised

----------------------------------------------------------------------------
(* What a command knows of its project.  While it sets states, whatever it *)
(* has not yet updated is what it listed; while it goes down, what is left *)
(* of a kind is what it listed of it.  Nobody else adds to the project, so *)
(* what was listed once stays all there is.                                *)

ServicesOf(q) == {s \in Services : svc[s] # Absent /\ svc[s].project = q}
MapsOf(q)     == {m \in Maps : map[m] # Absent /\ map[m].project = q}
ClaimsOf(q)   == {v \in Claims : claim[v] = q}

ContainersListed == {"dropContainers", "services", "dropServices", "maps", "dropMaps",
                     "claims", "dropClaims", "waitEmpty"}
ServicesGone == {"maps", "dropMaps", "claims", "dropClaims", "waitEmpty"}
MapsGone     == {"claims", "dropClaims", "waitEmpty"}

\* No two users work on one project.
OnePerProject ==
  \A p1, p2 \in Users : p1 # p2 =>
    \A plan1 \in PlansOf[p1], plan2 \in PlansOf[p2] : plan1.project # plan2.project

\* What command r knows of project q.
Knows(r, q) == OnePerProject =>
  /\ r.at = "setStates"  => \A u \in OfProject(q) : u \in r.todo \/ cr[u].desired = r.goal
  /\ r.at = "waitPhases" => \A u \in OfProject(q) : cr[u].desired = r.goal
  /\ IsDown(r.act) =>
       /\ r.at \in ContainersListed /\ ~r.waits => OfProject(q) = {}
       /\ r.at = "dropServices" => ServicesOf(q) \subseteq r.todo
       /\ r.at \in ServicesGone => ServicesOf(q) = {}
       /\ r.at = "dropMaps" => MapsOf(q) \subseteq r.todo
       /\ r.at \in MapsGone => MapsOf(q) = {}
       /\ r.at = "dropClaims" => ClaimsOf(q) = r.todo
       /\ r.at = "waitEmpty" /\ r.act = "downVolumes" => ClaimsOf(q) = {}

KnowsAll == \A p \in Users : Knows(run[p], Project(p))

RestType ==
  /\ svc \in [Services -> ServiceObjects \cup {Absent}]
  /\ map \in [Maps -> MapObjects \cup {Absent}]
  /\ claim \in [Claims -> Projects \cup {Absent, Unlabelled}]

\* The copies SetState holds, while they are current, are of its project.
FreshOwn == \A p \in Users : run[p].at = "setStates" => fresh[p] \subseteq OfProject(Project(p))

ComposeInv == RunType /\ LifeInv /\ RestType /\ FreshOwn /\ KnowsAll

\* How a step that is not project q's own leaves q.
Foreign(q) == OnePerProject =>
  /\ NoneNew(q)
  /\ ServicesOf(q)' \subseteq ServicesOf(q)
  /\ MapsOf(q)' \subseteq MapsOf(q)
  /\ ClaimsOf(q)' = ClaimsOf(q)

LEMMA ForeignKnown ==
  ASSUME NEW r, NEW q, Knows(r, q), Foreign(q)
  PROVE  Knows(r, q)'
<1>1. OnePerProject =>
        \A u \in OfProject(q)' : u \in OfProject(q) /\ cr'[u].desired = cr[u].desired
  BY DEF Foreign, NoneNew, OfProject, Stored
<1> QED BY <1>1 DEF Foreign, Knows

\* A command that has ended knows nothing.
LEMMA DoneKnows ==
  ASSUME NEW result \in Results, NEW q
  PROVE  Knows(Done(result), q) /\ Knows(Done(result), q)'
  BY DEF Knows, Done, Results, IsDown

\* A step that changes the command only.
LEMMA QuietStep ==
  ASSUME LifeInv, RestType, UNCHANGED <<lifeVars, svc, map, claim>>
  PROVE  LifeInv' /\ RestType' /\ \A q \in Projects : Foreign(q)
<1>1. LifeInv'
  BY LifeUnchanged
<1>2. RestType'
  BY DEF RestType
<1>3. \A q \in Projects : Foreign(q)
  BY DEF lifeVars, Foreign, NoneNew, ServicesOf, MapsOf, ClaimsOf
<1> QED BY <1>1, <1>2, <1>3

\* A step of a command that changes at most the objects.
LEMMA ObjectsForeign ==
  ASSUME RestType, UNCHANGED <<svc, map, claim>>, NEW q, NoneNew(q)
  PROVE  RestType' /\ Foreign(q)
  BY DEF RestType, Foreign, ServicesOf, MapsOf, ClaimsOf

\* What one step of user p has to leave behind.
Stepped(p) ==
  /\ RunType' /\ LifeInv' /\ RestType'
  /\ Knows(run[p], Project(p))'
  /\ \A q \in Projects : q # Project(p) => Foreign(q)

LEMMA EndsStep ==
  ASSUME ComposeInv, NEW p \in Users, NEW result \in Results, Ends(p, result),
         LifeInv', RestType', \A q \in Projects : Foreign(q)
  PROVE  Stepped(p)
<1>1. RunType' /\ run'[p] = Done(result)
  BY EndsType DEF ComposeInv
<1>2. PICK q : q = run'[p].plan.project
  OBVIOUS
<1>3. Knows(Done(result), q)'
  BY DoneKnows
<1> QED BY <1>1, <1>2, <1>3 DEF Stepped, Knows, Project

\* A command that moves on to record x, of the same plan, which knows what it
\* has to know before the objects of other projects, and its own, change.
LEMMA MovesStep ==
  ASSUME NEW p \in Users, NEW x, RunType', run'[p] = x, x.plan = run[p].plan,
         Project(p) \in Projects, Knows(x, Project(p)), LifeInv', RestType', \A q \in Projects : Foreign(q)
  PROVE  Stepped(p)
<1>1. PICK q : q = Project(p)
  OBVIOUS
<1>2. Knows(x, q)'
  BY <1>1, ForeignKnown
<1>3. Knows(run[p], Project(p))'
  BY <1>1, <1>2 DEF Knows, Project
<1> QED BY <1>3 DEF Stepped

----------------------------------------------------------------------------
(* up.                                                                     *)

\* A step of up, which knows nothing of its project yet.
LEMMA UpStep ==
  ASSUME NEW p \in Users, RunType', run'[p].act = "up", run'[p].at \in Stages,
         run'[p].plan = run[p].plan, LifeInv', RestType',
         \A q \in Projects : q # Project(p) => Foreign(q)
  PROVE  Stepped(p)
<1>1. PICK x : x = run'[p]
  OBVIOUS
<1>2. Fits(p, x)'
  BY <1>1, UnderWay, DoneType DEF RunType, Results, Stages
<1>3. x.act = "up" /\ x.at \notin {"setStates", "waitPhases"}
  BY <1>1, <1>2 DEF Fits, Reaches
<1> QED BY <1>1, <1>3 DEF Stepped, Knows, IsDown

\* up goes on to another stage, or to the rest of this one.
LEMMA UpEnters ==
  ASSUME ComposeInv, NEW p \in Users, Fits(p, run[p]), run[p].act = "up",
         NEW stage \in Stages, NEW left, Enters(p, stage, left, {}),
         left \in Seq(VolumeEntries) \cup Seq(ConfigEntries) \cup Seq(ServiceEntries),
         LeftFits(run[p].plan, stage, left), Reaches("up", stage), TodoFits(stage, {}),
         LifeInv', RestType', \A q \in Projects : q # Project(p) => Foreign(q)
  PROVE  Stepped(p)
<1>1. RunType' /\ \E x : GoesOn(p, x) /\ x.at = stage
  BY EntersType DEF ComposeInv
<1> QED BY <1>1, UpStep DEF GoesOn

LEMMA UpShifts ==
  ASSUME ComposeInv, NEW p \in Users, Fits(p, run[p]), run[p].act = "up", Shifts(p),
         run[p].left # <<>>, run[p].at # "dns",
         LifeInv', RestType', \A q \in Projects : q # Project(p) => Foreign(q)
  PROVE  Stepped(p)
<1>1. RunType' /\ \E x : GoesOn(p, x) /\ x.at = run[p].at
  BY ShiftsType DEF ComposeInv
<1> QED BY <1>1, UpStep DEF GoesOn, Fits

\* Where up is, and what it goes through.
LEMMA UpUnderWay ==
  ASSUME ComposeInv, NEW p \in Users,
         run[p].at \in {"checkVolumes", "checkServices", "volumes", "configs", "workloads", "dns"}
  PROVE  /\ Fits(p, run[p]) /\ run[p].act = "up"
         /\ Plan(p).project \in Projects
         /\ Plan(p).volumes \in Seq(VolumeEntries) \cap Seq(Elems(Plan(p).volumes))
         /\ Plan(p).configs \in Seq(ConfigEntries) \cap Seq(Elems(Plan(p).configs))
         /\ Plan(p).services \in Seq(ServiceEntries) \cap Seq(Elems(Plan(p).services))
<1>1. Fits(p, run[p])
  BY UnderWay DEF ComposeInv, Results
<1>2. run[p].act = "up" /\ run[p].plan \in PlansOf[p]
  BY <1>1 DEF Fits, Reaches
<1> QED BY <1>1, <1>2, PlanType DEF Plan

\* up ends, or starts its next stage.
LEMMA UpNextStages ==
  ASSUME ComposeInv, NEW p \in Users, Fits(p, run[p]), run[p].act = "up",
         LifeInv', RestType', \A q \in Projects : Foreign(q),
         \/ Ends(p, "error")
         \/ Enters(p, "checkServices", Plan(p).services, {})
         \/ Enters(p, "volumes", Plan(p).volumes, {})
         \/ Enters(p, "configs", Plan(p).configs, {})
         \/ Enters(p, "workloads", Plan(p).services, {})
         \/ Enters(p, "containers", <<>>, {})
  PROVE  Stepped(p)
<1>1. /\ Plan(p).volumes \in Seq(VolumeEntries) \cap Seq(Elems(Plan(p).volumes))
      /\ Plan(p).configs \in Seq(ConfigEntries) \cap Seq(Elems(Plan(p).configs))
      /\ Plan(p).services \in Seq(ServiceEntries) \cap Seq(Elems(Plan(p).services))
  BY PlanType DEF Fits, Plan
<1>2. CASE Ends(p, "error")
  BY <1>2, EndsStep DEF Results
<1>3. CASE Enters(p, "checkServices", Plan(p).services, {})
  <2>1. /\ LeftFits(Plan(p), "checkServices", Plan(p).services) /\ TodoFits("checkServices", {})
        /\ Reaches("up", "checkServices") /\ "checkServices" \in Stages
    BY <1>1 DEF LeftFits, TodoFits, Reaches, Stages
  <2> QED BY <1>1, <1>3, <2>1, UpEnters DEF Plan
<1>4. CASE Enters(p, "volumes", Plan(p).volumes, {})
  <2>1. /\ LeftFits(Plan(p), "volumes", Plan(p).volumes) /\ TodoFits("volumes", {})
        /\ Reaches("up", "volumes") /\ "volumes" \in Stages
    BY <1>1 DEF LeftFits, TodoFits, Reaches, Stages
  <2> QED BY <1>1, <1>4, <2>1, UpEnters DEF Plan
<1>5. CASE Enters(p, "configs", Plan(p).configs, {})
  <2>1. /\ LeftFits(Plan(p), "configs", Plan(p).configs) /\ TodoFits("configs", {})
        /\ Reaches("up", "configs") /\ "configs" \in Stages
    BY <1>1 DEF LeftFits, TodoFits, Reaches, Stages
  <2> QED BY <1>1, <1>5, <2>1, UpEnters DEF Plan
<1>6. CASE Enters(p, "workloads", Plan(p).services, {})
  <2>1. /\ LeftFits(Plan(p), "workloads", Plan(p).services) /\ TodoFits("workloads", {})
        /\ Reaches("up", "workloads") /\ "workloads" \in Stages
    BY <1>1 DEF LeftFits, TodoFits, Reaches, Stages
  <2> QED BY <1>1, <1>6, <2>1, UpEnters DEF Plan
<1>7. CASE Enters(p, "containers", <<>>, {})
  <2>1. /\ LeftFits(Plan(p), "containers", <<>>) /\ TodoFits("containers", {}) /\ <<>> \in Seq(VolumeEntries)
        /\ Reaches("up", "containers") /\ "containers" \in Stages
    BY DEF LeftFits, TodoFits, Reaches, Stages
  <2> QED BY <1>7, <2>1, UpEnters DEF Plan
<1> QED BY <1>2, <1>3, <1>4, <1>5, <1>6, <1>7

LEMMA PreflightStep ==
  ASSUME ComposeInv, NEW p \in Users, CheckVolume(p) \/ CheckService(p)
  PROVE  Stepped(p)
<1>1. Fits(p, run[p]) /\ run[p].act = "up" /\ run[p].at # "dns"
  BY UpUnderWay DEF CheckVolume, CheckService, At
<1>2. LifeInv' /\ RestType' /\ \A q \in Projects : Foreign(q)
  BY QuietStep DEF CheckVolume, CheckService, ComposeInv
<1>3. CASE Shifts(p) /\ run[p].left # <<>>
  BY <1>1, <1>2, <1>3, UpShifts
<1> QED BY <1>1, <1>2, <1>3, UpNextStages DEF CheckVolume, CheckService

\* up makes claims and ConfigMaps in the name of its own project.
LEMMA ApplyVolumeStep ==
  ASSUME ComposeInv, NEW p \in Users, ApplyVolume(p)
  PROVE  Stepped(p)
<1> USE DEF ComposeInv
<1>1. /\ Fits(p, run[p]) /\ run[p].act = "up" /\ run[p].at = "volumes"
      /\ Project(p) \in Projects
  BY UpUnderWay DEF ApplyVolume, At, Plan, Project
<1>2. CASE UNCHANGED claim
  <2>1. LifeInv' /\ RestType' /\ \A q \in Projects : Foreign(q)
    BY <1>2, QuietStep DEF ApplyVolume
  <2>2. \/ Shifts(p) /\ run[p].left # <<>>
        \/ Enters(p, "configs", Plan(p).configs, {})
    BY DEF ApplyVolume
  <2> QED BY <1>1, <2>1, <2>2, UpShifts, UpNextStages
<1>3. CASE ~UNCHANGED claim
  <2> DEFINE v == Head(run[p].left)
  <2>1. /\ run[p].left # <<>> /\ Shifts(p) /\ UNCHANGED <<lifeVars, svc, map>>
        /\ claim[v.claim] = Absent /\ claim' = [claim EXCEPT ![v.claim] = Project(p)]
    BY <1>3 DEF ApplyVolume
  <2>2. v.claim \in Claims
    <3>1. v \in VolumeEntries
      BY <1>1, <2>1 DEF Fits, LeftFits
    <3> QED BY <3>1 DEF VolumeEntries
  <2>3. LifeInv' /\ RestType'
    BY <1>1, <2>1, <2>2, LifeUnchanged DEF RestType
  <2>4. ASSUME NEW q \in Projects, q # Project(p) PROVE Foreign(q)
    <3>1. ClaimsOf(q)' = ClaimsOf(q)
      BY <2>1, <2>2, <2>4, NullsApart DEF ClaimsOf, RestType
    <3> QED BY <2>1, <3>1 DEF Foreign, NoneNew, ServicesOf, MapsOf, lifeVars
  <2> QED BY <1>1, <2>1, <2>3, <2>4, UpShifts
<1> QED BY <1>2, <1>3

LEMMA ApplyConfigMapStep ==
  ASSUME ComposeInv, NEW p \in Users, ApplyConfigMap(p)
  PROVE  Stepped(p)
<1> USE DEF ComposeInv
<1>1. /\ Fits(p, run[p]) /\ run[p].act = "up" /\ run[p].at = "configs"
      /\ Project(p) \in Projects
  BY UpUnderWay DEF ApplyConfigMap, At, Plan, Project
<1>2. CASE UNCHANGED map
  <2>1. LifeInv' /\ RestType' /\ \A q \in Projects : Foreign(q)
    BY <1>2, QuietStep DEF ApplyConfigMap
  <2>2. \/ Shifts(p) /\ run[p].left # <<>>
        \/ Ends(p, "error")
        \/ Enters(p, "workloads", Plan(p).services, {})
    BY DEF ApplyConfigMap
  <2> QED BY <1>1, <2>1, <2>2, UpShifts, UpNextStages
<1>3. CASE ~UNCHANGED map
  <2> DEFINE c == Head(run[p].left)
             new == [project |-> Project(p), data |-> c.data]
  <2>1. /\ run[p].left # <<>> /\ Shifts(p) /\ UNCHANGED <<lifeVars, svc, claim>>
        /\ map[c.map] = Absent \/ map[c.map].project = Project(p)
        /\ map' = [map EXCEPT ![c.map] = new]
    BY <1>3 DEF ApplyConfigMap
  <2>2. c.map \in Maps /\ new \in MapObjects /\ new.project = Project(p)
    <3>1. c \in ConfigEntries
      BY <1>1, <2>1 DEF Fits, LeftFits
    <3> QED BY <1>1, <3>1 DEF ConfigEntries, MapObjects
  <2> HIDE DEF new
  <2>3. LifeInv' /\ RestType'
    BY <2>1, <2>2, LifeUnchanged DEF RestType
  <2>4. ASSUME NEW q \in Projects, q # Project(p) PROVE Foreign(q)
    <3>1. MapsOf(q)' \subseteq MapsOf(q)
      BY <2>1, <2>2, <2>4 DEF MapsOf, RestType
    <3> QED BY <2>1, <3>1 DEF Foreign, NoneNew, ServicesOf, ClaimsOf, lifeVars
  <2> QED BY <1>1, <2>1, <2>3, <2>4, UpShifts
<1> QED BY <1>2, <1>3

\* What up applies of a service is the plan's, with its label.
LEMMA OwnService ==
  ASSUME NEW p \in Users, Fits(p, run[p]), run[p].at \in {"workloads", "dns"}, run[p].left # <<>>
  PROVE  /\ Head(run[p].left) \in ServiceEntries
         /\ Head(run[p].left) \in Elems(Plan(p).services)
         /\ ProjectOf[Head(run[p].left).config] = Project(p)
<1> DEFINE s == Head(run[p].left)
<1>1. s \in ServiceEntries /\ s \in Elems(Plan(p).services)
  BY DEF Fits, LeftFits, Plan
<1>2. PICK i \in DOMAIN Plan(p).services : s = Plan(p).services[i]
  BY <1>1 DEF Elems
<1>3. ProjectOf[Plan(p).services[i].config] = Plan(p).project
  BY PlansLabelled DEF Fits, Plan
<1> QED BY <1>1, <1>2, <1>3 DEF Plan, Project

\* A created object is of up's project, and so is one it takes over.
LEMMA ApplyContainerStep ==
  ASSUME ComposeInv, NEW p \in Users, ApplyContainer(p)
  PROVE  Stepped(p)
<1> USE DEF ComposeInv
<1>1. /\ Fits(p, run[p]) /\ run[p].act = "up" /\ run[p].at = "workloads"
      /\ Project(p) \in Projects
  BY UpUnderWay DEF ApplyContainer, At, Plan, Project
<1>2. CASE UNCHANGED objVars /\ (Ends(p, "error") \/ Enters(p, "containers", <<>>, {}))
  <2>1. LifeInv' /\ RestType' /\ \A q \in Projects : Foreign(q)
    BY <1>2, QuietStep DEF ApplyContainer, objVars, lifeVars
  <2> QED BY <1>1, <1>2, <2>1, UpNextStages
<1>3. CASE run[p].left # <<>> /\ Enters(p, "dns", run[p].left, {})
  <2> DEFINE s == Head(run[p].left)
  <2>1. /\ s \in ServiceEntries /\ ProjectOf[s.config] = Project(p)
        /\ s.container \in Names /\ s.config \in Configs
    BY <1>1, <1>3, OwnService DEF ServiceEntries
  <2>2. \E u \in UIDs, obj \in ContainerObjects :
          /\ Store(u, obj) /\ obj.config = s.config /\ (u \in busy => obj.fin)
    <3>1. CASE \E u \in UIDs : CreateContainer(u, s.container, s.config)
      <4>1. PICK u \in UIDs : CreateContainer(u, s.container, s.config)
        BY <3>1
      <4>2. u \notin busy
        BY <4>1 DEF CreateContainer, LifeInv, BusyClaimed
      <4>3. /\ NewContainer(s.container, s.config) \in ContainerObjects
            /\ NewContainer(s.container, s.config).config = s.config
        BY <2>1 DEF NewContainer, ContainerObjects, DesiredStates, Phases
      <4> QED BY <4>1, <4>2, <4>3 DEF CreateContainer
    <3>2. CASE \E u \in Named(s.container) :
                 Store(u, [cr[u] EXCEPT !.config = s.config, !.desired = "Running"])
      <4>1. PICK u \in Named(s.container) :
              Store(u, [cr[u] EXCEPT !.config = s.config, !.desired = "Running"])
        BY <3>2
      <4>2. u \in UIDs /\ Exists(u) /\ cr[u] \in ContainerObjects
        BY StoredIsObject DEF Named, Stored
      <4> DEFINE obj == [cr[u] EXCEPT !.config = s.config, !.desired = "Running"]
      <4>3. obj \in ContainerObjects /\ obj.config = s.config /\ obj.fin = cr[u].fin
        BY <2>1, <4>2 DEF ContainerObjects, DesiredStates
      <4>4. u \in busy => obj.fin
        BY <4>3 DEF LifeInv, BusyClaimed
      <4> HIDE DEF obj
      <4>5. Store(u, obj)
        BY <4>1 DEF obj
      <4> QED BY <4>2, <4>3, <4>4, <4>5
    <3>3. ~UNCHANGED objVars \/ ~Ends(p, "error")
      BY <1>1, <1>3 DEF Ends, Enters, Done, Fits, Records, RunType
    <3> QED BY <1>3, <3>1, <3>2, <3>3 DEF ApplyContainer
  <2>3. PICK u \in UIDs, obj \in ContainerObjects :
          /\ Store(u, obj) /\ obj.config = s.config /\ (u \in busy => obj.fin)
    BY <2>2
  <2>4. LifeInv'
    BY <2>3, StoreInv DEF ApplyContainer
  <2>5. ASSUME NEW q \in Projects, q # Project(p) PROVE RestType' /\ Foreign(q)
    <3>1. NoneNew(q)
      BY <2>1, <2>3, <2>5, StoreNoneNew
    <3> QED BY <3>1, ObjectsForeign DEF ApplyContainer
  <2>6. RestType'
    BY DEF RestType, ApplyContainer
  <2>7. /\ LeftFits(Plan(p), "dns", run[p].left) /\ TodoFits("dns", {})
        /\ run[p].left \in Seq(ServiceEntries)
        /\ Reaches("up", "dns") /\ "dns" \in Stages
    BY <1>1, <1>3 DEF Fits, LeftFits, TodoFits, Reaches, Stages, Plan
  <2> QED BY <1>1, <1>3, <2>4, <2>5, <2>6, <2>7, UpEnters DEF Plan
<1> QED BY <1>2, <1>3 DEF ApplyContainer

LEMMA ApplyServiceStep ==
  ASSUME ComposeInv, NEW p \in Users, ApplyService(p)
  PROVE  Stepped(p)
<1> USE DEF ComposeInv
<1>1. /\ Fits(p, run[p]) /\ run[p].act = "up" /\ run[p].at = "dns"
      /\ Project(p) \in Projects
  BY UpUnderWay DEF ApplyService, At, Plan, Project
<1>2. run[p].left # <<>> /\ Head(run[p].left) \in ServiceEntries
  BY <1>1, OwnService DEF Fits, LeftFits
<1> DEFINE s == Head(run[p].left)
           new == [project |-> Project(p), selects |-> s.container]
<1>3. s.service \in Services /\ new \in ServiceObjects /\ new.project = Project(p)
  BY <1>1, <1>2 DEF ServiceEntries, ServiceObjects
<1>4. svc' = [svc EXCEPT ![s.service] = new] /\ UNCHANGED <<lifeVars, map, claim>>
  BY DEF ApplyService
<1> HIDE DEF new
<1>5. LifeInv' /\ RestType'
  BY <1>3, <1>4, LifeUnchanged DEF RestType
<1>6. ASSUME NEW q \in Projects, q # Project(p) PROVE Foreign(q)
  <2>1. ServicesOf(q)' \subseteq ServicesOf(q)
    BY <1>3, <1>4, <1>6 DEF ServicesOf, RestType
  <2> QED BY <1>4, <2>1 DEF Foreign, NoneNew, MapsOf, ClaimsOf, lifeVars
<1>7. \A S : run[p].left \in Seq(S) => Tail(run[p].left) \in Seq(S)
  BY <1>2
<1>8. /\ LeftFits(Plan(p), "workloads", Tail(run[p].left)) /\ TodoFits("workloads", {})
      /\ Tail(run[p].left) \in Seq(ServiceEntries)
      /\ Reaches("up", "workloads") /\ "workloads" \in Stages
  BY <1>1, <1>7 DEF Fits, LeftFits, TodoFits, Reaches, Stages, Plan
<1>9. Enters(p, "workloads", Tail(run[p].left), {})
  BY DEF ApplyService
<1> QED BY <1>1, <1>5, <1>6, <1>8, <1>9, UpEnters DEF Plan

LEMMA UpKeeps ==
  ASSUME ComposeInv, NEW p \in Users, Up(p)
  PROVE  Stepped(p)
  BY PreflightStep, ApplyVolumeStep, ApplyConfigMapStep, ApplyContainerStep, ApplyServiceStep DEF Up

----------------------------------------------------------------------------
(* removeStale and down.                                                   *)

\* A command that goes on to record x, which knows what it has to know of
\* what the step leaves of its project q.
LEMMA GoesOnStep ==
  ASSUME NEW p \in Users, NEW x, RunType', GoesOn(p, x), NEW q, q = Project(p), Knows(x, q)',
         LifeInv', RestType', \A other \in Projects : other # q => Foreign(other)
  PROVE  Stepped(p)
<1>1. Knows(run[p], Project(p))'
  BY DEF Knows, Project, GoesOn
<1> QED BY <1>1 DEF Stepped

\* Where removeStale or down is.
LEMMA DropUnderWay ==
  ASSUME ComposeInv, NEW p \in Users, run[p].at \in Stages
  PROVE  /\ Fits(p, run[p]) /\ Project(p) \in Projects /\ Knows(run[p], Project(p))
         /\ <<>> \in Seq(VolumeEntries) /\ run[p].at \notin Results
<1>1. Fits(p, run[p]) /\ run[p].at \notin Results
  BY UnderWay DEF ComposeInv, Results, Stages
<1> QED BY <1>1, PlanType DEF ComposeInv, KnowsAll, Fits, Project

\* A stage that goes through no list.
LEMMA EntersSet ==
  ASSUME ComposeInv, NEW p \in Users, run[p].at \in Stages,
         NEW stage \in {"services", "dropServices", "maps", "dropMaps", "claims", "dropClaims", "waitEmpty"},
         NEW todo, Enters(p, stage, <<>>, todo), TodoFits(stage, todo), Reaches(run[p].act, stage),
         NEW q, q = Project(p),
         \A x : GoesOn(p, x) /\ x.at = stage /\ x.todo = todo => Knows(x, q)',
         LifeInv', RestType', \A other \in Projects : Foreign(other)
  PROVE  Stepped(p)
<1>1. Fits(p, run[p]) /\ <<>> \in Seq(VolumeEntries)
  BY DropUnderWay
<1>2. stage \in Stages /\ LeftFits(run[p].plan, stage, <<>>)
  BY DEF Stages, LeftFits
<1>3. todo \subseteq UIDs \cup Names \cup Services \cup Maps \cup Claims
  BY DEF TodoFits
<1>4. RunType' /\ \E x : GoesOn(p, x) /\ x.at = stage /\ x.todo = todo
  <2>1. PICK left : left = <<>>
    OBVIOUS
  <2>2. left \in Seq(VolumeEntries) \cup Seq(ConfigEntries) \cup Seq(ServiceEntries)
    BY <1>1, <2>1
  <2>3. LeftFits(run[p].plan, stage, left) /\ Enters(p, stage, left, todo)
    BY <1>2, <2>1
  <2>4. RunType
    BY DEF ComposeInv
  <2>5. RunType' /\ \E x : GoesOn(p, x) /\ x.at = stage /\ x.left = left /\ x.todo = todo
    BY <1>1, <1>2, <1>3, <2>2, <2>3, <2>4, EntersType
  <2> QED BY <2>5
<1> QED BY <1>4, GoesOnStep

LEMMA ListContainersStep ==
  ASSUME ComposeInv, NEW p \in Users, ListContainers(p)
  PROVE  Stepped(p)
<1> USE DEF ComposeInv
<1>1. run[p].at = "containers" /\ run[p].at \in Stages
  BY DEF ListContainers, At, Stages
<1>2. Fits(p, run[p]) /\ Project(p) \in Projects
  BY <1>1, DropUnderWay
<1>3. PICK q : q = Project(p)
  OBVIOUS
<1> DEFINE names == {cr[u].name : u \in OfProject(q)} \ Wanted(p, "container")
           waits == IsDown(run[p].act) /\ OfProject(q) # {}
           x == [run[p] EXCEPT !.at = "dropContainers", !.todo = names, !.waits = waits]
<1>4. names \subseteq Names
  BY StoredIsObject DEF OfProject, Stored, ContainerObjects
<1>5. waits \in BOOLEAN
  BY DEF IsDown
<1>6. run' = [run EXCEPT ![p] = x]
  BY <1>2, <1>3 DEF ListContainers, RunType
<1> HIDE DEF names, waits
<1>7. /\ x \in Records /\ x.at = "dropContainers" /\ x.todo = names /\ x.waits = waits
      /\ x.act = run[p].act /\ x.plan = run[p].plan /\ x.left = run[p].left
  BY <1>2, <1>4, <1>5 DEF Fits, Records, Stages
<1> HIDE DEF x
<1>8. Fits(p, x)
  BY <1>1, <1>2, <1>4, <1>7 DEF Fits, LeftFits, TodoFits, Reaches, Stages
<1>9. RunType' /\ run'[p] = x
  BY <1>6, <1>8, RunChanges
<1>10. LifeInv' /\ RestType' /\ \A other \in Projects : Foreign(other)
  BY QuietStep DEF ListContainers
<1>11. Knows(x, Project(p))
  BY <1>3, <1>7 DEF Knows, waits, ServicesGone, MapsGone
<1> QED BY <1>2, <1>7, <1>9, <1>10, <1>11, MovesStep

LEMMA DropContainerStep ==
  ASSUME ComposeInv, NEW p \in Users, DropContainer(p)
  PROVE  Stepped(p)
<1> USE DEF ComposeInv
<1>1. run[p].at = "dropContainers" /\ run[p].at \in Stages
  BY DEF DropContainer, At, Stages
<1>2. /\ Fits(p, run[p]) /\ Project(p) \in Projects /\ Knows(run[p], Project(p))
      /\ Reaches(run[p].act, "services")
  BY <1>1, DropUnderWay DEF Fits, Reaches
<1>3. PICK q, r : q = Project(p) /\ r = run[p]
  OBVIOUS
<1>4. LifeInv' /\ RestType' /\ \A other \in Projects : Foreign(other)
  <2>1. CASE UNCHANGED objVars
    BY <2>1, QuietStep DEF DropContainer, objVars, lifeVars
  <2>2. CASE \E u \in UIDs : DeleteContainer(u)
    <3>1. PICK u \in UIDs : DeleteContainer(u)
      BY <2>2
    <3> DEFINE obj == [cr[u] EXCEPT !.deleting = TRUE]
    <3>2. Exists(u) /\ Store(u, obj) /\ cr[u] \in ContainerObjects
      BY <3>1, StoredIsObject DEF DeleteContainer
    <3>3. /\ obj \in ContainerObjects /\ obj.fin = cr[u].fin
          /\ obj.config = cr[u].config /\ obj.desired = cr[u].desired
      BY <3>2 DEF ContainerObjects
    <3> HIDE DEF obj
    <3>4. LifeInv'
      BY <3>2, <3>3, StoreInv DEF LifeInv, BusyClaimed, DropContainer
    <3>5. \A other \in Projects : NoneNew(other)
      BY <3>2, <3>3, StoreNoneNew
    <3>6. RestType'
      BY DEF RestType, DropContainer
    <3> QED BY <3>4, <3>5, <3>6, ObjectsForeign DEF DropContainer
  <2> QED BY <2>1, <2>2 DEF DropContainer, Named, Stored
<1>5. Knows(r, q)'
  BY <1>2, <1>3, <1>4, ForeignKnown
<1>6. CASE Enters(p, "services", <<>>, {})
  <2>1. TodoFits("services", {})
    BY DEF TodoFits
  <2>2. \A x : GoesOn(p, x) /\ x.at = "services" /\ x.todo = {} => Knows(x, q)'
    BY <1>1, <1>3, <1>5 DEF GoesOn, Knows, ContainersListed, ServicesGone, MapsGone
  <2> QED BY <1>1, <1>2, <1>3, <1>4, <1>6, <2>1, <2>2, EntersSet
<1>7. CASE Ends(p, "error")
  BY <1>4, <1>7, EndsStep DEF Results
<1>8. ASSUME NEW n, Drops(p, n) PROVE Stepped(p)
  <2>1. RunType' /\ \E x : GoesOn(p, x) /\ x.at = run[p].at
    BY <1>2, <1>8, DropsType
  <2>2. \A x : GoesOn(p, x) /\ x.at = run[p].at => Knows(x, q)'
    BY <1>1, <1>3, <1>5 DEF GoesOn, Knows, ContainersListed, ServicesGone, MapsGone
  <2> QED BY <1>3, <1>4, <2>1, <2>2, GoesOnStep
<1> QED BY <1>6, <1>7, <1>8 DEF DropContainer

LEMMA ListServicesStep ==
  ASSUME ComposeInv, NEW p \in Users, ListServices(p)
  PROVE  Stepped(p)
<1> USE DEF ComposeInv
<1>1. run[p].at = "services" /\ run[p].at \in Stages
  BY DEF ListServices, At, Stages
<1>2. /\ Project(p) \in Projects /\ Knows(run[p], Project(p)) /\ Reaches(run[p].act, "dropServices")
  BY <1>1, DropUnderWay DEF Fits, Reaches
<1>3. PICK q, r : q = Project(p) /\ r = run[p]
  OBVIOUS
<1>4. PICK wanted : wanted = Wanted(p, "service")
  OBVIOUS
<1>5. LifeInv' /\ RestType' /\ \A other \in Projects : Foreign(other)
  BY QuietStep DEF ListServices
<1>6. Knows(r, q)' /\ ServicesOf(q)' = ServicesOf(q)
  BY <1>2, <1>3, <1>5, ForeignKnown DEF ListServices, ServicesOf
<1>7. PICK listed : listed = ServicesOf(q) \ wanted
  OBVIOUS
<1>8. Enters(p, "dropServices", <<>>, listed)
  BY <1>3, <1>4, <1>7 DEF ListServices, ServicesOf
<1>9. TodoFits("dropServices", listed)
  BY <1>7 DEF TodoFits, ServicesOf
<1>10. \A x : GoesOn(p, x) /\ x.at = "dropServices" /\ x.todo = listed => Knows(x, q)'
  <2>1. IsDown(run[p].act) => wanted = {}
    BY <1>4 DEF Wanted
  <2> QED BY <1>1, <1>3, <1>6, <1>7, <2>1 DEF GoesOn, Knows, ContainersListed, ServicesGone, MapsGone
<1> QED BY <1>1, <1>2, <1>3, <1>5, <1>8, <1>9, <1>10, EntersSet

LEMMA DropServiceStep ==
  ASSUME ComposeInv, NEW p \in Users, DropService(p)
  PROVE  Stepped(p)
<1> USE DEF ComposeInv
<1>1. run[p].at = "dropServices" /\ run[p].at \in Stages
  BY DEF DropService, At, Stages
<1>2. /\ Fits(p, run[p]) /\ Project(p) \in Projects /\ Knows(run[p], Project(p))
      /\ Reaches(run[p].act, "maps")
  BY <1>1, DropUnderWay DEF Fits, Reaches
<1>3. PICK q, r : q = Project(p) /\ r = run[p]
  OBVIOUS
<1>4. CASE UNCHANGED svc /\ Enters(p, "maps", <<>>, {}) /\ run[p].todo = {}
  <2>1. LifeInv' /\ RestType' /\ \A other \in Projects : Foreign(other)
    BY <1>4, QuietStep DEF DropService
  <2>2. Knows(r, q)'
    BY <1>2, <1>3, <2>1, ForeignKnown
  <2>3. TodoFits("maps", {})
    BY DEF TodoFits
  <2>4. \A x : GoesOn(p, x) /\ x.at = "maps" /\ x.todo = {} => Knows(x, q)'
    BY <1>1, <1>3, <1>4, <2>2 DEF GoesOn, Knows, ContainersListed, ServicesGone, MapsGone
  <2> QED BY <1>1, <1>2, <1>3, <1>4, <2>1, <2>3, <2>4, EntersSet
<1>5. ASSUME NEW s \in run[p].todo, svc' = [svc EXCEPT ![s] = Absent],
             Drops(p, s) \/ Ends(p, "error")
      PROVE  Stepped(p)
  <2>1. s \in Services
    BY <1>1, <1>2 DEF Fits, TodoFits
  <2>2. LifeInv' /\ RestType'
    BY <1>5, <2>1, LifeUnchanged DEF RestType, DropService
  <2>3. \A other : ServicesOf(other)' = ServicesOf(other) \ {s}
    BY <1>5, <2>1 DEF ServicesOf, RestType
  <2>4. \A other \in Projects : Foreign(other)
    BY <2>3 DEF Foreign, NoneNew, MapsOf, ClaimsOf, lifeVars, DropService
  <2>5. Knows(r, q)'
    BY <1>2, <1>3, <2>4, ForeignKnown
  <2>6. CASE Drops(p, s)
    <3>1. RunType' /\ \E x : GoesOn(p, x) /\ x.at = run[p].at /\ x.todo = run[p].todo \ {s}
      BY <1>2, <2>6, DropsType
    <3>2. \A x : GoesOn(p, x) /\ x.at = run[p].at /\ x.todo = run[p].todo \ {s} => Knows(x, q)'
      BY <1>1, <1>3, <2>3, <2>5 DEF GoesOn, Knows, ContainersListed, ServicesGone, MapsGone
    <3> QED BY <1>3, <2>2, <2>4, <3>1, <3>2, GoesOnStep
  <2> QED BY <1>5, <2>2, <2>4, <2>6, EndsStep DEF Results
<1> QED BY <1>4, <1>5 DEF DropService

LEMMA ListMapsStep ==
  ASSUME ComposeInv, NEW p \in Users, ListMaps(p)
  PROVE  Stepped(p)
<1> USE DEF ComposeInv
<1>1. run[p].at = "maps" /\ run[p].at \in Stages
  BY DEF ListMaps, At, Stages
<1>2. /\ Project(p) \in Projects /\ Knows(run[p], Project(p)) /\ Reaches(run[p].act, "dropMaps")
  BY <1>1, DropUnderWay DEF Fits, Reaches
<1>3. PICK q, r : q = Project(p) /\ r = run[p]
  OBVIOUS
<1>4. PICK wanted : wanted = WantedMaps(p)
  OBVIOUS
<1>5. LifeInv' /\ RestType' /\ \A other \in Projects : Foreign(other)
  BY QuietStep DEF ListMaps
<1>6. Knows(r, q)' /\ MapsOf(q)' = MapsOf(q)
  BY <1>2, <1>3, <1>5, ForeignKnown DEF ListMaps, MapsOf
<1>7. PICK listed : listed = MapsOf(q) \ wanted
  OBVIOUS
<1>8. Enters(p, "dropMaps", <<>>, listed)
  BY <1>3, <1>4, <1>7 DEF ListMaps, MapsOf
<1>9. TodoFits("dropMaps", listed)
  BY <1>7 DEF TodoFits, MapsOf
<1>10. \A x : GoesOn(p, x) /\ x.at = "dropMaps" /\ x.todo = listed => Knows(x, q)'
  <2>1. IsDown(run[p].act) => wanted = {}
    BY <1>4 DEF WantedMaps
  <2> QED BY <1>1, <1>3, <1>6, <1>7, <2>1 DEF GoesOn, Knows, ContainersListed, ServicesGone, MapsGone
<1> QED BY <1>1, <1>2, <1>3, <1>5, <1>8, <1>9, <1>10, EntersSet

LEMMA DropMapStep ==
  ASSUME ComposeInv, NEW p \in Users, DropMap(p)
  PROVE  Stepped(p)
<1> USE DEF ComposeInv
<1>1. run[p].at = "dropMaps" /\ run[p].at \in Stages
  BY DEF DropMap, At, Stages
<1>2. Fits(p, run[p]) /\ Project(p) \in Projects /\ Knows(run[p], Project(p))
  BY <1>1, DropUnderWay
<1>3. PICK q, r : q = Project(p) /\ r = run[p]
  OBVIOUS
<1>4. ASSUME UNCHANGED map, run[p].todo = {}, AfterMaps(p)
      PROVE  Stepped(p)
  <2>1. LifeInv' /\ RestType' /\ \A other \in Projects : Foreign(other)
    BY <1>4, QuietStep DEF DropMap
  <2>2. Knows(r, q)'
    BY <1>2, <1>3, <2>1, ForeignKnown
  <2>3. CASE Ends(p, "ok")
    BY <2>1, <2>3, EndsStep DEF Results
  <2>4. CASE run[p].act = "downVolumes" /\ Enters(p, "claims", <<>>, {})
    <3>1. TodoFits("claims", {}) /\ Reaches(run[p].act, "claims")
      BY <2>4 DEF TodoFits, Reaches
    <3>2. \A x : GoesOn(p, x) /\ x.at = "claims" /\ x.todo = {} => Knows(x, q)'
      BY <1>1, <1>3, <1>4, <2>2 DEF GoesOn, Knows, ContainersListed, ServicesGone, MapsGone
    <3> QED BY <1>1, <1>2, <1>3, <2>1, <2>4, <3>1, <3>2, EntersSet
  <2>5. CASE run[p].act = "down" /\ Enters(p, "waitEmpty", <<>>, {})
    <3>1. TodoFits("waitEmpty", {}) /\ Reaches(run[p].act, "waitEmpty")
      BY <2>5 DEF TodoFits, Reaches
    <3>2. \A x : GoesOn(p, x) /\ x.at = "waitEmpty" /\ x.todo = {} => Knows(x, q)'
      BY <1>1, <1>3, <1>4, <2>2, <2>5 DEF GoesOn, Knows, ContainersListed, ServicesGone, MapsGone
    <3> QED BY <1>1, <1>2, <1>3, <2>1, <2>5, <3>1, <3>2, EntersSet
  <2> QED BY <1>4, <2>3, <2>4, <2>5 DEF AfterMaps
<1>5. ASSUME NEW m \in run[p].todo, map' = [map EXCEPT ![m] = Absent],
             Drops(p, m) \/ Ends(p, "error")
      PROVE  Stepped(p)
  <2>1. m \in Maps
    BY <1>1, <1>2 DEF Fits, TodoFits
  <2>2. LifeInv' /\ RestType'
    BY <1>5, <2>1, LifeUnchanged DEF RestType, DropMap
  <2>3. \A other : MapsOf(other)' = MapsOf(other) \ {m}
    BY <1>5, <2>1 DEF MapsOf, RestType
  <2>4. \A other \in Projects : Foreign(other)
    BY <2>3 DEF Foreign, NoneNew, ServicesOf, ClaimsOf, lifeVars, DropMap
  <2>5. Knows(r, q)'
    BY <1>2, <1>3, <2>4, ForeignKnown
  <2>6. CASE Drops(p, m)
    <3>1. RunType' /\ \E x : GoesOn(p, x) /\ x.at = run[p].at /\ x.todo = run[p].todo \ {m}
      BY <1>2, <2>6, DropsType
    <3>2. \A x : GoesOn(p, x) /\ x.at = run[p].at /\ x.todo = run[p].todo \ {m} => Knows(x, q)'
      BY <1>1, <1>3, <2>3, <2>5 DEF GoesOn, Knows, ContainersListed, ServicesGone, MapsGone
    <3> QED BY <1>3, <2>2, <2>4, <3>1, <3>2, GoesOnStep
  <2> QED BY <1>5, <2>2, <2>4, <2>6, EndsStep DEF Results
<1> QED BY <1>4, <1>5 DEF DropMap

LEMMA ListClaimsStep ==
  ASSUME ComposeInv, NEW p \in Users, ListClaims(p)
  PROVE  Stepped(p)
<1> USE DEF ComposeInv
<1>1. run[p].at = "claims" /\ run[p].at \in Stages
  BY DEF ListClaims, At, Stages
<1>2. /\ Project(p) \in Projects /\ Knows(run[p], Project(p)) /\ Reaches(run[p].act, "dropClaims")
  BY <1>1, DropUnderWay DEF Fits, Reaches
<1>3. PICK q, r : q = Project(p) /\ r = run[p]
  OBVIOUS
<1>4. LifeInv' /\ RestType' /\ \A other \in Projects : Foreign(other)
  BY QuietStep DEF ListClaims
<1>5. Knows(r, q)' /\ ClaimsOf(q)' = ClaimsOf(q)
  BY <1>2, <1>3, <1>4, ForeignKnown DEF ListClaims, ClaimsOf
<1>6. PICK listed : listed = ClaimsOf(q)
  OBVIOUS
<1>7. Enters(p, "dropClaims", <<>>, listed) /\ TodoFits("dropClaims", listed)
  BY <1>3, <1>6 DEF ListClaims, ClaimsOf, TodoFits
<1>8. \A x : GoesOn(p, x) /\ x.at = "dropClaims" /\ x.todo = listed => Knows(x, q)'
  BY <1>1, <1>3, <1>5, <1>6 DEF GoesOn, Knows, ContainersListed, ServicesGone, MapsGone
<1> QED BY <1>1, <1>2, <1>3, <1>4, <1>7, <1>8, EntersSet

\* The claims it deletes are those it listed, and they are still its own.
LEMMA DropClaimStep ==
  ASSUME ComposeInv, NEW p \in Users, DropClaim(p)
  PROVE  Stepped(p)
<1> USE DEF ComposeInv
<1>1. run[p].at = "dropClaims" /\ run[p].at \in Stages
  BY DEF DropClaim, At, Stages
<1>2. /\ Fits(p, run[p]) /\ Project(p) \in Projects /\ Knows(run[p], Project(p))
      /\ Reaches(run[p].act, "waitEmpty") /\ IsDown(run[p].act)
  BY <1>1, DropUnderWay DEF Fits, Reaches, IsDown
<1>3. PICK q, r : q = Project(p) /\ r = run[p]
  OBVIOUS
<1>4. OnePerProject => ClaimsOf(q) = run[p].todo
  BY <1>1, <1>2, <1>3 DEF Knows
<1>5. ASSUME UNCHANGED claim, run[p].todo = {}, Enters(p, "waitEmpty", <<>>, {})
      PROVE  Stepped(p)
  <2>1. LifeInv' /\ RestType' /\ \A other \in Projects : Foreign(other)
    BY <1>5, QuietStep DEF DropClaim
  <2>2. Knows(r, q)'
    BY <1>2, <1>3, <2>1, ForeignKnown
  <2>3. TodoFits("waitEmpty", {})
    BY DEF TodoFits
  <2>4. \A x : GoesOn(p, x) /\ x.at = "waitEmpty" /\ x.todo = {} => Knows(x, q)'
    BY <1>1, <1>3, <1>5, <2>2 DEF GoesOn, Knows, ContainersListed, ServicesGone, MapsGone
  <2> QED BY <1>1, <1>2, <1>3, <1>5, <2>1, <2>3, <2>4, EntersSet
<1>6. ASSUME NEW v \in run[p].todo, claim' = [claim EXCEPT ![v] = Absent], Drops(p, v)
      PROVE  Stepped(p)
  <2>1. v \in Claims /\ (OnePerProject => claim[v] = q)
    BY <1>1, <1>2, <1>4, <1>6 DEF ClaimsOf, Fits, TodoFits
  <2>2. LifeInv' /\ RestType'
    BY <1>6, <2>1, LifeUnchanged DEF RestType, DropClaim
  <2>3. \A other \in Projects : ClaimsOf(other)' = ClaimsOf(other) \ {v}
    BY <1>6, <2>1, NullsApart DEF ClaimsOf, RestType
  <2>4. /\ \A other : NoneNew(other)
        /\ \A other : ServicesOf(other)' = ServicesOf(other) /\ MapsOf(other)' = MapsOf(other)
    BY DEF NoneNew, ServicesOf, MapsOf, lifeVars, DropClaim
  <2>5. \A other \in Projects : other # q => Foreign(other)
    BY <2>1, <2>3, <2>4 DEF Foreign, ClaimsOf
  <2>6. OfProject(q)' = OfProject(q)
    BY DEF OfProject, Stored, lifeVars, DropClaim
  <2>7. RunType' /\ \E x : GoesOn(p, x) /\ x.at = run[p].at /\ x.todo = run[p].todo \ {v}
    BY <1>2, <1>6, DropsType
  <2>8. \A x : GoesOn(p, x) /\ x.at = run[p].at /\ x.todo = run[p].todo \ {v} => Knows(x, q)'
    BY <1>1, <1>2, <1>3, <1>4, <2>3, <2>4, <2>6
    DEF GoesOn, Knows, ContainersListed, ServicesGone, MapsGone
  <2> QED BY <1>3, <2>2, <2>5, <2>7, <2>8, GoesOnStep
<1> QED BY <1>5, <1>6 DEF DropClaim

LEMMA WaitForEmptyStep ==
  ASSUME ComposeInv, NEW p \in Users, WaitForEmpty(p)
  PROVE  Stepped(p)
  BY QuietStep, EndsStep DEF WaitForEmpty, ComposeInv, Results

LEMMA DropKeeps ==
  ASSUME ComposeInv, NEW p \in Users, Drop(p)
  PROVE  Stepped(p)
  BY ListContainersStep, DropContainerStep, ListServicesStep, DropServiceStep, ListMapsStep,
     DropMapStep, ListClaimsStep, DropClaimStep, WaitForEmptyStep DEF Drop

----------------------------------------------------------------------------
(* stop, start and restart, and how a command begins and is given up.      *)

\* The head of a list of services still to be waited for.
LEMMA WaitForPhasesStep ==
  ASSUME ComposeInv, NEW p \in Users, WaitForPhases(p)
  PROVE  Stepped(p)
<1> USE DEF ComposeInv
<1>1. run[p].at = "waitPhases" /\ run[p].at \in Stages
  BY DEF WaitForPhases, At, Stages
<1>2. Fits(p, run[p]) /\ Project(p) \in Projects /\ Knows(run[p], Project(p))
  BY <1>1, DropUnderWay
<1>3. LifeInv' /\ RestType' /\ \A q \in Projects : Foreign(q)
  BY QuietStep DEF WaitForPhases
<1>4. PICK q, r : q = Project(p) /\ r = run[p]
  OBVIOUS
<1>5. Knows(r, q)'
  BY <1>2, <1>3, <1>4, ForeignKnown
<1>6. ASSUME NEW result \in Results, Ends(p, result) PROVE Stepped(p)
  BY <1>3, <1>6, EndsStep
<1>7. CASE run[p].act = "restart" /\ run' = [run EXCEPT ![p].at = "list", ![p].goal = "Running"]
  <2> DEFINE x == [run[p] EXCEPT !.at = "list", !.goal = "Running"]
  <2>1. run' = [run EXCEPT ![p] = x]
    BY <1>2, <1>7 DEF RunType
  <2>2. /\ x \in Records /\ x.at = "list" /\ x.act = "restart" /\ x.plan = run[p].plan
        /\ x.todo = run[p].todo
    BY <1>2, <1>7 DEF Fits, Records, Stages, DesiredStates
  <2> HIDE DEF x
  <2>3. Fits(p, x)
    BY <1>1, <1>2, <1>7, <2>2 DEF Fits, LeftFits, TodoFits, Reaches, Stages
  <2>4. RunType' /\ run'[p] = x
    BY <2>1, <2>3, RunChanges
  <2>5. Knows(x, Project(p))
    BY <2>2 DEF Knows, IsDown
  <2> QED BY <1>2, <1>3, <2>2, <2>4, <2>5, MovesStep
<1>8. CASE Shifts(p) /\ run[p].left # <<>>
  <2>1. RunType' /\ \E x : GoesOn(p, x) /\ x.at = run[p].at /\ x.todo = run[p].todo
    BY <1>1, <1>2, <1>8, ShiftsType
  <2>2. \A x : GoesOn(p, x) /\ x.at = run[p].at /\ x.todo = run[p].todo => Knows(x, q)'
    BY <1>4, <1>5 DEF GoesOn, Knows
  <2> QED BY <1>3, <1>4, <2>1, <2>2, GoesOnStep
<1> QED BY <1>6, <1>7, <1>8 DEF WaitForPhases, Results

\* What it lists is all there is of the project.
LEMMA ListStatesStep ==
  ASSUME ComposeInv, NEW p \in Users, ListStates(p)
  PROVE  Stepped(p)
<1> USE DEF ComposeInv
<1>1. run[p].at = "list" /\ run[p].at \in Stages
  BY DEF ListStates, At, Stages
<1>2. /\ Fits(p, run[p]) /\ Project(p) \in Projects /\ Reaches(run[p].act, "setStates")
      /\ <<>> \in Seq(VolumeEntries)
  BY <1>1, DropUnderWay DEF Fits, Reaches
<1>3. CASE Ends(p, "error") /\ UNCHANGED fresh
  <2>1. UNCHANGED <<lifeVars, svc, map, claim>>
    BY <1>3 DEF ListStates, lifeVars
  <2> QED BY <1>3, <2>1, QuietStep, EndsStep DEF Results
<1>4. CASE Enters(p, "setStates", <<>>, OfProject(Project(p))) /\ Read(p, OfProject(Project(p)))
  <2>1. PICK q, listed : q = Project(p) /\ listed = OfProject(q)
    OBVIOUS
  <2>2. listed \in SUBSET Stored /\ listed \subseteq UIDs /\ p \in Readers
    BY <2>1, UsersRead DEF OfProject, Stored
  <2>3. UNCHANGED <<cr, busy, svc, map, claim>>
    BY DEF ListStates
  <2>4. LifeInv' /\ RestType'
    BY <1>4, <2>1, <2>2, <2>3, ReadInv DEF RestType
  <2>5. \A other \in Projects : Foreign(other)
    BY <2>3, ObjectsForeign DEF NoneNew
  <2>6. /\ LeftFits(run[p].plan, "setStates", <<>>) /\ TodoFits("setStates", listed)
        /\ "setStates" \in Stages
    BY <2>2 DEF LeftFits, TodoFits, Stages
  <2>7. PICK left : left = <<>>
    OBVIOUS
  <2>8. Enters(p, "setStates", left, listed) /\ LeftFits(run[p].plan, "setStates", left)
    BY <1>4, <2>1, <2>6, <2>7
  <2>9. RunType' /\ \E x : GoesOn(p, x) /\ x.at = "setStates" /\ x.todo = listed
    <3>1. left \in Seq(VolumeEntries) \cup Seq(ConfigEntries) \cup Seq(ServiceEntries)
      BY <1>2, <2>7
    <3>2. listed \subseteq UIDs \cup Names \cup Services \cup Maps \cup Claims
      BY <2>2
    <3>3. RunType
      OBVIOUS
    <3> HIDE DEF ComposeInv
    <3>4. RunType' /\ \E x : GoesOn(p, x) /\ x.at = "setStates" /\ x.left = left /\ x.todo = listed
      BY <1>2, <2>6, <2>8, <3>1, <3>2, <3>3, EntersType
    <3> QED BY <3>4
  <2>10. \A x : GoesOn(p, x) /\ x.at = "setStates" /\ x.todo = listed => Knows(x, Project(p))
    <3>1. ~IsDown(run[p].act)
      BY <1>2 DEF Reaches, IsDown
    <3> QED BY <2>1, <3>1 DEF Knows, GoesOn
  <2> QED BY <1>2, <2>4, <2>5, <2>9, <2>10, MovesStep DEF GoesOn
<1> QED BY <1>3, <1>4 DEF ListStates

\* The copy it updates is current, so the object is of its project.
LEMMA SetStatesStep ==
  ASSUME ComposeInv, NEW p \in Users, SetStates(p)
  PROVE  Stepped(p)
<1> USE DEF ComposeInv
<1>1. run[p].at = "setStates" /\ run[p].at \in Stages
  BY DEF SetStates, At, Stages
<1>2. /\ Fits(p, run[p]) /\ Project(p) \in Projects /\ Knows(run[p], Project(p))
      /\ Reaches(run[p].act, "waitPhases") /\ ~IsDown(run[p].act)
      /\ p \in Readers
  BY <1>1, DropUnderWay, UsersRead DEF Fits, Reaches, IsDown
<1>3. PICK q, r : q = Project(p) /\ r = run[p]
  OBVIOUS
<1>4. ASSUME Forgets(p), UNCHANGED <<cr, busy, svc, map, claim>>
      PROVE  LifeInv' /\ RestType' /\ \A other \in Projects : Foreign(other)
  <2>1. LifeInv' /\ RestType'
    BY <1>2, <1>4, ReadInv DEF Forgets, RestType
  <2> QED BY <1>4, <2>1, ObjectsForeign DEF NoneNew
<1>5. CASE run[p].todo = {} /\ Enters(p, "waitPhases", Plan(p).services, {}) /\ Forgets(p) /\ UNCHANGED cr
  <2>1. LifeInv' /\ RestType' /\ \A other \in Projects : Foreign(other)
    BY <1>4, <1>5 DEF SetStates
  <2>2. PICK services : services = Plan(p).services
    OBVIOUS
  <2>3. services \in Seq(ServiceEntries) \cap Seq(Elems(Plan(p).services))
    BY <1>2, <2>2, PlanType DEF Fits, Plan
  <2>4. /\ LeftFits(run[p].plan, "waitPhases", services) /\ TodoFits("waitPhases", {})
        /\ "waitPhases" \in Stages
    BY <2>3 DEF LeftFits, TodoFits, Stages, Plan
  <2>5. RunType' /\ \E x : GoesOn(p, x) /\ x.at = "waitPhases" /\ x.todo = {}
    BY <1>2, <1>5, <2>2, <2>3, <2>4, EntersType
  <2>6. \A x : GoesOn(p, x) /\ x.at = "waitPhases" /\ x.todo = {} => Knows(x, Project(p))
    BY <1>1, <1>2, <1>5 DEF Knows, GoesOn
  <2> QED BY <1>2, <2>1, <2>5, <2>6, MovesStep DEF GoesOn
<1>6. CASE Ends(p, "error") /\ Forgets(p) /\ UNCHANGED cr
  BY <1>4, <1>6, EndsStep DEF SetStates, Results
<1>7. ASSUME NEW u \in run[p].todo, u \in fresh[p], Drops(p, u),
             Store(u, [cr[u] EXCEPT !.desired = run[p].goal])
      PROVE  Stepped(p)
  <2>1. u \in UIDs /\ Exists(u) /\ ProjectOf[cr[u].config] = q /\ cr[u] \in ContainerObjects
    BY <1>1, <1>3, <1>7, StoredIsObject DEF FreshOwn, OfProject, Stored
  <2> DEFINE obj == [cr[u] EXCEPT !.desired = run[p].goal]
  <2>2. /\ obj \in ContainerObjects /\ obj.fin = cr[u].fin
        /\ obj.config = cr[u].config /\ obj.desired = run[p].goal
    BY <1>2, <2>1 DEF ContainerObjects, Fits, Records
  <2> HIDE DEF obj
  <2>3. Store(u, obj) /\ UNCHANGED <<busy, svc, map, claim>>
    BY <1>7 DEF obj, SetStates
  <2>4. LifeInv' /\ RestType'
    BY <2>1, <2>2, <2>3, StoreInv DEF LifeInv, BusyClaimed, RestType
  <2>5. \A other \in Projects : other # q => Foreign(other)
    BY <2>1, <2>2, <2>3, StoreNoneNew, ObjectsForeign
  <2>6. RunType' /\ \E x : GoesOn(p, x) /\ x.at = run[p].at /\ x.todo = run[p].todo \ {u}
    BY <1>2, <1>7, DropsType
  <2>7. ASSUME NEW x, GoesOn(p, x), x.at = run[p].at, x.todo = run[p].todo \ {u}
        PROVE  Knows(x, q)'
    <3>1. x.at = "setStates" /\ x.goal = run[p].goal /\ ~IsDown(x.act)
      BY <1>1, <1>2, <2>7 DEF GoesOn
    <3>2. ASSUME NEW v \in OfProject(q)', OnePerProject
          PROVE  v \in x.todo \/ cr'[v].desired = x.goal
      <4>1. CASE v = u
        BY <2>1, <2>2, <2>3, <3>1, <3>2, <4>1
        DEF Store, Settled, OfProject, Stored, LifeInv, LifeTypeOK, ObjectsTypeOK
      <4>2. CASE v # u
        <5>1. cr'[v] = cr[v] /\ v \in OfProject(q)
          BY <2>1, <2>3, <3>2, <4>2
          DEF Store, OfProject, Stored, LifeInv, LifeTypeOK, ObjectsTypeOK
        <5>2. v \in run[p].todo \/ cr[v].desired = run[p].goal
          BY <1>1, <1>2, <1>3, <3>2, <5>1 DEF Knows
        <5> QED BY <2>7, <3>1, <4>2, <5>1, <5>2
      <4> QED BY <4>1, <4>2
    <3> QED BY <3>1, <3>2 DEF Knows
  <2> QED BY <1>3, <2>4, <2>5, <2>6, <2>7, GoesOnStep
<1> QED BY <1>5, <1>6, <1>7 DEF SetStates

LEMMA GivesUpStep ==
  ASSUME ComposeInv, NEW p \in Users, GivesUp(p)
  PROVE  Stepped(p)
<1> USE DEF ComposeInv
<1>1. LifeInv' /\ RestType'
  BY ReadInv, UsersRead DEF GivesUp, Forgets, RestType
<1>2. \A other \in Projects : Foreign(other)
  BY <1>1, ObjectsForeign DEF GivesUp, NoneNew
<1> QED BY <1>1, <1>2, EndsStep DEF GivesUp, Results

\* A command begins: it knows nothing yet, whatever the one before it left.
LEMMA InvokeStep ==
  ASSUME ComposeInv, NEW p \in Users, NEW act \in Acts, NEW plan \in PlansOf[p],
         Invoke(p, act, plan)
  PROVE  Stepped(p) /\ \A q \in Projects : Foreign(q)
<1> USE DEF ComposeInv
<1>1. LifeInv' /\ RestType' /\ \A q \in Projects : Foreign(q)
  BY QuietStep DEF Invoke
<1> DEFINE first == CASE act = "up" -> "checkVolumes" [] IsDown(act) -> "containers" [] OTHER -> "list"
           x == [Done(first) EXCEPT !.act = act, !.plan = plan,
                   !.left = IF act = "up" THEN plan.volumes ELSE <<>>,
                   !.goal = IF act \in {"stop", "restart"} THEN "Stopped" ELSE "Running"]
<1>2. run' = [run EXCEPT ![p] = x]
  BY DEF Invoke
<1>3. /\ first \in {"checkVolumes", "containers", "list"} /\ Reaches(act, first)
      /\ first = "checkVolumes" => act = "up"
  BY ActsKnown DEF AllActs, IsDown, Reaches
<1> HIDE DEF first
<1>4. /\ plan \in PlanRecords
      /\ plan.volumes \in Seq(VolumeEntries) \cap Seq(Elems(plan.volumes))
  BY PlanType
<1>5. /\ x.at = first /\ x.act = act /\ x.plan = plan /\ x.todo = {}
      /\ x.left = IF act = "up" THEN plan.volumes ELSE <<>>
      /\ x \in Records
  <2>1. (IF act \in {"stop", "restart"} THEN "Stopped" ELSE "Running") \in DesiredStates
    BY DEF DesiredStates
  <2>2. (IF act = "up" THEN plan.volumes ELSE <<>>) \in Seq(VolumeEntries)
    BY <1>4
  <2> QED BY <1>3, <1>4, <2>1, <2>2 DEF Done, Records, Stages
<1> HIDE DEF x
<1>6. Fits(p, x)
  BY <1>3, <1>4, <1>5 DEF Fits, LeftFits, TodoFits, Stages
<1>7. RunType' /\ run'[p] = x
  BY <1>2, <1>6, RunChanges
<1>8. Knows(run[p], Project(p))'
  BY <1>3, <1>5, <1>7 DEF Knows, ContainersListed, ServicesGone, MapsGone
<1> QED BY <1>1, <1>7, <1>8 DEF Stepped

----------------------------------------------------------------------------
(* All steps.                                                              *)

Command(p) ==
  \/ Up(p) \/ Drop(p) \/ SetState(p) \/ GivesUp(p)
  \/ \E act \in Acts, plan \in PlansOf[p] : Invoke(p, act, plan)

LEMMA CommandStepped ==
  ASSUME ComposeInv, NEW p \in Users, Command(p)
  PROVE  Stepped(p) /\ (run[p].at \in Results => \A q \in Projects : Foreign(q))
<1>1. CASE Up(p)
  BY <1>1, UpKeeps DEF Up, CheckVolume, CheckService, ApplyVolume, ApplyConfigMap,
     ApplyContainer, ApplyService, At, Results
<1>2. CASE Drop(p)
  BY <1>2, DropKeeps DEF Drop, ListContainers, DropContainer, ListServices, DropService, ListMaps,
     DropMap, ListClaims, DropClaim, WaitForEmpty, At, Results
<1>3. CASE SetState(p)
  BY <1>3, ListStatesStep, SetStatesStep, WaitForPhasesStep
  DEF SetState, ListStates, SetStates, WaitForPhases, At, Results
<1>4. CASE GivesUp(p)
  BY <1>4, GivesUpStep DEF GivesUp
<1> QED BY <1>1, <1>2, <1>3, <1>4, InvokeStep DEF Command

\* A command writes its own record only.
LEMMA OthersRun ==
  ASSUME RunType, NEW p \in Users, Command(p), NEW other \in Users, other # p
  PROVE  run'[other] = run[other]
<1>1. run \in [Users -> Records]
  BY DEF RunType
<1> USE DEF Ends, Enters, Shifts, Drops
<1>2. CASE Up(p)
  BY <1>1, <1>2 DEF Up, CheckVolume, CheckService, ApplyVolume, ApplyConfigMap,
     ApplyContainer, ApplyService
<1>3. CASE Drop(p)
  BY <1>1, <1>3 DEF Drop, ListContainers, DropContainer, ListServices, DropService, ListMaps,
     DropMap, AfterMaps, ListClaims, DropClaim, WaitForEmpty
<1>4. CASE SetState(p) \/ GivesUp(p) \/ \E act \in Acts, plan \in PlansOf[p] : Invoke(p, act, plan)
  BY <1>1, <1>4 DEF SetState, ListStates, SetStates, WaitForPhases, GivesUp, Invoke
<1> QED BY <1>2, <1>3, <1>4 DEF Command

\* A command keeps its act until it ends.
LEMMA ActKept ==
  ASSUME RunType, NEW p \in Users, Up(p) \/ Drop(p)
  PROVE  run'[p].act \in {run[p].act, "none"}
<1>1. run \in [Users -> Records]
  BY DEF RunType
<1>2. ASSUME NEW result, Ends(p, result) PROVE run'[p].act = "none"
  BY <1>1, <1>2 DEF Ends, Done
<1>3. ASSUME NEW stage, NEW left, NEW todo, Enters(p, stage, left, todo)
      PROVE  run'[p].act = run[p].act
  BY <1>1, <1>3 DEF Enters, Records
<1>4. Shifts(p) => run'[p].act = run[p].act
  BY <1>1 DEF Shifts, Records
<1>5. \A x : Drops(p, x) => run'[p].act = run[p].act
  BY <1>1 DEF Drops, Records
<1>6. CASE Up(p)
  BY <1>2, <1>3, <1>4, <1>6 DEF Up, CheckVolume, CheckService, ApplyVolume, ApplyConfigMap,
     ApplyContainer, ApplyService
<1>7. CASE ListContainers(p)
  BY <1>1, <1>7 DEF ListContainers, Records
<1>8. CASE Drop(p) /\ ~ListContainers(p)
  BY <1>2, <1>3, <1>5, <1>8 DEF Drop, DropContainer, ListServices, DropService, ListMaps,
     DropMap, AfterMaps, ListClaims, DropClaim, WaitForEmpty
<1> QED BY <1>6, <1>7, <1>8

\* Whose resourceVersion is still current sees the object as it was read.
FreshKept(r) == \A u \in fresh'[r] : u \in fresh[r] /\ cr'[u] = cr[u]

LEMMA StoreFresh ==
  ASSUME LifeInv, NEW u \in UIDs, NEW obj, Store(u, obj), NEW r \in Readers
  PROVE  FreshKept(r)
  BY DEF FreshKept, Store, LifeInv, LifeTypeOK, ObjectsTypeOK

LEMMA SameFresh == ASSUME UNCHANGED objVars, NEW r PROVE FreshKept(r)
  BY DEF FreshKept, objVars

LEMMA PromisedFresh ==
  ASSUME LifeInv, NEW u \in UIDs, Promised(u), NEW r \in Readers
  PROVE  FreshKept(r)
  BY StoreFresh, SameFresh DEF Promised, Claim, Launch, Finish, Release, Report

\* A command reads for itself only.
LEMMA CommandFresh ==
  ASSUME ComposeInv, NEW p \in Users, Command(p), NEW r \in Readers,
         r # p \/ (run[p].at = "setStates" /\ run'[p].at = "setStates")
  PROVE  FreshKept(r)
<1>1. LifeInv /\ run \in [Users -> Records] /\ fresh \in [Readers -> SUBSET UIDs] /\ p \in Readers
  BY UsersRead DEF ComposeInv, RunType, LifeInv, LifeTypeOK, ObjectsTypeOK
<1>2. ASSUME NEW us, Read(p, us), UNCHANGED cr, r # p PROVE FreshKept(r)
  BY <1>1, <1>2 DEF Read, FreshKept
<1>3. ASSUME NEW u \in UIDs, \/ \E n, g : CreateContainer(u, n, g)
                             \/ \E obj : Store(u, obj)
                             \/ DeleteContainer(u)
      PROVE  FreshKept(r)
  BY <1>1, <1>3, StoreFresh DEF CreateContainer, DeleteContainer
<1>4. CASE Up(p)
  BY <1>3, <1>4, SameFresh DEF Up, CheckVolume, CheckService, ApplyVolume, ApplyConfigMap,
     ApplyContainer, ApplyService, lifeVars, objVars, Named, Stored
<1>5. CASE Drop(p)
  BY <1>3, <1>5, SameFresh DEF Drop, ListContainers, DropContainer, ListServices, DropService, ListMaps,
     DropMap, ListClaims, DropClaim, WaitForEmpty, lifeVars, objVars, Named, Stored
<1>6. CASE ListStates(p)
  BY <1>2, <1>6, SameFresh DEF ListStates, At, objVars
<1>7. CASE SetStates(p)
  <2>1. run[p].at = "setStates" /\ run[p].todo \subseteq UIDs
    BY <1>7, DropUnderWay DEF SetStates, At, Fits, TodoFits, Stages
  <2>2. CASE r = p
    <3>1. ~Enters(p, "waitPhases", Plan(p).services, {}) /\ ~Ends(p, "error")
      BY <1>1, <2>2 DEF Enters, Ends, Done, Records
    <3> QED BY <1>3, <1>7, <2>1, <3>1 DEF SetStates
  <2>3. CASE r # p
    BY <1>2, <1>3, <1>7, <2>1, <2>3 DEF SetStates, Forgets
  <2> QED BY <2>2, <2>3
<1>8. CASE WaitForPhases(p) \/ \E act \in Acts, plan \in PlansOf[p] : Invoke(p, act, plan)
  BY <1>8, SameFresh DEF WaitForPhases, Invoke, lifeVars, objVars
<1>9. CASE GivesUp(p)
  BY <1>1, <1>2, <1>9 DEF GivesUp, Forgets, Ends, Done
<1> QED BY <1>4, <1>5, <1>6, <1>7, <1>8, <1>9 DEF Command, SetState

\* What SetState holds while it is at work was listed when it began.
LEMMA FreshOwnCommand ==
  ASSUME ComposeInv, NEW p \in Users, Command(p), Stepped(p)
  PROVE  FreshOwn'
<1>1. RunType /\ RunType' /\ run \in [Users -> Records] /\ Users \subseteq Readers
  BY UsersRead DEF ComposeInv, RunType, Stepped
<1>2. ASSUME NEW r \in Users, FreshKept(r), run[r].at = "setStates", run'[r].plan = run[r].plan
      PROVE  fresh'[r] \subseteq OfProject(Project(r))'
  <2>1. fresh[r] \subseteq OfProject(Project(r)) /\ Project(r)' = Project(r)
    BY <1>2 DEF ComposeInv, FreshOwn, Project
  <2> QED BY <1>1, <1>2, <2>1 DEF FreshKept, OfProject, Stored
<1>3. ASSUME NEW r \in Users, r # p, run'[r].at = "setStates"
      PROVE  fresh'[r] \subseteq OfProject(Project(r))'
  BY <1>1, <1>2, <1>3, OthersRun, CommandFresh
<1>4. ASSUME run'[p].at = "setStates"
      PROVE  fresh'[p] \subseteq OfProject(Project(p))'
  <2>1. Reaches(run[p].act, "setStates")' /\ run'[p].act # "none"
    <3>1. PICK r : r = run'[p]
      OBVIOUS
    <3>2. Fits(p, r)' /\ r.at = "setStates"
      BY <1>1, <1>4, <3>1, UnderWay, DoneType DEF RunType, Results
    <3> QED BY <3>1, <3>2, ActsKnown DEF Fits, Reaches, AllActs
  <2>2. ~Up(p) /\ ~Drop(p)
    <3>1. SUFFICES ASSUME Up(p) \/ Drop(p) PROVE FALSE
      OBVIOUS
    <3>2. run'[p].act = run[p].act
      BY <1>1, <2>1, <3>1, ActKept
    <3>3. Fits(p, run[p]) /\ run[p].at \notin {"list", "setStates", "waitPhases"}
      BY <1>1, <3>1, UnderWay DEF Up, CheckVolume, CheckService, ApplyVolume, ApplyConfigMap,
         ApplyContainer, ApplyService, Drop, ListContainers, DropContainer, ListServices, DropService,
         ListMaps, DropMap, ListClaims, DropClaim, WaitForEmpty, At, Results
    <3> QED BY <2>1, <3>2, <3>3 DEF Fits, Reaches, Stages
  <2>3. ~WaitForPhases(p) /\ ~GivesUp(p) /\ \A act \in Acts, plan \in PlansOf[p] : ~Invoke(p, act, plan)
    <3>1. ASSUME WaitForPhases(p) PROVE FALSE
      BY <1>1, <1>4, <3>1 DEF WaitForPhases, At, Ends, Shifts, Done, Records
    <3>2. ASSUME NEW act, NEW plan, Invoke(p, act, plan) PROVE FALSE
      <4>1. run'[p].at = CASE act = "up" -> "checkVolumes" [] IsDown(act) -> "containers" [] OTHER -> "list"
        BY <1>1, <3>2 DEF Invoke, Done
      <4> QED BY <1>4, <4>1
    <3>3. ~GivesUp(p)
      BY <1>1, <1>4 DEF GivesUp, Ends, Done
    <3> QED BY <3>1, <3>2, <3>3
  <2>4. CASE ListStates(p)
    <3>1. PICK listed : listed = OfProject(Project(p))
      OBVIOUS
    <3>2. /\ Enters(p, "setStates", <<>>, listed) /\ Read(p, listed) /\ UNCHANGED cr
      BY <1>1, <1>4, <2>4, <3>1 DEF ListStates, Ends, Done
    <3>3. run'[p].plan = run[p].plan
      BY <1>1, <3>2 DEF Enters, Records
    <3>4. fresh'[p] = listed
      BY <1>1, <3>2 DEF Read, ComposeInv, LifeInv, LifeTypeOK, ObjectsTypeOK
    <3> QED BY <3>1, <3>2, <3>3, <3>4 DEF OfProject, Stored, Project
  <2>5. CASE SetStates(p)
    <3>1. PICK u \in run[p].todo : Drops(p, u)
      <4>1. ~Enters(p, "waitPhases", Plan(p).services, {}) /\ ~Ends(p, "error")
        BY <1>1, <1>4 DEF Enters, Ends, Done, Records
      <4> QED BY <2>5, <4>1 DEF SetStates
    <3>2. run'[p].plan = run[p].plan /\ run[p].at = "setStates"
      BY <1>1, <2>5, <3>1 DEF SetStates, At, Drops, Records
    <3> QED BY <1>1, <1>2, <1>4, <3>2, CommandFresh
  <2> QED BY <2>2, <2>3, <2>4, <2>5 DEF Command, SetState
<1> QED BY <1>3, <1>4 DEF FreshOwn

\* Where the next step leads while every command keeps to its project.
LEMMA CommandKnows ==
  ASSUME ComposeInv, NEW p \in Users, Command(p), Stepped(p)
  PROVE  KnowsAll'
<1>1. SUFFICES ASSUME NEW r \in Users, r # p, OnePerProject
               PROVE  Knows(run[r], Project(r))'
  BY DEF KnowsAll, Stepped, Knows
<1>2. PICK x, q : x = run[r] /\ q = Project(r)
  OBVIOUS
<1>3. RunType /\ Knows(x, q) /\ run'[r] = x
  BY <1>1, <1>2, OthersRun DEF ComposeInv, KnowsAll
<1>4. CASE \E result \in Results : x = Done(result)
  BY <1>2, <1>3, <1>4, DoneKnows DEF Knows
<1>5. CASE Fits(r, x)
  <2>1. q \in Projects
    BY <1>2, <1>5, PlanType DEF Fits, Project
  <2>2. Foreign(q)
    <3>1. CASE run[p].at \in Results
      BY <2>1, <3>1, CommandStepped
    <3>2. CASE run[p].at \notin Results
      <4>1. run[p].plan \in PlansOf[p] /\ x.plan \in PlansOf[r]
        BY <1>3, <1>5, <3>2, UnderWay DEF Fits
      <4>2. Project(p) # q
        BY <1>1, <1>2, <4>1 DEF OnePerProject, Project
      <4> QED BY <2>1, <4>2 DEF Stepped
    <3> QED BY <3>1, <3>2
  <2>3. Knows(x, q)'
    BY <1>3, <2>2, ForeignKnown
  <2> QED BY <1>2, <1>3, <2>3 DEF Knows, Project
<1> QED BY <1>2, <1>3, <1>4, <1>5 DEF RunType

LEMMA InitInv == ComposeInit => ComposeInv
<1> SUFFICES ASSUME ComposeInit PROVE ComposeInv
  OBVIOUS
<1>1. RunType
  BY DoneType DEF ComposeInit, RunType, Results
<1>2. LifeInv
  BY DEF ComposeInit, LifeInit, ObjectsInit, LifeInv, LifeTypeOK, ObjectsTypeOK, FreshStored,
     NoneReleased, BusyClaimed
<1>3. RestType
  BY DEF ComposeInit, RestType
<1>4. FreshOwn
  BY DoneType DEF ComposeInit, FreshOwn, Done, Results
<1>5. KnowsAll
  BY DoneKnows DEF ComposeInit, KnowsAll, Results
<1> QED BY <1>1, <1>2, <1>3, <1>4, <1>5 DEF ComposeInv

LEMMA NextInv ==
  ASSUME ComposeInv, [ComposeNext]_composeVars
  PROVE  ComposeInv'
<1>1. CASE UNCHANGED composeVars
  <2>1. UNCHANGED <<cr, fresh, busy, svc, map, claim, run>>
    BY <1>1 DEF composeVars, lifeVars
  <2>2. RunType' /\ RestType' /\ LifeInv'
    BY <2>1, LifeUnchanged DEF ComposeInv, RunType, Fits, Records, LeftFits, TodoFits, RestType, lifeVars
  <2>3. FreshOwn'
    BY <2>1 DEF ComposeInv, FreshOwn, OfProject, Stored, Project
  <2>4. KnowsAll'
    BY <2>1 DEF ComposeInv, KnowsAll, Knows, OfProject, Stored, Project, ServicesOf, MapsOf, ClaimsOf
  <2> QED BY <2>2, <2>3, <2>4 DEF ComposeInv
<1>2. ASSUME NEW u \in UIDs, Promised(u), UNCHANGED <<svc, map, claim, run>>
      PROVE  ComposeInv'
  <2>1. LifeInv' /\ \A q : NoneNew(q)
    BY <1>2, PromisedStep DEF ComposeInv
  <2>2. RunType' /\ RestType'
    BY <1>2 DEF ComposeInv, RunType, Fits, Records, LeftFits, TodoFits, RestType
  <2>3. \A q : Foreign(q)
    BY <1>2, <2>1, ObjectsForeign DEF ComposeInv
  <2>4. ASSUME NEW r \in Users PROVE Knows(run[r], Project(r))'
    <3>1. PICK x, q : x = run[r] /\ q = Project(r)
      OBVIOUS
    <3>2. Knows(x, q)
      BY <3>1 DEF ComposeInv, KnowsAll
    <3>3. Knows(x, q)'
      BY <2>3, <3>2, ForeignKnown
    <3> QED BY <1>2, <3>1, <3>3 DEF Knows, Project
  <2>5. FreshOwn'
    <3>1. \A r \in Users : FreshKept(r) /\ fresh'[r] \subseteq UIDs
      BY <1>2, <2>1, PromisedFresh, UsersRead DEF ComposeInv, LifeInv, LifeTypeOK, ObjectsTypeOK
    <3> QED BY <1>2, <3>1 DEF ComposeInv, FreshOwn, FreshKept, OfProject, Stored, Project
  <2> QED BY <2>1, <2>2, <2>4, <2>5 DEF ComposeInv, KnowsAll
<1>3. ASSUME NEW p \in Users, Command(p) PROVE ComposeInv'
  BY <1>3, CommandStepped, CommandKnows, FreshOwnCommand DEF ComposeInv, Stepped
<1> QED BY <1>1, <1>2, <1>3 DEF ComposeNext, Command

\* Every command keeps its type, and knows of its project what it has to,
\* whatever the others and the controller do in between (apply.go:26-297,
\* cli/compose.go:51-213).
THEOREM ComposeCorrect == ComposeSpec => []ComposeInv
  BY InitInv, NextInv, PTL DEF ComposeSpec

----------------------------------------------------------------------------
(* The results.                                                            *)

LEMMA InvTypeOK == ComposeInv => ComposeTypeOK
<1> SUFFICES ASSUME ComposeInv PROVE ComposeTypeOK
  OBVIOUS
<1>1. ASSUME NEW p \in Users, NEW result \in Results, run[p] = Done(result)
      PROVE  run[p].at \in Results /\ run[p] = Done(run[p].at)
  BY <1>1, DoneType
<1>2. ASSUME NEW p \in Users, run[p].at \in Results PROVE run[p] = Done(run[p].at)
  BY <1>1, <1>2 DEF ComposeInv, RunType, Fits, Results, Stages
<1>3. ASSUME NEW p \in Users, run[p].at \notin Results PROVE Fits(p, run[p])
  BY <1>3, UnderWay DEF ComposeInv
<1> QED BY <1>2, <1>3 DEF ComposeTypeOK, ComposeInv, LifeInv, RestType, Fits, Records

\* Every command holds, at every stage, a list and a set of the kind it goes
\* through there, and the stored Services, ConfigMaps and claims carry a
\* project, whatever the users interleave (apply.go:26-297).
THEOREM ComposeTypeCorrect == ComposeSpec => []ComposeTypeOK
  BY ComposeCorrect, InvTypeOK, PTL

\* With one user per project: stop, start or the half of restart that reports
\* success has reached every workload of the project (apply.go:216-243).
THEOREM WorkloadsReached ==
  ASSUME OnePerProject
  PROVE  ComposeSpec => StateReachesEveryWorkload
<1>1. ComposeInv => \A p \in Users : At(p, "waitPhases") /\ run'[p].at \in {"ok", "list"} =>
                      \A u \in OfProject(Project(p)) : cr[u].desired = run[p].goal
  BY DEF ComposeInv, KnowsAll, Knows, At
<1> QED BY <1>1, ComposeCorrect, PTL DEF StateReachesEveryWorkload

\* Only a down that was not cut short reports success after its last wait.
LEMMA DownEnds ==
  ASSUME ComposeInv, [ComposeNext]_composeVars, NEW p \in Users,
         At(p, "waitEmpty"), run'[p].at = "ok"
  PROVE  run[p].waits => OfProject(Project(p)) = {}
<1>1. RunType /\ run \in [Users -> Records] /\ run' # run
  BY DEF ComposeInv, RunType, At
<1>2. Command(p)
  <2>1. PICK r \in Users : Command(r)
    BY <1>1 DEF ComposeNext, Command, composeVars
  <2> QED BY <1>1, <2>1, OthersRun DEF At
<1>3. WaitForEmpty(p)
  <2>1. ~Up(p) /\ ~SetState(p)
    BY DEF At, Up, CheckVolume, CheckService, ApplyVolume, ApplyConfigMap, ApplyContainer, ApplyService,
       SetState, ListStates, SetStates, WaitForPhases
  <2>2. ~GivesUp(p) /\ \A act \in Acts, plan \in PlansOf[p] : ~Invoke(p, act, plan)
    BY <1>1 DEF At, GivesUp, Invoke, Ends, Done, Results
  <2>3. Drop(p) => WaitForEmpty(p)
    BY DEF At, Drop, ListContainers, DropContainer, ListServices, DropService, ListMaps, DropMap,
       ListClaims, DropClaim
  <2> QED BY <1>2, <2>1, <2>2, <2>3 DEF Command
<1> QED BY <1>3 DEF WaitForEmpty

\* With one user per project: when down reports success nothing of the project
\* is stored, nothing runs for it, and with --volumes its claims are gone
\* (apply.go:245-297).
THEOREM DownComplete ==
  ASSUME OnePerProject
  PROVE  ComposeSpec => DownLeavesNothing
<1>1. ASSUME ComposeInv, [ComposeNext]_composeVars, NEW p \in Users,
             At(p, "waitEmpty"), run'[p].at = "ok", NEW q, q = Project(p)
      PROVE  /\ OfProject(q) = {}
             /\ \A u \in busy : Exists(u) /\ ProjectOf[cr[u].config] # q
             /\ \A s \in Services : svc[s] # Absent => svc[s].project # q
             /\ \A m \in Maps : map[m] # Absent => map[m].project # q
             /\ run[p].act = "downVolumes" => \A v \in Claims : claim[v] # q
  <2>1. Knows(run[p], q) /\ IsDown(run[p].act) /\ run[p].at = "waitEmpty"
    BY <1>1, DropUnderWay DEF At, Fits, Reaches, IsDown, Stages
  <2>2. OfProject(q) = {}
    BY <1>1, <2>1, DownEnds DEF Knows, ContainersListed
  <2>3. ServicesOf(q) = {} /\ MapsOf(q) = {} /\ (run[p].act = "downVolumes" => ClaimsOf(q) = {})
    BY <2>1 DEF Knows, ServicesGone, MapsGone
  <2>4. \A u \in busy : Exists(u) /\ u \in UIDs
    BY <1>1 DEF ComposeInv, LifeInv, BusyClaimed, LifeTypeOK
  <2> QED BY <2>2, <2>3, <2>4 DEF OfProject, Stored, ServicesOf, MapsOf, ClaimsOf
<1>2. ComposeInv /\ [ComposeNext]_composeVars =>
        \A p \in Users : (At(p, "waitEmpty") /\ run'[p].at = "ok") =>
          LET q == Project(p) IN
          /\ OfProject(q) = {}
          /\ \A u \in busy : Exists(u) /\ ProjectOf[cr[u].config] # q
          /\ \A s \in Services : svc[s] # Absent => svc[s].project # q
          /\ \A m \in Maps : map[m] # Absent => map[m].project # q
          /\ run[p].act = "downVolumes" => \A v \in Claims : claim[v] # q
  BY <1>1
<1> QED BY <1>2, ComposeCorrect, PTL DEF ComposeSpec, DownLeavesNothing

\* With one user per project: a claim goes away only in a down --volumes of the
\* project that made it (apply.go:30-38, 274-284).
THEOREM DataKept ==
  ASSUME OnePerProject
  PROVE  ComposeSpec => DataSurvives
<1>1. ASSUME ComposeInv, [ComposeNext]_composeVars, NEW v \in Claims, claim'[v] # claim[v]
      PROVE  \/ claim[v] = Absent
             \/ \E p \in Users : run[p].act = "downVolumes" /\ Project(p) = claim[v]
  <2>1. PICK p \in Users : ApplyVolume(p) \/ DropClaim(p)
    BY <1>1 DEF ComposeNext, composeVars, Up, CheckVolume, CheckService, ApplyConfigMap, ApplyContainer,
       ApplyService, Drop, ListContainers, DropContainer, ListServices, DropService, ListMaps, DropMap,
       ListClaims, WaitForEmpty, SetState, ListStates, SetStates, WaitForPhases, GivesUp, Invoke
  <2>2. claim \in [Claims -> Projects \cup {Absent, Unlabelled}]
    BY <1>1 DEF ComposeInv, RestType
  <2>3. CASE ApplyVolume(p)
    BY <1>1, <2>2, <2>3 DEF ApplyVolume
  <2>4. CASE DropClaim(p)
    <3>1. /\ run[p].at = "dropClaims" /\ run[p].act = "downVolumes"
          /\ Knows(run[p], Project(p))
      BY <1>1, <2>4, DropUnderWay DEF DropClaim, At, Stages, Fits, Reaches
    <3>2. ClaimsOf(Project(p)) = run[p].todo
      BY <3>1 DEF Knows, IsDown
    <3>3. v \in run[p].todo
      BY <1>1, <2>2, <2>4 DEF DropClaim
    <3> QED BY <3>1, <3>2, <3>3 DEF ClaimsOf
  <2> QED BY <2>1, <2>3, <2>4
<1>2. ComposeInv /\ [ComposeNext]_composeVars =>
        \A v \in Claims : claim'[v] # claim[v] =>
          \/ claim[v] = Absent
          \/ \E p \in Users : run[p].act = "downVolumes" /\ Project(p) = claim[v]
  BY <1>1
<1> QED BY <1>2, ComposeCorrect, PTL DEF ComposeSpec, DataSurvives

----------------------------------------------------------------------------
(* The commands are clients as Lifecycle takes them.                       *)

LEMMA StoreSeen ==
  ASSUME NEW u \in UIDs, NEW obj, Store(u, obj)
  PROVE  Seen!Store(u, obj)
  BY DEF Store, Settled, Seen!Store, Seen!Settled

\* A write of what is stored already.
LEMMA SameSeen ==
  ASSUME LifeInv, NEW u \in UIDs, Exists(u), Store(u, cr[u])
  PROVE  UNCHANGED cr
  BY DEF LifeInv, LifeTypeOK, ObjectsTypeOK, NoneReleased, Store, Settled

LEMMA QuietSeen == ASSUME UNCHANGED <<cr, busy>> PROVE UNCHANGED Seen!lifeVars
  BY DEF Seen!lifeVars

LEMMA InitSeen == ComposeInit => Seen!LifeInit
  BY DEF ComposeInit, LifeInit, ObjectsInit, Seen!LifeInit, Seen!ObjectsInit

LEMMA PromisedSeen ==
  ASSUME LifeInv, NEW u \in UIDs, Promised(u)
  PROVE  Seen!Promised(u)
<1> USE DEF Seen!Exists, Seen!Promised
<1>1. CASE Claim(u)
  <2>1. PICK obj : obj = [cr[u] EXCEPT !.fin = TRUE]
    OBVIOUS
  <2>2. Seen!Store(u, obj)
    BY <1>1, <2>1, StoreSeen DEF Claim, Store
  <2>3. Seen!Claim(u)
    BY <1>1, <2>1, <2>2 DEF Claim, Seen!Claim, Seen!Store
  <2> QED BY <2>3
<1>2. CASE Launch(u)
  BY <1>2 DEF Launch, objVars, Seen!Launch, Seen!objVars
<1>3. CASE Finish(u)
  BY <1>3 DEF Finish, objVars, Seen!Finish, Seen!objVars
<1>4. CASE Release(u)
  <2>1. PICK obj : obj = [cr[u] EXCEPT !.fin = FALSE]
    OBVIOUS
  <2>2. Seen!Store(u, obj)
    BY <1>4, <2>1, StoreSeen DEF Release, Store
  <2>3. Seen!Release(u)
    BY <1>4, <2>1, <2>2 DEF Release, Seen!Release, Seen!Store
  <2> QED BY <2>3
<1>5. ASSUME NEW phase \in Reported, Report(u, phase)
      PROVE  Seen!Report(u, phase)
  <2>1. PICK obj : obj = [cr[u] EXCEPT !.phase = phase]
    OBVIOUS
  <2>2. Seen!Store(u, obj)
    BY <1>5, <2>1, StoreSeen DEF Report, Store
  <2> QED BY <1>5, <2>1, <2>2 DEF Report, Seen!Report, Seen!Store, PodPhases, Seen!PodPhases
<1> QED BY <1>1, <1>2, <1>3, <1>4, <1>5 DEF Promised

LEMMA CommandSeen ==
  ASSUME ComposeInv, NEW p \in Users, Command(p)
  PROVE  Seen!LifeNext \/ UNCHANGED Seen!lifeVars
<1> USE DEF ComposeInv
<1> USE DEF Seen!Exists, Seen!Named, Seen!Stored, Named, Stored
<1>1. CASE UNCHANGED <<cr, busy>>
  BY <1>1, QuietSeen
<1>2. ASSUME NEW u \in UIDs, DeleteContainer(u), UNCHANGED busy PROVE Seen!LifeNext
  <2>1. PICK obj : obj = [cr[u] EXCEPT !.deleting = TRUE]
    OBVIOUS
  <2>2. Seen!Store(u, obj)
    BY <1>2, <2>1, StoreSeen DEF DeleteContainer, Store
  <2>3. Seen!DeleteContainer(u)
    BY <1>2, <2>1, <2>2 DEF DeleteContainer, Seen!DeleteContainer, Seen!Store
  <2> QED BY <1>2, <2>3 DEF Seen!LifeNext, Seen!Use
<1>3. ASSUME NEW u \in UIDs, NEW n \in Names, NEW g \in Configs, CreateContainer(u, n, g), UNCHANGED busy
      PROVE  Seen!LifeNext
  <2>1. Seen!Store(u, NewContainer(n, g)) /\ NewContainer(n, g) = Seen!NewContainer(n, g)
    BY <1>3, StoreSeen DEF CreateContainer, NewContainer, Seen!NewContainer, NoPhase, Seen!NoPhase
  <2>2. Seen!CreateContainer(u, n, g)
    BY <1>3, <2>1 DEF CreateContainer, Seen!CreateContainer
  <2> QED BY <1>3, <2>2 DEF Seen!LifeNext, Seen!Use
<1>4. ASSUME NEW u \in Stored, NEW g \in Configs, UNCHANGED busy,
             Store(u, [cr[u] EXCEPT !.config = g, !.desired = "Running"])
      PROVE  Seen!LifeNext \/ UNCHANGED Seen!lifeVars
  <2>1. PICK obj : obj = [cr[u] EXCEPT !.config = g, !.desired = "Running"]
    OBVIOUS
  <2>2. Store(u, obj)
    BY <1>4, <2>1 DEF Store
  <2>3. CASE <<cr[u].config, cr[u].desired>> = <<g, "Running">>
    <3>1. obj = cr[u]
      BY <1>4, <2>1, <2>3, StoredIsObject DEF ContainerObjects
    <3>2. Store(u, cr[u])
      BY <2>2, <3>1 DEF Store
    <3> QED BY <1>4, <3>2, SameSeen, QuietSeen
  <2>4. CASE <<cr[u].config, cr[u].desired>> # <<g, "Running">>
    <3>1. Seen!Store(u, obj)
      BY <1>4, <2>2, StoreSeen
    <3>2. Seen!SetSpec(u, g)
      BY <1>4, <2>1, <2>4, <3>1 DEF Seen!SetSpec, Seen!Store
    <3> QED BY <1>4, <3>2 DEF Seen!LifeNext, Seen!Use
  <2> QED BY <2>3, <2>4
<1>5. ASSUME NEW u \in Stored, NEW d \in DesiredStates, UNCHANGED busy,
             Store(u, [cr[u] EXCEPT !.desired = d])
      PROVE  Seen!LifeNext \/ UNCHANGED Seen!lifeVars
  <2>1. PICK obj : obj = [cr[u] EXCEPT !.desired = d]
    OBVIOUS
  <2>2. Store(u, obj)
    BY <1>5, <2>1 DEF Store
  <2>3. CASE cr[u].desired = d
    <3>1. obj = cr[u]
      BY <1>5, <2>1, <2>3, StoredIsObject DEF ContainerObjects
    <3>2. Store(u, cr[u])
      BY <2>2, <3>1 DEF Store
    <3> QED BY <1>5, <3>2, SameSeen, QuietSeen
  <2>4. CASE cr[u].desired # d
    <3>1. Seen!Store(u, obj)
      BY <1>5, <2>2, StoreSeen
    <3>2. d \in Seen!DesiredStates /\ Seen!SetDesiredState(u, d)
      BY <1>5, <2>1, <2>4, <3>1 DEF Seen!SetDesiredState, Seen!Store, DesiredStates, Seen!DesiredStates
    <3> QED BY <1>5, <3>2 DEF Seen!LifeNext, Seen!Use
  <2> QED BY <2>3, <2>4
<1>6. CASE ApplyContainer(p)
  <2>1. CASE UNCHANGED objVars
    BY <1>1, <1>6, <2>1 DEF ApplyContainer, objVars
  <2>2. CASE ~UNCHANGED objVars
    <3>1. PICK s : s = Head(run[p].left)
      OBVIOUS
    <3>2. Fits(p, run[p]) /\ run[p].at = "workloads" /\ run[p].left # <<>>
      BY <1>6, <2>2, UpUnderWay DEF ApplyContainer, At
    <3>3. s.container \in Names /\ s.config \in Configs
      BY <3>1, <3>2, OwnService DEF ServiceEntries
    <3>4. \/ \E u \in UIDs : CreateContainer(u, s.container, s.config)
          \/ \E u \in Stored : Store(u, [cr[u] EXCEPT !.config = s.config, !.desired = "Running"])
      BY <1>6, <2>2, <3>1, <3>2 DEF ApplyContainer
    <3> QED BY <1>3, <1>4, <1>6, <3>3, <3>4 DEF ApplyContainer
  <2> QED BY <2>1, <2>2
<1>7. CASE DropContainer(p)
  BY <1>1, <1>2, <1>7 DEF DropContainer, objVars
<1>8. CASE SetStates(p)
  <2>1. CASE UNCHANGED cr
    BY <1>1, <1>8, <2>1 DEF SetStates
  <2>2. ASSUME NEW u \in run[p].todo, u \in fresh[p], Store(u, [cr[u] EXCEPT !.desired = run[p].goal])
        PROVE  Seen!LifeNext \/ UNCHANGED Seen!lifeVars
    <3>1. u \in Stored /\ run[p].goal \in DesiredStates
      BY <1>8, <2>2, DropUnderWay DEF SetStates, At, FreshOwn, OfProject, Fits, Records, Stages
    <3> QED BY <1>5, <1>8, <2>2, <3>1 DEF SetStates
  <2> QED BY <1>8, <2>1, <2>2 DEF SetStates
<1> QED BY <1>1, <1>6, <1>7, <1>8 DEF Command, Up, CheckVolume, CheckService, ApplyVolume, ApplyConfigMap,
      ApplyService, Drop, ListContainers, ListServices, DropService, ListMaps, DropMap,
      ListClaims, DropClaim, WaitForEmpty, SetState, ListStates, WaitForPhases, GivesUp, Invoke, lifeVars, objVars

\* Any number of users with compose commands, beside a controller that keeps
\* Lifecycle's promises, keep to Lifecycle's rules for clients: what is proved
\* of the controller among arbitrary clients holds among them (apply.go:79-120,
\* 223-243, 252-262).
THEOREM LifecycleKept == ComposeSpec => ImplementsLifecycle
<1>1. ComposeInv /\ [ComposeNext]_composeVars => [Seen!LifeNext]_(Seen!lifeVars)
  <2> SUFFICES ASSUME ComposeInv, [ComposeNext]_composeVars
               PROVE  Seen!LifeNext \/ UNCHANGED Seen!lifeVars
    OBVIOUS
  <2>1. CASE UNCHANGED composeVars
    BY <2>1, QuietSeen DEF composeVars, lifeVars
  <2>2. CASE \E u \in UIDs : Promised(u)
    BY <2>2, PromisedSeen DEF ComposeInv, Seen!LifeNext
  <2>3. CASE \E p \in Users : Command(p)
    BY <2>3, CommandSeen
  <2> QED BY <2>1, <2>2, <2>3 DEF ComposeNext, Command
<1> QED BY <1>1, InitSeen, ComposeCorrect, PTL DEF ComposeSpec, ImplementsLifecycle, Seen!LifeSpec
=============================================================================
