---------------------------- MODULE ComposeUpProofs ----------------------------
(***************************************************************************)
(* compose up leaves the plan and nothing else, for every set of projects, *)
(* plans, users and objects, while users do not share names.               *)
(***************************************************************************)
EXTENDS ComposeProofs

USE DEF Exists

----------------------------------------------------------------------------
(* Plans.                                                                  *)

ContainersIn(plan) == {plan.services[i].container : i \in DOMAIN plan.services}
ServicesIn(plan)   == {plan.services[i].service : i \in DOMAIN plan.services}
MapsIn(plan)       == {plan.configs[i].map : i \in DOMAIN plan.configs}
ClaimsIn(plan)     == {plan.volumes[i].claim : i \in DOMAIN plan.volumes}

\* No two users work on one project, nor share the name of a container, a
\* Service or a claim.
UsersApart ==
  \A p1, p2 \in Users : p1 # p2 =>
    \A plan1 \in PlansOf[p1], plan2 \in PlansOf[p2] :
      /\ plan1.project # plan2.project
      /\ ContainersIn(plan1) \cap ContainersIn(plan2) = {}
      /\ ServicesIn(plan1) \cap ServicesIn(plan2) = {}
      /\ ClaimsIn(plan1) \cap ClaimsIn(plan2) = {}

\* What has one name in a plan is one thing.
PlansConsistent ==
  \A p \in Users : \A plan \in PlansOf[p] :
    /\ \A d, e \in Elems(plan.services) :
         /\ d.container = e.container => d.config = e.config
         /\ d.service = e.service => d.container = e.container
    /\ \A d, e \in Elems(plan.configs) : d.map = e.map => d.data = e.data

LEMMA ApartProjects == ASSUME UsersApart PROVE OnePerProject
  BY DEF UsersApart, OnePerProject

LEMMA HeadAndTail ==
  ASSUME NEW S, NEW s \in Seq(S), s # <<>>
  PROVE  /\ Head(s) \in Elems(s) /\ Head(s) \in S
         /\ \A e \in Elems(s) : e = Head(s) \/ e \in Elems(Tail(s))
<1>1. Len(s) \in Nat \ {0} /\ DOMAIN s = 1 .. Len(s) /\ Head(s) = s[1]
  OBVIOUS
<1>2. Tail(s) \in Seq(S) /\ Len(Tail(s)) = Len(s) - 1 /\ DOMAIN Tail(s) = 1 .. Len(s) - 1
  BY <1>1
<1>3. ASSUME NEW i \in 2 .. Len(s) PROVE i - 1 \in DOMAIN Tail(s) /\ Tail(s)[i - 1] = s[i]
  <2>1. i - 1 \in 1 .. Len(s) - 1 /\ (i - 1) + 1 = i
    BY <1>1
  <2>2. Tail(s)[i - 1] = s[(i - 1) + 1]
    BY <1>1, <2>1
  <2> QED BY <1>2, <2>1, <2>2
<1>4. \A i \in 2 .. Len(s) : s[i] \in Elems(Tail(s))
  BY <1>3 DEF Elems
<1>5. \A i \in DOMAIN s : i = 1 \/ i \in 2 .. Len(s)
  BY <1>1
<1> QED BY <1>1, <1>4, <1>5 DEF Elems

LEMMA ElemsOf ==
  ASSUME NEW S, NEW s \in Seq(S)
  PROVE  Elems(s) \subseteq S /\ Elems(<<>>) = {}
  BY DEF Elems

\* The names of a plan's entries, and the project in its specs.
LEMMA EntriesNamed ==
  ASSUME NEW p \in Users, NEW plan \in PlansOf[p]
  PROVE  /\ plan.project \in Projects
         /\ \A e \in Elems(plan.services) :
              /\ e \in ServiceEntries /\ ProjectOf[e.config] = plan.project
              /\ e.container \in ContainersIn(plan) /\ e.service \in ServicesIn(plan)
         /\ \A e \in Elems(plan.configs) : e \in ConfigEntries /\ e.map \in MapsIn(plan)
         /\ \A e \in Elems(plan.volumes) : e \in VolumeEntries /\ e.claim \in ClaimsIn(plan)
<1>1. /\ plan.project \in Projects /\ plan.volumes \in Seq(VolumeEntries)
      /\ plan.configs \in Seq(ConfigEntries) /\ plan.services \in Seq(ServiceEntries)
  BY PlanType
<1>2. /\ Elems(plan.services) \subseteq ServiceEntries /\ Elems(plan.configs) \subseteq ConfigEntries
      /\ Elems(plan.volumes) \subseteq VolumeEntries
  BY <1>1, ElemsOf
<1> QED BY <1>1, <1>2, PlansLabelled DEF Elems, ContainersIn, ServicesIn, MapsIn, ClaimsIn

\* What removeStale keeps is what the plan has.
LEMMA WantedIs ==
  ASSUME NEW p, run[p].act = "up"
  PROVE  /\ Wanted(p, "container") = ContainersIn(run[p].plan)
         /\ Wanted(p, "service") = ServicesIn(run[p].plan)
         /\ WantedMaps(p) = MapsIn(run[p].plan)
  BY DEF Wanted, WantedMaps, IsDown, ContainersIn, ServicesIn, MapsIn, Plan

----------------------------------------------------------------------------
(* The invariant.  Of each list of its plan, what up has not yet dealt     *)
(* with is left in its list; all else is as the plan says.                 *)

UniqueNames == \A u, v \in Stored : cr[u].name = cr[v].name => u = v

\* Services and claims come from the plans of their project.
ServicesPlanned == \A s \in Services : svc[s] # Absent =>
  \E p \in Users : \E plan \in PlansOf[p] : plan.project = svc[s].project /\ s \in ServicesIn(plan)
ClaimsPlanned == \A v \in Claims : claim[v] \in Projects =>
  \E p \in Users : \E plan \in PlansOf[p] : plan.project = claim[v] /\ v \in ClaimsIn(plan)

\* The Services and ConfigMaps command r of user p deletes are its own.
TodoOwn(p, r, q) ==
  /\ r.at = "dropServices" => \A s \in r.todo : \E plan \in PlansOf[p] : s \in ServicesIn(plan)
  /\ r.at = "dropMaps" => r.todo \subseteq MapsOf(q)

Claimed(e)   == claim[e.claim] # Absent
Mapped(q, e) == map[e.map] = [project |-> q, data |-> e.data]
Runs(e)      == \A u \in Named(e.container) : cr[u].config = e.config /\ cr[u].desired = "Running"
Served(q, e) == svc[e.service] = [project |-> q, selects |-> e.container]

StaleStages == {"containers", "dropContainers", "services", "dropServices", "maps", "dropMaps"}

VolumesWell(r) ==
  /\ r.at = "checkVolumes" =>
       \A e \in Elems(r.plan.volumes) : e.external => e \in Elems(r.left) \/ Claimed(e)
  /\ r.at \in {"checkServices", "volumes"} =>
       \A e \in Elems(r.plan.volumes) : e.external => Claimed(e)
  /\ r.at = "volumes" => \A e \in Elems(r.plan.volumes) : e \in Elems(r.left) \/ Claimed(e)
  /\ r.at \in {"configs", "workloads", "dns"} \cup StaleStages =>
       \A e \in Elems(r.plan.volumes) : Claimed(e)

ConfigsWell(r, q) ==
  /\ r.at = "configs" => \A e \in Elems(r.plan.configs) : e \in Elems(r.left) \/ Mapped(q, e)
  /\ r.at \in {"workloads", "dns"} \cup StaleStages => \A e \in Elems(r.plan.configs) : Mapped(q, e)

ServicesWell(r, q) ==
  /\ r.at \in {"workloads", "dns"} => \A e \in Elems(r.plan.services) :
       e \in Elems(r.left) \/ (Runs(e) /\ Served(q, e))
  /\ r.at = "dns" => Runs(Head(r.left))
  /\ r.at \in StaleStages => \A e \in Elems(r.plan.services) : Runs(e) /\ Served(q, e)

\* What is listed as stale goes, and nothing is added.
NothingElse(r, q) ==
  /\ r.at \in StaleStages \ {"containers"} =>
       \A u \in OfProject(q) : \/ cr[u].deleting \/ cr[u].name \in ContainersIn(r.plan)
                               \/ r.at = "dropContainers" /\ cr[u].name \in r.todo
  /\ r.at = "dropServices" => /\ ServicesOf(q) \subseteq ServicesIn(r.plan) \cup r.todo
                              /\ r.todo \cap ServicesIn(r.plan) = {}
  /\ r.at \in {"maps", "dropMaps"} => ServicesOf(q) \subseteq ServicesIn(r.plan)
  /\ r.at = "dropMaps" => /\ MapsOf(q) \subseteq MapsIn(r.plan) \cup r.todo
                          /\ r.todo \cap MapsIn(r.plan) = {}

Well(p, r, q) ==
  /\ TodoOwn(p, r, q)
  /\ r.act = "up" => VolumesWell(r) /\ ConfigsWell(r, q) /\ ServicesWell(r, q) /\ NothingElse(r, q)

UpInv ==
  /\ UniqueNames /\ ServicesPlanned /\ ClaimsPlanned
  /\ \A p \in Users : Well(p, run[p], Project(p))

LEMMA DoneWell ==
  ASSUME NEW p, NEW result \in Results, NEW q
  PROVE  Well(p, Done(result), q) /\ Well(p, Done(result), q)'
<1>1. /\ Done(result).at \notin {"dropServices", "dropMaps"} /\ Done(result).act # "up"
  BY DEF Done, Results
<1> QED BY <1>1 DEF Well, TodoOwn

\* What has to be shown of a command that goes on to record x.
LEMMA WellThen ==
  ASSUME NEW p, NEW x, NEW q, run'[p] = x, x.plan.project = q, Well(p, x, q)'
  PROVE  Well(p, run[p], Project(p))'
  BY DEF Well, TodoOwn, VolumesWell, ConfigsWell, ServicesWell, NothingElse, Project, Claimed, Mapped,
     Runs, Served

----------------------------------------------------------------------------
(* Steps that leave project q, and a plan of it, alone.                    *)

\* What a step leaves stored of v asks for what it asked for before.
Untouched(v) ==
  /\ Exists(v)
  /\ cr'[v].name = cr[v].name /\ cr'[v].config = cr[v].config /\ cr'[v].desired = cr[v].desired
  /\ cr[v].deleting => cr'[v].deleting

\* An object of another project, which did not take a name of the plan.
Elsewhere(v, q, plan) ==
  /\ ProjectOf[cr'[v].config] # q
  /\ cr'[v].name \in ContainersIn(plan) =>
       Exists(v) /\ cr'[v].name = cr[v].name /\ cr'[v].config = cr[v].config

ObjectsAway(q, plan)  == \A v \in UIDs : Exists(v)' => Untouched(v) \/ Elsewhere(v, q, plan)
ServicesAway(q, plan) == /\ \A s \in ServicesIn(plan) : svc'[s] = svc[s]
                         /\ ServicesOf(q)' \subseteq ServicesOf(q)
MapsAway(q)           == /\ \A m \in MapsOf(q) : map'[m] = map[m]
                         /\ MapsOf(q)' \subseteq MapsOf(q)
ClaimsAway(plan)      == \A v \in ClaimsIn(plan) : claim[v] # Absent => claim'[v] # Absent

Away(q, plan) == ObjectsAway(q, plan) /\ ServicesAway(q, plan) /\ MapsAway(q) /\ ClaimsAway(plan)

LEMMA AwayWell ==
  ASSUME RestType, NEW p \in Users, NEW x, Fits(p, x), NEW q, q = x.plan.project,
         Well(p, x, q), Away(q, x.plan)
  PROVE  Well(p, x, q)'
<1>1. x.plan \in PlansOf[p] /\ (x.at = "dns" => Head(x.left) \in Elems(x.plan.services))
  BY DEF Fits, LeftFits
<1>2. ASSUME NEW e \in Elems(x.plan.services)
      PROVE  (Runs(e) => Runs(e)') /\ (Served(q, e) => Served(q, e)')
  <2>1. /\ ProjectOf[e.config] = q
        /\ e.container \in ContainersIn(x.plan) /\ e.service \in ServicesIn(x.plan)
    BY <1>1, <1>2, EntriesNamed
  <2>2. ASSUME Runs(e), NEW u \in Named(e.container)'
        PROVE  cr'[u].config = e.config /\ cr'[u].desired = "Running"
    <3>1. /\ u \in UIDs /\ Exists(u)' /\ cr'[u].name = e.container
          /\ Untouched(u) \/ Elsewhere(u, q, x.plan)
      BY <2>2 DEF Named, Stored, Away, ObjectsAway
    <3>2. Exists(u) /\ cr'[u].name = cr[u].name /\ cr'[u].config = cr[u].config
      BY <2>1, <3>1 DEF Untouched, Elsewhere
    <3>3. cr[u].config = e.config /\ cr[u].desired = "Running"
      BY <2>2, <3>1, <3>2 DEF Runs, Named, Stored
    <3> QED BY <2>1, <3>1, <3>2, <3>3 DEF Untouched, Elsewhere
  <2>3. Runs(e) => Runs(e)'
    BY <2>2 DEF Runs
  <2> QED BY <2>1, <2>3 DEF Away, ServicesAway, Served
<1>3. ASSUME NEW e \in Elems(x.plan.configs), Mapped(q, e)
      PROVE  Mapped(q, e)'
  <2>1. e.map \in Maps /\ map[e.map] # Absent /\ map[e.map].project = q
    <3>1. e \in ConfigEntries /\ q \in Projects
      BY <1>1, <1>3, EntriesNamed
    <3>2. e.map \in Maps /\ [project |-> q, data |-> e.data] \in MapObjects
      BY <3>1 DEF ConfigEntries, MapObjects
    <3> QED BY <1>3, <3>2, NullsApart DEF Mapped
  <2> QED BY <1>3, <2>1 DEF Away, MapsAway, MapsOf, Mapped
<1>4. \A e \in Elems(x.plan.volumes) : Claimed(e) => Claimed(e)'
  BY <1>1, EntriesNamed DEF Away, ClaimsAway, Claimed
<1>5. TodoOwn(p, x, q)'
  BY DEF Well, TodoOwn, Away, MapsAway, MapsOf
<1>6. ASSUME x.act = "up" PROVE VolumesWell(x)' /\ ConfigsWell(x, q)' /\ ServicesWell(x, q)'
  BY <1>1, <1>2, <1>3, <1>4, <1>6 DEF Well, VolumesWell, ConfigsWell, ServicesWell
<1>7. ASSUME x.act = "up" PROVE NothingElse(x, q)'
  <2>1. ASSUME NEW u \in OfProject(q)'
        PROVE  /\ u \in OfProject(q) /\ cr'[u].name = cr[u].name
               /\ cr[u].deleting => cr'[u].deleting
    BY <2>1 DEF OfProject, Stored, Away, ObjectsAway, Untouched, Elsewhere
  <2>2. ServicesOf(q)' \subseteq ServicesOf(q) /\ MapsOf(q)' \subseteq MapsOf(q)
    BY DEF Away, ServicesAway, MapsAway
  <2> QED BY <1>7, <2>1, <2>2 DEF Well, NothingElse
<1> QED BY <1>5, <1>6, <1>7 DEF Well

LEMMA SameAway ==
  ASSUME UNCHANGED <<cr, svc, map, claim>>, NEW q, NEW plan
  PROVE  Away(q, plan)
  BY DEF Away, ObjectsAway, Untouched, ServicesAway, ServicesOf, MapsAway, MapsOf, ClaimsAway

\* A write of one object leaves the others alone.
LEMMA StoreOthers ==
  ASSUME LifeInv, NEW u \in UIDs, NEW obj, Store(u, obj)
  PROVE  /\ \A v \in UIDs : v # u /\ Exists(v)' => Untouched(v)
         /\ Exists(u)' => cr'[u] = obj
  BY DEF LifeInv, LifeTypeOK, ObjectsTypeOK, Store, Settled, Untouched

\* A write that keeps an object's name, spec and deletion leaves it alone.
LEMMA StoreUntouched ==
  ASSUME LifeInv, NEW u \in UIDs, Exists(u), NEW obj, Store(u, obj),
         obj.name = cr[u].name, obj.config = cr[u].config, obj.desired = cr[u].desired,
         cr[u].deleting => obj.deleting
  PROVE  \A v \in UIDs : Exists(v)' => Untouched(v)
  BY StoreOthers DEF Untouched

\* The controller changes neither names nor specs.
LEMMA PromisedUntouched ==
  ASSUME LifeInv, NEW u \in UIDs, Promised(u)
  PROVE  \A v \in UIDs : Exists(v)' => Untouched(v)
<1>t. Exists(u) => cr[u] \in ContainerObjects
  BY StoredIsObject
<1>1. CASE Claim(u)
  <2> DEFINE obj == [cr[u] EXCEPT !.fin = TRUE]
  <2>1. Exists(u) /\ Store(u, obj)
    BY <1>1 DEF Claim
  <2>2. /\ obj.name = cr[u].name /\ obj.config = cr[u].config /\ obj.desired = cr[u].desired
        /\ obj.deleting = cr[u].deleting
    BY <1>t, <2>1 DEF ContainerObjects
  <2> HIDE DEF obj
  <2> QED BY <2>1, <2>2, StoreUntouched
<1>2. CASE Launch(u) \/ Finish(u)
  BY <1>2 DEF Launch, Finish, objVars, Untouched
<1>3. CASE Release(u)
  <2> DEFINE obj == [cr[u] EXCEPT !.fin = FALSE]
  <2>1. Exists(u) /\ Store(u, obj)
    BY <1>3 DEF Release
  <2>2. /\ obj.name = cr[u].name /\ obj.config = cr[u].config /\ obj.desired = cr[u].desired
        /\ obj.deleting = cr[u].deleting
    BY <1>t, <2>1 DEF ContainerObjects
  <2> HIDE DEF obj
  <2> QED BY <2>1, <2>2, StoreUntouched
<1>4. ASSUME NEW phase \in Reported, Report(u, phase)
      PROVE  \A v \in UIDs : Exists(v)' => Untouched(v)
  <2> DEFINE obj == [cr[u] EXCEPT !.phase = phase]
  <2>1. Exists(u) /\ Store(u, obj)
    BY <1>4 DEF Report
  <2>2. /\ obj.name = cr[u].name /\ obj.config = cr[u].config /\ obj.desired = cr[u].desired
        /\ obj.deleting = cr[u].deleting
    BY <1>t, <2>1 DEF ContainerObjects
  <2> HIDE DEF obj
  <2> QED BY <2>1, <2>2, StoreUntouched
<1> QED BY <1>1, <1>2, <1>3, <1>4 DEF Promised

LEMMA DeleteUntouched ==
  ASSUME LifeInv, NEW u \in UIDs, DeleteContainer(u)
  PROVE  \A v \in UIDs : Exists(v)' => Untouched(v)
<1> DEFINE obj == [cr[u] EXCEPT !.deleting = TRUE]
<1>1. Exists(u) /\ Store(u, obj)
  BY DEF DeleteContainer
<1>2. /\ obj.name = cr[u].name /\ obj.config = cr[u].config /\ obj.desired = cr[u].desired
      /\ obj.deleting
  BY <1>1, StoredIsObject DEF ContainerObjects
<1> HIDE DEF obj
<1> QED BY <1>1, <1>2, StoreUntouched

\* Whatever applies a service's workload writes one object: a new one, of a
\* name nobody has, or one of the project that has the name already.
Applied(u, s) ==
  /\ Exists(u)' => cr'[u].name = s.container /\ cr'[u].config = s.config /\ cr'[u].desired = "Running"
  /\ \A v \in UIDs : v # u /\ Exists(v)' => Untouched(v)
  /\ Named(s.container) = {} \/ u \in Named(s.container)

LEMMA ApplyWrites ==
  ASSUME LifeInv, NEW p \in Users, ApplyContainer(p), run[p].left # <<>>, Fits(p, run[p])
  PROVE  \/ Ends(p, "error") /\ UNCHANGED objVars
         \/ /\ Enters(p, "dns", run[p].left, {})
            /\ \E u \in UIDs : Applied(u, Head(run[p].left))
<1> DEFINE s == Head(run[p].left)
<1>1. s \in ServiceEntries
  BY OwnService DEF ApplyContainer, At
<1>2. ASSUME NEW u \in UIDs, CreateContainer(u, s.container, s.config)
      PROVE  Applied(u, s)
  <2>1. /\ NewContainer(s.container, s.config).name = s.container
        /\ NewContainer(s.container, s.config).config = s.config
        /\ NewContainer(s.container, s.config).desired = "Running"
    BY DEF NewContainer
  <2> QED BY <1>2, <2>1, StoreOthers DEF CreateContainer, Applied
<1>3. ASSUME NEW u \in Named(s.container),
             Store(u, [cr[u] EXCEPT !.config = s.config, !.desired = "Running"])
      PROVE  u \in UIDs /\ Applied(u, s)
  <2> DEFINE obj == [cr[u] EXCEPT !.config = s.config, !.desired = "Running"]
  <2>1. u \in UIDs /\ Exists(u) /\ cr[u] \in ContainerObjects /\ cr[u].name = s.container
    BY StoredIsObject DEF Named, Stored
  <2>2. /\ obj.name = s.container /\ obj.config = s.config /\ obj.desired = "Running"
        /\ obj.deleting = cr[u].deleting
    BY <2>1 DEF ContainerObjects
  <2> HIDE DEF obj
  <2>3. Store(u, obj)
    BY <1>3 DEF obj
  <2> QED BY <2>1, <2>2, <2>3, StoreOthers DEF Applied
<1> QED BY <1>2, <1>3 DEF ApplyContainer

\* A command writes at most one object: of its project, and under the name it
\* had before or one of its plan that was free.
Written(u, p) ==
  /\ \A v \in UIDs : v # u /\ Exists(v)' => Untouched(v)
  /\ Exists(u)' =>
       /\ ProjectOf[cr'[u].config] = Project(p)
       /\ \/ Exists(u) /\ cr'[u].name = cr[u].name /\ cr'[u].config = cr[u].config
          \/ /\ cr'[u].name \in ContainersIn(Plan(p))
             /\ Named(cr'[u].name) = {} \/ u \in Named(cr'[u].name)

LEMMA SameUntouched ==
  ASSUME UNCHANGED cr
  PROVE  \A v \in UIDs : Exists(v)' => Untouched(v)
  BY DEF Untouched

LEMMA CommandObjects ==
  ASSUME ComposeInv, NEW p \in Users, Command(p)
  PROVE  \/ \A v \in UIDs : Exists(v)' => Untouched(v)
         \/ \E u \in UIDs : Written(u, p)
<1> USE DEF ComposeInv
<1>1. CASE ApplyContainer(p)
  <2>1. /\ Fits(p, run[p]) /\ run[p].at = "workloads" /\ run[p].plan \in PlansOf[p]
    BY <1>1, UpUnderWay DEF ApplyContainer, At, Fits
  <2>2. CASE run[p].left = <<>>
    BY <1>1, <2>2, SameUntouched DEF ApplyContainer, objVars
  <2>3. CASE run[p].left # <<>>
    <3>1. CASE UNCHANGED objVars
      BY <3>1, SameUntouched DEF objVars
    <3>2. ASSUME NEW u \in UIDs, Applied(u, Head(run[p].left)) PROVE Written(u, p)
      <4>1. PICK s : s = Head(run[p].left)
        OBVIOUS
      <4>2. s.container \in ContainersIn(Plan(p)) /\ ProjectOf[s.config] = Project(p)
        BY <2>1, <2>3, <4>1, OwnService, EntriesNamed DEF Plan, Project
      <4>3. Applied(u, s)
        BY <3>2, <4>1 DEF Applied
      <4> QED BY <4>2, <4>3 DEF Applied, Written
    <3> QED BY <1>1, <2>1, <2>3, <3>1, <3>2, ApplyWrites
  <2> QED BY <2>2, <2>3
<1>2. CASE DropContainer(p)
  <2>1. CASE UNCHANGED objVars
    BY <2>1, SameUntouched DEF objVars
  <2>2. CASE \E u \in UIDs : DeleteContainer(u)
    BY <2>2, DeleteUntouched
  <2> QED BY <1>2, <2>1, <2>2 DEF DropContainer, Named, Stored
<1>3. CASE SetStates(p)
  <2>1. CASE UNCHANGED cr
    BY <2>1, SameUntouched
  <2>2. ASSUME NEW u \in run[p].todo, u \in fresh[p],
               Store(u, [cr[u] EXCEPT !.desired = run[p].goal])
        PROVE  u \in UIDs /\ Written(u, p)
    <3>1. u \in UIDs /\ Exists(u) /\ ProjectOf[cr[u].config] = Project(p) /\ cr[u] \in ContainerObjects
      BY <1>3, <2>2, StoredIsObject DEF SetStates, At, FreshOwn, OfProject, Stored
    <3> DEFINE obj == [cr[u] EXCEPT !.desired = run[p].goal]
    <3>2. obj.name = cr[u].name /\ obj.config = cr[u].config
      BY <3>1 DEF ContainerObjects
    <3> HIDE DEF obj
    <3>3. Store(u, obj)
      BY <2>2 DEF obj
    <3> QED BY <3>1, <3>2, <3>3, StoreOthers DEF Written
  <2> QED BY <1>3, <2>1, <2>2 DEF SetStates
<1>4. CASE UNCHANGED cr
  BY <1>4, SameUntouched
<1> QED BY <1>1, <1>2, <1>3, <1>4 DEF Command, Up, CheckVolume, CheckService, ApplyVolume, ApplyConfigMap,
       ApplyService, Drop, ListContainers, ListServices, DropService, ListMaps, DropMap,
       ListClaims, DropClaim, WaitForEmpty, SetState, ListStates, WaitForPhases, GivesUp, Invoke, lifeVars, objVars

LEMMA StaysUnique ==
  ASSUME UniqueNames,
         \/ \A v \in UIDs : Exists(v)' => Untouched(v)
         \/ \E p \in Users : \E u \in UIDs : Written(u, p)
  PROVE  UniqueNames'
<1>1. CASE \A v \in UIDs : Exists(v)' => Untouched(v)
  BY <1>1 DEF UniqueNames, Stored, Untouched
<1>2. ASSUME NEW p \in Users, NEW u \in UIDs, Written(u, p)
      PROVE  UniqueNames'
  <2>1. ASSUME NEW v \in Stored', v # u PROVE v \in Stored /\ cr'[v].name = cr[v].name
    BY <1>2, <2>1 DEF Stored, Written, Untouched
  <2>2. ASSUME u \in Stored'
        PROVE  \/ u \in Stored /\ cr'[u].name = cr[u].name
               \/ Named(cr'[u].name) = {}
    BY <1>2, <2>2 DEF Stored, Written, Named
  <2>3. ASSUME NEW v \in Stored', NEW w \in Stored', cr'[v].name = cr'[w].name PROVE v = w
    BY <2>1, <2>2, <2>3 DEF UniqueNames, Named
  <2> QED BY <2>3 DEF UniqueNames
<1> QED BY <1>1, <1>2

\* Another user's command keeps away from the project and the plan of x.
LEMMA OthersAway ==
  ASSUME UsersApart, ComposeInv, ClaimsPlanned,
         NEW r \in Users, Command(r), Well(r, run[r], Project(r)),
         NEW p \in Users, p # r, NEW plan \in PlansOf[p], NEW q, q = plan.project
  PROVE  Away(q, plan)
<1> USE DEF ComposeInv
<1>1. CASE UNCHANGED <<cr, svc, map, claim>>
  BY <1>1, SameAway
<1>2. ASSUME run[r].at \in Stages PROVE Away(q, plan)
  <2>1. /\ Fits(r, run[r]) /\ run[r].plan \in PlansOf[r] /\ Knows(run[r], Project(r))
        /\ Project(r) \in Projects /\ q \in Projects /\ Project(r) # q
    BY <1>2, DropUnderWay, PlanType DEF Fits, UsersApart, Project
  <2>2. \A other \in PlansOf[r] :
          /\ ContainersIn(other) \cap ContainersIn(plan) = {}
          /\ ServicesIn(other) \cap ServicesIn(plan) = {}
          /\ ClaimsIn(other) \cap ClaimsIn(plan) = {}
    BY DEF UsersApart
  <2>3. ObjectsAway(q, plan)
    BY <2>1, <2>2, CommandObjects DEF ObjectsAway, Written, Elsewhere, Plan
  <2>4. ServicesAway(q, plan)
    <3>1. CASE UNCHANGED svc
      BY <3>1 DEF ServicesAway, ServicesOf
    <3>2. CASE ApplyService(r)
      <4> DEFINE s == Head(run[r].left)
                 new == [project |-> Project(r), selects |-> s.container]
      <4>1. /\ new.project # q /\ new \in ServiceObjects
            /\ s.service \in ServicesIn(Plan(r)) /\ s.service \in Services
        <5>1. run[r].at = "dns" /\ run[r].left # <<>>
          BY <2>1, <3>2 DEF ApplyService, At, Fits, LeftFits
        <5>2. s \in Elems(Plan(r).services) /\ s \in ServiceEntries
          BY <2>1, <5>1, OwnService
        <5> QED BY <2>1, <5>2, EntriesNamed DEF Plan, ServiceEntries, ServiceObjects
      <4>2. svc' = [svc EXCEPT ![s.service] = new]
        BY <3>2 DEF ApplyService
      <4> HIDE DEF new
      <4>3. s.service \notin ServicesIn(plan)
        BY <2>1, <2>2, <4>1 DEF Plan
      <4> QED BY <4>1, <4>2, <4>3 DEF ServicesAway, ServicesOf, RestType
    <3>3. CASE DropService(r)
      <4>1. CASE UNCHANGED svc
        BY <4>1 DEF ServicesAway, ServicesOf
      <4>2. ASSUME NEW s \in run[r].todo, svc' = [svc EXCEPT ![s] = Absent]
            PROVE  ServicesAway(q, plan)
        <5>1. s \notin ServicesIn(plan) /\ s \in Services
          BY <2>1, <2>2, <3>3, <4>2 DEF DropService, At, Well, TodoOwn, Fits, TodoFits
        <5> QED BY <4>2, <5>1 DEF ServicesAway, ServicesOf, RestType
      <4> QED BY <3>3, <4>1, <4>2 DEF DropService
    <3> QED BY <3>1, <3>2, <3>3 DEF Command, Up, CheckVolume, CheckService, ApplyVolume, ApplyConfigMap,
          ApplyContainer, Drop, ListContainers, DropContainer, ListServices, ListMaps, DropMap,
          ListClaims, DropClaim, WaitForEmpty, SetState, ListStates, SetStates, WaitForPhases, GivesUp, Invoke
  <2>5. MapsAway(q)
    <3>1. CASE UNCHANGED map
      BY <3>1 DEF MapsAway, MapsOf
    <3>2. CASE ApplyConfigMap(r)
      <4>1. CASE UNCHANGED map
        BY <4>1 DEF MapsAway, MapsOf
      <4>2. CASE ~UNCHANGED map
        <5> DEFINE c == Head(run[r].left)
                   new == [project |-> Project(r), data |-> c.data]
        <5>1. /\ run[r].left # <<>> /\ run[r].at = "configs"
              /\ map[c.map] = Absent \/ map[c.map].project = Project(r)
              /\ map' = [map EXCEPT ![c.map] = new]
          BY <3>2, <4>2 DEF ApplyConfigMap, At
        <5>2. new.project # q /\ c.map \in Maps
          <6>1. c \in ConfigEntries
            BY <2>1, <5>1 DEF Fits, LeftFits
          <6> QED BY <2>1, <6>1 DEF ConfigEntries
        <5> HIDE DEF new
        <5> QED BY <2>1, <5>1, <5>2 DEF MapsAway, MapsOf, RestType
      <4> QED BY <4>1, <4>2
    <3>3. CASE DropMap(r)
      <4>1. CASE UNCHANGED map
        BY <4>1 DEF MapsAway, MapsOf
      <4>2. ASSUME NEW m \in run[r].todo, map' = [map EXCEPT ![m] = Absent]
            PROVE  MapsAway(q)
        <5>1. m \in MapsOf(Project(r))
          BY <3>3, <4>2 DEF DropMap, At, Well, TodoOwn
        <5> QED BY <2>1, <4>2, <5>1 DEF MapsAway, MapsOf, RestType
      <4> QED BY <3>3, <4>1, <4>2 DEF DropMap
    <3> QED BY <3>1, <3>2, <3>3 DEF Command, Up, CheckVolume, CheckService, ApplyVolume, ApplyService,
          ApplyContainer, Drop, ListContainers, DropContainer, ListServices, DropService, ListMaps,
          ListClaims, DropClaim, WaitForEmpty, SetState, ListStates, SetStates, WaitForPhases, GivesUp, Invoke
  <2>6. ClaimsAway(plan)
    <3>1. CASE UNCHANGED claim
      BY <3>1 DEF ClaimsAway
    <3>2. CASE ApplyVolume(r)
      <4>1. CASE UNCHANGED claim
        BY <4>1 DEF ClaimsAway
      <4>2. ASSUME NEW v, claim' = [claim EXCEPT ![v] = Project(r)]
            PROVE  ClaimsAway(plan)
        BY <2>1, <4>2, NullsApart DEF ClaimsAway, RestType
      <4>3. \/ UNCHANGED claim
            \/ claim' = [claim EXCEPT ![Head(run[r].left).claim] = Project(r)]
        BY <3>2 DEF ApplyVolume
      <4> QED BY <4>1, <4>2, <4>3
    <3>3. CASE DropClaim(r)
      <4>1. run[r].at = "dropClaims" /\ IsDown(run[r].act)
        BY <2>1, <3>3 DEF DropClaim, At, Fits, Reaches, IsDown
      <4>2. ClaimsOf(Project(r)) = run[r].todo
        BY <2>1, <4>1, ApartProjects DEF Knows
      <4>3. ASSUME NEW v \in run[r].todo, claim' = [claim EXCEPT ![v] = Absent]
            PROVE  ClaimsAway(plan)
        <5>1. v \in Claims /\ claim[v] = Project(r)
          BY <4>2, <4>3 DEF ClaimsOf
        <5>2. PICK p1 \in Users : \E other \in PlansOf[p1] : other.project = Project(r) /\ v \in ClaimsIn(other)
          BY <2>1, <5>1 DEF ClaimsPlanned
        <5>3. PICK other \in PlansOf[p1] : other.project = Project(r) /\ v \in ClaimsIn(other)
          BY <5>2
        <5>4. p1 = r
          BY <2>1, <5>3 DEF UsersApart, Project
        <5>5. v \notin ClaimsIn(plan)
          BY <2>2, <5>3, <5>4
        <5> QED BY <4>3, <5>1, <5>5 DEF ClaimsAway, RestType
      <4> QED BY <3>3, <4>3 DEF DropClaim, ClaimsAway
    <3> QED BY <3>1, <3>2, <3>3 DEF Command, Up, CheckVolume, CheckService, ApplyConfigMap, ApplyService,
          ApplyContainer, Drop, ListContainers, DropContainer, ListServices, DropService, ListMaps, DropMap,
          ListClaims, WaitForEmpty, SetState, ListStates, SetStates, WaitForPhases, GivesUp, Invoke
  <2> QED BY <2>3, <2>4, <2>5, <2>6 DEF Away
<1> QED BY <1>1, <1>2 DEF Command, Up, CheckVolume, CheckService, ApplyVolume, ApplyConfigMap, ApplyContainer,
      ApplyService, Drop, ListContainers, DropContainer, ListServices, DropService, ListMaps, DropMap,
      ListClaims, DropClaim, WaitForEmpty, SetState, ListStates, SetStates, WaitForPhases, GivesUp, Invoke,
      lifeVars, At, Stages

\* Nobody's step but its own disturbs a command.
LEMMA OthersWell ==
  ASSUME UsersApart, ComposeInv, UpInv, NEW r \in Users, Command(r), NEW p \in Users, p # r
  PROVE  Well(p, run[p], Project(p))'
<1>1. PICK x, q : x = run[p] /\ q = x.plan.project
  OBVIOUS
<1>2. run'[p] = x /\ RunType
  BY <1>1, OthersRun DEF ComposeInv
<1>3. CASE \E result \in Results : x = Done(result)
  BY <1>1, <1>2, <1>3, DoneWell, WellThen
<1>4. CASE Fits(p, x)
  <2>1. Well(p, x, q) /\ Well(r, run[r], Project(r))
    BY <1>1 DEF UpInv, Project
  <2>2. Away(q, x.plan)
    BY <1>1, <1>4, <2>1, OthersAway DEF Fits, UpInv
  <2>3. Well(p, x, q)'
    BY <1>1, <1>4, <2>1, <2>2, AwayWell DEF ComposeInv
  <2> QED BY <1>1, <1>2, <2>3, WellThen
<1> QED BY <1>1, <1>2, <1>3, <1>4 DEF RunType

LEMMA PromisedWell ==
  ASSUME ComposeInv, UpInv, NEW u \in UIDs, Promised(u), UNCHANGED <<svc, map, claim, run>>
  PROVE  UpInv'
<1>1. \A v \in UIDs : Exists(v)' => Untouched(v)
  BY PromisedUntouched DEF ComposeInv
<1>2. \A q, plan : Away(q, plan)
  BY <1>1 DEF Away, ObjectsAway, ServicesAway, ServicesOf, MapsAway, MapsOf, ClaimsAway
<1>3. ASSUME NEW p \in Users PROVE Well(p, run[p], Project(p))'
  <2>1. PICK x, q : x = run[p] /\ q = x.plan.project
    OBVIOUS
  <2>2. CASE \E result \in Results : x = Done(result)
    BY <2>1, <2>2, DoneWell, WellThen
  <2>3. CASE Fits(p, x)
    <3>1. Well(p, x, q)
      BY <2>1 DEF UpInv, Project
    <3>2. Well(p, x, q)'
      BY <1>2, <2>1, <2>3, <3>1, AwayWell DEF ComposeInv
    <3> QED BY <2>1, <3>2, WellThen
  <2> QED BY <2>1, <2>2, <2>3 DEF ComposeInv, RunType
<1>4. UniqueNames'
  BY <1>1, StaysUnique DEF UpInv
<1> QED BY <1>3, <1>4 DEF UpInv, ServicesPlanned, ClaimsPlanned

----------------------------------------------------------------------------
(* The command's own steps.                                                *)

LEMMA EndsWell ==
  ASSUME ComposeInv, NEW p \in Users, NEW result \in Results, Ends(p, result)
  PROVE  Well(p, run[p], Project(p))'
<1>1. run'[p] = Done(result)
  BY EndsType DEF ComposeInv
<1> QED BY <1>1, DoneWell, WellThen

\* A step that leaves everything stored as it is.
LEMMA QuietWell ==
  ASSUME NEW p, NEW x, NEW q, run'[p] = x, x.plan.project = q, Well(p, x, q),
         UNCHANGED <<cr, svc, map, claim>>
  PROVE  Well(p, run[p], Project(p))'
<1>1. Well(p, x, q)'
  BY DEF Well, TodoOwn, VolumesWell, ConfigsWell, ServicesWell, NothingElse, Claimed, Mapped, Runs, Served,
     Named, OfProject, Stored, ServicesOf, MapsOf
<1> QED BY <1>1, WellThen

\* A command that has nothing to say of what it left behind.
LEMMA OtherWell ==
  ASSUME NEW p, run'[p].act # "up", run'[p].at \notin {"dropServices", "dropMaps"}
  PROVE  Well(p, run[p], Project(p))'
  BY DEF Well, TodoOwn

\* The command under way and its plan.
LEMMA OwnPlan ==
  ASSUME ComposeInv, NEW p \in Users, run[p].at \in Stages
  PROVE  /\ Fits(p, run[p]) /\ RunType /\ Plan(p) \in PlansOf[p] /\ Project(p) \in Projects
         /\ Plan(p).volumes \in Seq(VolumeEntries) \cap Seq(Elems(Plan(p).volumes))
         /\ Plan(p).configs \in Seq(ConfigEntries) \cap Seq(Elems(Plan(p).configs))
         /\ Plan(p).services \in Seq(ServiceEntries) \cap Seq(Elems(Plan(p).services))
         /\ Plan(p).project = Project(p)
<1>1. Fits(p, run[p]) /\ Plan(p) \in PlansOf[p] /\ Project(p) \in Projects
  BY DropUnderWay DEF Fits, Plan
<1> QED BY <1>1, PlanType DEF ComposeInv, Plan, Project

\* The record a command goes on to.
LEMMA EntersOn ==
  ASSUME RunType, NEW p \in Users, NEW stage, NEW left, NEW todo, Enters(p, stage, left, todo)
  PROVE  \E x : GoesOn(p, x) /\ x.at = stage /\ x.left = left /\ x.todo = todo
<1> DEFINE x == [run[p] EXCEPT !.at = stage, !.left = left, !.todo = todo]
<1>1. /\ x.at = stage /\ x.left = left /\ x.todo = todo /\ x.act = run[p].act /\ x.plan = run[p].plan
      /\ x.goal = run[p].goal /\ x.waits = run[p].waits /\ run' = [run EXCEPT ![p] = x]
  BY DEF Enters, RunType, Records
<1> HIDE DEF x
<1> QED BY <1>1 DEF GoesOn, RunType

LEMMA ShiftsOn ==
  ASSUME RunType, NEW p \in Users, Shifts(p)
  PROVE  \E x : GoesOn(p, x) /\ x.at = run[p].at /\ x.left = Tail(run[p].left) /\ x.todo = run[p].todo
<1> DEFINE x == [run[p] EXCEPT !.left = Tail(@)]
<1>1. /\ x.at = run[p].at /\ x.left = Tail(run[p].left) /\ x.todo = run[p].todo /\ x.act = run[p].act
      /\ x.plan = run[p].plan /\ x.goal = run[p].goal /\ x.waits = run[p].waits
      /\ run' = [run EXCEPT ![p] = x]
  BY DEF Shifts, RunType, Records
<1> HIDE DEF x
<1> QED BY <1>1 DEF GoesOn, RunType

LEMMA DropsOn ==
  ASSUME RunType, NEW p \in Users, NEW y, Drops(p, y)
  PROVE  \E x : /\ GoesOn(p, x) /\ x.at = run[p].at /\ x.left = run[p].left
                /\ x.todo = run[p].todo \ {y}
  BY DEF Drops, GoesOn, RunType, Records

(* preflight and Apply.                                                    *)

LEMMA CheckVolumeWell ==
  ASSUME ComposeInv, UpInv, NEW p \in Users, CheckVolume(p)
  PROVE  Well(p, run[p], Project(p))'
<1>1. PICK q, r : q = Project(p) /\ r = run[p]
  OBVIOUS
<1>2. /\ r.at = "checkVolumes" /\ r.act = "up" /\ RunType /\ r.plan.project = q
      /\ r.left \in Seq(VolumeEntries) /\ UNCHANGED <<cr, svc, map, claim>>
      /\ \A e \in Elems(r.plan.volumes) : e.external => e \in Elems(r.left) \/ Claimed(e)
  BY <1>1, UpUnderWay
  DEF CheckVolume, At, Project, Fits, LeftFits, UpInv, Well, VolumesWell, ComposeInv, lifeVars, objVars
<1>3. CASE Ends(p, "error")
  BY <1>3, EndsWell DEF Results
<1>4. CASE r.left = <<>> /\ Enters(p, "checkServices", Plan(p).services, {})
  <2>1. PICK x : GoesOn(p, x) /\ x.at = "checkServices"
    BY <1>2, <1>4, EntersOn
  <2>2. \A e \in Elems(r.plan.volumes) : e.external => Claimed(e)
    BY <1>2, <1>4, ElemsOf
  <2>3. Well(p, x, q)
    BY <1>1, <2>1, <2>2 DEF GoesOn, Well, TodoOwn, VolumesWell, ConfigsWell, ServicesWell, NothingElse, StaleStages
  <2> QED BY <1>1, <1>2, <2>1, <2>3, QuietWell DEF GoesOn
<1>5. CASE /\ r.left # <<>> /\ Shifts(p)
           /\ ~(Head(r.left).external /\ claim[Head(r.left).claim] = Absent)
  <2>1. PICK x : GoesOn(p, x) /\ x.at = "checkVolumes" /\ x.left = Tail(r.left)
    BY <1>1, <1>2, <1>5, ShiftsOn
  <2>2. \A e \in Elems(r.plan.volumes) : e.external => e \in Elems(x.left) \/ Claimed(e)
    BY <1>2, <1>5, <2>1, HeadAndTail DEF Claimed
  <2>3. Well(p, x, q)
    BY <1>1, <2>1, <2>2 DEF GoesOn, Well, TodoOwn, VolumesWell, ConfigsWell, ServicesWell, NothingElse, StaleStages
  <2> QED BY <1>1, <1>2, <2>1, <2>3, QuietWell DEF GoesOn
<1> QED BY <1>1, <1>3, <1>4, <1>5 DEF CheckVolume

LEMMA CheckServiceWell ==
  ASSUME ComposeInv, UpInv, NEW p \in Users, CheckService(p)
  PROVE  Well(p, run[p], Project(p))'
<1>1. PICK q, r : q = Project(p) /\ r = run[p]
  OBVIOUS
<1>2. /\ r.at = "checkServices" /\ r.act = "up" /\ RunType /\ r.plan.project = q
      /\ UNCHANGED <<cr, svc, map, claim>>
      /\ \A e \in Elems(r.plan.volumes) : e.external => Claimed(e)
  BY <1>1, UpUnderWay
  DEF CheckService, At, Project, UpInv, Well, VolumesWell, ComposeInv, lifeVars, objVars
<1>3. CASE Ends(p, "error")
  BY <1>3, EndsWell DEF Results
<1>4. CASE Enters(p, "volumes", Plan(p).volumes, {})
  <2>1. PICK x : GoesOn(p, x) /\ x.at = "volumes" /\ x.left = r.plan.volumes
    BY <1>1, <1>2, <1>4, EntersOn DEF Plan
  <2>2. Well(p, x, q)
    BY <1>1, <1>2, <2>1 DEF GoesOn, Well, TodoOwn, VolumesWell, ConfigsWell, ServicesWell, NothingElse, StaleStages
  <2> QED BY <1>1, <1>2, <2>1, <2>2, QuietWell DEF GoesOn
<1>5. CASE Shifts(p)
  <2>1. PICK x : GoesOn(p, x) /\ x.at = "checkServices"
    BY <1>1, <1>2, <1>5, ShiftsOn
  <2>2. Well(p, x, q)
    BY <1>1, <1>2, <2>1 DEF GoesOn, Well, TodoOwn, VolumesWell, ConfigsWell, ServicesWell, NothingElse, StaleStages
  <2> QED BY <1>1, <1>2, <2>1, <2>2, QuietWell DEF GoesOn
<1> QED BY <1>3, <1>4, <1>5 DEF CheckService

LEMMA ApplyVolumeWell ==
  ASSUME ComposeInv, UpInv, NEW p \in Users, ApplyVolume(p)
  PROVE  Well(p, run[p], Project(p))'
<1>1. PICK q, r : q = Project(p) /\ r = run[p]
  OBVIOUS
<1>2. /\ r.at = "volumes" /\ r.act = "up" /\ RunType /\ r.plan.project = q /\ q \in Projects
      /\ r.left \in Seq(VolumeEntries) \cap Seq(Elems(r.plan.volumes)) /\ UNCHANGED <<cr, svc, map>>
      /\ \A e \in Elems(r.plan.volumes) : e \in Elems(r.left) \/ Claimed(e)
      /\ \A e \in Elems(r.plan.volumes) : e.external => Claimed(e)
  BY <1>1, UpUnderWay
  DEF ApplyVolume, At, Plan, Project, Fits, LeftFits, UpInv, Well, VolumesWell, ComposeInv, lifeVars, objVars
<1>3. CASE r.left = <<>> /\ Enters(p, "configs", Plan(p).configs, {}) /\ UNCHANGED claim
  <2>1. PICK x : GoesOn(p, x) /\ x.at = "configs" /\ x.left = r.plan.configs
    BY <1>1, <1>2, <1>3, EntersOn DEF Plan
  <2>2. \A e \in Elems(r.plan.volumes) : Claimed(e)
    BY <1>2, <1>3, ElemsOf
  <2>3. Well(p, x, q)
    BY <1>1, <2>1, <2>2 DEF GoesOn, Well, TodoOwn, VolumesWell, ConfigsWell, ServicesWell, NothingElse, StaleStages
  <2> QED BY <1>1, <1>2, <1>3, <2>1, <2>3, QuietWell DEF GoesOn
<1>4. CASE r.left # <<>> /\ Shifts(p)
  <2>1. PICK x : GoesOn(p, x) /\ x.at = "volumes" /\ x.left = Tail(r.left)
    BY <1>1, <1>2, <1>4, ShiftsOn
  <2>2. PICK v : v = Head(r.left)
    OBVIOUS
  <2>3. /\ v \in Elems(r.plan.volumes) /\ v.claim \in Claims
        /\ \A e \in Elems(r.left) : e = v \/ e \in Elems(x.left)
    <3>1. v \in VolumeEntries /\ v \in Elems(r.plan.volumes)
      BY <1>2, <1>4, <2>2, HeadAndTail
    <3>2. \A e \in Elems(r.left) : e = v \/ e \in Elems(x.left)
      BY <1>2, <1>4, <2>1, <2>2, HeadAndTail
    <3> QED BY <3>1, <3>2 DEF VolumeEntries
  <2>4. claim' = IF v.external \/ claim[v.claim] # Absent THEN claim
                 ELSE [claim EXCEPT ![v.claim] = q]
    BY <1>1, <1>4, <2>2 DEF ApplyVolume
  <2>5. \A e : Claimed(e) => Claimed(e)'
    BY <1>2, <2>4, NullsApart DEF Claimed, ComposeInv, RestType
  <2>6. Claimed(v)'
    <3>1. CASE v.external
      BY <1>2, <2>3, <2>5, <3>1
    <3>2. CASE ~v.external
      BY <1>2, <2>3, <2>4, <3>2, NullsApart DEF Claimed, ComposeInv, RestType
    <3> QED BY <3>1, <3>2
  <2>7. Well(p, x, q)'
    BY <1>1, <1>2, <2>1, <2>3, <2>5, <2>6
    DEF GoesOn, Well, TodoOwn, VolumesWell, ConfigsWell, ServicesWell, NothingElse, StaleStages
  <2> QED BY <1>1, <1>2, <2>1, <2>7, WellThen DEF GoesOn
<1> QED BY <1>1, <1>3, <1>4 DEF ApplyVolume

LEMMA ApplyConfigMapWell ==
  ASSUME PlansConsistent, ComposeInv, UpInv, NEW p \in Users, ApplyConfigMap(p)
  PROVE  Well(p, run[p], Project(p))'
<1>1. PICK q, r : q = Project(p) /\ r = run[p]
  OBVIOUS
<1>2. /\ r.at = "configs" /\ r.act = "up" /\ RunType /\ r.plan.project = q /\ q \in Projects
      /\ r.plan \in PlansOf[p]
      /\ r.left \in Seq(ConfigEntries) \cap Seq(Elems(r.plan.configs)) /\ UNCHANGED <<cr, svc, claim>>
      /\ \A e \in Elems(r.plan.volumes) : Claimed(e)
      /\ \A e \in Elems(r.plan.configs) : e \in Elems(r.left) \/ Mapped(q, e)
  BY <1>1, UpUnderWay
  DEF ApplyConfigMap, At, Plan, Project, Fits, LeftFits, UpInv, Well, VolumesWell, ConfigsWell, ComposeInv,
      lifeVars, objVars
<1>3. CASE Ends(p, "error")
  BY <1>3, EndsWell DEF Results
<1>4. CASE r.left = <<>> /\ Enters(p, "workloads", Plan(p).services, {}) /\ UNCHANGED map
  <2>1. PICK x : GoesOn(p, x) /\ x.at = "workloads" /\ x.left = r.plan.services
    BY <1>1, <1>2, <1>4, EntersOn DEF Plan
  <2>2. \A e \in Elems(r.plan.configs) : Mapped(q, e)
    BY <1>2, <1>4, ElemsOf
  <2>3. Well(p, x, q)
    BY <1>1, <1>2, <2>1, <2>2
    DEF GoesOn, Well, TodoOwn, VolumesWell, ConfigsWell, ServicesWell, NothingElse, StaleStages
  <2> QED BY <1>1, <1>2, <1>4, <2>1, <2>3, QuietWell DEF GoesOn
<1>5. CASE r.left # <<>> /\ Shifts(p) /\ ~Ends(p, "error")
  <2>1. PICK x : GoesOn(p, x) /\ x.at = "configs" /\ x.left = Tail(r.left)
    BY <1>1, <1>2, <1>5, ShiftsOn
  <2>2. PICK c : c = Head(r.left)
    OBVIOUS
  <2>3. /\ c \in Elems(r.plan.configs) /\ c.map \in Maps
        /\ \A e \in Elems(r.left) : e = c \/ e \in Elems(x.left)
    <3>1. c \in ConfigEntries /\ c \in Elems(r.plan.configs)
      BY <1>2, <1>5, <2>2, HeadAndTail
    <3>2. \A e \in Elems(r.left) : e = c \/ e \in Elems(x.left)
      BY <1>2, <1>5, <2>1, <2>2, HeadAndTail
    <3> QED BY <3>1, <3>2 DEF ConfigEntries
  <2>4. map' = [map EXCEPT ![c.map] = [project |-> q, data |-> c.data]]
    BY <1>1, <1>5, <2>2 DEF ApplyConfigMap
  <2>5. Mapped(q, c)'
    BY <2>3, <2>4 DEF Mapped, ComposeInv, RestType
  <2>6. ASSUME NEW e \in Elems(r.plan.configs), Mapped(q, e) PROVE Mapped(q, e)'
    <3>1. CASE e.map = c.map
      <4>1. e.data = c.data
        BY <1>2, <2>3, <2>6, <3>1 DEF PlansConsistent
      <4> QED BY <2>5, <3>1, <4>1 DEF Mapped
    <3>2. CASE e.map # c.map
      BY <2>4, <2>6, <3>2 DEF Mapped, ComposeInv, RestType
    <3> QED BY <3>1, <3>2
  <2>7. Well(p, x, q)'
    BY <1>1, <1>2, <2>1, <2>3, <2>5, <2>6
    DEF GoesOn, Well, TodoOwn, VolumesWell, ConfigsWell, ServicesWell, NothingElse, StaleStages, Claimed
  <2> QED BY <1>1, <1>2, <2>1, <2>7, WellThen DEF GoesOn
<1> QED BY <1>1, <1>3, <1>4, <1>5 DEF ApplyConfigMap

LEMMA ApplyContainerWell ==
  ASSUME PlansConsistent, ComposeInv, UpInv, NEW p \in Users, ApplyContainer(p)
  PROVE  Well(p, run[p], Project(p))'
<1>1. PICK q, r : q = Project(p) /\ r = run[p]
  OBVIOUS
<1>2. /\ r.at = "workloads" /\ r.act = "up" /\ RunType /\ LifeInv /\ r.plan.project = q
      /\ r.plan \in PlansOf[p] /\ Fits(p, r)
      /\ r.left \in Seq(ServiceEntries) \cap Seq(Elems(r.plan.services)) /\ UNCHANGED <<svc, map, claim>>
      /\ \A e \in Elems(r.plan.volumes) : Claimed(e)
      /\ \A e \in Elems(r.plan.configs) : Mapped(q, e)
      /\ \A e \in Elems(r.plan.services) : e \in Elems(r.left) \/ (Runs(e) /\ Served(q, e))
  BY <1>1, UpUnderWay
  DEF ApplyContainer, At, Plan, Project, Fits, LeftFits, UpInv, Well, VolumesWell, ConfigsWell, ServicesWell,
      ComposeInv
<1>3. CASE Ends(p, "error")
  BY <1>3, EndsWell DEF Results
<1>4. CASE r.left = <<>> /\ Enters(p, "containers", <<>>, {}) /\ UNCHANGED objVars
  <2>1. PICK left : left = <<>>
    OBVIOUS
  <2>2. PICK x : GoesOn(p, x) /\ x.at = "containers"
    BY <1>1, <1>2, <1>4, <2>1, EntersOn
  <2>3. \A e \in Elems(r.plan.services) : Runs(e) /\ Served(q, e)
    BY <1>2, <1>4, ElemsOf
  <2>4. Well(p, x, q)
    BY <1>1, <1>2, <2>2, <2>3
    DEF GoesOn, Well, TodoOwn, VolumesWell, ConfigsWell, ServicesWell, NothingElse, StaleStages
  <2> QED BY <1>1, <1>2, <1>4, <2>2, <2>4, QuietWell DEF GoesOn, objVars
<1>5. ASSUME r.left # <<>>, Enters(p, "dns", r.left, {}), NEW u \in UIDs, Applied(u, Head(r.left))
      PROVE  Well(p, run[p], Project(p))'
  <2>1. PICK x : GoesOn(p, x) /\ x.at = "dns" /\ x.left = r.left
    BY <1>1, <1>2, <1>5, EntersOn
  <2>2. PICK s : s = Head(r.left) /\ s \in Elems(r.plan.services)
    BY <1>2, <1>5, HeadAndTail
  <2>3. Applied(u, s)
    BY <1>5, <2>2
  <2>4. Runs(s)'
    BY <2>3 DEF Runs, Applied, Named, Stored, Untouched, UpInv, UniqueNames
  <2>5. ASSUME NEW e \in Elems(r.plan.services), Runs(e) PROVE Runs(e)'
    <3>1. CASE e.container = s.container
      <4>1. e.config = s.config
        BY <1>2, <2>2, <2>5, <3>1 DEF PlansConsistent
      <4> QED BY <2>4, <3>1, <4>1 DEF Runs
    <3>2. CASE e.container # s.container
      BY <2>3, <2>5, <3>2 DEF Runs, Applied, Named, Stored, Untouched
    <3> QED BY <3>1, <3>2
  <2>6. Well(p, x, q)'
    BY <1>1, <1>2, <2>1, <2>2, <2>4, <2>5
    DEF GoesOn, Well, TodoOwn, VolumesWell, ConfigsWell, ServicesWell, NothingElse, StaleStages,
        Claimed, Mapped, Served
  <2> QED BY <1>1, <1>2, <2>1, <2>6, WellThen DEF GoesOn
<1>6. r.left # <<>> => \/ Ends(p, "error") /\ UNCHANGED objVars
                       \/ /\ Enters(p, "dns", run[p].left, {})
                          /\ \E u \in UIDs : Applied(u, Head(run[p].left))
  BY <1>1, <1>2, ApplyWrites
<1>7. \A u : Applied(u, Head(run[p].left)) => Applied(u, Head(r.left))
  BY <1>1 DEF Applied
<1> QED BY <1>1, <1>3, <1>4, <1>5, <1>6, <1>7 DEF ApplyContainer

LEMMA ApplyServiceWell ==
  ASSUME PlansConsistent, ComposeInv, UpInv, NEW p \in Users, ApplyService(p)
  PROVE  Well(p, run[p], Project(p))'
<1>1. PICK q, r : q = Project(p) /\ r = run[p]
  OBVIOUS
<1>2. /\ r.at = "dns" /\ r.act = "up" /\ RunType /\ r.plan.project = q /\ r.plan \in PlansOf[p]
      /\ r.left \in Seq(ServiceEntries) \cap Seq(Elems(r.plan.services)) /\ r.left # <<>>
      /\ UNCHANGED <<cr, map, claim>> /\ Runs(Head(r.left))
      /\ \A e \in Elems(r.plan.volumes) : Claimed(e)
      /\ \A e \in Elems(r.plan.configs) : Mapped(q, e)
      /\ \A e \in Elems(r.plan.services) : e \in Elems(r.left) \/ (Runs(e) /\ Served(q, e))
  BY <1>1, UpUnderWay
  DEF ApplyService, At, Plan, Project, Fits, LeftFits, UpInv, Well, VolumesWell, ConfigsWell, ServicesWell,
      ComposeInv, lifeVars, objVars
<1>3. PICK s : s = Head(r.left)
  OBVIOUS
<1>4. PICK x : GoesOn(p, x) /\ x.at = "workloads" /\ x.left = Tail(r.left)
  BY <1>1, <1>2, EntersOn DEF ApplyService
<1>5. /\ s \in Elems(r.plan.services) /\ s.service \in Services
      /\ \A e \in Elems(r.left) : e = s \/ e \in Elems(x.left)
  <2>1. s \in ServiceEntries /\ s \in Elems(r.plan.services)
    BY <1>2, <1>3, HeadAndTail
  <2>2. \A e \in Elems(r.left) : e = s \/ e \in Elems(x.left)
    BY <1>2, <1>3, <1>4, HeadAndTail
  <2> QED BY <2>1, <2>2 DEF ServiceEntries
<1>6. svc' = [svc EXCEPT ![s.service] = [project |-> q, selects |-> s.container]]
  BY <1>1, <1>3 DEF ApplyService
<1>7. Served(q, s)'
  BY <1>5, <1>6 DEF Served, ComposeInv, RestType
<1>8. ASSUME NEW e \in Elems(r.plan.services), Served(q, e) PROVE Served(q, e)'
  <2>1. CASE e.service = s.service
    <3>1. e.container = s.container
      BY <1>2, <1>5, <1>8, <2>1 DEF PlansConsistent
    <3> QED BY <1>7, <2>1, <3>1 DEF Served
  <2>2. CASE e.service # s.service
    BY <1>6, <1>8, <2>2 DEF Served, ComposeInv, RestType
  <2> QED BY <2>1, <2>2
<1>9. \A e : Runs(e) => Runs(e)'
  BY <1>2 DEF Runs, Named, Stored
<1>10. Well(p, x, q)'
  BY <1>1, <1>2, <1>3, <1>4, <1>5, <1>7, <1>8, <1>9
  DEF GoesOn, Well, TodoOwn, VolumesWell, ConfigsWell, ServicesWell, NothingElse, StaleStages, Claimed, Mapped
<1> QED BY <1>1, <1>2, <1>4, <1>10, WellThen DEF GoesOn

(* removeStale.                                                            *)

\* What up has achieved when it looks for what is stale.
Achieved(r, q) ==
  /\ \A e \in Elems(r.plan.volumes) : Claimed(e)
  /\ \A e \in Elems(r.plan.configs) : Mapped(q, e)
  /\ \A e \in Elems(r.plan.services) : Runs(e) /\ Served(q, e)

LEMMA StaleWell ==
  ASSUME NEW p, NEW r, NEW q, r.at \in StaleStages
  PROVE  /\ Well(p, r, q) <=>
              TodoOwn(p, r, q) /\ (r.act = "up" => Achieved(r, q) /\ NothingElse(r, q))
         /\ Well(p, r, q)' <=>
              TodoOwn(p, r, q)' /\ (r.act = "up" => Achieved(r, q)' /\ NothingElse(r, q)')
  BY DEF Well, Achieved, VolumesWell, ConfigsWell, ServicesWell, StaleStages

LEMMA ListContainersWell ==
  ASSUME ComposeInv, UpInv, NEW p \in Users, ListContainers(p)
  PROVE  Well(p, run[p], Project(p))'
<1>1. PICK q, r : q = Project(p) /\ r = run[p]
  OBVIOUS
<1>2. /\ r.at = "containers" /\ r.plan.project = q /\ Well(p, r, q) /\ run \in [Users -> Records]
      /\ r \in Records /\ UNCHANGED <<cr, svc, map, claim>>
  BY <1>1 DEF ListContainers, At, Project, UpInv, ComposeInv, RunType, lifeVars, objVars
<1> DEFINE names == {cr[u].name : u \in OfProject(q)} \ Wanted(p, "container")
           waits == IsDown(run[p].act) /\ OfProject(q) # {}
           y == [run[p] EXCEPT !.at = "dropContainers", !.todo = names, !.waits = waits]
<1>3. run' = [run EXCEPT ![p] = y]
  BY <1>1, <1>2 DEF ListContainers
<1> HIDE DEF names, waits
<1>4. y.at = "dropContainers" /\ y.todo = names /\ y.act = r.act /\ y.plan = r.plan
  BY <1>1, <1>2 DEF Records
<1> HIDE DEF y
<1>5. PICK x : x = y
  OBVIOUS
<1>6. run'[p] = x
  BY <1>2, <1>3, <1>5
<1>7. r.act = "up" => NothingElse(x, q)
  <2>1. r.act = "up" => Wanted(p, "container") = ContainersIn(r.plan)
    BY <1>1, WantedIs
  <2> QED BY <1>4, <1>5, <2>1 DEF NothingElse, names
<1>8. TodoOwn(p, x, q)
  BY <1>4, <1>5 DEF TodoOwn
<1>9. r.act = "up" => Achieved(x, q)
  BY <1>2, <1>4, <1>5, StaleWell DEF StaleStages, Achieved
<1>10. Well(p, x, q)
  BY <1>4, <1>5, <1>7, <1>8, <1>9, StaleWell DEF StaleStages
<1> QED BY <1>2, <1>4, <1>5, <1>6, <1>10, QuietWell

\* An object listed as stale is marked, or was already.
LEMMA DropContainerWell ==
  ASSUME ComposeInv, UpInv, NEW p \in Users, DropContainer(p)
  PROVE  Well(p, run[p], Project(p))'
<1>1. PICK q, r : q = Project(p) /\ r = run[p]
  OBVIOUS
<1>2. /\ r.at = "dropContainers" /\ r.plan.project = q /\ Well(p, r, q) /\ RunType /\ LifeInv
      /\ UNCHANGED <<svc, map, claim>> /\ UniqueNames
  BY <1>1 DEF DropContainer, At, Project, UpInv, ComposeInv
<1>3. CASE Ends(p, "error")
  BY <1>3, EndsWell DEF Results
<1>4. CASE r.todo = {} /\ Enters(p, "services", <<>>, {}) /\ UNCHANGED objVars
  <2>1. PICK left : left = <<>>
    OBVIOUS
  <2>2. PICK x : GoesOn(p, x) /\ x.at = "services"
    BY <1>2, <1>4, <2>1, EntersOn
  <2>3. ASSUME x.act = "up" PROVE Achieved(x, q) /\ NothingElse(x, q)
    <3>1. x.act = r.act /\ x.plan = r.plan
      BY <1>1, <2>2 DEF GoesOn
    <3>2. Achieved(r, q) /\ NothingElse(r, q)
      BY <1>2, <2>3, <3>1, StaleWell DEF StaleStages
    <3> QED BY <1>2, <1>4, <2>2, <3>1, <3>2 DEF Achieved, NothingElse, StaleStages
  <2>4. Well(p, x, q)
    BY <2>2, <2>3, StaleWell DEF StaleStages, TodoOwn
  <2> QED BY <1>1, <1>2, <1>4, <2>2, <2>4, QuietWell DEF GoesOn, objVars
<1>5. ASSUME NEW n \in r.todo, Drops(p, n), r.act # "up"
      PROVE  Well(p, run[p], Project(p))'
  <2>1. PICK x : GoesOn(p, x) /\ x.at = r.at
    BY <1>1, <1>2, <1>5, DropsOn
  <2> QED BY <1>1, <1>2, <1>5, <2>1, OtherWell DEF GoesOn
<1>6. ASSUME NEW n \in r.todo, Drops(p, n), r.act = "up", NEW u \in Named(n),
             IF cr[u].deleting THEN UNCHANGED objVars ELSE DeleteContainer(u)
      PROVE  Well(p, run[p], Project(p))'
  <2>1. PICK x : GoesOn(p, x) /\ x.at = r.at /\ x.todo = r.todo \ {n}
    BY <1>1, <1>2, <1>6, DropsOn
  <2>2. u \in UIDs /\ Exists(u) /\ cr[u].name = n
    BY <1>6 DEF Named, Stored
  <2>3. /\ \A v \in UIDs : Exists(v)' => Untouched(v)
        /\ Exists(u)' => cr'[u].deleting
    <3>1. CASE UNCHANGED objVars /\ cr[u].deleting
      BY <3>1, SameUntouched DEF objVars
    <3>2. CASE DeleteContainer(u)
      <4> DEFINE obj == [cr[u] EXCEPT !.deleting = TRUE]
      <4>1. Store(u, obj) /\ obj.deleting
        BY <2>2, <3>2, StoredIsObject, <1>2 DEF DeleteContainer, ContainerObjects
      <4> HIDE DEF obj
      <4> QED BY <1>2, <2>2, <3>2, <4>1, DeleteUntouched, StoreOthers
    <3> QED BY <1>6, <3>1, <3>2
  <2>4. Achieved(r, q) /\ NothingElse(r, q)
    BY <1>2, <1>6, StaleWell DEF StaleStages
  <2>5. \A e : Runs(e) => Runs(e)'
    BY <2>3 DEF Runs, Named, Stored, Untouched
  <2>6. Achieved(x, q)'
    BY <1>1, <1>2, <2>1, <2>4, <2>5 DEF GoesOn, Achieved, Claimed, Mapped, Served
  <2>7. ASSUME NEW w \in OfProject(q)'
        PROVE  cr'[w].deleting \/ cr'[w].name \in ContainersIn(x.plan) \/ cr'[w].name \in x.todo
    <3>1. w \in UIDs /\ Untouched(w) /\ w \in OfProject(q) /\ Exists(w)'
      BY <2>3, <2>7 DEF OfProject, Stored, Untouched
    <3>2. cr[w].deleting \/ cr[w].name \in ContainersIn(r.plan) \/ cr[w].name \in r.todo
      BY <1>2, <2>4, <3>1 DEF NothingElse, StaleStages
    <3>3. cr[w].name = n => w = u
      BY <1>2, <2>2, <3>1 DEF UniqueNames, Stored, Untouched
    <3> QED BY <1>1, <2>1, <2>3, <3>1, <3>2, <3>3 DEF Untouched, GoesOn
  <2>8. NothingElse(x, q)'
    BY <1>2, <2>1, <2>7 DEF NothingElse
  <2>9. Well(p, x, q)'
    BY <1>2, <2>1, <2>6, <2>8, StaleWell DEF StaleStages, TodoOwn
  <2> QED BY <1>1, <1>2, <2>1, <2>9, WellThen DEF GoesOn
<1> QED BY <1>1, <1>3, <1>4, <1>5, <1>6 DEF DropContainer, IsDown

\* A Service of the project is in a plan of its user.
LEMMA ListServicesWell ==
  ASSUME UsersApart, ComposeInv, UpInv, NEW p \in Users, ListServices(p)
  PROVE  Well(p, run[p], Project(p))'
<1>1. PICK q, r, wanted : q = Project(p) /\ r = run[p] /\ wanted = Wanted(p, "service")
  OBVIOUS
<1>2. /\ r.at = "services" /\ r.plan.project = q /\ Well(p, r, q) /\ RunType /\ r.plan \in PlansOf[p]
      /\ UNCHANGED <<cr, svc, map, claim>>
  BY <1>1, OwnPlan DEF ListServices, At, Plan, Project, UpInv, Stages, lifeVars, objVars
<1>3. PICK left, listed : left = <<>> /\ listed = ServicesOf(q) \ wanted
  OBVIOUS
<1>4. PICK x : GoesOn(p, x) /\ x.at = "dropServices" /\ x.todo = listed
  BY <1>1, <1>2, <1>3, EntersOn DEF ListServices, ServicesOf
<1>5. TodoOwn(p, x, q)
  <2>1. ASSUME NEW s \in ServicesOf(q) PROVE \E plan \in PlansOf[p] : s \in ServicesIn(plan)
    <3>1. PICK p1 \in Users, plan \in UNION {PlansOf[p2] : p2 \in Users} :
            plan \in PlansOf[p1] /\ plan.project = q /\ s \in ServicesIn(plan)
      BY <2>1 DEF UpInv, ServicesPlanned, ServicesOf
    <3>2. p1 = p
      BY <1>2, <3>1 DEF UsersApart
    <3> QED BY <3>1, <3>2
  <2> QED BY <1>3, <1>4, <2>1 DEF TodoOwn
<1>6. ASSUME x.act = "up" PROVE Achieved(x, q) /\ NothingElse(x, q)
  <2>1. r.act = "up" /\ wanted = ServicesIn(r.plan)
    BY <1>1, <1>4, <1>6, WantedIs DEF GoesOn
  <2>2. Achieved(r, q) /\ NothingElse(r, q)
    BY <1>2, <2>1, StaleWell DEF StaleStages
  <2> QED BY <1>1, <1>2, <1>3, <1>4, <2>1, <2>2 DEF GoesOn, Achieved, NothingElse, StaleStages
<1>7. Well(p, x, q)
  BY <1>4, <1>5, <1>6, StaleWell DEF StaleStages
<1> QED BY <1>1, <1>2, <1>4, <1>7, QuietWell DEF GoesOn

LEMMA DropServiceWell ==
  ASSUME ComposeInv, UpInv, NEW p \in Users, DropService(p)
  PROVE  Well(p, run[p], Project(p))'
<1>1. PICK q, r : q = Project(p) /\ r = run[p]
  OBVIOUS
<1>2. /\ r.at = "dropServices" /\ r.plan.project = q /\ Well(p, r, q) /\ RunType /\ r.plan \in PlansOf[p]
      /\ UNCHANGED <<cr, map, claim>>
  BY <1>1, OwnPlan DEF DropService, At, Plan, Project, UpInv, Stages, lifeVars, objVars
<1>3. CASE Ends(p, "error")
  BY <1>3, EndsWell DEF Results
<1>4. CASE r.todo = {} /\ Enters(p, "maps", <<>>, {}) /\ UNCHANGED svc
  <2>1. PICK left : left = <<>>
    OBVIOUS
  <2>2. PICK x : GoesOn(p, x) /\ x.at = "maps"
    BY <1>2, <1>4, <2>1, EntersOn
  <2>3. ASSUME x.act = "up" PROVE Achieved(x, q) /\ NothingElse(x, q)
    <3>1. x.act = r.act /\ x.plan = r.plan
      BY <1>1, <2>2 DEF GoesOn
    <3>2. Achieved(r, q) /\ NothingElse(r, q)
      BY <1>2, <2>3, <3>1, StaleWell DEF StaleStages
    <3> QED BY <1>2, <1>4, <2>2, <3>1, <3>2 DEF Achieved, NothingElse, StaleStages
  <2>4. Well(p, x, q)
    BY <2>2, <2>3, StaleWell DEF StaleStages, TodoOwn
  <2> QED BY <1>1, <1>2, <1>4, <2>2, <2>4, QuietWell DEF GoesOn
<1>5. ASSUME NEW s \in r.todo, Drops(p, s), svc' = [svc EXCEPT ![s] = Absent]
      PROVE  Well(p, run[p], Project(p))'
  <2>1. PICK x : GoesOn(p, x) /\ x.at = r.at /\ x.todo = r.todo \ {s}
    BY <1>1, <1>2, <1>5, DropsOn
  <2>2. x.act = r.act /\ x.plan = r.plan
    BY <1>1, <2>1 DEF GoesOn
  <2>3. TodoOwn(p, x, q)'
    BY <1>2, <2>1 DEF Well, TodoOwn
  <2>4. ASSUME x.act = "up" PROVE Achieved(x, q)' /\ NothingElse(x, q)'
    <3>1. Achieved(r, q) /\ NothingElse(r, q)
      <4>1. r.act = "up" /\ r.at \in StaleStages /\ Well(p, r, q)
        BY <1>2, <2>2, <2>4 DEF StaleStages
      <4> QED BY <4>1, StaleWell
    <3>2. s \notin ServicesIn(r.plan) /\ ServicesOf(q)' \subseteq ServicesOf(q) \ {s}
      BY <1>2, <1>5, <3>1 DEF NothingElse, ServicesOf, ComposeInv, RestType
    <3>3. \A e \in Elems(r.plan.services) : e.service \in ServicesIn(r.plan)
      BY <1>2, EntriesNamed
    <3>4. Achieved(x, q)'
      <4>1. \A e \in Elems(r.plan.services) : Served(q, e)'
        BY <1>5, <3>1, <3>2, <3>3 DEF Achieved, Served, ComposeInv, RestType
      <4>2. \A e \in Elems(r.plan.services) : Runs(e)'
        BY <1>2, <3>1 DEF Achieved, Runs, Named, Stored
      <4> QED BY <1>2, <2>2, <3>1, <4>1, <4>2 DEF Achieved, Claimed, Mapped
    <3>5. NothingElse(x, q)'
      <4>1. OfProject(q)' = OfProject(q)
        BY <1>2 DEF OfProject, Stored
      <4> QED BY <1>2, <2>1, <2>2, <3>1, <3>2, <4>1 DEF NothingElse, StaleStages
    <3> QED BY <3>4, <3>5
  <2>5. Well(p, x, q)'
    BY <1>2, <2>1, <2>3, <2>4, StaleWell DEF StaleStages
  <2> QED BY <1>1, <1>2, <2>1, <2>2, <2>5, WellThen DEF GoesOn
<1>6. ASSUME NEW s \in run[p].todo, svc' = [svc EXCEPT ![s] = Absent], ~Ends(p, "error"),
             IF svc[s] = Absent /\ ~IsDown(run[p].act) THEN Ends(p, "error") ELSE Drops(p, s)
      PROVE  Well(p, run[p], Project(p))'
  BY <1>1, <1>5, <1>6
<1> QED BY <1>1, <1>3, <1>4, <1>6 DEF DropService

LEMMA ListMapsWell ==
  ASSUME ComposeInv, UpInv, NEW p \in Users, ListMaps(p)
  PROVE  Well(p, run[p], Project(p))'
<1>1. PICK q, r, wanted : q = Project(p) /\ r = run[p] /\ wanted = WantedMaps(p)
  OBVIOUS
<1>2. /\ r.at = "maps" /\ r.plan.project = q /\ Well(p, r, q) /\ RunType
      /\ UNCHANGED <<cr, svc, map, claim>>
  BY <1>1 DEF ListMaps, At, Project, UpInv, ComposeInv, lifeVars, objVars
<1>3. PICK left, listed : left = <<>> /\ listed = MapsOf(q) \ wanted
  OBVIOUS
<1>4. PICK x : GoesOn(p, x) /\ x.at = "dropMaps" /\ x.todo = listed
  BY <1>1, <1>2, <1>3, EntersOn DEF ListMaps, MapsOf
<1>5. TodoOwn(p, x, q)
  BY <1>3, <1>4 DEF TodoOwn
<1>6. ASSUME x.act = "up" PROVE Achieved(x, q) /\ NothingElse(x, q)
  <2>1. r.act = "up" /\ wanted = MapsIn(r.plan)
    BY <1>1, <1>4, <1>6, WantedIs DEF GoesOn
  <2>2. Achieved(r, q) /\ NothingElse(r, q)
    BY <1>2, <2>1, StaleWell DEF StaleStages
  <2> QED BY <1>1, <1>2, <1>3, <1>4, <2>1, <2>2 DEF GoesOn, Achieved, NothingElse, StaleStages
<1>7. Well(p, x, q)
  BY <1>4, <1>5, <1>6, StaleWell DEF StaleStages
<1> QED BY <1>1, <1>2, <1>4, <1>7, QuietWell DEF GoesOn

LEMMA DropMapWell ==
  ASSUME ComposeInv, UpInv, NEW p \in Users, DropMap(p)
  PROVE  Well(p, run[p], Project(p))'
<1>1. PICK q, r : q = Project(p) /\ r = run[p]
  OBVIOUS
<1>2. /\ r.at = "dropMaps" /\ r.plan.project = q /\ Well(p, r, q) /\ RunType /\ r.plan \in PlansOf[p]
      /\ UNCHANGED <<cr, svc, claim>>
  BY <1>1, OwnPlan DEF DropMap, At, Plan, Project, UpInv, Stages, lifeVars, objVars
<1>3. ASSUME NEW result \in {"ok", "error"}, Ends(p, result) PROVE Well(p, run[p], Project(p))'
  BY <1>3, EndsWell DEF Results
<1>4. ASSUME NEW stage \in {"claims", "waitEmpty"}, r.act # "up", Enters(p, stage, <<>>, {})
      PROVE  Well(p, run[p], Project(p))'
  <2>1. PICK left : left = <<>>
    OBVIOUS
  <2>2. PICK x : GoesOn(p, x) /\ x.at = stage
    BY <1>2, <1>4, <2>1, EntersOn
  <2> QED BY <1>1, <1>4, <2>2, OtherWell DEF GoesOn
<1>5. ASSUME NEW m \in r.todo, Drops(p, m), map' = [map EXCEPT ![m] = Absent]
      PROVE  Well(p, run[p], Project(p))'
  <2>1. PICK x : GoesOn(p, x) /\ x.at = r.at /\ x.todo = r.todo \ {m}
    BY <1>1, <1>2, <1>5, DropsOn
  <2>2. x.act = r.act /\ x.plan = r.plan
    BY <1>1, <2>1 DEF GoesOn
  <2>3. MapsOf(q)' = MapsOf(q) \ {m}
    BY <1>5 DEF MapsOf, ComposeInv, RestType
  <2>4. TodoOwn(p, x, q)'
    BY <1>2, <2>1, <2>3 DEF Well, TodoOwn
  <2>5. ASSUME x.act = "up" PROVE Achieved(x, q)' /\ NothingElse(x, q)'
    <3>1. Achieved(r, q) /\ NothingElse(r, q)
      <4>1. r.act = "up" /\ r.at \in StaleStages /\ Well(p, r, q)
        BY <1>2, <2>2, <2>5 DEF StaleStages
      <4> QED BY <4>1, StaleWell
    <3>2. m \notin MapsIn(r.plan)
      BY <1>2, <1>5, <3>1 DEF NothingElse
    <3>3. \A e \in Elems(r.plan.configs) : e.map \in MapsIn(r.plan)
      BY <1>2, EntriesNamed
    <3>4. Achieved(x, q)'
      <4>1. \A e \in Elems(r.plan.configs) : Mapped(q, e)'
        BY <1>5, <3>1, <3>2, <3>3 DEF Achieved, Mapped, ComposeInv, RestType
      <4>2. \A e \in Elems(r.plan.services) : Runs(e)'
        BY <1>2, <3>1 DEF Achieved, Runs, Named, Stored
      <4> QED BY <1>2, <2>2, <3>1, <4>1, <4>2 DEF Achieved, Claimed, Served
    <3>5. NothingElse(x, q)'
      <4>1. OfProject(q)' = OfProject(q) /\ ServicesOf(q)' = ServicesOf(q)
        BY <1>2 DEF OfProject, Stored, ServicesOf
      <4> QED BY <1>2, <2>1, <2>2, <2>3, <3>1, <4>1 DEF NothingElse, StaleStages
    <3> QED BY <3>4, <3>5
  <2>6. Well(p, x, q)'
    BY <1>2, <2>1, <2>4, <2>5, StaleWell DEF StaleStages
  <2> QED BY <1>1, <1>2, <2>1, <2>2, <2>6, WellThen DEF GoesOn
<1>6. ASSUME NEW m \in run[p].todo, map' = [map EXCEPT ![m] = Absent], ~Ends(p, "error"),
             IF map[m] = Absent /\ ~IsDown(run[p].act) THEN Ends(p, "error") ELSE Drops(p, m)
      PROVE  Well(p, run[p], Project(p))'
  BY <1>1, <1>5, <1>6
<1>7. CASE AfterMaps(p)
  BY <1>1, <1>3, <1>4, <1>7 DEF AfterMaps
<1> QED BY <1>1, <1>3, <1>6, <1>7 DEF DropMap

(* The other commands, and how a command begins.                           *)

LEMMA OthersActWell ==
  ASSUME ComposeInv, NEW p \in Users,
         ListClaims(p) \/ DropClaim(p) \/ WaitForEmpty(p) \/ SetState(p) \/ GivesUp(p)
  PROVE  Well(p, run[p], Project(p))'
<1> DEFINE stages == {"claims", "dropClaims", "waitEmpty", "list", "setStates", "waitPhases"}
<1>1. PICK r : r = run[p]
  OBVIOUS
<1>2. RunType /\ run \in [Users -> Records]
  BY DEF ComposeInv, RunType
<1>3. ASSUME NEW result \in Results, Ends(p, result) PROVE Well(p, run[p], Project(p))'
  BY <1>3, EndsWell
<1>4. ASSUME r.at \in stages PROVE r.act # "up"
  BY <1>1, <1>4, DropUnderWay DEF Fits, Reaches, Stages
<1>5. ASSUME NEW stage \in stages, NEW left, NEW todo, Enters(p, stage, left, todo), r.at \in stages
      PROVE  Well(p, run[p], Project(p))'
  <2>1. PICK x : GoesOn(p, x) /\ x.at = stage
    BY <1>2, <1>5, EntersOn
  <2> QED BY <1>1, <1>4, <1>5, <2>1, OtherWell DEF GoesOn
<1>6. ASSUME NEW y, Drops(p, y), r.at \in stages PROVE Well(p, run[p], Project(p))'
  <2>1. PICK x : GoesOn(p, x) /\ x.at = r.at
    BY <1>1, <1>2, <1>6, DropsOn
  <2> QED BY <1>1, <1>4, <1>6, <2>1, OtherWell DEF GoesOn
<1>7. ASSUME Shifts(p), r.at \in stages PROVE Well(p, run[p], Project(p))'
  <2>1. PICK x : GoesOn(p, x) /\ x.at = r.at
    BY <1>1, <1>2, <1>7, ShiftsOn
  <2> QED BY <1>1, <1>4, <1>7, <2>1, OtherWell DEF GoesOn
<1>8. PICK none : none = <<>>
  OBVIOUS
<1>9. CASE ListClaims(p)
  BY <1>1, <1>5, <1>8, <1>9 DEF ListClaims, At
<1>10. CASE DropClaim(p)
  BY <1>1, <1>5, <1>6, <1>8, <1>10 DEF DropClaim, At
<1>11. CASE WaitForEmpty(p) \/ GivesUp(p)
  BY <1>3, <1>11 DEF WaitForEmpty, GivesUp, Results
<1>12. CASE ListStates(p)
  BY <1>1, <1>3, <1>5, <1>8, <1>12 DEF ListStates, At, Results
<1>13. CASE SetStates(p)
  BY <1>1, <1>3, <1>5, <1>6, <1>13 DEF SetStates, At, Results
<1>14. CASE WaitForPhases(p)
  <2>1. CASE run' = [run EXCEPT ![p].at = "list", ![p].goal = "Running"]
    <3>1. r.at \in stages /\ r.act # "up"
      BY <1>1, <1>4, <1>14 DEF WaitForPhases, At
    <3>2. run'[p].at = "list" /\ run'[p].act = r.act
      BY <1>1, <1>2, <2>1 DEF Records
    <3> QED BY <3>1, <3>2, OtherWell
  <2> QED BY <1>1, <1>3, <1>7, <1>14, <2>1 DEF WaitForPhases, At, Results
<1> QED BY <1>9, <1>10, <1>11, <1>12, <1>13, <1>14 DEF SetState

LEMMA InvokeWell ==
  ASSUME ComposeInv, NEW p \in Users, NEW act \in Acts, NEW plan \in PlansOf[p], Invoke(p, act, plan)
  PROVE  Well(p, run[p], Project(p))'
<1> DEFINE first == CASE act = "up" -> "checkVolumes" [] IsDown(act) -> "containers" [] OTHER -> "list"
           y == [Done(first) EXCEPT !.act = act, !.plan = plan,
                   !.left = IF act = "up" THEN plan.volumes ELSE <<>>,
                   !.goal = IF act \in {"stop", "restart"} THEN "Stopped" ELSE "Running"]
<1>1. run' = [run EXCEPT ![p] = y]
  BY DEF Invoke
<1>2. first \notin {"dropServices", "dropMaps"} /\ (act = "up" => first = "checkVolumes")
  BY DEF IsDown
<1> HIDE DEF first
<1>3. /\ y.at = first /\ y.act = act /\ y.plan = plan
      /\ act = "up" => y.left = plan.volumes
  BY DEF Done
<1> HIDE DEF y
<1>4. run'[p] = y
  BY <1>1 DEF ComposeInv, RunType
<1>5. CASE act # "up"
  BY <1>2, <1>3, <1>4, <1>5, OtherWell
<1>6. CASE act = "up"
  <2>1. PICK x, q : x = y /\ q = plan.project
    OBVIOUS
  <2>2. Well(p, x, q)'
    BY <1>2, <1>3, <1>6, <2>1
    DEF Well, TodoOwn, VolumesWell, ConfigsWell, ServicesWell, NothingElse, StaleStages
  <2> QED BY <1>3, <1>4, <2>1, <2>2, WellThen
<1> QED BY <1>5, <1>6

LEMMA OwnWell ==
  ASSUME UsersApart, PlansConsistent, ComposeInv, UpInv, NEW p \in Users, Command(p)
  PROVE  Well(p, run[p], Project(p))'
<1>1. CASE Up(p)
  BY <1>1, CheckVolumeWell, CheckServiceWell, ApplyVolumeWell, ApplyConfigMapWell, ApplyContainerWell,
     ApplyServiceWell DEF Up
<1>2. CASE Drop(p)
  BY <1>2, ListContainersWell, DropContainerWell, ListServicesWell, DropServiceWell, ListMapsWell,
     DropMapWell, OthersActWell DEF Drop
<1> QED BY <1>1, <1>2, OthersActWell, InvokeWell DEF Command

----------------------------------------------------------------------------
(* All steps.                                                              *)

\* up makes Services and claims of its own plan only.
LEMMA StaysPlanned ==
  ASSUME ComposeInv, ServicesPlanned, ClaimsPlanned, NEW p \in Users, Command(p)
  PROVE  ServicesPlanned' /\ ClaimsPlanned'
<1> USE DEF ComposeInv
<1>1. ServicesPlanned'
  <2>1. CASE UNCHANGED svc
    BY <2>1 DEF ServicesPlanned
  <2>2. CASE ApplyService(p)
    <3>1. run[p].at = "dns" /\ run[p].left # <<>> /\ Fits(p, run[p]) /\ Plan(p) \in PlansOf[p]
      BY <2>2, UpUnderWay DEF ApplyService, At, Fits, LeftFits, Plan
    <3>2. PICK s, q, plan : s = Head(run[p].left) /\ q = Project(p) /\ plan = Plan(p)
      OBVIOUS
    <3>3. s.service \in ServicesIn(plan) /\ plan.project = q
      BY <3>1, <3>2, OwnService, EntriesNamed DEF Plan, Project
    <3> DEFINE new == [project |-> q, selects |-> s.container]
    <3>4. svc' = [svc EXCEPT ![s.service] = new] /\ new.project = q
      BY <2>2, <3>2 DEF ApplyService
    <3> HIDE DEF new
    <3>5. ASSUME NEW other \in Services, svc'[other] # Absent
          PROVE  \E r \in Users : \E plan1 \in PlansOf[r] :
                   plan1.project = svc'[other].project /\ other \in ServicesIn(plan1)
      <4>1. CASE other = s.service
        BY <3>1, <3>2, <3>3, <3>4, <3>5, <4>1 DEF RestType
      <4>2. CASE other # s.service
        BY <3>4, <3>5, <4>2 DEF ServicesPlanned, RestType
      <4> QED BY <4>1, <4>2
    <3> QED BY <3>5 DEF ServicesPlanned
  <2>3. CASE DropService(p)
    BY <2>1, <2>3 DEF DropService, ServicesPlanned, RestType
  <2> QED BY <2>1, <2>2, <2>3 DEF Command, Up, CheckVolume, CheckService, ApplyVolume, ApplyConfigMap,
        ApplyContainer, Drop, ListContainers, DropContainer, ListServices, ListMaps, DropMap,
        ListClaims, DropClaim, WaitForEmpty, SetState, ListStates, SetStates, WaitForPhases, GivesUp, Invoke
<1>2. ClaimsPlanned'
  <2>1. CASE UNCHANGED claim
    BY <2>1 DEF ClaimsPlanned
  <2>2. CASE ApplyVolume(p) /\ ~UNCHANGED claim
    <3>1. /\ run[p].left # <<>> /\ Plan(p) \in PlansOf[p]
          /\ run[p].left \in Seq(VolumeEntries) \cap Seq(Elems(Plan(p).volumes))
      BY <2>2, UpUnderWay DEF ApplyVolume, At, Fits, LeftFits, Plan
    <3>2. PICK v, q, plan : v = Head(run[p].left) /\ q = Project(p) /\ plan = Plan(p)
      OBVIOUS
    <3>3. v.claim \in ClaimsIn(plan) /\ plan.project = q
      BY <3>1, <3>2, HeadAndTail, EntriesNamed DEF Plan, Project
    <3>4. claim' = [claim EXCEPT ![v.claim] = q]
      BY <2>2, <3>2 DEF ApplyVolume
    <3> QED BY <3>1, <3>2, <3>3, <3>4 DEF ClaimsPlanned, RestType
  <2>3. CASE DropClaim(p)
    BY <2>1, <2>3, NullsApart DEF DropClaim, ClaimsPlanned, RestType
  <2> QED BY <2>1, <2>2, <2>3 DEF Command, Up, CheckVolume, CheckService, ApplyService, ApplyConfigMap,
        ApplyContainer, Drop, ListContainers, DropContainer, ListServices, DropService, ListMaps, DropMap,
        ListClaims, WaitForEmpty, SetState, ListStates, SetStates, WaitForPhases, GivesUp, Invoke
<1> QED BY <1>1, <1>2

LEMMA UpInit == ComposeInit => UpInv
<1> SUFFICES ASSUME ComposeInit PROVE UpInv
  OBVIOUS
<1>1. UniqueNames /\ ServicesPlanned
  BY DEF ComposeInit, LifeInit, ObjectsInit, UniqueNames, Stored, ServicesPlanned
<1>2. ClaimsPlanned
  BY NullsApart DEF ComposeInit, ClaimsPlanned
<1>3. \A p \in Users : Well(p, run[p], Project(p))
  BY DoneWell DEF ComposeInit, Results
<1> QED BY <1>1, <1>2, <1>3 DEF UpInv

LEMMA UpNext ==
  ASSUME UsersApart, PlansConsistent, ComposeInv, UpInv, [ComposeNext]_composeVars
  PROVE  UpInv'
<1>1. CASE UNCHANGED composeVars
  <2>1. UNCHANGED <<cr, svc, map, claim, run>>
    BY <1>1 DEF composeVars, lifeVars
  <2>2. ASSUME NEW p \in Users PROVE Well(p, run[p], Project(p))'
    <3>1. PICK x, q : x = run[p] /\ q = Project(p)
      OBVIOUS
    <3>2. Well(p, x, q) /\ run'[p] = x /\ x.plan.project = q
      BY <2>1, <3>1 DEF UpInv, Project
    <3> QED BY <2>1, <3>2, QuietWell
  <2> QED BY <2>1, <2>2 DEF UpInv, UniqueNames, ServicesPlanned, ClaimsPlanned, Stored
<1>2. CASE \E u \in UIDs : Promised(u) /\ UNCHANGED <<svc, map, claim, run>>
  BY <1>2, PromisedWell
<1>3. ASSUME NEW r \in Users, Command(r) PROVE UpInv'
  <2>1. UniqueNames'
    BY <1>3, CommandObjects, StaysUnique DEF UpInv
  <2>2. ServicesPlanned' /\ ClaimsPlanned'
    BY <1>3, StaysPlanned DEF UpInv
  <2>3. \A p \in Users : Well(p, run[p], Project(p))'
    BY <1>3, OthersWell, OwnWell
  <2> QED BY <2>1, <2>2, <2>3 DEF UpInv
<1> QED BY <1>1, <1>2, <1>3 DEF ComposeNext, Command

\* up reports success only when nothing is left to delete.
LEMMA UpEnds ==
  ASSUME ComposeInv, [ComposeNext]_composeVars, NEW p \in Users, Returns(p, "up", "ok")
  PROVE  run[p].todo = {}
<1>1. RunType /\ run \in [Users -> Records] /\ run' # run
  BY DEF ComposeInv, RunType, Returns, At
<1>2. Command(p)
  <2>1. PICK r \in Users : Command(r)
    BY <1>1 DEF ComposeNext, Command, composeVars
  <2> QED BY <1>1, <2>1, OthersRun DEF Returns, At
<1>3. DropMap(p)
  <2>1. ~Up(p) /\ ~SetState(p)
    BY DEF Returns, At, Up, CheckVolume, CheckService, ApplyVolume, ApplyConfigMap, ApplyContainer,
       ApplyService, SetState, ListStates, SetStates, WaitForPhases
  <2>2. ~GivesUp(p) /\ \A act \in Acts, plan \in PlansOf[p] : ~Invoke(p, act, plan)
    BY <1>1 DEF Returns, At, GivesUp, Invoke, Ends, Done, Results
  <2>3. Drop(p) => DropMap(p)
    BY DEF Returns, At, Drop, ListContainers, DropContainer, ListServices, DropService, ListMaps,
       ListClaims, DropClaim, WaitForEmpty
  <2> QED BY <1>2, <2>1, <2>2, <2>3 DEF Command
<1>4. ~Ends(p, "error") /\ \A m : ~Drops(p, m)
  BY <1>1 DEF Ends, Done, Drops, Records, Returns, At
<1> QED BY <1>3, <1>4 DEF DropMap

\* While users share no names, every up keeps to what it has dealt with so far,
\* whatever the others and the controller do in between (apply.go:26-208).
THEOREM UpCorrect ==
  ASSUME UsersApart, PlansConsistent
  PROVE  ComposeSpec => []UpInv
<1>1. ComposeInv /\ UpInv /\ [ComposeNext]_composeVars => UpInv'
  BY UpNext
<1> QED BY <1>1, UpInit, ComposeCorrect, PTL DEF ComposeSpec

\* While users share no names: when up reports success, the workloads, Services,
\* ConfigMaps and claims of its plan are as the plan says, and nothing else of
\* the project is left that is not being removed (apply.go:26-53, 162-208).
THEOREM UpComplete ==
  ASSUME UsersApart, PlansConsistent
  PROVE  ComposeSpec => UpLeavesOnlyThePlan
<1> DEFINE Left(p, plan) ==
       /\ \A i \in DOMAIN plan.services :
            /\ \A u \in Named(plan.services[i].container) :
                 cr[u].config = plan.services[i].config /\ cr[u].desired = "Running"
            /\ svc[plan.services[i].service] =
                 [project |-> plan.project, selects |-> plan.services[i].container]
       /\ \A i \in DOMAIN plan.configs :
            map[plan.configs[i].map] = [project |-> plan.project, data |-> plan.configs[i].data]
       /\ \A i \in DOMAIN plan.volumes : claim[plan.volumes[i].claim] # Absent
       /\ \A u \in OfProject(plan.project) :
            cr[u].deleting \/ cr[u].name \in Wanted(p, "container")
       /\ \A s \in Services : svc[s] # Absent /\ svc[s].project = plan.project
                                => s \in Wanted(p, "service")
       /\ \A m \in Maps : map[m] # Absent /\ map[m].project = plan.project
                                => m \in WantedMaps(p)
<1>1. ASSUME ComposeInv, UpInv, [ComposeNext]_composeVars, NEW p \in Users, Returns(p, "up", "ok")
      PROVE  Left(p, Plan(p))
  <2>1. PICK plan, q : plan = Plan(p) /\ q = plan.project
    OBVIOUS
  <2>2. run[p].act = "up" /\ run[p].at = "dropMaps" /\ run[p].todo = {} /\ run[p].plan = plan
    BY <1>1, <2>1, UpEnds DEF Returns, At, Plan
  <2>3. Achieved(run[p], q) /\ NothingElse(run[p], q)
    <3>1. Well(p, run[p], q)
      BY <1>1, <2>1 DEF UpInv, Project, Plan
    <3> QED BY <2>2, <3>1 DEF Well, Achieved, VolumesWell, ConfigsWell, ServicesWell, StaleStages
  <2>4. \A i \in DOMAIN plan.services :
          Runs(plan.services[i]) /\ Served(q, plan.services[i])
    BY <2>2, <2>3 DEF Achieved, Elems
  <2>5. \A i \in DOMAIN plan.configs : Mapped(q, plan.configs[i])
    BY <2>2, <2>3 DEF Achieved, Elems
  <2>6. \A i \in DOMAIN plan.volumes : Claimed(plan.volumes[i])
    BY <2>2, <2>3 DEF Achieved, Elems
  <2>7. /\ Wanted(p, "container") = ContainersIn(plan) /\ Wanted(p, "service") = ServicesIn(plan)
        /\ WantedMaps(p) = MapsIn(plan)
    BY <2>2, WantedIs
  <2>8. /\ \A u \in OfProject(q) : cr[u].deleting \/ cr[u].name \in ContainersIn(plan)
        /\ ServicesOf(q) \subseteq ServicesIn(plan) /\ MapsOf(q) \subseteq MapsIn(plan)
    BY <2>2, <2>3 DEF NothingElse, StaleStages
  <2>9. Left(p, plan)
    BY <2>1, <2>4, <2>5, <2>6, <2>7, <2>8 DEF Runs, Served, Mapped, Claimed, ServicesOf, MapsOf
  <2> QED BY <2>1, <2>9
<1>2. ComposeInv /\ UpInv /\ [ComposeNext]_composeVars =>
        \A p \in Users : Returns(p, "up", "ok") => LET plan == Plan(p) IN Left(p, plan)
  BY <1>1
<1>3. [][\A p \in Users : Returns(p, "up", "ok") => LET plan == Plan(p) IN Left(p, plan)]_composeVars
        => UpLeavesOnlyThePlan
  BY DEF UpLeavesOnlyThePlan
<1> HIDE DEF Left
<1> QED BY <1>2, <1>3, ComposeCorrect, UpCorrect, PTL DEF ComposeSpec
=============================================================================
