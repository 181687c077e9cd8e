------------------------------- MODULE Compose -------------------------------
(***************************************************************************)
(* The compose commands that change the cluster (src/internal/compose/     *)
(* apply.go and src/internal/cli/compose.go): up, stop, start, restart and *)
(* down, as processes beside the controller, which is seen as Lifecycle    *)
(* promises it.                                                            *)
(*                                                                         *)
(* One step handles one object.  Where the code reads an object and writes *)
(* it back with the resourceVersion it read, or creates it after NotFound, *)
(* the two calls are one step: another client in between only makes the    *)
(* second call fail, and a failing call is GivesUp.  SetState is different *)
(* and is modelled with its resourceVersions: it lists once and then       *)
(* updates the listed copies one by one.                                   *)
(***************************************************************************)
EXTENDS Lifecycle, Sequences

CONSTANTS
  Projects, Services, Maps, Claims,   \* names of projects, Services, ConfigMaps, PVCs
  Data,                               \* contents of a ConfigMap
  ProjectOf,      \* ProjectOf[g]: the project label in the spec (and metadata) of g
  Users,          \* command-line processes
  PlansOf,        \* PlansOf[p]: what Load can return to user p
  Acts,           \* the commands they give
  Absent, Unlabelled, NoPlan

VARIABLES
  svc,      \* svc[s]: project label and selected container of Service s
  map,      \* map[m]: project label and content of ConfigMap m
  claim,    \* claim[v]: the project label of PersistentVolumeClaim v
  run       \* run[p]: the command user p executes

composeVars == <<lifeVars, svc, map, claim, run>>

ServiceObjects == [project : Projects, selects : Names]
MapObjects     == [project : Projects, data : Data]

AllActs == {"up", "stop", "start", "restart", "down", "downVolumes"}
IsDown(act) == act \in {"down", "downVolumes"}

\* A plan: the project, and in the order Apply goes through them its volumes,
\* configs and services (container name and spec, Service name).
PlanRecords ==
  [project : Projects,
   volumes : Seq([claim : Claims, external : BOOLEAN]),
   configs : Seq([map : Maps, data : Data]),
   services : Seq([container : Names, config : Configs, service : Services])]

ASSUME PlansKnown == PlansOf \in [Users -> SUBSET PlanRecords]
ASSUME LabelsKnown == ProjectOf \in [Configs -> Projects]
ASSUME NullsApart ==
  /\ Absent \notin Projects \cup {Unlabelled} \cup ServiceObjects \cup MapObjects
  /\ Unlabelled \notin Projects
\* Every spec of a plan carries the plan's project label (project.go:294).
ASSUME PlansLabelled ==
  \A p \in Users : \A plan \in PlansOf[p] : \A i \in DOMAIN plan.services :
    ProjectOf[plan.services[i].config] = plan.project
ASSUME UsersRead == Users \subseteq Readers
ASSUME ActsKnown == Acts \subseteq AllActs

Results == {"ready", "ok", "error"}
Stages == {"checkVolumes", "checkServices", "volumes", "configs", "workloads", "dns",
           "containers", "dropContainers", "services", "dropServices",
           "maps", "dropMaps", "claims", "dropClaims", "waitEmpty",
           "list", "setStates", "waitPhases"}

Done(result) == [act |-> "none", at |-> result, plan |-> NoPlan, left |-> <<>>,
                 todo |-> {}, goal |-> "Running", waits |-> FALSE]

ComposeTypeOK ==
  /\ LifeTypeOK
  /\ svc \in [Services -> ServiceObjects \cup {Absent}]
  /\ map \in [Maps -> MapObjects \cup {Absent}]
  /\ claim \in [Claims -> Projects \cup {Absent, Unlabelled}]
  /\ \A p \in Users :
       /\ run[p].at \in Results => run[p] = Done(run[p].at)
       /\ run[p].at \notin Results =>
            /\ run[p].at \in Stages /\ run[p].act \in Acts /\ run[p].plan \in PlansOf[p]
            /\ run[p].todo \subseteq UIDs \cup Names \cup Services \cup Maps \cup Claims
            /\ run[p].goal \in DesiredStates /\ run[p].waits \in BOOLEAN

\* The claims of external volumes are made by somebody else beforehand.
ComposeInit ==
  /\ LifeInit
  /\ svc = [s \in Services |-> Absent]
  /\ map = [m \in Maps |-> Absent]
  /\ claim \in [Claims -> {Absent, Unlabelled}]
  /\ run = [p \in Users |-> Done("ready")]

At(p, stage) == run[p].at = stage
Plan(p)      == run[p].plan
Project(p)   == run[p].plan.project

Ends(p, result) == run' = [run EXCEPT ![p] = Done(result)]
Enters(p, stage, left, todo) ==
  run' = [run EXCEPT ![p].at = stage, ![p].left = left, ![p].todo = todo]

\* The listed copies are out of scope.
Forgets(p) == Read(p, {})

\* The head of the list is dealt with; the set loses an element.
Shifts(p)    == run' = [run EXCEPT ![p].left = Tail(@)]
Drops(p, x)  == run' = [run EXCEPT ![p].todo = @ \ {x}]

OfProject(q) == {u \in Stored : ProjectOf[cr[u].config] = q}

\* The names up keeps of the container or the service kind; down keeps none.
Wanted(p, field) ==
  IF IsDown(run[p].act) THEN {}
  ELSE {Plan(p).services[i][field] : i \in DOMAIN Plan(p).services}
WantedMaps(p) ==
  IF IsDown(run[p].act) THEN {}
  ELSE {Plan(p).configs[i].map : i \in DOMAIN Plan(p).configs}

----------------------------------------------------------------------------
\* Mutant of Invoke: restart asks for a state of its own.
InvokeRestarting(p, act, plan) ==
  /\ run[p].at \in Results
  /\ run' = [run EXCEPT ![p] =
       [Done(CASE act = "up" -> "checkVolumes"
               [] IsDown(act) -> "containers"
               [] OTHER -> "list") EXCEPT
          !.act = act, !.plan = plan,
          !.left = IF act = "up" THEN plan.volumes ELSE <<>>,
          !.goal = CASE act = "stop" -> "Stopped" [] act = "restart" -> "Restarting"
                     [] OTHER -> "Running"]]
  /\ UNCHANGED <<lifeVars, svc, map, claim>>

Invoke(p, act, plan) ==
  /\ run[p].at \in Results
  /\ run' = [run EXCEPT ![p] =
       [Done(CASE act = "up" -> "checkVolumes"
               [] IsDown(act) -> "containers"
               [] OTHER -> "list") EXCEPT
          !.act = act, !.plan = plan,
          !.left = IF act = "up" THEN plan.volumes ELSE <<>>,
          !.goal = IF act \in {"stop", "restart"} THEN "Stopped" ELSE "Running"]]
  /\ UNCHANGED <<lifeVars, svc, map, claim>>

(* preflight: nothing is written before everything it needs was there.     *)
CheckVolume(p) ==
  /\ At(p, "checkVolumes")
  /\ IF run[p].left = <<>> THEN Enters(p, "checkServices", Plan(p).services, {})
     ELSE LET v == Head(run[p].left) IN
          IF v.external /\ claim[v.claim] = Absent THEN Ends(p, "error") ELSE Shifts(p)
  /\ UNCHANGED <<lifeVars, svc, map, claim>>

CheckService(p) ==
  /\ At(p, "checkServices")
  /\ IF run[p].left = <<>> THEN Enters(p, "volumes", Plan(p).volumes, {})
     ELSE LET s == Head(run[p].left).service IN
          IF svc[s] # Absent /\ svc[s].project # Project(p) THEN Ends(p, "error") ELSE Shifts(p)
  /\ UNCHANGED <<lifeVars, svc, map, claim>>

(* Apply: claims that exist are taken as they are, whoever made them.      *)
ApplyVolume(p) ==
  /\ At(p, "volumes")
  /\ IF run[p].left = <<>> THEN Enters(p, "configs", Plan(p).configs, {}) /\ UNCHANGED claim
     ELSE LET v == Head(run[p].left) IN
          /\ Shifts(p)
          /\ claim' = IF v.external \/ claim[v.claim] # Absent THEN claim
                      ELSE [claim EXCEPT ![v.claim] = Project(p)]
  /\ UNCHANGED <<lifeVars, svc, map>>

ApplyConfigMap(p) ==
  /\ At(p, "configs")
  /\ IF run[p].left = <<>> THEN Enters(p, "workloads", Plan(p).services, {}) /\ UNCHANGED map
     ELSE LET c == Head(run[p].left) IN
          IF map[c.map] # Absent /\ map[c.map].project # Project(p)
            THEN Ends(p, "error") /\ UNCHANGED map
            ELSE /\ Shifts(p)
                 /\ map' = [map EXCEPT ![c.map] = [project |-> Project(p), data |-> c.data]]
  /\ UNCHANGED <<lifeVars, svc, claim>>

\* Mutant of ApplyContainer: the desired state of an existing object is kept.
ApplyContainerAsIs(p) ==
  /\ At(p, "workloads")
  /\ IF run[p].left = <<>>
       THEN Enters(p, "containers", <<>>, {}) /\ UNCHANGED objVars
       ELSE LET s == Head(run[p].left) IN
         \/ /\ \E u \in UIDs : CreateContainer(u, s.container, s.config)
            /\ Enters(p, "dns", run[p].left, {})
         \/ \E u \in Named(s.container) :
              IF ProjectOf[cr[u].config] # Project(p)
                THEN Ends(p, "error") /\ UNCHANGED objVars
                ELSE /\ Store(u, [cr[u] EXCEPT !.config = s.config])
                     /\ Enters(p, "dns", run[p].left, {})
  /\ UNCHANGED <<busy, svc, map, claim>>

\* Mutant of ApplyContainer: an object that exists is written anew, without
\* its finalizer.
ApplyContainerAnew(p) ==
  /\ At(p, "workloads")
  /\ IF run[p].left = <<>>
       THEN Enters(p, "containers", <<>>, {}) /\ UNCHANGED objVars
       ELSE LET s == Head(run[p].left) IN
         \/ /\ \E u \in UIDs : CreateContainer(u, s.container, s.config)
            /\ Enters(p, "dns", run[p].left, {})
         \/ \E u \in Named(s.container) :
              IF ProjectOf[cr[u].config] # Project(p)
                THEN Ends(p, "error") /\ UNCHANGED objVars
                ELSE /\ Store(u, [cr[u] EXCEPT !.config = s.config, !.desired = "Running",
                                              !.fin = FALSE])
                     /\ Enters(p, "dns", run[p].left, {})
  /\ UNCHANGED <<busy, svc, map, claim>>

\* applyContainer: create, or take over the spec of an object of the project.
ApplyContainer(p) ==
  /\ At(p, "workloads")
  /\ IF run[p].left = <<>>
       THEN Enters(p, "containers", <<>>, {}) /\ UNCHANGED objVars
       ELSE LET s == Head(run[p].left) IN
         \/ /\ \E u \in UIDs : CreateContainer(u, s.container, s.config)
            /\ Enters(p, "dns", run[p].left, {})
         \/ \E u \in Named(s.container) :
              IF ProjectOf[cr[u].config] # Project(p)
                THEN Ends(p, "error") /\ UNCHANGED objVars
                ELSE /\ Store(u, [cr[u] EXCEPT !.config = s.config, !.desired = "Running"])
                     /\ Enters(p, "dns", run[p].left, {})
  /\ UNCHANGED <<busy, svc, map, claim>>

\* applyService: whatever Service has the name is overwritten, labels included.
ApplyService(p) ==
  /\ At(p, "dns")
  /\ LET s == Head(run[p].left) IN
       svc' = [svc EXCEPT ![s.service] = [project |-> Project(p), selects |-> s.container]]
  /\ Enters(p, "workloads", Tail(run[p].left), {})
  /\ UNCHANGED <<lifeVars, map, claim>>

(* removeStale and Down: list by project label, then delete by name; down  *)
(* does not mind a name that is gone by then.                              *)
ListContainers(p) ==
  /\ At(p, "containers")
  /\ run' = [run EXCEPT ![p].at = "dropContainers",
       ![p].todo = {cr[u].name : u \in OfProject(Project(p))} \ Wanted(p, "container"),
       ![p].waits = IsDown(run[p].act) /\ OfProject(Project(p)) # {}]
  /\ UNCHANGED <<lifeVars, svc, map, claim>>

DropContainer(p) ==
  /\ At(p, "dropContainers")
  /\ \/ run[p].todo = {} /\ Enters(p, "services", <<>>, {}) /\ UNCHANGED objVars
     \/ \E n \in run[p].todo :
          \/ /\ Named(n) = {}
             /\ IF IsDown(run[p].act) THEN Drops(p, n) ELSE Ends(p, "error")
             /\ UNCHANGED objVars
          \/ \E u \in Named(n) :
               /\ Drops(p, n)
               /\ IF cr[u].deleting THEN UNCHANGED objVars ELSE DeleteContainer(u)
  /\ UNCHANGED <<busy, svc, map, claim>>

ListServices(p) ==
  /\ At(p, "services")
  /\ Enters(p, "dropServices", <<>>,
            {s \in Services : svc[s] # Absent /\ svc[s].project = Project(p)}
              \ Wanted(p, "service"))
  /\ UNCHANGED <<lifeVars, svc, map, claim>>

DropService(p) ==
  /\ At(p, "dropServices")
  /\ \/ run[p].todo = {} /\ Enters(p, "maps", <<>>, {}) /\ UNCHANGED svc
     \/ \E s \in run[p].todo :
          /\ IF svc[s] = Absent /\ ~IsDown(run[p].act) THEN Ends(p, "error") ELSE Drops(p, s)
          /\ svc' = [svc EXCEPT ![s] = Absent]
  /\ UNCHANGED <<lifeVars, map, claim>>

ListMaps(p) ==
  /\ At(p, "maps")
  /\ Enters(p, "dropMaps", <<>>,
            {m \in Maps : map[m] # Absent /\ map[m].project = Project(p)} \ WantedMaps(p))
  /\ UNCHANGED <<lifeVars, svc, map, claim>>

\* Mutant of AfterMaps: every down goes on to the claims.
AfterMapsAll(p) ==
  IF IsDown(run[p].act) THEN Enters(p, "claims", <<>>, {}) ELSE Ends(p, "ok")

AfterMaps(p) ==
  CASE run[p].act = "downVolumes" -> Enters(p, "claims", <<>>, {})
    [] run[p].act = "down"        -> Enters(p, "waitEmpty", <<>>, {})
    [] OTHER                      -> Ends(p, "ok")

DropMap(p) ==
  /\ At(p, "dropMaps")
  /\ \/ run[p].todo = {} /\ AfterMaps(p) /\ UNCHANGED map
     \/ \E m \in run[p].todo :
          /\ IF map[m] = Absent /\ ~IsDown(run[p].act) THEN Ends(p, "error") ELSE Drops(p, m)
          /\ map' = [map EXCEPT ![m] = Absent]
  /\ UNCHANGED <<lifeVars, svc, claim>>

ListClaims(p) ==
  /\ At(p, "claims")
  /\ Enters(p, "dropClaims", <<>>, {v \in Claims : claim[v] = Project(p)})
  /\ UNCHANGED <<lifeVars, svc, map, claim>>

DropClaim(p) ==
  /\ At(p, "dropClaims")
  /\ \/ run[p].todo = {} /\ Enters(p, "waitEmpty", <<>>, {}) /\ UNCHANGED claim
     \/ \E v \in run[p].todo : Drops(p, v) /\ claim' = [claim EXCEPT ![v] = Absent]
  /\ UNCHANGED <<lifeVars, svc, map>>

\* Mutant of WaitForEmpty: the deletions are taken for done.
WaitForNothing(p) ==
  /\ At(p, "waitEmpty")
  /\ Ends(p, "ok")
  /\ UNCHANGED <<lifeVars, svc, map, claim>>

\* Down polls until the project has no workload left, if it found any at first.
WaitForEmpty(p) ==
  /\ At(p, "waitEmpty")
  /\ run[p].waits => OfProject(Project(p)) = {}
  /\ Ends(p, "ok")
  /\ UNCHANGED <<lifeVars, svc, map, claim>>

(* SetState: one List, then an Update of each listed copy, not repeated    *)
(* after a conflict; and the wait for every service of the plan.           *)
ListStates(p) ==
  /\ At(p, "list")
  /\ IF OfProject(Project(p)) = {}
       THEN Ends(p, "error") /\ UNCHANGED fresh
       ELSE /\ Enters(p, "setStates", <<>>, OfProject(Project(p)))
            /\ Read(p, OfProject(Project(p)))
  /\ UNCHANGED <<cr, busy, svc, map, claim>>

\* Mutant of SetStates: a copy in conflict is passed over.
SetStatesPast(p) ==
  /\ At(p, "setStates")
  /\ \/ /\ run[p].todo = {}
        /\ Enters(p, "waitPhases", Plan(p).services, {})
        /\ Forgets(p) /\ UNCHANGED cr
     \/ \E u \in run[p].todo :
          /\ ConditionalStore(p, u, [cr[u] EXCEPT !.desired = run[p].goal])
          /\ Drops(p, u)
  /\ UNCHANGED <<busy, svc, map, claim>>

SetStates(p) ==
  /\ At(p, "setStates")
  /\ \/ /\ run[p].todo = {}
        /\ Enters(p, "waitPhases", Plan(p).services, {})
        /\ Forgets(p) /\ UNCHANGED cr
     \/ \E u \in run[p].todo :
          IF u \in fresh[p]
            THEN /\ Store(u, [cr[u] EXCEPT !.desired = run[p].goal])
                 /\ Drops(p, u)
            ELSE Ends(p, "error") /\ Forgets(p) /\ UNCHANGED cr
  /\ UNCHANGED <<busy, svc, map, claim>>

WaitForPhases(p) ==
  /\ At(p, "waitPhases")
  /\ IF run[p].left = <<>>
       THEN IF run[p].act = "restart" /\ run[p].goal = "Stopped"
              THEN run' = [run EXCEPT ![p].at = "list", ![p].goal = "Running"]
              ELSE Ends(p, "ok")
       ELSE LET n == Head(run[p].left).container IN
         \/ Named(n) = {} /\ Ends(p, "error")
         \/ \E u \in Named(n) : cr[u].phase = run[p].goal /\ Shifts(p)
  /\ UNCHANGED <<lifeVars, svc, map, claim>>

Up(p)   == CheckVolume(p) \/ CheckService(p) \/ ApplyVolume(p) \/ ApplyConfigMap(p)
           \/ ApplyContainer(p) \/ ApplyService(p)
Drop(p) == ListContainers(p) \/ DropContainer(p) \/ ListServices(p) \/ DropService(p)
           \/ ListMaps(p) \/ DropMap(p) \/ ListClaims(p) \/ DropClaim(p) \/ WaitForEmpty(p)
SetState(p) == ListStates(p) \/ SetStates(p) \/ WaitForPhases(p)

\* A call fails, a deadline passes, or the user interrupts.
GivesUp(p) ==
  /\ run[p].at \notin Results
  /\ Ends(p, "error")
  /\ Forgets(p)
  /\ UNCHANGED <<cr, busy, svc, map, claim>>

ComposeNext ==
  \/ /\ \E u \in UIDs : Promised(u)
     /\ UNCHANGED <<svc, map, claim, run>>
  \/ \E p \in Users :
       \/ Up(p) \/ Drop(p) \/ SetState(p) \/ GivesUp(p)
       \/ \E act \in Acts, plan \in PlansOf[p] : Invoke(p, act, plan)

ComposeSpec == ComposeInit /\ [][ComposeNext]_composeVars

----------------------------------------------------------------------------
(* Properties.                                                             *)

Returns(p, act, result) == run[p].act = act /\ At(p, "dropMaps") /\ run'[p].at = result

\* When stop or start reports success, or restart ends its first half, every
\* workload of the project asks for the new state, also those that are not
\* in the plan and were not waited for: SetState stops at its first failure
\* and leaves the rest behind, but then it says so (apply.go:221-243).
StateReachesEveryWorkload ==
  [][\A p \in Users : (At(p, "waitPhases") /\ run'[p].at \in {"ok", "list"}) =>
       \A u \in OfProject(Project(p)) : cr[u].desired = run[p].goal]_composeVars

\* Nothing but the plan, and the plan as it is now, is left when up reports
\* success: workloads under the plan's names carry its spec and ask for
\* Running, ConfigMaps its content, Services its selection, claims exist, and
\* nothing else of the project is left that is not already being removed.
\* Several steps apart, and against leftovers of any earlier, perhaps
\* interrupted, command of the project (apply.go:26-53, 162-208).
UpLeavesOnlyThePlan ==
  [][\A p \in Users : Returns(p, "up", "ok") =>
       LET plan == Plan(p) IN
       /\ \A i \in DOMAIN plan.services :
            /\ \A u \in Named(plan.services[i].container) :
                 cr[u].config = plan.services[i].config /\ cr[u].desired = "Running"
            /\ svc[plan.services[i].service] =
                 [project |-> plan.project, selects |-> plan.services[i].container]
       /\ \A i \in DOMAIN plan.configs :
            map[plan.configs[i].map] = [project |-> plan.project, data |-> plan.configs[i].data]
       /\ \A i \in DOMAIN plan.volumes : claim[plan.volumes[i].claim] # Absent
       /\ \A u \in OfProject(plan.project) :
            cr[u].deleting \/ cr[u].name \in Wanted(p, "container")
       /\ \A s \in Services : svc[s] # Absent /\ svc[s].project = plan.project
                                => s \in Wanted(p, "service")
       /\ \A m \in Maps : map[m] # Absent /\ map[m].project = plan.project
                                => m \in WantedMaps(p)]_composeVars

\* When down reports success, and nobody else works on the project, nothing
\* of the project is stored, nothing runs for it any more, and with --volumes
\* its claims are gone (apply.go:245-297).
DownLeavesNothing ==
  [][\A p \in Users : (At(p, "waitEmpty") /\ run'[p].at = "ok") =>
       LET q == Project(p) IN
       /\ OfProject(q) = {}
       /\ \A u \in busy : Exists(u) /\ ProjectOf[cr[u].config] # q
       /\ \A s \in Services : svc[s] # Absent => svc[s].project # q
       /\ \A m \in Maps : map[m] # Absent => map[m].project # q
       /\ run[p].act = "downVolumes" => \A v \in Claims : claim[v] # q]_composeVars

\* While no two users work on one project, a claim goes away only in a
\* down --volumes of the project that made it: neither up, nor down, nor
\* another project's command loses data, whatever they interleave
\* (apply.go:30-38, 274-284).
DataSurvives ==
  [][\A v \in Claims : claim'[v] # claim[v] =>
       \/ claim[v] = Absent
       \/ \E p \in Users : run[p].act = "downVolumes" /\ Project(p) = claim[v]]_composeVars

\* The compose commands use objects only as Lifecycle, and with it the proof
\* about the controller, takes clients to: they create under free names, write
\* whole specs or the desired state, and delete; never a finalizer or a status,
\* although SetState writes whole copies it listed earlier (apply.go:79-120,
\* 223-243, 252-262).
Seen == INSTANCE Lifecycle WITH Readers <- {}, fresh <- [r \in {} |-> {}]
ImplementsLifecycle == Seen!LifeSpec

\* Every workload of the plan is there, and stays, when up reports success.
UpCreatesEveryWorkload ==
  [][\A p \in Users : Returns(p, "up", "ok") =>
       \A i \in DOMAIN Plan(p).services :
         \E u \in Named(Plan(p).services[i].container) : ~cr[u].deleting]_composeVars
=============================================================================
