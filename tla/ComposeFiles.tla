----------------------------- MODULE ComposeFiles -----------------------------
(***************************************************************************)
(* What a compose file becomes: Load of src/internal/compose/project.go    *)
(* turns the file the user keeps editing into a plan, up writes the plan's *)
(* ConfigMaps and then its workloads, and the controller replaces a Pod    *)
(* only when the spec of its workload has changed.  A Pod reads a mounted  *)
(* ConfigMap once, when it starts; a new content reaches it because the    *)
(* plan puts a hash of it in the spec.  Compose has the calls of up in     *)
(* full; here one step writes one object and plans are translated.         *)
(*                                                                         *)
(* A name in a file is a sequence of words, and plain if it is a DNS name  *)
(* already: lower case, words joined by "-", at most 63 characters.        *)
(***************************************************************************)
EXTENDS Integers, Sequences, SequencesExt, FiniteSets

CONSTANTS
  Files,     \* the versions of the user's file
  Words, Contents, Images, Ports,
  Missing,   \* the content of a config that cannot be read
  None       \* no file, no object, no Pod, no number

VARIABLES
  file,     \* the file now
  loaded,   \* the file the running up was given
  at,       \* what up does next
  left,     \* what is left to be written
  applied,  \* the file of the last up that succeeded
  work,     \* work[n]: the spec of workload n
  map,      \* map[m]: project and content of ConfigMap m
  pod,      \* pod[n]: the Pod of workload n
  orderly   \* so far nothing disturbed the update of a content

upVars == <<loaded, at, left>>
vars == <<file, upVars, applied, work, map, pod, orderly>>

RawNames == [words : Seq(Words), plain : BOOLEAN]
\* An entry of ports or, without a published number, of expose.
PortEntries == [target : Ports, udp : BOOLEAN, published : Ports \cup {None}]

\* image is everything a service passes on as it is: command, environment,
\* resources, probes and so on.
FileRecords ==
  [project  : RawNames,
   volumes  : Seq([name : RawNames, external : BOOLEAN]),
   configs  : Seq([name : RawNames, content : Contents \cup {Missing}]),
   services : Seq([name : RawNames, supported : BOOLEAN, image : Images,
                   ports : Seq(PortEntries), after : SUBSET RawNames,
                   volumes : SUBSET RawNames, configs : SUBSET RawNames])]

ASSUME FilesKnown == Files \subseteq FileRecords
ASSUME MissingIsNoContent == Missing \notin Contents
\* The sections of a file are maps (project.go:251, 260, 281): no name twice.
ASSUME FilesKeyed ==
  \A f \in Files : \A section \in {f.volumes, f.configs, f.services} :
    \A i, j \in DOMAIN section : section[i].name = section[j].name => i = j

----------------------------------------------------------------------------
(* Translation.  Sections of a file are lists in the order of their names. *)

\* dnsName: other characters become "-", upper case lower case.  Names that
\* are too long are cut and end in a hash of the whole, taken as injective.
Dns(name) == name.words

NamesIn(section) == {section[i].name : i \in DOMAIN section}
Entry(section, name) == section[CHOOSE i \in DOMAIN section : section[i].name = name]

\* compose-go names a volume after project and key, an external one after
\* its key.
ClaimName(f, v) == IF v.external THEN Dns(v.name) ELSE Dns(f.project) \o Dns(v.name)
MapName(f, name) == Dns(f.project) \o <<"config">> \o Dns(name)
ContainerName(f, name) == Dns(f.project) \o Dns(name)

\* configContent: a config has its content inline, in a variable or a file.
Readable(config) == config.content # Missing

\* Mutant of Valid: a service may have any name.
ValidAnyName(f) ==
  /\ f.services # <<>>
  /\ \A i \in DOMAIN f.configs : Readable(f.configs[i])
  /\ \A i \in DOMAIN f.services :
       LET s == f.services[i] IN
       /\ s.supported /\ s.after \subseteq NamesIn(f.services)
       /\ s.volumes \subseteq NamesIn(f.volumes) /\ s.configs \subseteq NamesIn(f.configs)

\* What compose-go, validate and translate refuse, all before the cluster is
\* touched.
Valid(f) ==
  /\ f.services # <<>>
  /\ \A i \in DOMAIN f.configs : Readable(f.configs[i])
  /\ \A i \in DOMAIN f.services :
       LET s == f.services[i] IN
       /\ s.name.plain
       /\ s.supported /\ s.after \subseteq NamesIn(f.services)
       /\ s.volumes \subseteq NamesIn(f.volumes) /\ s.configs \subseteq NamesIn(f.configs)

\* Mutant of Mounts: the hash is left out.
MountsByName(f, s) ==
  {[config |-> c, map |-> MapName(f, c), hash |-> Missing] : c \in s.configs}

\* The config mounts of a service, each with the hash of its content (the
\* content itself, here).
Mounts(f, s) ==
  {[config |-> c, map |-> MapName(f, c), hash |-> Entry(f.configs, c).content] :
     c \in s.configs}

\* translatePorts: the first entry for a target and protocol decides.
ServicePorts(s) ==
  LET Same(i, j) == s.ports[i].target = s.ports[j].target /\ s.ports[i].udp = s.ports[j].udp
  IN {[target |-> s.ports[i].target, udp |-> s.ports[i].udp,
       port |-> IF s.ports[i].published = None THEN s.ports[i].target
                                               ELSE s.ports[i].published] :
        i \in {k \in DOMAIN s.ports : \A j \in 1..(k - 1) : ~Same(j, k)}}

SpecOf(f, s) ==
  [project |-> Dns(f.project), image |-> s.image,
   ports |-> {<<entry.target, entry.udp>> : entry \in ServicePorts(s)},
   mounts |-> Mounts(f, s),
   claims |-> {ClaimName(f, Entry(f.volumes, v)) : v \in s.volumes}]

PlanOf(f) ==
  [project  |-> Dns(f.project),
   claims   |-> {ClaimName(f, f.volumes[i]) : i \in DOMAIN f.volumes},
   configs  |-> [i \in DOMAIN f.configs |->
                   [map |-> MapName(f, f.configs[i].name), data |-> f.configs[i].content]],
   services |-> [i \in DOMAIN f.services |->
                   [container |-> ContainerName(f, f.services[i].name),
                    service   |-> Dns(f.services[i].name),
                    ports     |-> ServicePorts(f.services[i]),
                    spec      |-> SpecOf(f, f.services[i])]]]

MapsOf(plan) == {plan.configs[i].map : i \in DOMAIN plan.configs}
ContainersOf(plan) == {plan.services[i].container : i \in DOMAIN plan.services}

Accepted == {f \in Files : Valid(f)}
Plans == [f \in Accepted |-> PlanOf(f)]
Plan == Plans[loaded]
Workloads == UNION {ContainersOf(Plans[f]) : f \in Accepted}
ConfigMaps == UNION {MapsOf(Plans[f]) : f \in Accepted}

\* Two of the file's configs are one ConfigMap.
Collides(f) == Cardinality(MapsOf(Plans[f])) # Len(f.configs)

----------------------------------------------------------------------------
Specs == UNION {{SpecOf(f, f.services[i]) : i \in DOMAIN f.services} : f \in Accepted}
MapObjects == [project : Seq(Words), data : Contents]
ASSUME NullsApart == None \notin Files \cup Specs \cup MapObjects
Stages == {"idle", "configs", "workloads", "stale"}
Started(n) == pod[n] # None /\ pod[n].shows # None
Outdated(n) == pod[n] # None /\ pod[n].spec # work[n]

FilesTypeOK ==
  /\ file \in Files /\ loaded \in Accepted \cup {None} /\ applied \in Accepted \cup {None}
  /\ at \in Stages /\ (at = "idle") = (loaded = None)
  /\ CASE at = "configs"   -> IsSuffix(left, Plan.configs)
       [] at = "workloads" -> IsSuffix(left, Plan.services)
       [] OTHER            -> left = <<>>
  /\ work \in [Workloads -> Specs \cup {None}]
  /\ \A m \in ConfigMaps : map[m] = None \/ map[m] \in MapObjects
  /\ \A n \in Workloads : pod[n] # None =>
       /\ work[n] # None /\ pod[n].spec \in Specs
       /\ pod[n].shows = None \/ pod[n].shows \in [pod[n].spec.mounts -> Contents]
  /\ orderly \in BOOLEAN

FilesInit ==
  /\ file \in Files
  /\ loaded = None /\ at = "idle" /\ left = <<>> /\ applied = None
  /\ work = [n \in Workloads |-> None]
  /\ map = [m \in ConfigMaps |-> None]
  /\ pod = [n \in Workloads |-> None]
  /\ orderly = TRUE

\* The user changes the file, also while up is running.
Edit ==
  /\ file' \in Files \ {file}
  /\ UNCHANGED <<upVars, applied, work, map, pod, orderly>>

Enters(stage, list) == at' = stage /\ left' = list /\ UNCHANGED loaded
Returns == loaded' = None /\ at' = "idle" /\ left' = <<>>

\* compose up: Load.  A refused file ends the command, with nothing done.
\* The update is orderly if the controller has caught up with the last one
\* and no two configs share a ConfigMap.
Up ==
  /\ at = "idle" /\ Valid(file)
  /\ loaded' = file /\ at' = "configs" /\ left' = Plans[file].configs
  /\ orderly' = (orderly /\ ~Collides(file) /\ ~\E n \in Workloads : Outdated(n))
  /\ UNCHANGED <<file, applied, work, map, pod>>

\* A call of up fails or the user interrupts it.  What it has written stays.
Cut ==
  /\ at # "idle"
  /\ Returns
  /\ orderly' = (orderly /\ at = "configs" /\ left = Plan.configs)
  /\ UNCHANGED <<file, applied, work, map, pod>>

Owned(object) == object # None => object.project = Plan.project

\* applyConfigMap; an object of another project ends the command (Cut).
WriteConfig ==
  /\ at = "configs"
  /\ IF left = <<>> THEN Enters("workloads", Plan.services) /\ UNCHANGED map
     ELSE /\ Owned(map[Head(left).map])
          /\ map' = [map EXCEPT ![Head(left).map] =
                       [project |-> Plan.project, data |-> Head(left).data]]
          /\ Enters("configs", Tail(left))
  /\ UNCHANGED <<file, applied, work, pod, orderly>>

\* applyContainer, likewise.
WriteWorkload ==
  /\ at = "workloads"
  /\ IF left = <<>> THEN Enters("stale", <<>>) /\ UNCHANGED work
     ELSE /\ Owned(work[Head(left).container])
          /\ work' = [work EXCEPT ![Head(left).container] = Head(left).spec]
          /\ Enters("workloads", Tail(left))
  /\ UNCHANGED <<file, applied, map, pod, orderly>>

\* Mutant of Removes: the Pods stay.
RemovesObjects(project, workloads, maps) ==
  LET gone == {n \in Workloads \ workloads : work[n] # None /\ work[n].project = project}
  IN /\ work' = [n \in Workloads |-> IF n \in gone THEN None ELSE work[n]]
     /\ map'  = [m \in ConfigMaps |->
                   IF m \notin maps /\ map[m] # None /\ map[m].project = project
                     THEN None ELSE map[m]]
     /\ UNCHANGED pod

\* The project's objects but those named go, and with a workload its Pod.
Removes(project, workloads, maps) ==
  LET gone == {n \in Workloads \ workloads : work[n] # None /\ work[n].project = project}
  IN /\ work' = [n \in Workloads |-> IF n \in gone THEN None ELSE work[n]]
     /\ pod'  = [n \in Workloads |-> IF n \in gone THEN None ELSE pod[n]]
     /\ map'  = [m \in ConfigMaps |->
                   IF m \notin maps /\ map[m] # None /\ map[m].project = project
                     THEN None ELSE map[m]]

\* Mutant of RemoveStale: ConfigMaps go whether the plan has them or not.
RemoveStaleAll ==
  /\ at = "stale"
  /\ Removes(Plan.project, ContainersOf(Plan), {})
  /\ applied' = loaded
  /\ Returns
  /\ UNCHANGED <<file, orderly>>

\* removeStale, and success.
RemoveStale ==
  /\ at = "stale"
  /\ Removes(Plan.project, ContainersOf(Plan), MapsOf(Plan))
  /\ applied' = loaded
  /\ Returns
  /\ UNCHANGED <<file, orderly>>

\* compose down of the file's project; with the last workload every Pod that
\* may have read something old is gone.
Down ==
  /\ at = "idle" /\ Valid(file)
  /\ Removes(Dns(file.project), {}, {})
  /\ applied' = None
  /\ orderly' = (orderly \/ \A n \in Workloads : work'[n] = None)
  /\ UNCHANGED <<file, upVars>>

\* The controller and the kubelet: a Pod is made of the workload's spec, reads
\* what it mounts when it starts, and goes: because it is outdated, because
\* the user stops the service, or by eviction.
CreatePod(n) ==
  /\ work[n] # None /\ pod[n] = None
  /\ pod' = [pod EXCEPT ![n] = [spec |-> work[n], shows |-> None]]
  /\ UNCHANGED <<file, upVars, applied, work, map, orderly>>

StartPod(n) ==
  /\ pod[n] # None /\ pod[n].shows = None
  /\ \A mount \in pod[n].spec.mounts : map[mount.map] # None
  /\ pod' = [pod EXCEPT ![n].shows = [mount \in pod[n].spec.mounts |-> map[mount.map].data]]
  /\ UNCHANGED <<file, upVars, applied, work, map, orderly>>

PodGoes(n) ==
  /\ pod[n] # None
  /\ pod' = [pod EXCEPT ![n] = None]
  /\ UNCHANGED <<file, upVars, applied, work, map, orderly>>

FilesNext ==
  \/ Edit \/ Up \/ Cut \/ WriteConfig \/ WriteWorkload \/ RemoveStale \/ Down
  \/ \E n \in Workloads : CreatePod(n) \/ StartPod(n) \/ PodGoes(n)

FilesSpec == FilesInit /\ [][FilesNext]_vars

----------------------------------------------------------------------------
(* Properties.                                                             *)

\* The services of an accepted file have workloads and Services of their own,
\* and mount only what the plan has: the names of files are mapped to names
\* of objects, many to one.  A Service has one port for each port of the
\* container, however often the file lists it; ports are named after target
\* and protocol, and the API server takes no name twice (project.go:138,
\* 248-389).
EachServiceItsOwn ==
  loaded # None =>
    /\ \A i, j \in DOMAIN Plan.services : i # j =>
         /\ Plan.services[i].container # Plan.services[j].container
         /\ Plan.services[i].service # Plan.services[j].service
    /\ \A i \in DOMAIN Plan.services :
         LET spec == Plan.services[i].spec IN
         /\ \A mount \in spec.mounts : mount.map \in MapsOf(Plan)
         /\ spec.claims \subseteq Plan.claims
         /\ Cardinality(Plan.services[i].ports) = Cardinality(spec.ports)

\* After a successful up the workloads mount, and their Pods show, what the
\* file said: also when Pods are replaced or start while contents change back
\* and forth.  Provided no up was cut after its first write, none was begun
\* before the controller had replaced the Pods of the one before, and no two
\* configs share a ConfigMap; in each of these cases a Pod of the right spec
\* may show another content for good, until a down (project.go:323,
\* reconciler.go:94).
ContentReachesPods ==
  orderly /\ at = "idle" /\ applied # None =>
    \A i \in DOMAIN applied.services :
      LET n == Plans[applied].services[i].container
      IN /\ work[n] = Plans[applied].services[i].spec
         /\ \A mount \in work[n].mounts :
              LET content == Entry(applied.configs, mount.config).content IN
              /\ map[mount.map] = [project |-> Dns(applied.project), data |-> content]
              /\ Started(n) /\ ~Outdated(n) => pod[n].shows[mount] = content

\* up again, with nothing changed, changes nothing: no Pod is replaced
\* (project.go:251-280, apply.go:26-53).
RepeatChangesNothing ==
  [][orderly /\ loaded # None /\ loaded = applied => UNCHANGED <<work, map>>]_vars
=============================================================================
