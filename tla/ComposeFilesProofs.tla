-------------------------- MODULE ComposeFilesProofs --------------------------
(***************************************************************************)
(* What ComposeFiles guarantees for any versions of the user's file.       *)
(***************************************************************************)
EXTENDS ComposeFiles, FiniteSetTheorems, SequenceTheorems, TLAPS

----------------------------------------------------------------------------
(* Lists.                                                                  *)

LEMMA ConcatCancels ==
  ASSUME NEW S, NEW p \in Seq(S), NEW s \in Seq(S), NEW t \in Seq(S), p \o s = p \o t
  PROVE  s = t
<1>1. Len(s) = Len(t)
  BY Len(p \o s) = Len(p) + Len(s), Len(p \o t) = Len(p) + Len(t)
<1>2. ASSUME NEW i \in 1 .. Len(s) PROVE s[i] = t[i]
  <2>1. (p \o s)[Len(p) + i] = s[i] /\ (p \o t)[Len(p) + i] = t[i]
    BY <1>1
  <2> QED BY <2>1
<1> QED BY <1>1, <1>2

\* A list that holds the rest of another one, by positions.
Rest(s, t) == Len(s) <= Len(t) /\ \A j \in 1 .. Len(s) : s[j] = t[Len(t) - Len(s) + j]

LEMMA SuffixIsRest ==
  ASSUME NEW S, NEW s \in Seq(S), NEW t \in Seq(S)
  PROVE  IsSuffix(s, t) <=> Rest(s, t)
<1> DEFINE rs == Reverse(s)
           rt == Reverse(t)
<1>1. /\ rs \in Seq(S) /\ Len(rs) = Len(s) /\ \A i \in 1 .. Len(s) : rs[i] = s[Len(s) - i + 1]
      /\ rt \in Seq(S) /\ Len(rt) = Len(t) /\ \A i \in 1 .. Len(t) : rt[i] = t[Len(t) - i + 1]
  BY DEF Reverse
<1> HIDE DEF rs, rt
<1>2. Len(s) \in Nat /\ Len(t) \in Nat
  OBVIOUS
<1>3. IsPrefix(rs, rt) <=> Len(s) <= Len(t) /\ \A i \in 1 .. Len(s) : rs[i] = rt[i]
  BY <1>1, <1>2 DEF IsPrefix
<1>4. ASSUME Len(s) <= Len(t)
      PROVE  (\A i \in 1 .. Len(s) : rs[i] = rt[i]) <=>
             (\A j \in 1 .. Len(s) : s[j] = t[Len(t) - Len(s) + j])
  <2>1. ASSUME \A i \in 1 .. Len(s) : rs[i] = rt[i], NEW j \in 1 .. Len(s)
        PROVE  s[j] = t[Len(t) - Len(s) + j]
    <3>1. Len(s) - j + 1 \in 1 .. Len(s) /\ Len(s) - j + 1 \in 1 .. Len(t)
      BY <1>2, <1>4
    <3>2. /\ rs[Len(s) - j + 1] = s[Len(s) - (Len(s) - j + 1) + 1]
          /\ rt[Len(s) - j + 1] = t[Len(t) - (Len(s) - j + 1) + 1]
      BY <1>1, <3>1
    <3>3. /\ Len(s) - (Len(s) - j + 1) + 1 = j
          /\ Len(t) - (Len(s) - j + 1) + 1 = Len(t) - Len(s) + j
      BY <1>2
    <3> QED BY <2>1, <3>1, <3>2, <3>3
  <2>2. ASSUME \A j \in 1 .. Len(s) : s[j] = t[Len(t) - Len(s) + j], NEW i \in 1 .. Len(s)
        PROVE  rs[i] = rt[i]
    <3>1. Len(s) - i + 1 \in 1 .. Len(s) /\ i \in 1 .. Len(t)
      BY <1>2, <1>4
    <3>2. s[Len(s) - i + 1] = t[Len(t) - Len(s) + (Len(s) - i + 1)]
      BY <2>2, <3>1
    <3>3. Len(t) - Len(s) + (Len(s) - i + 1) = Len(t) - i + 1
      BY <1>2
    <3> QED BY <1>1, <3>1, <3>2, <3>3
  <2> QED BY <2>1, <2>2
<1> QED BY <1>3, <1>4 DEF IsSuffix, Rest, rs, rt

\* The rest of a list without its head.
LEMMA RestTail ==
  ASSUME NEW S, NEW s \in Seq(S), NEW t \in Seq(S), Rest(s, t), s # <<>>
  PROVE  /\ Rest(Tail(s), t) /\ Tail(s) \in Seq(S)
         /\ Len(Tail(s)) = Len(s) - 1 /\ Len(s) \in Nat \ {0} /\ Tail(s) # t
         /\ Len(t) - Len(s) + 1 \in DOMAIN t /\ Head(s) = t[Len(t) - Len(s) + 1]
<1>1. Len(s) \in Nat \ {0} /\ Len(t) \in Nat /\ Len(s) <= Len(t)
  BY DEF Rest
<1>2. Tail(s) \in Seq(S) /\ Len(Tail(s)) = Len(s) - 1
  OBVIOUS
<1>3. \A j \in 1 .. Len(s) - 1 : Tail(s)[j] = s[j + 1]
  BY <1>1
<1>4. ASSUME NEW j \in 1 .. Len(s) - 1 PROVE Tail(s)[j] = t[Len(t) - (Len(s) - 1) + j]
  <2>1. s[j + 1] = t[Len(t) - Len(s) + (j + 1)]
    BY <1>1 DEF Rest
  <2>2. Len(t) - Len(s) + (j + 1) = Len(t) - (Len(s) - 1) + j
    BY <1>1
  <2> QED BY <1>3, <2>1, <2>2
<1>5. Rest(Tail(s), t)
  BY <1>1, <1>2, <1>4 DEF Rest
<1>6. Head(s) = s[1] /\ s[1] = t[Len(t) - Len(s) + 1]
  BY <1>1 DEF Rest
<1> QED BY <1>1, <1>2, <1>5, <1>6

LEMMA RestEnds ==
  ASSUME NEW S, NEW t \in Seq(S)
  PROVE  Rest(t, t) /\ Rest(<<>>, t) /\ <<>> \in Seq(S)
  BY DEF Rest

----------------------------------------------------------------------------
(* Plans.                                                                  *)

VolumeSections  == [name : RawNames, external : BOOLEAN]
ConfigSections  == [name : RawNames, content : Contents \cup {Missing}]
ServiceSections ==
  [name : RawNames, supported : BOOLEAN, image : Images, ports : Seq(PortEntries),
   after : SUBSET RawNames, volumes : SUBSET RawNames, configs : SUBSET RawNames]

LEMMA FileType ==
  ASSUME NEW f \in Accepted
  PROVE  /\ f \in Files /\ Valid(f) /\ f # None /\ Plans[f] = PlanOf(f)
         /\ f.project \in RawNames /\ Dns(f.project) \in Seq(Words)
         /\ f.volumes \in Seq(VolumeSections) /\ f.configs \in Seq(ConfigSections)
         /\ f.services \in Seq(ServiceSections)
<1>1. f \in Files /\ Valid(f) /\ f # None /\ Plans[f] = PlanOf(f)
  BY NullsApart DEF Accepted, Plans
<1>2. f \in FileRecords
  BY <1>1, FilesKnown
<1>3. FileRecords = [project : RawNames, volumes : Seq(VolumeSections), configs : Seq(ConfigSections),
                     services : Seq(ServiceSections)]
  BY DEF FileRecords, VolumeSections, ConfigSections, ServiceSections
<1>4. /\ f.project \in RawNames /\ f.volumes \in Seq(VolumeSections)
      /\ f.configs \in Seq(ConfigSections) /\ f.services \in Seq(ServiceSections)
  BY <1>2, <1>3
<1> QED BY <1>1, <1>4 DEF RawNames, Dns

\* The parts of a plan.
LEMMA PlanParts ==
  ASSUME NEW f \in Accepted
  PROVE  /\ Plans[f].project = Dns(f.project)
         /\ Plans[f].claims = {ClaimName(f, f.volumes[i]) : i \in DOMAIN f.volumes}
         /\ Plans[f].configs = [i \in DOMAIN f.configs |->
              [map |-> MapName(f, f.configs[i].name), data |-> f.configs[i].content]]
         /\ Plans[f].services = [i \in DOMAIN f.services |->
              [container |-> ContainerName(f, f.services[i].name),
               service   |-> Dns(f.services[i].name),
               ports     |-> ServicePorts(f.services[i]),
               spec      |-> SpecOf(f, f.services[i])]]
<1> DEFINE claims == {ClaimName(f, f.volumes[i]) : i \in DOMAIN f.volumes}
           configs == [i \in DOMAIN f.configs |->
              [map |-> MapName(f, f.configs[i].name), data |-> f.configs[i].content]]
           services == [i \in DOMAIN f.services |->
              [container |-> ContainerName(f, f.services[i].name),
               service   |-> Dns(f.services[i].name),
               ports     |-> ServicePorts(f.services[i]),
               spec      |-> SpecOf(f, f.services[i])]]
<1>1. Plans[f] = [project |-> Dns(f.project), claims |-> claims, configs |-> configs, services |-> services]
  BY FileType DEF PlanOf
<1> HIDE DEF claims, configs, services
<1>2. /\ Plans[f].project = Dns(f.project) /\ Plans[f].claims = claims
      /\ Plans[f].configs = configs /\ Plans[f].services = services
  BY <1>1
<1> QED BY <1>2 DEF claims, configs, services

PlanConfigs  == [map : ConfigMaps, data : Contents]
PlanServices ==
  [container : Workloads, service : Seq(Words),
   ports : UNION {{ServicePorts(f.services[i]) : i \in DOMAIN f.services} : f \in Accepted},
   spec : Specs]

\* The entry of a section under a name is the one that has it.
LEMMA EntryIs ==
  ASSUME NEW f \in Accepted, NEW section \in {f.volumes, f.configs, f.services}, NEW i \in DOMAIN section
  PROVE  Entry(section, section[i].name) = section[i]
<1>1. \A j \in DOMAIN section : section[j].name = section[i].name => j = i
  BY FileType, FilesKeyed
<1>2. (CHOOSE j \in DOMAIN section : section[j].name = section[i].name) = i
  BY <1>1
<1> QED BY <1>2 DEF Entry

\* A valid file's contents can be read.
LEMMA ContentRead ==
  ASSUME NEW f \in Accepted, NEW i \in DOMAIN f.configs
  PROVE  /\ f.configs[i].content \in Contents /\ f.configs[i].name \in RawNames
         /\ MapName(f, f.configs[i].name) \in ConfigMaps
<1>1. f.configs[i] \in ConfigSections
  BY FileType
<1>2. f.configs[i].content # Missing
  BY FileType DEF Valid, Readable
<1> DEFINE entry(j) == [map |-> MapName(f, f.configs[j].name), data |-> f.configs[j].content]
<1>3. entry(i).map = MapName(f, f.configs[i].name)
  OBVIOUS
<1>4. Plans[f].configs = [j \in DOMAIN f.configs |-> entry(j)]
  BY PlanParts
<1> HIDE DEF entry
<1>5. i \in DOMAIN Plans[f].configs /\ Plans[f].configs[i].map = MapName(f, f.configs[i].name)
  BY <1>3, <1>4
<1>6. MapName(f, f.configs[i].name) \in MapsOf(Plans[f])
  BY <1>5 DEF MapsOf
<1> QED BY <1>1, <1>2, <1>6 DEF ConfigSections, ConfigMaps

LEMMA PlanConfigsType ==
  ASSUME NEW f \in Accepted
  PROVE  /\ Plans[f].project = Dns(f.project) /\ Plans[f].project \in Seq(Words)
         /\ Plans[f].configs \in Seq(PlanConfigs)
         /\ Len(Plans[f].configs) = Len(f.configs) /\ DOMAIN Plans[f].configs = DOMAIN f.configs
         /\ \A i \in DOMAIN f.configs :
              /\ Plans[f].configs[i].map = MapName(f, f.configs[i].name)
              /\ Plans[f].configs[i].data = f.configs[i].content
<1> DEFINE entry(i) == [map |-> MapName(f, f.configs[i].name), data |-> f.configs[i].content]
<1>1. Plans[f].project = Dns(f.project) /\ Plans[f].configs = [i \in DOMAIN f.configs |-> entry(i)]
  BY PlanParts
<1>2. DOMAIN f.configs = 1 .. Len(f.configs) /\ Len(f.configs) \in Nat
  BY FileType
<1>3. \A i \in DOMAIN f.configs :
        /\ entry(i) \in PlanConfigs
        /\ entry(i).map = MapName(f, f.configs[i].name) /\ entry(i).data = f.configs[i].content
  BY ContentRead DEF PlanConfigs
<1> HIDE DEF entry
<1>4. Plans[f].configs \in [1 .. Len(f.configs) -> PlanConfigs]
  BY <1>1, <1>2, <1>3
<1>5. Plans[f].configs \in Seq(PlanConfigs) /\ Len(Plans[f].configs) = Len(f.configs)
  BY <1>2, <1>4
<1> QED BY <1>1, <1>3, <1>5, FileType

LEMMA PlanServicesType ==
  ASSUME NEW f \in Accepted
  PROVE  /\ Plans[f].services \in Seq(PlanServices)
         /\ Len(Plans[f].services) = Len(f.services) /\ DOMAIN Plans[f].services = DOMAIN f.services
         /\ \A i \in DOMAIN f.services :
              /\ Plans[f].services[i].container = ContainerName(f, f.services[i].name)
              /\ Plans[f].services[i].service = Dns(f.services[i].name)
              /\ Plans[f].services[i].ports = ServicePorts(f.services[i])
              /\ Plans[f].services[i].spec = SpecOf(f, f.services[i])
<1> DEFINE entry(i) == [container |-> ContainerName(f, f.services[i].name),
                        service   |-> Dns(f.services[i].name),
                        ports     |-> ServicePorts(f.services[i]),
                        spec      |-> SpecOf(f, f.services[i])]
<1>1. Plans[f].services = [i \in DOMAIN f.services |-> entry(i)]
  BY PlanParts
<1>2. DOMAIN f.services = 1 .. Len(f.services) /\ Len(f.services) \in Nat
  BY FileType
<1>3. \A i \in DOMAIN f.services :
        /\ entry(i).container = ContainerName(f, f.services[i].name)
        /\ entry(i).service = Dns(f.services[i].name)
        /\ entry(i).ports = ServicePorts(f.services[i])
        /\ entry(i).spec = SpecOf(f, f.services[i])
  OBVIOUS
<1>4. ASSUME NEW i \in DOMAIN f.services PROVE entry(i) \in PlanServices
  <2>1. f.services[i] \in ServiceSections
    BY FileType
  <2>2. Dns(f.services[i].name) \in Seq(Words)
    BY <2>1 DEF ServiceSections, RawNames, Dns
  <2>3. SpecOf(f, f.services[i]) \in Specs
    BY DEF Specs
  <2>4. ContainerName(f, f.services[i].name) \in Workloads
    <3> HIDE DEF entry
    <3>1. ContainerName(f, f.services[i].name) \in ContainersOf(Plans[f])
      BY <1>1, <1>3 DEF ContainersOf
    <3> QED BY <3>1 DEF Workloads
  <2> QED BY <2>2, <2>3, <2>4 DEF PlanServices
<1> HIDE DEF entry
<1>5. Plans[f].services \in [1 .. Len(f.services) -> PlanServices]
  BY <1>1, <1>2, <1>4
<1>6. Plans[f].services \in Seq(PlanServices) /\ Len(Plans[f].services) = Len(f.services)
  BY <1>2, <1>5
<1> QED BY <1>1, <1>3, <1>6

\* The parts of a workload's spec.
LEMMA SpecParts ==
  ASSUME NEW f \in Accepted, NEW i \in DOMAIN f.services, NEW s, s = f.services[i]
  PROVE  LET spec == Plans[f].services[i].spec IN
         /\ spec.project = Plans[f].project
         /\ spec.ports = {<<entry.target, entry.udp>> : entry \in ServicePorts(s)}
         /\ spec.mounts = Mounts(f, s)
         /\ spec.claims = {ClaimName(f, Entry(f.volumes, v)) : v \in s.volumes}
<1> DEFINE ports == {<<entry.target, entry.udp>> : entry \in ServicePorts(s)}
           claims == {ClaimName(f, Entry(f.volumes, v)) : v \in s.volumes}
<1>1. SpecOf(f, s) = [project |-> Dns(f.project), image |-> s.image, ports |-> ports,
                      mounts |-> Mounts(f, s), claims |-> claims]
  BY DEF SpecOf
<1> HIDE DEF ports, claims
<1>2. /\ SpecOf(f, s).project = Dns(f.project) /\ SpecOf(f, s).ports = ports
      /\ SpecOf(f, s).mounts = Mounts(f, s) /\ SpecOf(f, s).claims = claims
  BY <1>1
<1>3. Plans[f].services[i].spec = SpecOf(f, s) /\ Plans[f].project = Dns(f.project)
  BY PlanServicesType, PlanConfigsType
<1> QED BY <1>2, <1>3 DEF ports, claims

\* The names of a plan's services are their own: service names are DNS names
\* already, and a name is prefixed with the same project.
LEMMA NamesOwn ==
  ASSUME NEW f \in Accepted, NEW i \in DOMAIN f.services, NEW j \in DOMAIN f.services, i # j
  PROVE  /\ Plans[f].services[i].container # Plans[f].services[j].container
         /\ Plans[f].services[i].service # Plans[f].services[j].service
<1>1. /\ f.services[i] \in ServiceSections /\ f.services[j] \in ServiceSections
      /\ f.services[i].name.plain /\ f.services[j].name.plain
      /\ f.services[i].name # f.services[j].name
  BY FileType, FilesKeyed DEF Valid
<1>2. f.services[i].name \in RawNames /\ f.services[j].name \in RawNames
  BY <1>1 DEF ServiceSections
<1>3. /\ f.services[i].name.words \in Seq(Words) /\ f.services[j].name.words \in Seq(Words)
      /\ f.services[i].name.words # f.services[j].name.words
  BY <1>1, <1>2 DEF RawNames
<1>4. ContainerName(f, f.services[i].name) # ContainerName(f, f.services[j].name)
  BY <1>3, FileType, ConcatCancels DEF ContainerName, Dns
<1> QED BY <1>3, <1>4, PlanServicesType DEF Dns

\* What a service mounts is a ConfigMap of the plan, and the hash in the mount
\* is of the content the plan has for it.
LEMMA MountsOwn ==
  ASSUME NEW f \in Accepted, NEW i \in DOMAIN f.services, NEW mount \in Plans[f].services[i].spec.mounts
  PROVE  \E j \in DOMAIN f.configs :
           /\ Plans[f].configs[j].map = mount.map /\ Plans[f].configs[j].data = mount.hash
           /\ Entry(f.configs, mount.config).content = mount.hash
<1>1. mount \in Mounts(f, f.services[i])
  BY SpecParts
<1>2. PICK c \in f.services[i].configs :
        mount = [config |-> c, map |-> MapName(f, c), hash |-> Entry(f.configs, c).content]
  BY <1>1 DEF Mounts
<1>3. PICK j \in DOMAIN f.configs : f.configs[j].name = c
  <2>1. f.services[i].configs \subseteq NamesIn(f.configs)
    BY FileType DEF Valid
  <2> QED BY <2>1 DEF NamesIn
<1>4. Entry(f.configs, c) = f.configs[j]
  BY <1>3, EntryIs
<1>5. /\ Plans[f].configs[j].map = MapName(f, c) /\ Plans[f].configs[j].data = f.configs[j].content
  BY <1>3, PlanConfigsType
<1>6. mount.config = c /\ mount.map = MapName(f, c) /\ mount.hash = f.configs[j].content
  BY <1>2, <1>4
<1> QED BY <1>4, <1>5, <1>6

LEMMA SpecProject ==
  ASSUME NEW f \in Accepted, NEW i \in DOMAIN f.services
  PROVE  /\ Plans[f].services[i].spec.project = Plans[f].project
         /\ Plans[f].services[i].container \in Workloads /\ Plans[f].services[i].spec \in Specs
         /\ Plans[f].services[i].container \in ContainersOf(Plans[f])
<1>1. Plans[f].services[i] \in PlanServices /\ i \in DOMAIN Plans[f].services
  BY PlanServicesType
<1> QED BY <1>1, SpecParts DEF PlanServices, ContainersOf

\* Without a collision every config has a ConfigMap of its own.
LEMMA MapsApart ==
  ASSUME NEW f \in Accepted, ~Collides(f), NEW i \in DOMAIN f.configs, NEW j \in DOMAIN f.configs,
         Plans[f].configs[i].map = Plans[f].configs[j].map
  PROVE  i = j
<1> DEFINE maps == [k \in 1 .. Len(f.configs) |-> Plans[f].configs[k].map]
<1>1. /\ Len(f.configs) \in Nat /\ DOMAIN f.configs = 1 .. Len(f.configs)
      /\ DOMAIN Plans[f].configs = 1 .. Len(f.configs)
  BY FileType, PlanConfigsType
<1>2. IsFiniteSet(1 .. Len(f.configs)) /\ Cardinality(1 .. Len(f.configs)) = Len(f.configs)
  BY <1>1, FS_Interval
<1>3. maps \in Surjection(1 .. Len(f.configs), MapsOf(Plans[f]))
  BY <1>1 DEF Surjection, MapsOf
<1>4. Cardinality(MapsOf(Plans[f])) = Cardinality(1 .. Len(f.configs))
  BY <1>2 DEF Collides
<1> HIDE DEF maps
<1>5. maps \in Injection(1 .. Len(f.configs), MapsOf(Plans[f]))
  BY <1>2, <1>3, <1>4, FS_Surjection
<1>6. maps[i] = maps[j] => i = j
  BY <1>1, <1>5 DEF Injection, IsInjective
<1> QED BY <1>1, <1>6 DEF maps

\* A Service has a port for each port of the container.
LEMMA PortsOnce ==
  ASSUME NEW f \in Accepted, NEW i \in DOMAIN f.services
  PROVE  Cardinality(Plans[f].services[i].ports) = Cardinality(Plans[f].services[i].spec.ports)
<1>1. PICK s, ports : s = f.services[i] /\ ports = s.ports
  OBVIOUS
<1>2. ports \in Seq(PortEntries)
  <2>1. s \in ServiceSections
    BY <1>1, FileType
  <2> QED BY <1>1, <2>1 DEF ServiceSections
<1>3. Len(ports) \in Nat /\ DOMAIN ports = 1 .. Len(ports)
  BY <1>2
<1> DEFINE Same(k, l) == ports[k].target = ports[l].target /\ ports[k].udp = ports[l].udp
           first == {k \in DOMAIN ports : \A l \in 1 .. (k - 1) : ~Same(l, k)}
           port(k) == [target |-> ports[k].target, udp |-> ports[k].udp,
                       port |-> IF ports[k].published = None THEN ports[k].target
                                                             ELSE ports[k].published]
           key(k) == <<ports[k].target, ports[k].udp>>
<1>4. /\ Plans[f].services[i].ports = {port(k) : k \in first}
      /\ Plans[f].services[i].spec.ports = {key(k) : k \in first}
  <2>1. ServicePorts(s) = {port(k) : k \in first}
    BY <1>1 DEF ServicePorts
  <2>2. {<<entry.target, entry.udp>> : entry \in ServicePorts(s)} = {key(k) : k \in first}
    <3>1. \A k : <<port(k).target, port(k).udp>> = key(k)
      OBVIOUS
    <3> HIDE DEF first, port, key
    <3> QED BY <2>1, <3>1
  <2>3. /\ Plans[f].services[i].ports = ServicePorts(s)
        /\ Plans[f].services[i].spec.ports = {<<entry.target, entry.udp>> : entry \in ServicePorts(s)}
    BY <1>1, PlanServicesType, SpecParts
  <2> QED BY <2>1, <2>2, <2>3
<1>5. \A k, l \in first : key(k) = key(l) => k = l
  BY <1>3
<1>6. \A k, l \in first : port(k) = port(l) => key(k) = key(l)
  OBVIOUS
<1>7. IsFiniteSet(first)
  <2>1. IsFiniteSet(1 .. Len(ports)) /\ first \in SUBSET (1 .. Len(ports))
    BY <1>3, FS_Interval
  <2> HIDE DEF first
  <2> QED BY <2>1, FS_Subset
<1> HIDE DEF first, port, key
<1>8. Cardinality({port(k) : k \in first}) = Cardinality(first)
  <2> DEFINE m == [k \in first |-> port(k)]
  <2>1. m \in Bijection(first, {port(k) : k \in first})
    BY <1>5, <1>6 DEF Bijection, Injection, Surjection, IsInjective
  <2> QED BY <1>7, <2>1, FS_Bijection DEF ExistsBijection
<1>9. Cardinality({key(k) : k \in first}) = Cardinality(first)
  <2> DEFINE m == [k \in first |-> key(k)]
  <2>1. m \in Bijection(first, {key(k) : k \in first})
    BY <1>5 DEF Bijection, Injection, Surjection, IsInjective
  <2> QED BY <1>7, <2>1, FS_Bijection DEF ExistsBijection
<1> QED BY <1>4, <1>8, <1>9

\* What a service claims is the plan's.
LEMMA ClaimsOwn ==
  ASSUME NEW f \in Accepted, NEW i \in DOMAIN f.services
  PROVE  Plans[f].services[i].spec.claims \subseteq Plans[f].claims
<1>1. PICK s : s = f.services[i]
  OBVIOUS
<1>2. Plans[f].services[i].spec.claims = {ClaimName(f, Entry(f.volumes, v)) : v \in s.volumes}
  BY <1>1, SpecParts
<1>3. ASSUME NEW v \in s.volumes PROVE ClaimName(f, Entry(f.volumes, v)) \in Plans[f].claims
  <2>1. PICK j \in DOMAIN f.volumes : f.volumes[j].name = v
    BY <1>1, FileType DEF Valid, NamesIn
  <2>2. Entry(f.volumes, v) = f.volumes[j]
    BY <2>1, EntryIs
  <2>3. Plans[f].claims = {ClaimName(f, f.volumes[k]) : k \in DOMAIN f.volumes}
    BY PlanParts
  <2> HIDE DEF ClaimName
  <2> QED BY <2>2, <2>3
<1> QED BY <1>2, <1>3

LEMMA SpecType ==
  ASSUME NEW spec \in Specs, NEW mount \in spec.mounts
  PROVE  mount.map \in ConfigMaps /\ mount.hash \in Contents
<1>1. PICK f \in Accepted : \E i \in DOMAIN f.services : spec = SpecOf(f, f.services[i])
  BY DEF Specs
<1> PICK i \in DOMAIN f.services : spec = SpecOf(f, f.services[i])
  BY <1>1
<1>2. mount \in Plans[f].services[i].spec.mounts
  BY PlanServicesType
<1>3. PICK j \in DOMAIN f.configs :
        Plans[f].configs[j].map = mount.map /\ Plans[f].configs[j].data = mount.hash
  BY <1>2, MountsOwn
<1>4. Plans[f].configs[j] \in PlanConfigs
  BY PlanConfigsType
<1> QED BY <1>3, <1>4 DEF PlanConfigs

----------------------------------------------------------------------------
(* Types: what FilesTypeOK says of suffixes, by positions, and the         *)
(* functions in full.                                                      *)

PodObjects ==
  [spec : Specs, shows : {None} \cup UNION {[spec.mounts -> Contents] : spec \in Specs}]

FilesType ==
  /\ file \in Files /\ loaded \in Accepted \cup {None} /\ applied \in Accepted \cup {None}
  /\ at \in Stages /\ (at = "idle") = (loaded = None)
  /\ at = "configs" => left \in Seq(PlanConfigs) /\ Rest(left, Plan.configs)
  /\ at = "workloads" => left \in Seq(PlanServices) /\ Rest(left, Plan.services)
  /\ at \notin {"configs", "workloads"} => left = <<>>
  /\ work \in [Workloads -> Specs \cup {None}]
  /\ map \in [ConfigMaps -> MapObjects \cup {None}]
  /\ pod \in [Workloads -> PodObjects \cup {None}]
  /\ \A n \in Workloads : pod[n] # None =>
       work[n] # None /\ (pod[n].shows = None \/ pod[n].shows \in [pod[n].spec.mounts -> Contents])
  /\ orderly \in BOOLEAN

\* The file an up under way has loaded, and where it is in the plan.
LEMMA UpType ==
  ASSUME FilesType, at # "idle"
  PROVE  /\ loaded \in Accepted /\ loaded # None /\ Plan = Plans[loaded]
         /\ Plan.configs \in Seq(PlanConfigs) /\ Plan.services \in Seq(PlanServices)
         /\ Plan.project \in Seq(Words)
  BY PlanConfigsType, PlanServicesType DEF FilesType, Plan

LEMMA ImpliesTypeOK == FilesType => FilesTypeOK
<1> SUFFICES ASSUME FilesType PROVE FilesTypeOK
  OBVIOUS
<1>1. CASE at = "configs"
  <2>1. IsSuffix(left, Plan.configs)
    BY <1>1, UpType, SuffixIsRest DEF FilesType
  <2> QED BY <1>1, <2>1 DEF FilesType, FilesTypeOK, PodObjects
<1>2. CASE at = "workloads"
  <2>1. IsSuffix(left, Plan.services)
    BY <1>2, UpType, SuffixIsRest DEF FilesType
  <2> QED BY <1>2, <2>1 DEF FilesType, FilesTypeOK, PodObjects
<1>3. CASE at \notin {"configs", "workloads"}
  BY <1>3 DEF FilesType, FilesTypeOK, PodObjects
<1> QED BY <1>1, <1>2, <1>3

LEMMA InitType == FilesInit => FilesType
  BY DEF FilesInit, FilesType, Stages

\* How far a list is dealt with.
DealtWith(list) == Len(list) - Len(left)

LEMMA ConfigsType ==
  ASSUME FilesType, WriteConfig
  PROVE  /\ FilesType'
         /\ left # <<>> => /\ Head(left) \in PlanConfigs
                           /\ DealtWith(Plan.configs) + 1 \in DOMAIN Plan.configs
                           /\ Head(left) = Plan.configs[DealtWith(Plan.configs) + 1]
                           /\ Len(left') = Len(left) - 1 /\ left' # Plan.configs
<1> USE DEF FilesType
<1>1. /\ at = "configs" /\ Plan' = Plan /\ loaded' = loaded
      /\ UNCHANGED <<file, applied, work, pod, orderly>>
  BY DEF WriteConfig, Enters, Plan
<1>2. CASE left = <<>>
  <2>1. at' = "workloads" /\ left' = Plan.services /\ map' = map
    BY <1>1, <1>2 DEF WriteConfig, Enters
  <2>2. left' \in Seq(PlanServices) /\ Rest(left, Plan.services)'
    BY <1>1, <2>1, UpType, RestEnds
  <2> QED BY <1>1, <1>2, <2>1, <2>2 DEF Stages
<1>3. CASE left # <<>>
  <2>1. /\ at' = "configs" /\ left' = Tail(left)
        /\ map' = [map EXCEPT ![Head(left).map] = [project |-> Plan.project, data |-> Head(left).data]]
    BY <1>1, <1>3 DEF WriteConfig, Enters
  <2>2. Rest(Tail(left), Plan.configs) /\ Tail(left) \in Seq(PlanConfigs)
    BY <1>1, <1>3, UpType, RestTail
  <2>3. /\ Head(left) = Plan.configs[DealtWith(Plan.configs) + 1]
        /\ DealtWith(Plan.configs) + 1 \in DOMAIN Plan.configs
        /\ Len(Tail(left)) = Len(left) - 1 /\ Tail(left) # Plan.configs
    BY <1>1, <1>3, UpType, RestTail DEF DealtWith
  <2>4. Head(left) \in PlanConfigs
    BY <1>1, <1>3
  <2>5. [project |-> Plan.project, data |-> Head(left).data] \in MapObjects
    BY <1>1, <2>4, UpType DEF MapObjects, PlanConfigs
  <2>6. map' \in [ConfigMaps -> MapObjects \cup {None}]
    BY <2>1, <2>4, <2>5 DEF PlanConfigs
  <2>7. left' \in Seq(PlanConfigs) /\ Rest(left, Plan.configs)'
    BY <1>1, <2>1, <2>2
  <2> QED BY <1>1, <1>3, <2>1, <2>3, <2>4, <2>6, <2>7
<1> QED BY <1>2, <1>3

LEMMA WorkloadsType ==
  ASSUME FilesType, WriteWorkload
  PROVE  /\ FilesType'
         /\ left # <<>> => /\ Head(left) \in PlanServices
                           /\ DealtWith(Plan.services) + 1 \in DOMAIN Plan.services
                           /\ Head(left) = Plan.services[DealtWith(Plan.services) + 1]
                           /\ Len(left') = Len(left) - 1
<1> USE DEF FilesType
<1>1. /\ at = "workloads" /\ Plan' = Plan /\ loaded' = loaded
      /\ UNCHANGED <<file, applied, map, pod, orderly>>
  BY DEF WriteWorkload, Enters, Plan
<1>2. CASE left = <<>>
  <2>1. at' = "stale" /\ left' = <<>> /\ work' = work
    BY <1>1, <1>2 DEF WriteWorkload, Enters
  <2> QED BY <1>1, <1>2, <2>1 DEF Stages
<1>3. CASE left # <<>>
  <2>1. /\ at' = "workloads" /\ left' = Tail(left)
        /\ work' = [work EXCEPT ![Head(left).container] = Head(left).spec]
    BY <1>1, <1>3 DEF WriteWorkload, Enters
  <2>2. Rest(Tail(left), Plan.services) /\ Tail(left) \in Seq(PlanServices)
    BY <1>1, <1>3, UpType, RestTail
  <2>3. /\ Head(left) = Plan.services[DealtWith(Plan.services) + 1]
        /\ DealtWith(Plan.services) + 1 \in DOMAIN Plan.services
        /\ Len(Tail(left)) = Len(left) - 1
    BY <1>1, <1>3, UpType, RestTail DEF DealtWith
  <2>4. Head(left) \in PlanServices
    BY <1>1, <1>3
  <2>5. work' \in [Workloads -> Specs \cup {None}]
    BY <2>1, <2>4 DEF PlanServices
  <2>6. Head(left).spec # None
    BY <2>4, NullsApart DEF PlanServices
  <2>7. left' \in Seq(PlanServices) /\ Rest(left, Plan.services)'
    BY <1>1, <2>1, <2>2
  <2> QED BY <1>1, <1>3, <2>1, <2>3, <2>4, <2>5, <2>6, <2>7
<1> QED BY <1>2, <1>3

\* What Removes leaves of workloads, their Pods and ConfigMaps.
LEMMA RemovesType ==
  ASSUME FilesType, NEW project, NEW workloads, NEW maps, Removes(project, workloads, maps)
  PROVE  /\ work' \in [Workloads -> Specs \cup {None}]
         /\ map' \in [ConfigMaps -> MapObjects \cup {None}]
         /\ pod' \in [Workloads -> PodObjects \cup {None}]
         /\ \A n \in Workloads :
              \/ work'[n] = None /\ pod'[n] = None /\ n \notin workloads
              \/ /\ work'[n] = work[n] /\ pod'[n] = pod[n]
                 /\ work[n] # None /\ work[n].project = project => n \in workloads
         /\ \A m \in ConfigMaps :
              \/ map'[m] = None /\ map[m].project = project /\ m \notin maps
              \/ map'[m] = map[m] /\ (map[m] # None /\ map[m].project = project => m \in maps)
  BY DEF FilesType, Removes

LEMMA OthersType ==
  ASSUME FilesType, Edit \/ Up \/ Cut \/ RemoveStale \/ Down
  PROVE  FilesType'
<1> USE DEF FilesType, Stages
<1>1. CASE Edit
  BY <1>1 DEF Edit, upVars, Plan
<1>2. CASE Up
  <2>1. file \in Accepted /\ file # None
    BY <1>2, NullsApart DEF Up, Accepted
  <2>2. PICK f : f = file
    OBVIOUS
  <2>3. Rest(Plans[f].configs, Plans[f].configs) /\ Plans[f].configs \in Seq(PlanConfigs)
    BY <2>1, <2>2, PlanConfigsType, RestEnds
  <2>4. /\ loaded' = f /\ at' = "configs" /\ left' = Plans[f].configs /\ Plan' = Plans[f]
        /\ orderly' \in BOOLEAN /\ UNCHANGED <<file, applied, work, map, pod>>
    BY <1>2, <2>2 DEF Up, Plan
  <2> QED BY <2>1, <2>2, <2>3, <2>4
<1>3. CASE Cut
  BY <1>3 DEF Cut, Returns
<1>4. CASE RemoveStale
  <2>1. PICK project, workloads, maps : Removes(project, workloads, maps)
    BY <1>4 DEF RemoveStale
  <2>2. loaded \in Accepted
    BY <1>4, UpType DEF RemoveStale
  <2> QED BY <1>4, <2>1, <2>2, RemovesType DEF RemoveStale, Returns
<1>5. CASE Down
  <2>1. PICK project, workloads, maps : Removes(project, workloads, maps)
    BY <1>5 DEF Down
  <2> QED BY <1>5, <2>1, RemovesType DEF Down, upVars
<1> QED BY <1>1, <1>2, <1>3, <1>4, <1>5

LEMMA PodsType ==
  ASSUME FilesType, NEW n \in Workloads, CreatePod(n) \/ StartPod(n) \/ PodGoes(n)
  PROVE  FilesType'
<1>1. UNCHANGED <<file, upVars, applied, work, map, orderly>>
  BY DEF CreatePod, StartPod, PodGoes
<1>2. PICK p : pod' = [pod EXCEPT ![n] = p]
  BY DEF CreatePod, StartPod, PodGoes
<1> USE DEF FilesType
<1>3. /\ p \in PodObjects \cup {None}
      /\ p # None => work[n] # None /\ (p.shows = None \/ p.shows \in [p.spec.mounts -> Contents])
  <2>1. pod'[n] = p
    BY <1>2
  <2>2. CASE CreatePod(n)
    BY <2>1, <2>2 DEF CreatePod, PodObjects
  <2>3. CASE StartPod(n)
    <3> DEFINE spec == pod[n].spec
               shows == [mount \in spec.mounts |-> map[mount.map].data]
    <3>1. pod[n] \in PodObjects /\ pod[n] # None /\ spec \in Specs
      BY <2>3 DEF StartPod, PodObjects
    <3>2. \A mount \in spec.mounts : map[mount.map].data \in Contents
      BY <2>3, <3>1, SpecType DEF StartPod, MapObjects
    <3>3. shows \in [spec.mounts -> Contents]
      BY <3>2
    <3>4. pod' = [pod EXCEPT ![n].shows = shows]
      BY <2>3 DEF StartPod
    <3> HIDE DEF shows
    <3>5. p = [pod[n] EXCEPT !.shows = shows]
      BY <2>1, <3>4
    <3>6. p.spec = spec /\ p.shows = shows /\ p \in PodObjects
      BY <3>1, <3>3, <3>5 DEF PodObjects
    <3> QED BY <3>1, <3>3, <3>6
  <2>4. CASE PodGoes(n)
    BY <2>1, <2>4 DEF PodGoes
  <2> QED BY <2>2, <2>3, <2>4
<1>4. \A k \in Workloads : pod'[k] = IF k = n THEN p ELSE pod[k]
  BY <1>2
<1>5. pod' \in [Workloads -> PodObjects \cup {None}]
  BY <1>2, <1>3
<1> QED BY <1>1, <1>3, <1>4, <1>5 DEF upVars, Plan

----------------------------------------------------------------------------
(* The invariant, while the update of contents is orderly.                 *)

\* The running up has written something.
Touched == at \in {"workloads", "stale"} \/ (at = "configs" /\ left # Plan.configs)

\* The content the plan has for ConfigMap m is another one than c.
Replaces(m, c) ==
  \E i \in DOMAIN Plan.configs : Plan.configs[i].map = m /\ Plan.configs[i].data # c

\* What a workload mounts is there, in its own project, and has the content
\* of the hash in its spec, or the one the running up has written over it.
Mounted ==
  \A n \in Workloads : work[n] # None => \A mount \in work[n].mounts :
    /\ map[mount.map] # None /\ map[mount.map].project = work[n].project
    /\ \/ map[mount.map].data = mount.hash
       \/ Touched /\ work[n].project = Plan.project /\ Replaces(mount.map, mount.hash)

\* A started Pod of its workload's spec shows the contents of the hashes,
\* except those the running up replaces.
Shown ==
  \A n \in Workloads : Started(n) /\ ~Outdated(n) => \A mount \in work[n].mounts :
    \/ pod[n].shows[mount] = mount.hash
    \/ Touched /\ work[n].project = Plan.project /\ Replaces(mount.map, mount.hash)

\* No Pod is outdated before up has written its workload.
CaughtUp ==
  /\ at = "configs" => \A n \in Workloads : ~Outdated(n)
  /\ at = "workloads" => \A n \in Workloads : Outdated(n) =>
       \E i \in 1 .. DealtWith(Plan.services) : Plan.services[i].container = n

\* What up has written is there.
Written == loaded # None =>
  /\ ~Collides(loaded)
  /\ \A i \in DOMAIN Plan.configs :
       at \in {"workloads", "stale"} \/ (at = "configs" /\ i <= DealtWith(Plan.configs)) =>
         map[Plan.configs[i].map] = [project |-> Plan.project, data |-> Plan.configs[i].data]
  /\ \A i \in DOMAIN Plan.services :
       at = "stale" \/ (at = "workloads" /\ i <= DealtWith(Plan.services)) =>
         work[Plan.services[i].container] = Plan.services[i].spec

\* The cluster has of the plan's project the plan, and nothing else.
InPlace(plan) ==
  /\ \A i \in DOMAIN plan.services : work[plan.services[i].container] = plan.services[i].spec
  /\ \A i \in DOMAIN plan.configs :
       map[plan.configs[i].map] = [project |-> plan.project, data |-> plan.configs[i].data]
  /\ \A n \in Workloads : work[n] # None /\ work[n].project = plan.project => n \in ContainersOf(plan)
  /\ \A m \in ConfigMaps : map[m] # None /\ map[m].project = plan.project => m \in MapsOf(plan)

\* The last up's plan is in place until the next one writes, and if that one
\* applies the same file, all along.
AppliedInPlace == applied # None /\ (~Touched \/ loaded = applied) => InPlace(Plans[applied])

Orderly == Mounted /\ Shown /\ CaughtUp /\ Written /\ AppliedInPlace

FilesInv == FilesType /\ (orderly => Orderly)

\* An up that has not written anything yet shows in nothing.
LEMMA Untouched ==
  ASSUME Mounted, Shown, ~Touched, NEW n \in Workloads, NEW mount \in work[n].mounts, work[n] # None
  PROVE  /\ map[mount.map] # None /\ map[mount.map].project = work[n].project
         /\ map[mount.map].data = mount.hash
         /\ Started(n) /\ ~Outdated(n) => pod[n].shows[mount] = mount.hash
  BY DEF Mounted, Shown

\* The other way round.
LEMMA Settles ==
  ASSUME \A n \in Workloads : work[n] # None => \A mount \in work[n].mounts :
           /\ map[mount.map] # None /\ map[mount.map].project = work[n].project
           /\ map[mount.map].data = mount.hash
           /\ Started(n) /\ ~Outdated(n) => pod[n].shows[mount] = mount.hash,
         \A n \in Workloads : pod[n] # None => work[n] # None
  PROVE  Mounted /\ Shown
  BY DEF Mounted, Shown, Started

LEMMA EditOrderly ==
  ASSUME FilesType, Orderly, Edit
  PROVE  Orderly'
<1> USE DEF Edit, upVars, Plan, Touched, Replaces, InPlace, DealtWith, Started, Outdated
<1>1. Mounted' /\ Shown'
  BY DEF Orderly, Mounted, Shown
<1>2. CaughtUp' /\ Written' /\ AppliedInPlace'
  BY DEF Orderly, CaughtUp, Written, AppliedInPlace
<1> QED BY <1>1, <1>2 DEF Orderly

LEMMA UpOrderly ==
  ASSUME FilesType, Orderly, Up, orderly'
  PROVE  Orderly'
<1>1. /\ at = "idle" /\ file \in Accepted /\ ~Collides(file) /\ \A n \in Workloads : ~Outdated(n)
      /\ loaded' = file /\ at' = "configs" /\ left' = Plans[file].configs
      /\ UNCHANGED <<applied, work, map, pod>>
  BY DEF Up, FilesType, Accepted
<1>2. PICK f : f = file
  OBVIOUS
<1>3. Plan' = Plans[f] /\ Len(left') = Len(Plans[f].configs) /\ Len(left') \in Nat
  BY <1>1, <1>2, PlanConfigsType DEF Plan
<1>4. ~Touched /\ ~Touched'
  BY <1>1, <1>2, <1>3 DEF Touched
<1>5. Mounted' /\ Shown'
  BY <1>1, <1>4 DEF Orderly, Mounted, Shown, Started, Outdated
<1>6. CaughtUp'
  BY <1>1 DEF CaughtUp, Outdated
<1>7. Written'
  <2>1. \A i \in DOMAIN Plans[f].configs : ~(i <= Len(Plans[f].configs) - Len(left'))
    BY <1>1, <1>2, <1>3, PlanConfigsType
  <2> QED BY <1>1, <1>2, <1>3, <2>1 DEF Written, DealtWith
<1>8. AppliedInPlace'
  BY <1>1, <1>4 DEF Orderly, AppliedInPlace, InPlace
<1> QED BY <1>5, <1>6, <1>7, <1>8 DEF Orderly

LEMMA CutOrderly ==
  ASSUME FilesType, Orderly, Cut, orderly'
  PROVE  Orderly'
<1>1. /\ at = "configs" /\ left = Plan.configs /\ at' = "idle" /\ loaded' = None
      /\ UNCHANGED <<applied, work, map, pod>>
  BY DEF Cut, Returns
<1>2. ~Touched /\ ~Touched'
  BY <1>1 DEF Touched
<1>3. Mounted' /\ Shown'
  BY <1>1, <1>2 DEF Orderly, Mounted, Shown, Started, Outdated
<1>4. CaughtUp' /\ Written' /\ AppliedInPlace'
  BY <1>1, <1>2 DEF Orderly, CaughtUp, Written, AppliedInPlace, InPlace
<1> QED BY <1>3, <1>4 DEF Orderly

\* The plan of the file that is being applied.
LEMMA PlanIs ==
  ASSUME FilesType, at # "idle"
  PROVE  \E f \in Accepted : f = loaded /\ Plan = Plans[f]
  BY UpType

LEMMA ConfigOrderly ==
  ASSUME FilesType, Orderly, WriteConfig
  PROVE  Orderly'
<1>1. at = "configs"
  BY DEF WriteConfig
<1>2. PICK f \in Accepted : f = loaded /\ Plan = Plans[f]
  BY <1>1, PlanIs
<1>3. /\ Plan' = Plans[f] /\ loaded' = f /\ UNCHANGED <<applied, work, pod>>
  BY <1>2 DEF WriteConfig, Enters, Plan
<1>4. CASE left = <<>>
  <2>1. at' = "workloads" /\ left' = Plans[f].services /\ map' = map
    BY <1>1, <1>2, <1>4 DEF WriteConfig, Enters
  <2>2. Touched'
    BY <2>1 DEF Touched
  <2>3. Mounted' /\ Shown'
    BY <1>2, <1>3, <2>1, <2>2 DEF Orderly, Mounted, Shown, Started, Outdated, Replaces
  <2>4. CaughtUp'
    BY <1>1, <1>3, <2>1 DEF Orderly, CaughtUp, Outdated
  <2>5. Written'
    <3>1. Len(left) = 0 /\ \A i \in DOMAIN Plans[f].configs : i <= Len(Plans[f].configs) - Len(left)
      BY <1>4, PlanConfigsType
    <3>2. \A i \in DOMAIN Plans[f].services : ~(i <= Len(Plans[f].services) - Len(left'))
      BY <2>1, PlanServicesType
    <3> QED BY <1>1, <1>2, <1>3, <2>1, <3>1, <3>2 DEF Orderly, Written, DealtWith
  <2>6. AppliedInPlace'
    BY <1>1, <1>2, <1>3, <2>1, <2>2 DEF Orderly, AppliedInPlace, InPlace
  <2> QED BY <2>3, <2>4, <2>5, <2>6 DEF Orderly
<1>5. CASE left # <<>>
  <2> DEFINE k == DealtWith(Plan.configs) + 1
             new == [project |-> Plans[f].project, data |-> Head(left).data]
  <2>1. /\ at' = "configs" /\ Owned(map[Head(left).map])
        /\ map' = [map EXCEPT ![Head(left).map] = new]
    BY <1>1, <1>2, <1>5 DEF WriteConfig, Enters
  <2>2. PICK c : c = Head(left)
    OBVIOUS
  <2>3. /\ c.map \in ConfigMaps /\ k \in DOMAIN Plans[f].configs /\ c = Plans[f].configs[k]
        /\ left' # Plans[f].configs /\ Len(left') = Len(left) - 1
        /\ new.project = Plans[f].project /\ new.data = c.data /\ new # None
    BY <1>2, <1>5, <2>2, ConfigsType, NullsApart, UpType, <1>1 DEF PlanConfigs, MapObjects
  <2> HIDE DEF k, new
  <2>4. Touched'
    BY <1>3, <2>1, <2>3 DEF Touched
  <2>5. \A m \in ConfigMaps : map'[m] = IF m = c.map THEN new ELSE map[m]
    BY <2>1, <2>2, <2>3 DEF FilesType
  <2>6. map[c.map] # None => map[c.map].project = Plans[f].project
    BY <1>2, <2>1, <2>2 DEF Owned
  <2>7. \A h : c.data # h => Replaces(c.map, h)'
    BY <1>3, <2>3 DEF Replaces
  <2>8. \A m, h : Replaces(m, h) => Replaces(m, h)'
    BY <1>2, <1>3 DEF Replaces
  <2>9. ASSUME NEW n \in Workloads, work[n] # None, NEW mount \in work[n].mounts
        PROVE  /\ map'[mount.map] # None /\ map'[mount.map].project = work[n].project
               /\ \/ map'[mount.map].data = mount.hash
                  \/ work[n].project = Plans[f].project /\ Replaces(mount.map, mount.hash)'
               /\ Started(n) /\ ~Outdated(n) =>
                    \/ pod[n].shows[mount] = mount.hash
                    \/ work[n].project = Plans[f].project /\ Replaces(mount.map, mount.hash)'
    <3>1. mount.map \in ConfigMaps
      BY <2>9, SpecType DEF FilesType
    <3>2. /\ map[mount.map] # None /\ map[mount.map].project = work[n].project
          /\ \/ map[mount.map].data = mount.hash
             \/ work[n].project = Plans[f].project /\ Replaces(mount.map, mount.hash)
          /\ Started(n) /\ ~Outdated(n) =>
               \/ pod[n].shows[mount] = mount.hash
               \/ work[n].project = Plans[f].project /\ Replaces(mount.map, mount.hash)
      BY <1>2, <2>9 DEF Orderly, Mounted, Shown
    <3>3. CASE mount.map = c.map
      BY <2>3, <2>5, <2>6, <2>7, <2>8, <3>1, <3>2, <3>3
    <3>4. CASE mount.map # c.map
      BY <2>5, <2>8, <3>1, <3>2, <3>4
    <3> QED BY <3>3, <3>4
  <2>10. Mounted' /\ Shown'
    BY <1>3, <2>4, <2>9 DEF Mounted, Shown, Started, Outdated, FilesType
  <2>11. CaughtUp'
    BY <1>1, <1>3, <2>1 DEF Orderly, CaughtUp, Outdated
  <2>12. Written'
    <3>1. ~Collides(f)
      BY <1>2, NullsApart DEF Orderly, Written, FilesType, Accepted
    <3>2. ASSUME NEW i \in DOMAIN Plans[f].configs, i <= Len(Plans[f].configs) - Len(left')
          PROVE  map'[Plans[f].configs[i].map] = [project |-> Plans[f].project, data |-> Plans[f].configs[i].data]
      <4>1. Plans[f].configs[i].map \in ConfigMaps
        <5>1. Plans[f].configs[i] \in PlanConfigs
          BY PlanConfigsType
        <5> QED BY <5>1 DEF PlanConfigs
      <4>2. CASE i = k
        BY <2>3, <2>5, <4>1, <4>2 DEF new
      <4>3. CASE i # k
        <5>1. i <= Len(Plans[f].configs) - Len(left)
          BY <1>2, <2>3, <3>2, <4>3, <1>1, PlanConfigsType DEF k, DealtWith, FilesType
        <5>2. Plans[f].configs[i].map # c.map
          BY <2>3, <3>1, <4>3, MapsApart, PlanConfigsType
        <5>3. map[Plans[f].configs[i].map] = [project |-> Plans[f].project, data |-> Plans[f].configs[i].data]
          BY <1>1, <1>2, <5>1, UpType DEF Orderly, Written, DealtWith
        <5> QED BY <2>5, <4>1, <5>2, <5>3
      <4> QED BY <4>2, <4>3
    <3> QED BY <1>3, <2>1, <3>1, <3>2 DEF Written, DealtWith
  <2>13. AppliedInPlace'
    <3>1. SUFFICES ASSUME applied = f PROVE InPlace(Plans[f])'
      BY <1>3, <2>4 DEF AppliedInPlace
    <3>2. InPlace(Plans[f])
      BY <1>1, <1>2, <3>1, UpType DEF Orderly, AppliedInPlace
    <3>3. map[c.map] = new
      BY <2>2, <2>3, <3>2 DEF InPlace, new
    <3>4. map' = map
      BY <2>1, <2>2, <2>3, <3>3 DEF FilesType
    <3> QED BY <1>3, <3>2, <3>4 DEF InPlace
  <2> QED BY <2>10, <2>11, <2>12, <2>13 DEF Orderly
<1> QED BY <1>4, <1>5

\* A workload just written asks for what is there by then; a Pod that has its
\* spec already showed it before.
LEMMA WorkloadOrderly ==
  ASSUME FilesType, Orderly, WriteWorkload
  PROVE  Orderly'
<1>1. at = "workloads"
  BY DEF WriteWorkload
<1>2. PICK f \in Accepted : f = loaded /\ Plan = Plans[f]
  BY <1>1, PlanIs
<1>3. Plan' = Plans[f] /\ loaded' = f /\ UNCHANGED <<applied, map, pod>> /\ Touched /\ loaded # None
  BY <1>1, <1>2, UpType DEF WriteWorkload, Enters, Plan, Touched
<1>4. CASE left = <<>>
  <2>1. at' = "stale" /\ work' = work
    BY <1>1, <1>2, <1>4 DEF WriteWorkload, Enters
  <2>2. Touched'
    BY <2>1 DEF Touched
  <2>3. Mounted' /\ Shown'
    BY <1>2, <1>3, <2>1, <2>2 DEF Orderly, Mounted, Shown, Started, Outdated, Replaces
  <2>4. CaughtUp'
    BY <2>1 DEF CaughtUp
  <2>5. Written'
    <3>1. Len(left) = 0 /\ \A i \in DOMAIN Plans[f].services : i <= Len(Plans[f].services) - Len(left)
      BY <1>4, PlanServicesType
    <3> QED BY <1>1, <1>2, <1>3, <2>1, <3>1 DEF Orderly, Written, DealtWith
  <2>6. AppliedInPlace'
    BY <1>1, <1>2, <1>3, <2>1, <2>2 DEF Orderly, AppliedInPlace, InPlace
  <2> QED BY <2>3, <2>4, <2>5, <2>6 DEF Orderly
<1>5. CASE left # <<>>
  <2> DEFINE k == DealtWith(Plan.services) + 1
             w == Head(left).container
             spec == Head(left).spec
  <2>1. at' = "workloads" /\ work' = [work EXCEPT ![w] = spec]
    BY <1>1, <1>2, <1>5 DEF WriteWorkload, Enters
  <2>2. /\ w \in Workloads /\ spec \in Specs /\ spec # None
        /\ k \in DOMAIN Plans[f].services /\ k \in DOMAIN f.services
        /\ w = Plans[f].services[k].container /\ spec = Plans[f].services[k].spec
        /\ spec.project = Plans[f].project /\ Len(left') = Len(left) - 1
    <3>1. /\ k \in DOMAIN Plans[f].services /\ Head(left) = Plans[f].services[k]
          /\ Len(left') = Len(left) - 1
      BY <1>2, <1>5, WorkloadsType
    <3>2. k \in DOMAIN f.services
      BY <3>1, PlanServicesType
    <3>3. w = Plans[f].services[k].container /\ spec = Plans[f].services[k].spec
      BY <3>1
    <3> HIDE DEF k, w, spec
    <3>4. w \in Workloads /\ spec \in Specs /\ spec.project = Plans[f].project
      BY <3>2, <3>3, SpecProject
    <3>5. spec # None
      BY <3>4, NullsApart
    <3> QED BY <3>1, <3>2, <3>3, <3>4, <3>5
  <2>3. \A n \in Workloads : work'[n] = IF n = w THEN spec ELSE work[n]
    BY <2>1, <2>2 DEF FilesType
  <2>4. /\ \A i \in DOMAIN Plans[f].services : i <= Len(Plans[f].services) - Len(left') =>
              i = k \/ i <= Len(Plans[f].services) - Len(left)
        /\ k \in 1 .. Len(Plans[f].services) - Len(left')
        /\ \A i \in 1 .. Len(Plans[f].services) - Len(left) :
              /\ i # k /\ i \in DOMAIN f.services /\ i \in DOMAIN Plans[f].services
              /\ i \in 1 .. Len(Plans[f].services) - Len(left')
    <3>1. left \in Seq(PlanServices) /\ Len(left) <= Len(Plans[f].services)
      BY <1>1, <1>2 DEF FilesType, Rest
    <3>2. Len(left) \in Nat \ {0}
      BY <1>5, <3>1
    <3>3. /\ Len(Plans[f].services) \in Nat
          /\ DOMAIN Plans[f].services = 1 .. Len(Plans[f].services)
          /\ DOMAIN f.services = 1 .. Len(Plans[f].services)
      BY PlanServicesType, FileType
    <3>4. k = Len(Plans[f].services) - Len(left) + 1 /\ Len(left') = Len(left) - 1
      BY <1>2, <2>2 DEF DealtWith
    <3> HIDE DEF k
    <3> QED BY <3>1, <3>2, <3>3, <3>4
  <2> HIDE DEF k, w, spec
  <2>5. \A i \in DOMAIN f.services : i # k => Plans[f].services[i].container # w
    BY <2>2, NamesOwn
  <2>6. ~Outdated(w)
    BY <1>1, <1>2, <2>2, <2>4, <2>5 DEF Orderly, CaughtUp, DealtWith
  <2>7. Touched'
    BY <2>1 DEF Touched
  <2>8. \A m, h : Replaces(m, h)' <=> Replaces(m, h)
    BY <1>2, <1>3 DEF Replaces
  <2>9. ASSUME NEW mount \in spec.mounts
        PROVE  /\ map[mount.map] # None /\ map[mount.map].project = spec.project
               /\ map[mount.map].data = mount.hash /\ ~Replaces(mount.map, mount.hash)
    <3>1. PICK j \in DOMAIN f.configs :
            Plans[f].configs[j].map = mount.map /\ Plans[f].configs[j].data = mount.hash
      BY <2>2, <2>9, MountsOwn
    <3>2. ~Collides(f) /\ j \in DOMAIN Plans[f].configs
      BY <1>2, <1>3, PlanConfigsType DEF Orderly, Written
    <3>3. map[mount.map] = [project |-> Plans[f].project, data |-> mount.hash]
      BY <1>1, <1>2, <1>3, <3>1, <3>2 DEF Orderly, Written
    <3>4. Plans[f].configs[j] \in PlanConfigs /\ Plans[f].project \in Seq(Words)
      BY <3>2, PlanConfigsType
    <3>5. [project |-> Plans[f].project, data |-> mount.hash] # None
      BY <3>1, <3>4, NullsApart DEF MapObjects, PlanConfigs
    <3>6. ~Replaces(mount.map, mount.hash)
      BY <1>2, <3>1, <3>2, MapsApart, PlanConfigsType DEF Replaces
    <3> QED BY <2>2, <3>3, <3>5, <3>6
  <2>10. Mounted'
    BY <1>2, <1>3, <2>2, <2>3, <2>7, <2>8, <2>9 DEF Orderly, Mounted
  <2>11. Shown'
    <3>1. SUFFICES ASSUME NEW n \in Workloads, pod[n] # None, pod[n].shows # None, pod[n].spec = work'[n],
                          NEW mount \in work'[n].mounts
                   PROVE  \/ pod[n].shows[mount] = mount.hash
                          \/ Touched' /\ work'[n].project = Plans[f].project /\ Replaces(mount.map, mount.hash)'
      BY <1>3 DEF Shown, Started, Outdated
    <3>2. work'[n] = work[n]
      BY <2>3, <2>6, <3>1 DEF Outdated
    <3> QED BY <1>2, <2>7, <2>8, <3>1, <3>2 DEF Orderly, Shown, Started, Outdated
  <2>12. CaughtUp'
    <3>1. ASSUME NEW n \in Workloads, Outdated(n)'
          PROVE  \E i \in 1 .. Len(Plans[f].services) - Len(left') : Plans[f].services[i].container = n
      <4>1. CASE n = w
        BY <2>2, <2>4, <4>1
      <4>2. CASE n # w
        <5>1. Outdated(n)
          BY <1>3, <2>3, <3>1, <4>2 DEF Outdated
        <5> QED BY <1>1, <1>2, <2>4, <5>1 DEF Orderly, CaughtUp, DealtWith
      <4> QED BY <4>1, <4>2
    <3> QED BY <1>3, <2>1, <3>1 DEF CaughtUp, DealtWith
  <2>13. Written'
    <3>1. ASSUME NEW i \in DOMAIN Plans[f].services, i <= Len(Plans[f].services) - Len(left')
          PROVE  work'[Plans[f].services[i].container] = Plans[f].services[i].spec
      <4>1. i \in DOMAIN f.services /\ Plans[f].services[i].container \in Workloads
        BY PlanServicesType, SpecProject
      <4>2. CASE i = k
        BY <2>2, <2>3, <4>2
      <4>3. CASE i # k
        <5>1. i <= Len(Plans[f].services) - Len(left)
          BY <2>4, <3>1, <4>3
        <5>2. work[Plans[f].services[i].container] = Plans[f].services[i].spec
          BY <1>1, <1>2, <1>3, <5>1 DEF Orderly, Written, DealtWith
        <5> QED BY <2>3, <2>5, <4>1, <4>3, <5>2
      <4> QED BY <4>2, <4>3
    <3> QED BY <1>1, <1>2, <1>3, <2>1, <3>1 DEF Orderly, Written, DealtWith
  <2>14. AppliedInPlace'
    <3>1. SUFFICES ASSUME applied = f PROVE InPlace(Plans[f])'
      BY <1>3, <2>7 DEF AppliedInPlace
    <3>2. InPlace(Plans[f])
      BY <1>2, <1>3, <3>1 DEF Orderly, AppliedInPlace
    <3>3. work' = work
      BY <2>1, <2>2, <3>2 DEF InPlace, FilesType
    <3> QED BY <1>3, <3>2, <3>3 DEF InPlace
  <2> QED BY <2>10, <2>11, <2>12, <2>13, <2>14 DEF Orderly
<1> QED BY <1>4, <1>5

\* What removeStale leaves of the plan's project is the plan, just written.
LEMMA RemoveStaleOrderly ==
  ASSUME FilesType, Orderly, RemoveStale
  PROVE  Orderly'
<1>1. at = "stale"
  BY DEF RemoveStale
<1>2. PICK f \in Accepted : f = loaded /\ Plan = Plans[f]
  BY <1>1, PlanIs
<1>3. /\ at' = "idle" /\ loaded' = None /\ applied' = f /\ loaded # None
      /\ Removes(Plans[f].project, ContainersOf(Plans[f]), MapsOf(Plans[f]))
  BY <1>1, <1>2, UpType DEF RemoveStale, Returns
<1>4. /\ \A n \in Workloads :
            \/ work'[n] = None /\ pod'[n] = None /\ n \notin ContainersOf(Plans[f])
            \/ /\ work'[n] = work[n] /\ pod'[n] = pod[n]
               /\ work[n] # None /\ work[n].project = Plans[f].project => n \in ContainersOf(Plans[f])
      /\ \A m \in ConfigMaps :
            \/ map'[m] = None /\ map[m].project = Plans[f].project /\ m \notin MapsOf(Plans[f])
            \/ /\ map'[m] = map[m]
               /\ map[m] # None /\ map[m].project = Plans[f].project => m \in MapsOf(Plans[f])
  BY <1>3, RemovesType
<1>5. /\ ~Collides(f)
      /\ \A i \in DOMAIN Plans[f].configs :
           map[Plans[f].configs[i].map] = [project |-> Plans[f].project, data |-> Plans[f].configs[i].data]
      /\ \A i \in DOMAIN Plans[f].services :
           work[Plans[f].services[i].container] = Plans[f].services[i].spec
  BY <1>1, <1>2, <1>3 DEF Orderly, Written
<1>6. ASSUME NEW i \in DOMAIN Plans[f].configs
      PROVE  /\ Plans[f].configs[i].map \in MapsOf(Plans[f]) /\ Plans[f].configs[i].map \in ConfigMaps
             /\ map'[Plans[f].configs[i].map] = map[Plans[f].configs[i].map]
  <2>1. Plans[f].configs[i] \in PlanConfigs
    BY PlanConfigsType
  <2>2. Plans[f].configs[i].map \in MapsOf(Plans[f]) /\ Plans[f].configs[i].map \in ConfigMaps
    BY <2>1 DEF PlanConfigs, MapsOf
  <2> QED BY <1>4, <2>2
<1>7. ASSUME NEW i \in DOMAIN Plans[f].services
      PROVE  /\ i \in DOMAIN f.services /\ Plans[f].services[i].container \in Workloads
             /\ work'[Plans[f].services[i].container] = work[Plans[f].services[i].container]
  <2>1. i \in DOMAIN f.services
    BY PlanServicesType
  <2>2. /\ Plans[f].services[i].container \in Workloads
        /\ Plans[f].services[i].container \in ContainersOf(Plans[f])
    BY <2>1, SpecProject
  <2> QED BY <1>4, <2>1, <2>2
<1>8. ASSUME NEW n \in Workloads, work'[n] # None, NEW mount \in work'[n].mounts
      PROVE  /\ map'[mount.map] # None /\ map'[mount.map].project = work'[n].project
             /\ map'[mount.map].data = mount.hash
             /\ Started(n)' /\ ~Outdated(n)' => pod'[n].shows[mount] = mount.hash
  <2>1. /\ work'[n] = work[n] /\ pod'[n] = pod[n]
        /\ work[n].project = Plans[f].project => n \in ContainersOf(Plans[f])
    BY <1>4, <1>8
  <2>2. /\ map[mount.map] # None /\ map[mount.map].project = work[n].project
        /\ \/ map[mount.map].data = mount.hash
           \/ work[n].project = Plans[f].project /\ Replaces(mount.map, mount.hash)
        /\ Started(n) /\ ~Outdated(n) =>
             \/ pod[n].shows[mount] = mount.hash
             \/ work[n].project = Plans[f].project /\ Replaces(mount.map, mount.hash)
    BY <1>2, <1>8, <2>1 DEF Orderly, Mounted, Shown
  <2>3. mount.map \in ConfigMaps
    BY <1>8, <2>1, SpecType DEF FilesType
  <2>4. (Started(n)' <=> Started(n)) /\ (Outdated(n)' <=> Outdated(n))
    BY <2>1 DEF Started, Outdated
  <2>5. CASE work[n].project = Plans[f].project
    <3>1. PICK i \in DOMAIN Plans[f].services : n = Plans[f].services[i].container
      BY <2>1, <2>5 DEF ContainersOf
    <3>2. i \in DOMAIN f.services /\ mount \in Plans[f].services[i].spec.mounts
      BY <1>5, <1>7, <1>8, <2>1, <3>1
    <3>3. PICK j \in DOMAIN f.configs :
            Plans[f].configs[j].map = mount.map /\ Plans[f].configs[j].data = mount.hash
      BY <3>2, MountsOwn
    <3>4. j \in DOMAIN Plans[f].configs /\ map'[mount.map] = map[mount.map]
      BY <1>6, <3>3, PlanConfigsType
    <3>5. ~Replaces(mount.map, mount.hash)
      BY <1>2, <1>5, <3>3, MapsApart, PlanConfigsType DEF Replaces
    <3> QED BY <2>1, <2>2, <2>4, <3>4, <3>5
  <2>6. CASE work[n].project # Plans[f].project
    <3>1. map'[mount.map] = map[mount.map]
      BY <1>4, <2>2, <2>3, <2>6
    <3> QED BY <2>1, <2>2, <2>4, <2>6, <3>1
  <2> QED BY <2>5, <2>6
<1>9. \A n \in Workloads : pod'[n] # None => work'[n] # None
  BY OthersType DEF FilesType
<1>10. Mounted' /\ Shown'
  <2>1. ~Touched'
    BY <1>3 DEF Touched
  <2> QED BY <1>8, <1>9, <2>1 DEF Mounted, Shown, Started
<1>11. CaughtUp' /\ Written'
  BY <1>3 DEF CaughtUp, Written
<1>12. InPlace(Plans[f])'
  <2>1. \A i \in DOMAIN Plans[f].services :
          work'[Plans[f].services[i].container] = Plans[f].services[i].spec
    BY <1>5, <1>7
  <2>2. \A i \in DOMAIN Plans[f].configs :
          map'[Plans[f].configs[i].map] = [project |-> Plans[f].project, data |-> Plans[f].configs[i].data]
    BY <1>5, <1>6
  <2>3. /\ \A n \in Workloads : work'[n] # None /\ work'[n].project = Plans[f].project =>
             n \in ContainersOf(Plans[f])
        /\ \A m \in ConfigMaps : map'[m] # None /\ map'[m].project = Plans[f].project =>
             m \in MapsOf(Plans[f])
    BY <1>4
  <2> QED BY <2>1, <2>2, <2>3 DEF InPlace
<1> QED BY <1>3, <1>10, <1>11, <1>12 DEF Orderly, AppliedInPlace

\* A down takes a project's ConfigMaps with the workloads that mount them.
LEMMA DownOrderly ==
  ASSUME FilesType, orderly => Orderly, Down, orderly'
  PROVE  Orderly'
<1>1. /\ at = "idle" /\ loaded = None /\ applied' = None /\ at' = at /\ loaded' = loaded
      /\ orderly \/ \A n \in Workloads : work'[n] = None
  BY DEF Down, upVars, FilesType
<1>2. PICK project : Removes(project, {}, {})
  BY DEF Down
<1>3. /\ \A n \in Workloads :
            \/ work'[n] = None
            \/ work'[n] = work[n] /\ pod'[n] = pod[n] /\ work[n].project # project
      /\ \A m \in ConfigMaps : map'[m] = map[m] \/ map[m].project = project
  BY <1>2, RemovesType
<1>4. ~Touched /\ ~Touched'
  BY <1>1 DEF Touched
<1>5. ASSUME NEW n \in Workloads, work'[n] # None, NEW mount \in work'[n].mounts
      PROVE  /\ map'[mount.map] # None /\ map'[mount.map].project = work'[n].project
             /\ map'[mount.map].data = mount.hash
             /\ Started(n)' /\ ~Outdated(n)' => pod'[n].shows[mount] = mount.hash
  <2>1. orderly /\ work'[n] = work[n] /\ pod'[n] = pod[n] /\ work[n].project # project
    BY <1>1, <1>3, <1>5
  <2>2. /\ map[mount.map] # None /\ map[mount.map].project = work[n].project
        /\ map[mount.map].data = mount.hash
        /\ Started(n) /\ ~Outdated(n) => pod[n].shows[mount] = mount.hash
    BY <1>4, <1>5, <2>1, Untouched DEF Orderly
  <2>3. mount.map \in ConfigMaps
    BY <1>5, <2>1, SpecType DEF FilesType
  <2>4. map'[mount.map] = map[mount.map]
    BY <1>3, <2>1, <2>2, <2>3
  <2> QED BY <2>1, <2>2, <2>4 DEF Started, Outdated
<1>6. \A n \in Workloads : pod'[n] # None => work'[n] # None
  BY OthersType DEF FilesType
<1>7. Mounted' /\ Shown'
  BY <1>4, <1>5, <1>6 DEF Mounted, Shown, Started
<1>8. CaughtUp' /\ Written' /\ AppliedInPlace'
  BY <1>1 DEF CaughtUp, Written, AppliedInPlace
<1> QED BY <1>7, <1>8 DEF Orderly

\* A Pod starts with what its ConfigMaps hold.
LEMMA PodsOrderly ==
  ASSUME FilesType, Orderly, NEW n \in Workloads, CreatePod(n) \/ StartPod(n) \/ PodGoes(n)
  PROVE  Orderly'
<1>1. UNCHANGED <<loaded, at, left, applied, work, map>> /\ Plan' = Plan
  BY DEF CreatePod, StartPod, PodGoes, upVars, Plan
<1>2. \A k \in Workloads : k # n => pod'[k] = pod[k]
  BY DEF CreatePod, StartPod, PodGoes, FilesType
<1>3. /\ Touched' <=> Touched
      /\ \A m, h : Replaces(m, h)' <=> Replaces(m, h)
  BY <1>1 DEF Touched, Replaces
<1>4. /\ Outdated(n)' => Outdated(n)
      /\ \A mount \in work[n].mounts :
           Started(n)' /\ ~Outdated(n)' => /\ work[n] # None
                                          /\ \/ pod'[n].shows[mount] = map[mount.map].data
                                             \/ Started(n) /\ ~Outdated(n) /\ pod'[n] = pod[n]
  <2>1. CASE CreatePod(n)
    <3>1. pod'[n] = [spec |-> work[n], shows |-> None]
      BY <2>1 DEF CreatePod, FilesType
    <3> QED BY <1>1, <3>1 DEF Outdated, Started
  <2>2. CASE StartPod(n)
    <3> DEFINE shows == [mount \in pod[n].spec.mounts |-> map[mount.map].data]
    <3>1. /\ pod[n] # None /\ pod[n] \in PodObjects /\ work[n] # None
          /\ pod'[n] = [pod[n] EXCEPT !.shows = shows]
      BY <2>2 DEF StartPod, FilesType
    <3> HIDE DEF shows
    <3>2. pod'[n].spec = pod[n].spec /\ pod'[n].shows = shows
      BY <3>1 DEF PodObjects
    <3>3. \A mount \in pod[n].spec.mounts : shows[mount] = map[mount.map].data
      BY DEF shows
    <3> QED BY <1>1, <3>1, <3>2, <3>3 DEF Outdated, Started
  <2>3. CASE PodGoes(n)
    <3>1. pod'[n] = None
      BY <2>3 DEF PodGoes, FilesType
    <3> QED BY <3>1 DEF Outdated, Started
  <2> QED BY <2>1, <2>2, <2>3
<1>5. \A k \in Workloads : Outdated(k)' => Outdated(k)
  BY <1>1, <1>2, <1>4 DEF Outdated
<1>6. Mounted'
  BY <1>1, <1>3 DEF Orderly, Mounted
<1>7. Shown'
  <2>1. SUFFICES ASSUME NEW k \in Workloads, Started(k)', ~Outdated(k)', NEW mount \in work[k].mounts
                 PROVE  \/ pod'[k].shows[mount] = mount.hash
                        \/ Touched /\ work[k].project = Plan.project /\ Replaces(mount.map, mount.hash)
    BY <1>1, <1>3 DEF Shown
  <2>2. CASE k = n
    BY <1>4, <2>1, <2>2 DEF Orderly, Mounted, Shown
  <2>3. CASE k # n
    <3>1. Started(k) /\ ~Outdated(k) /\ pod'[k] = pod[k]
      BY <1>1, <1>2, <2>1, <2>3 DEF Started, Outdated
    <3> QED BY <2>1, <3>1 DEF Orderly, Shown
  <2> QED BY <2>2, <2>3
<1>8. CaughtUp'
  BY <1>1, <1>5 DEF Orderly, CaughtUp, DealtWith
<1>9. Written' /\ AppliedInPlace'
  BY <1>1, <1>3 DEF Orderly, Written, AppliedInPlace, InPlace, DealtWith
<1> QED BY <1>6, <1>7, <1>8, <1>9 DEF Orderly

----------------------------------------------------------------------------
(* All steps, and what follows.                                            *)

LEMMA InitInv == FilesInit => FilesInv
<1> SUFFICES ASSUME FilesInit PROVE FilesInv
  OBVIOUS
<1>1. at = "idle" /\ loaded = None /\ applied = None /\ \A n \in Workloads : work[n] = None /\ pod[n] = None
  BY DEF FilesInit
<1>2. Mounted /\ Shown /\ CaughtUp /\ Written /\ AppliedInPlace
  BY <1>1 DEF Mounted, Shown, Started, CaughtUp, Written, AppliedInPlace
<1> QED BY <1>2, InitType DEF FilesInv, Orderly

LEMMA StutterInv == FilesInv /\ UNCHANGED vars => FilesInv'
<1> SUFFICES ASSUME FilesInv, UNCHANGED vars PROVE FilesInv'
  OBVIOUS
<1>1. /\ UNCHANGED <<file, loaded, at, left, applied, work, map, pod, orderly>>
      /\ Plan' = Plan
  BY DEF vars, upVars, Plan
<1>2. FilesType'
  BY <1>1 DEF FilesInv, FilesType
<1>3. (Touched' <=> Touched) /\ \A m, h : Replaces(m, h)' <=> Replaces(m, h)
  BY <1>1 DEF Touched, Replaces
<1>4. Mounted' = Mounted /\ Shown' = Shown
  BY <1>1, <1>3 DEF Mounted, Shown, Started, Outdated
<1>5. CaughtUp' = CaughtUp /\ Written' = Written /\ AppliedInPlace' = AppliedInPlace
  BY <1>1, <1>3 DEF CaughtUp, Outdated, DealtWith, Written, AppliedInPlace, InPlace
<1> QED BY <1>1, <1>2, <1>4, <1>5 DEF FilesInv, Orderly

LEMMA NextInv == FilesInv /\ [FilesNext]_vars => FilesInv'
<1> SUFFICES ASSUME FilesInv, FilesNext PROVE FilesInv'
  BY StutterInv
<1> USE DEF FilesInv
<1>1. CASE Edit
  <2>1. orderly' = orderly
    BY <1>1 DEF Edit
  <2> QED BY <1>1, <2>1, OthersType, EditOrderly
<1>2. CASE Up
  <2>1. orderly' => orderly
    BY <1>2 DEF Up
  <2> QED BY <1>2, <2>1, OthersType, UpOrderly
<1>3. CASE Cut
  <2>1. orderly' => orderly
    BY <1>3 DEF Cut
  <2> QED BY <1>3, <2>1, OthersType, CutOrderly
<1>4. CASE WriteConfig
  <2>1. orderly' = orderly
    BY <1>4 DEF WriteConfig
  <2> QED BY <1>4, <2>1, ConfigsType, ConfigOrderly
<1>5. CASE WriteWorkload
  <2>1. orderly' = orderly
    BY <1>5 DEF WriteWorkload
  <2> QED BY <1>5, <2>1, WorkloadsType, WorkloadOrderly
<1>6. CASE RemoveStale
  <2>1. orderly' = orderly
    BY <1>6 DEF RemoveStale
  <2> QED BY <1>6, <2>1, OthersType, RemoveStaleOrderly
<1>7. CASE Down
  BY <1>7, OthersType, DownOrderly
<1>8. CASE \E n \in Workloads : CreatePod(n) \/ StartPod(n) \/ PodGoes(n)
  <2>1. PICK n \in Workloads : CreatePod(n) \/ StartPod(n) \/ PodGoes(n)
    BY <1>8
  <2>2. orderly' = orderly
    BY <2>1 DEF CreatePod, StartPod, PodGoes
  <2> QED BY <2>1, <2>2, PodsType, PodsOrderly
<1> QED BY <1>1, <1>2, <1>3, <1>4, <1>5, <1>6, <1>7, <1>8 DEF FilesNext

\* Along every run of edits, ups (also interrupted ones), downs and Pods, what
\* is stored is as typed, and while the update of contents is orderly, what
\* the workloads mount and their Pods show is accounted for (apply.go:26-102).
THEOREM FilesCorrect == FilesSpec => []FilesInv
<1>1. FilesInit => FilesInv
  BY InitInv
<1>2. FilesInv /\ [FilesNext]_vars => FilesInv'
  BY NextInv
<1> QED BY <1>1, <1>2, PTL DEF FilesSpec

\* up is always somewhere in the plan of a file that was accepted, and a Pod
\* is one of a workload that exists (apply.go:26-102, project.go:54-137).
THEOREM FilesTypeCorrect == FilesSpec => []FilesTypeOK
<1>1. FilesInv => FilesTypeOK
  BY ImpliesTypeOK DEF FilesInv
<1> QED BY <1>1, FilesCorrect, PTL

\* Whatever files are accepted: every service has a workload and a Service of
\* its own, mounts and claims what the plan has, and has no port twice
\* (project.go:138, 248-389).
THEOREM ServicesOwn == FilesSpec => []EachServiceItsOwn
<1>1. ASSUME FilesInv, loaded # None, NEW f \in Accepted, f = loaded
      PROVE  EachServiceItsOwn
  <2>1. Plan = Plans[f] /\ DOMAIN Plans[f].services = DOMAIN f.services
    BY <1>1, PlanServicesType DEF Plan
  <2>2. ASSUME NEW i \in DOMAIN f.services, NEW mount \in Plans[f].services[i].spec.mounts
        PROVE  mount.map \in MapsOf(Plans[f])
    <3>1. PICK j \in DOMAIN f.configs : Plans[f].configs[j].map = mount.map
      BY <2>2, MountsOwn
    <3> QED BY <3>1, PlanConfigsType DEF MapsOf
  <2> QED BY <2>1, <2>2, NamesOwn, ClaimsOwn, PortsOnce DEF EachServiceItsOwn
<1>2. FilesInv => EachServiceItsOwn
  <2>1. FilesInv /\ loaded # None => loaded \in Accepted
    BY DEF FilesInv, FilesType
  <2> QED BY <1>1, <2>1 DEF EachServiceItsOwn
<1> QED BY <1>2, FilesCorrect, PTL

\* After an up that succeeded, while nothing disturbed the update, the
\* workloads mount and their Pods show the contents the file had
\* (project.go:323, apply.go:26-53, reconciler.go:94).
THEOREM ContentReaches == FilesSpec => []ContentReachesPods
<1>1. ASSUME FilesInv, orderly, at = "idle", NEW f \in Accepted, f = applied, NEW i \in DOMAIN f.services,
             NEW n, n = Plans[f].services[i].container
      PROVE  /\ work[n] = Plans[f].services[i].spec
             /\ \A mount \in work[n].mounts :
                  LET content == Entry(f.configs, mount.config).content IN
                  /\ map[mount.map] = [project |-> Dns(f.project), data |-> content]
                  /\ Started(n) /\ ~Outdated(n) => pod[n].shows[mount] = content
  <2>1. InPlace(Plans[f]) /\ ~Touched /\ applied # None
    BY <1>1, FileType DEF FilesInv, Orderly, AppliedInPlace, Touched
  <2>2. n \in Workloads /\ work[n] = Plans[f].services[i].spec /\ work[n] # None
    <3>1. n \in Workloads /\ Plans[f].services[i].spec \in Specs
      BY <1>1, SpecProject
    <3>2. i \in DOMAIN Plans[f].services
      BY PlanServicesType
    <3> QED BY <1>1, <2>1, <3>1, <3>2, NullsApart DEF InPlace
  <2>3. ASSUME NEW mount \in work[n].mounts
        PROVE  /\ map[mount.map] = [project |-> Dns(f.project),
                                    data |-> Entry(f.configs, mount.config).content]
               /\ Started(n) /\ ~Outdated(n) =>
                    pod[n].shows[mount] = Entry(f.configs, mount.config).content
    <3>1. PICK j \in DOMAIN f.configs :
            /\ Plans[f].configs[j].map = mount.map /\ Plans[f].configs[j].data = mount.hash
            /\ Entry(f.configs, mount.config).content = mount.hash
      BY <2>2, MountsOwn
    <3>2. map[mount.map] = [project |-> Dns(f.project), data |-> mount.hash]
      BY <2>1, <3>1, PlanConfigsType DEF InPlace
    <3>3. Started(n) /\ ~Outdated(n) => pod[n].shows[mount] = mount.hash
      BY <1>1, <2>1, <2>2, Untouched DEF FilesInv, Orderly
    <3> QED BY <3>1, <3>2, <3>3
  <2> QED BY <2>2, <2>3
<1>2. FilesInv => ContentReachesPods
  <2>1. SUFFICES ASSUME FilesInv, orderly, at = "idle", applied # None,
                        NEW i \in DOMAIN applied.services
                 PROVE  LET n == Plans[applied].services[i].container
                        IN /\ work[n] = Plans[applied].services[i].spec
                           /\ \A mount \in work[n].mounts :
                                LET content == Entry(applied.configs, mount.config).content IN
                                /\ map[mount.map] = [project |-> Dns(applied.project), data |-> content]
                                /\ Started(n) /\ ~Outdated(n) => pod[n].shows[mount] = content
    BY DEF ContentReachesPods
  <2>2. applied \in Accepted
    BY <2>1 DEF FilesInv, FilesType
  <2> QED BY <1>1, <2>1, <2>2
<1> QED BY <1>2, FilesCorrect, PTL

\* A repeated up writes what is there already and finds nothing stale: no Pod
\* is replaced (project.go:251-280, apply.go:26-53).
THEOREM RepeatQuiet == FilesSpec => RepeatChangesNothing
<1>1. ASSUME FilesInv, [FilesNext]_vars, orderly, loaded # None, loaded = applied
      PROVE  UNCHANGED <<work, map>>
  <2>1. PICK f \in Accepted : f = loaded /\ Plan = Plans[f] /\ applied = f
    BY <1>1 DEF FilesInv, FilesType, Plan
  <2>2. InPlace(Plans[f]) /\ FilesType /\ at # "idle"
    BY <1>1, <2>1 DEF FilesInv, Orderly, AppliedInPlace, FilesType
  <2>3. CASE WriteConfig /\ left # <<>>
    <3>1. PICK c : c = Head(left)
      OBVIOUS
    <3>2. PICK i \in DOMAIN Plans[f].configs : c = Plans[f].configs[i]
      BY <2>1, <2>2, <2>3, <3>1, ConfigsType
    <3>3. map[c.map] = [project |-> Plans[f].project, data |-> c.data]
      BY <2>2, <3>2 DEF InPlace
    <3>4. map' = [map EXCEPT ![c.map] = [project |-> Plans[f].project, data |-> c.data]] /\ work' = work
      BY <2>1, <2>3, <3>1 DEF WriteConfig
    <3> QED BY <2>2, <3>3, <3>4 DEF FilesType
  <2>4. CASE WriteWorkload /\ left # <<>>
    <3>1. PICK s : s = Head(left)
      OBVIOUS
    <3>2. PICK i \in DOMAIN Plans[f].services : s = Plans[f].services[i]
      BY <2>1, <2>2, <2>4, <3>1, WorkloadsType
    <3>3. work[s.container] = s.spec
      BY <2>2, <3>2 DEF InPlace
    <3>4. work' = [work EXCEPT ![s.container] = s.spec] /\ map' = map
      BY <2>4, <3>1 DEF WriteWorkload
    <3> QED BY <2>2, <3>3, <3>4 DEF FilesType
  <2>5. CASE RemoveStale
    <3>1. Removes(Plans[f].project, ContainersOf(Plans[f]), MapsOf(Plans[f]))
      BY <2>1, <2>5 DEF RemoveStale
    <3>2. \A n \in Workloads : work[n] # None /\ work[n].project = Plans[f].project =>
            n \in ContainersOf(Plans[f])
      BY <2>2 DEF InPlace
    <3>3. \A m \in ConfigMaps : map[m] # None /\ map[m].project = Plans[f].project =>
            m \in MapsOf(Plans[f])
      BY <2>2 DEF InPlace
    <3>4. \A n \in Workloads : work'[n] = work[n]
      BY <3>1, <3>2 DEF Removes
    <3>5. \A m \in ConfigMaps : map'[m] = map[m]
      BY <3>1, <3>3 DEF Removes
    <3>6. /\ work \in [Workloads -> Specs \cup {None}] /\ work' \in [Workloads -> Specs \cup {None}]
          /\ map \in [ConfigMaps -> MapObjects \cup {None}] /\ map' \in [ConfigMaps -> MapObjects \cup {None}]
      BY <2>2, <3>1, RemovesType DEF FilesType
    <3> QED BY <3>4, <3>5, <3>6
  <2>6. CASE (WriteConfig \/ WriteWorkload) /\ left = <<>>
    BY <2>6 DEF WriteConfig, WriteWorkload
  <2>7. CASE Edit \/ Up \/ Cut \/ Down
    BY <2>2, <2>7 DEF Edit, Up, Cut, Down
  <2>8. CASE \E n \in Workloads : CreatePod(n) \/ StartPod(n) \/ PodGoes(n)
    BY <2>8 DEF CreatePod, StartPod, PodGoes
  <2>9. CASE UNCHANGED vars
    BY <2>9 DEF vars
  <2> QED BY <1>1, <2>3, <2>4, <2>5, <2>6, <2>7, <2>8, <2>9 DEF FilesNext
<1>2. FilesInv /\ [FilesNext]_vars =>
        [orderly /\ loaded # None /\ loaded = applied => UNCHANGED <<work, map>>]_vars
  BY <1>1
<1> QED BY <1>2, FilesCorrect, PTL DEF FilesSpec, RepeatChangesNothing
=============================================================================
