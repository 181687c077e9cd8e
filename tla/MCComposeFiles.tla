---------------------------- MODULE MCComposeFiles ----------------------------
(* ComposeFiles on small instances.                                        *)
EXTENDS ComposeFiles

CONSTANTS p, a, b, d1, d2, i1, i2   \* words, contents, images

Name(words, plain) == [words |-> words, plain |-> plain]
Plain(words) == Name(words, TRUE)
\* "a-b" and "a_b"
Dashed == Name(<<a, b>>, TRUE)
Scored == Name(<<a, b>>, FALSE)
DashedProject == Plain(<<p, a>>)

\* One port published as another one, exposed as well, and once more for udp.
Twice == <<[target |-> 80, udp |-> FALSE, published |-> 81],
           [target |-> 80, udp |-> FALSE, published |-> None],
           [target |-> 80, udp |-> TRUE,  published |-> None]>>

Config(name, content) == [name |-> name, content |-> content]
Service(name, image, vols, cfgs) ==
  [name |-> name, supported |-> TRUE, image |-> image, ports |-> Twice, after |-> {},
   volumes |-> vols, configs |-> cfgs]
File(project, vols, cfgs, sers) ==
  [project |-> project, volumes |-> vols, configs |-> cfgs, services |-> sers]

Data  == <<[name |-> Plain(<<a>>), external |-> FALSE]>>
Taken == <<[name |-> Plain(<<p, a>>), external |-> TRUE]>>
Web(vols, cfgs) == Service(Plain(<<a>>), i1, vols, cfgs)

\* Service a mounts volume a and config b; there is a service a-b.
Base(content, image) ==
  File(Plain(<<p>>), Data, <<Config(Plain(<<b>>), content)>>,
       <<Web({Plain(<<a>>)}, {Plain(<<b>>)}), Service(Dashed, image, {}, {})>>)

\* Service a alone, and two configs whose names are one DNS name.
Colliding ==
  File(Plain(<<p>>), <<>>, <<Config(Dashed, d1), Config(Scored, d2)>>, <<Web({}, {Dashed})>>)

\* Another project, whose service b has the container name of a-b above, and
\* which uses the volume above.
Neighbour ==
  File(DashedProject, Taken, <<Config(Plain(<<b>>), d2)>>,
       <<Service(Plain(<<b>>), i2, {Plain(<<p, a>>)}, {Plain(<<b>>)})>>)

\* Refused: two services with one DNS name, a config that cannot be read.
Refused ==
  {File(Plain(<<p>>), <<>>, <<>>, <<Service(Dashed, i1, {}, {}), Service(Scored, i1, {}, {})>>),
   Base(Missing, i1)}

FileVersions == {Base(d1, i1), Base(d2, i1), Base(d2, i2), Colliding, Neighbour} \cup Refused
=============================================================================
