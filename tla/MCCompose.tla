------------------------------ MODULE MCCompose ------------------------------
(***************************************************************************)
(* Compose on small instances.  Growing: project A has a web and a db      *)
(* service, or only a changed web.  SharedName: projects A and B have one  *)
(* service each, whose container names coincide, and mount the claim vol,  *)
(* which is an external volume for B.                                      *)
(***************************************************************************)
EXTENDS Compose

CONSTANTS A, B,               \* projects
  aweb, adb, shared,          \* container names; "shared" is one both translate to
  gA1, gA2, gB,               \* specs
  web, db,                    \* Service names
  m, d1, d2, vol,
  p1                          \* the user of project A where each has one

ProjectOfSpec == [g \in {gA1, gA2, gB} |-> IF g = gB THEN B ELSE A]

Vol(ext) == [claim |-> vol, external |-> ext]
Cfg(d)   == [map |-> m, data |-> d]
Ser(n, g, s) == [container |-> n, config |-> g, service |-> s]
PlanOf(q, vols, cfgs, sers) ==
  [project |-> q, volumes |-> vols, configs |-> cfgs, services |-> sers]

PlanA1 == PlanOf(A, <<Vol(FALSE)>>, <<Cfg(d1)>>, <<Ser(adb, gA1, db), Ser(aweb, gA1, web)>>)
PlanA2 == PlanOf(A, <<Vol(FALSE)>>, <<Cfg(d2)>>, <<Ser(aweb, gA2, web)>>)
OneUser(plans)  == [p \in Users |-> plans]
OneEach(q1, q2) == [p \in Users |-> IF p = p1 THEN {q1} ELSE {q2}]

Growing    == OneUser({PlanA1, PlanA2})
SharedName == OneEach(PlanOf(A, <<Vol(FALSE)>>, <<>>, <<Ser(shared, gA1, web)>>),
                      PlanOf(B, <<Vol(TRUE)>>, <<>>, <<Ser(shared, gB, db)>>))
=============================================================================
