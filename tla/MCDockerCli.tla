----------------------------- MODULE MCDockerCli -----------------------------
(* DockerCli on small instances.                                           *)
EXTENDS DockerCli

CONSTANTS n1, u1, u2

ByName == {[name |-> n1, ids |-> {}]}
ByNameOrID == {[name |-> n1, ids |-> {}], [name |-> NoName, ids |-> {u1}]}
=============================================================================
