--------------------------- MODULE MCBuildContexts ---------------------------
(* BuildContexts on small instances.                                       *)
EXTENDS BuildContexts

CONSTANTS x, y

Named(n, source) == [name |-> n, source |-> source]
AnySource == Sources \cup {"malformed"}

UpToTwo ==
  {<<>>} \cup {<<Named(x, s)>> : s \in AnySource}
  \cup {<<Named(x, s), Named(n, t)>> : s \in AnySource, n \in {x, y}, t \in AnySource}
=============================================================================
