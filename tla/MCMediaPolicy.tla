--------------------------- MODULE MCMediaPolicy ---------------------------
(* Constants of the TLC runs of MediaPolicy.                               *)
EXTENDS MediaPolicy, TLC

CONSTANTS c1, c2, c3, p1, p2, a, b

MCCallers == {c1, c2, c3}
MCProcesses == {p1, p2}
\* Two administrators on one process, the third on another.
MCWhere == (c1 :> p1) @@ (c2 :> p1) @@ (c3 :> p2)
MCPolicies == {a, b}
MCSymmetry == Permutations({c1, c2}) \cup Permutations(MCPolicies)
=============================================================================
