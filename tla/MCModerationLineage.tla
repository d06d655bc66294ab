------------------------ MODULE MCModerationLineage ------------------------
(* Constants of the TLC runs of ModerationLineage.                         *)
EXTENDS ModerationLineage, TLC

CONSTANTS x, m1, m2, r1, r2, e1, a, b, k

MCActions == {a, b}
\* Two moderations of one message, two feedbacks that share a key, one result.
MCMessages == {x}
MCModerations == {m1, m2}
MCReporters == {r1, r2}
MCExecutors == {e1}
MCAbout == [c \in {m1, m2, r1, r2, e1} |-> x]
MCKey == [r \in {r1, r2} |-> k]
MCSymmetry == Permutations(MCModerations) \cup Permutations(MCReporters)
                \cup Permutations(MCActions)
=============================================================================
