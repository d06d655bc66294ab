------------------------- MODULE MCMediaModeration -------------------------
(* Constants of the TLC runs of MediaModeration.                           *)
EXTENDS MediaModeration, TLC

CONSTANTS r1, r2, m1

MCRequests == {r1, r2}
MCMessages == {m1}
MCAbout == [r \in MCRequests |-> m1]
\* A small and a large image: two large ones exceed the budget.
MCContents == {1, 2}
MCSize == <<1, 2>>
MCPermits == [s \in Stages |-> 1]

Config(m, q, n, o, i) ==
  [enabled |-> m, required |-> q, pool |-> n,
   provider |-> [s \in Stages |-> IF s = "ocr" THEN o ELSE i]]
MCConfigs == {Config(TRUE, TRUE, 1, "ready", "ready"),
              Config(TRUE, FALSE, 2, "ready", "broken"),
              Config(FALSE, FALSE, 2, "off", "off")}
Rule(e, q) == [enabled |-> e, required |-> q]
MCMediaPolicies == {[s \in Stages |-> Rule(TRUE, q)] : q \in BOOLEAN}
\* One request alone, and two that compete.
MCLoads == {(r1 :> 3) @@ (r2 :> 0), (r1 :> 1) @@ (r2 :> 1)}
=============================================================================
