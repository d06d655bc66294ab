------------------------ MODULE MCModerationDecision ------------------------
(* Constants of the TLC run of ModerationDecision.                         *)
EXTENDS ModerationDecision

\* EVASION and FLOOD are missing from a policy's priorities.
MCLabels == {"SAFE", "URL", "SCAM", "THREAT", "EVASION", "FLOOD"}
MCLabelOrder == <<"SAFE", "SCAM", "THREAT">>
MCModelSeverity ==
  [SAFE |-> 0, URL |-> 1, SCAM |-> 4, THREAT |-> 5, EVASION |-> 2, FLOOD |-> 2]
MCModelThreshold == [l \in MCLabels |-> 50]

Weights(safe, scam, threat) ==
  [SAFE |-> safe, URL |-> 5, SCAM |-> scam, THREAT |-> threat,
   EVASION |-> 30, FLOOD |-> 30]

Factors(f) == [k \in Facts |-> f]

\* The shipped policy, scaled; and one with nothing but odd values: SAFE has a
\* weight, priorities are missing, a factor is negative, and disagreement costs
\* more than everything.
Shipped ==
  [minimum |-> [default |-> 40,
                source |-> [s \in Sources |-> CASE s = "RUBERT" -> 50
                              [] s = "PREPROCESSING" -> 30 [] OTHER -> Unset],
                label |-> [l \in MCLabels |->
                             CASE l = "SCAM" -> 60 [] l = "THREAT" -> 30
                               [] l = "SAFE" -> 10 [] OTHER -> Unset]],
   labelWeight |-> Weights(0, 50, 80),
   sourceWeight |-> [s \in Sources |-> CASE s = "RUBERT" -> 120
                       [] s = "QWEN" -> 150 [] s = "PHISHING" -> 140
                       [] OTHER -> 100],
   severityFactor |-> [v \in 0..5 |-> CASE v = 0 -> 0 [] v = 1 -> 50
                         [] v = 2 -> 80 [] v = 3 -> 100 [] v = 4 -> 120
                         [] v = 5 -> 150],
   floor |-> 0, ceiling |-> 10000,
   priority |-> <<"THREAT", "SCAM", "FLOOD", "URL", "EVASION", "SAFE">>,
   agreement |-> [enabled |-> TRUE, bonus |-> 20, penalty |-> 30, high |-> 80],
   userRisk |-> [enabled |-> TRUE, max |-> 175, factor |-> Factors(135)],
   phishing |-> [enabled |-> TRUE, confidence |-> 95, severity |-> 5,
                 weight |-> 85]]

Odd ==
  [Shipped EXCEPT !.minimum = [default |-> 0,
                               source |-> [s \in Sources |-> Unset],
                               label |-> [l \in MCLabels |-> Unset]],
                  !.labelWeight = Weights(60, 0, 10),
                  !.severityFactor = [v \in 0..5 |-> IF v = 1 THEN -50 ELSE 100],
                  !.floor = 1500, !.ceiling = 6000,
                  !.priority = <<"SAFE", "URL">>,
                  !.agreement.penalty = 130, !.userRisk.enabled = FALSE,
                  !.phishing.enabled = FALSE]

MCRules == {Shipped, Odd}

Thresholds ==
  [LOG |-> 1000, REVIEW |-> 4000, WARN |-> 5000, DELETE |-> 7000,
   DELETE_WARN |-> 8000, TIMEOUT |-> 9000, BAN |-> 9500]

Ladder == <<"BAN", "TIMEOUT", "DELETE_WARN", "DELETE", "WARN", "REVIEW", "LOG",
            "IGNORE">>

\* The shipped policy without overrides; with two, one of them an action that
\* has no priority; with thresholds out of order and a low cap; and one that
\* trusts the models.
Default ==
  [mode |-> "ACTIVE", threshold |-> Thresholds, minConfidence |-> 60,
   overrides |-> [l \in MCLabels |-> "none"],
   bundles |-> [a \in Actions |->
                  CASE a = "DELETE_WARN" -> <<"WARN">>
                    [] a = "TIMEOUT" -> <<"DELETE", "TIMEOUT">>
                    [] a = "BAN" -> <<"DELETE", "BAN">>
                    [] OTHER -> <<a>>],
   priority |-> Ladder, cap |-> "REVIEW", riskFactor |-> 120, reduction |-> 10,
   reviewDisagreement |-> TRUE, reviewLowConfidence |-> TRUE]

Overriding ==
  [Default EXCEPT !.overrides["SCAM"] = "KICK",
                  !.overrides["THREAT"] = "DELETE"]

Disordered ==
  [Default EXCEPT !.threshold.LOG = 9000, !.threshold.DELETE = 3000,
                  !.cap = "LOG", !.reduction = 90,
                  !.overrides["URL"] = "KICK"]

Trusting ==
  [Default EXCEPT !.minConfidence = 90, !.cap = "DELETE",
                  !.reviewDisagreement = FALSE, !.reviewLowConfidence = FALSE]

MCPolicies ==
  {[p EXCEPT !.mode = m] : p \in {Default, Overriding, Disordered, Trusting},
                           m \in {"PASSIVE", "ACTIVE", "STRICT"}}

MCMatches ==
  {[labels |-> <<"URL">>, confidence |-> 90, severity |-> 1, weight |-> 0],
   [labels |-> <<"FLOOD", "EVASION">>, confidence |-> 55, severity |-> 2,
    weight |-> 70],
   [labels |-> <<"SCAM", "URL">>, confidence |-> 65, severity |-> 3,
    weight |-> 55],
   [labels |-> <<"SCAM">>, confidence |-> 45, severity |-> 5, weight |-> 90]}

Scores(safe, scam, threat) ==
  [l \in MCLabels |-> CASE l = "SAFE" -> safe [] l = "SCAM" -> scam
                        [] l = "THREAT" -> threat [] OTHER -> 0]

MCClassifications ==
  {Scores(95, 10, 10), Scores(20, 85, 30), Scores(40, 55, 90),
   Scores(5, 20, 20)}

MCAuthors == {{}, {"newAccount", "repeated"}, Facts}

MCOther ==
  {[source |-> "IMAGE", label |-> "SCAM", confidence |-> 100, severity |-> 5,
    weight |-> 50],
   [source |-> "OCR", label |-> "THREAT", confidence |-> 40, severity |-> 5,
    weight |-> 80],
   [source |-> "QWEN", label |-> "SAFE", confidence |-> 90, severity |-> 0,
    weight |-> 0],
   [source |-> "QWEN", label |-> "THREAT", confidence |-> 85, severity |-> 4,
    weight |-> 80],
   [source |-> "IMAGE", label |-> "SAFE", confidence |-> 85, severity |-> 1,
    weight |-> 0]}
=============================================================================
