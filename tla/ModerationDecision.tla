------------------------- MODULE ModerationDecision -------------------------
(***************************************************************************)
(* How one message becomes a decision: the order in which                  *)
(* src/src/application/api_moderation_service.py gathers the evidence, the *)
(* rule engine (src/src/modules/rules) that turns it into labels and a     *)
(* risk, and the decision engine (src/src/modules/decision) that selects   *)
(* an action and its plan.                                                 *)
(*                                                                         *)
(* The two policies are arbitrary members of CONSTANT sets, as a policy    *)
(* record stored for a scope may hold any valid payload.  Risks,           *)
(* confidences and factors are fixed-point numbers with two decimals,      *)
(* rounded down, instead of floats.  Where the code iterates over a Python *)
(* set, the outcome is any of the possible ones.  Texts, evidence and the  *)
(* persistence of the decision (ModerationLineage) are left out.           *)
(***************************************************************************)
EXTENDS Integers, Sequences, FiniteSets

Ext == INSTANCE FiniteSetsExt

CONSTANTS Labels,            \* moderation labels: SAFE, URL, SCAM and more
          LabelOrder,        \* the labels in the order of the ruBERT model
          ModelSeverity,     \* [Labels -> 0..5]: the classifier's severities
          ModelThreshold,    \* [Labels -> 0..100]: and its thresholds
          Rules,             \* rule policies, see RulesType
          DecisionPolicies,  \* decision policies, see PolicyType
          Matches,           \* matches of preprocessing rules, see MatchType
          Classifications,   \* the scores the model may give a text
          Authors,           \* what contexts say of authors: sets of Facts
          OtherSignals,      \* signals of images, OCR texts, other models
          MaxMatches,        \* bound: no more matches after this many signals
          MaxSignals,        \* bound: no more signals after this many
          MaxLinks           \* phishing.max_urls_per_message

SAFE == "SAFE"
URL == "URL"
SCAM == "SCAM"

Sources == {"PREPROCESSING", "RUBERT", "QWEN", "OCR", "IMAGE", "HISTORY",
            "MANUAL", "PHISHING"}
ModelSources == {"RUBERT", "QWEN"}

\* What the context of a message may say of its author.
Facts == {"newAccount", "newMember", "repeated", "escalated"}

\* The actions that have a threshold, and the others.
Grade == [IGNORE |-> 0, LOG |-> 1, REVIEW |-> 2, WARN |-> 3, DELETE |-> 4,
          DELETE_WARN |-> 5, TIMEOUT |-> 6, KICK |-> 7, BAN |-> 8]
Actions == DOMAIN Grade
Thresholded == Actions \ {"KICK", "IGNORE"}
Destructive == {"DELETE", "DELETE_WARN", "BAN", "TIMEOUT"}

Hundredths == 0..100
MaxRisk == 10000
SignalType ==
  [source : Sources, label : Labels, confidence : Hundredths,
   severity : 0..5, weight : Nat]

MatchType ==
  [labels : Seq(Labels), confidence : Hundredths, severity : 0..5,
   weight : Nat]

\* A policy need not say everything: a label or a source without a minimum has
\* Unset, a label without an action "none", a severity without a factor 100,
\* and an action without a bundle stands for itself.
Unset == -1

RulesType ==
  [minimum : [default : Hundredths,
              source : [Sources -> -1..100],
              label : [Labels -> -1..100]],
   labelWeight : [Labels -> Nat], sourceWeight : [Sources -> Nat],
   severityFactor : [0..5 -> Int],
   floor : 0..MaxRisk, ceiling : 0..MaxRisk, priority : Seq(Labels),
   agreement : [enabled : BOOLEAN, bonus : Nat, penalty : Nat,
                high : Hundredths],
   userRisk : [enabled : BOOLEAN, factor : [Facts -> Nat \ 0..99],
               max : Nat \ 0..99],
   phishing : [enabled : BOOLEAN, confidence : Hundredths, severity : 0..5,
               weight : Nat]]

ThresholdsType == [Thresholded -> Nat]

\* The adjustments of the two modes: cap is the greatest action of the passive
\* one; riskFactor and reduction (of confidence) belong to the strict one.
PolicyType ==
  [mode : {"PASSIVE", "ACTIVE", "STRICT"},
   threshold : ThresholdsType, minConfidence : Hundredths,
   overrides : [Labels -> Actions \cup {"none"}],
   bundles : [Actions -> Seq(Actions) \ {<<>>}],
   priority : Seq(Actions), cap : Actions, riskFactor : Nat, reduction : Nat,
   reviewDisagreement : BOOLEAN, reviewLowConfidence : BOOLEAN]

ASSUME LabelsAssumption ==
  /\ {SAFE, URL, SCAM} \subseteq Labels
  /\ LabelOrder \in Seq(Labels) /\ ModelSeverity \in [Labels -> 0..5]
  /\ ModelThreshold \in [Labels -> Hundredths]
ASSUME PoliciesAssumption ==
  /\ \A r \in Rules : r \in RulesType /\ r.floor <= r.ceiling
  /\ DecisionPolicies \subseteq PolicyType
ASSUME EvidenceAssumption ==
  /\ Matches \subseteq MatchType
  /\ Classifications \subseteq [Labels -> Hundredths]
  /\ OtherSignals \subseteq SignalType /\ Authors \subseteq SUBSET Facts
ASSUME BoundsAssumption ==
  MaxMatches \in Nat /\ MaxSignals \in Nat /\ MaxLinks \in Nat

VARIABLES
  rules,       \* the rule policy resolved for the message
  policy,      \* the decision policy resolved for it
  facts,       \* what its context says of the author
  signals,     \* the evidence gathered, in order
  stage,       \* matching, classified, checked, evaluated, decided, rejected
  evaluation,  \* RuleEvaluationResult, see Evaluation, or None
  decision     \* [action, plan, required], or None

vars == <<rules, policy, facts, signals, stage, evaluation, decision>>

None == [none |-> TRUE]

Init ==
  /\ rules \in Rules /\ policy \in DecisionPolicies /\ facts \in Authors
  /\ signals = <<>> /\ stage = "matching"
  /\ evaluation = None /\ decision = None

\* What a list holds of S, in its order.
Among(list, S) ==
  LET among[i \in 0..Len(list)] ==
        IF i = 0 THEN <<>>
        ELSE IF list[i] \in S THEN Append(among[i - 1], list[i])
             ELSE among[i - 1]
  IN  among[Len(list)]

-----------------------------------------------------------------------------
(* Gathering the evidence                                                  *)

Gather(batch, next) ==
  /\ signals' = signals \o batch /\ stage' = next
  /\ UNCHANGED <<rules, policy, facts, evaluation, decision>>

\* Every label of a match becomes a signal.
Adapted(m) ==
  [i \in 1..Len(m.labels) |->
     [source |-> "PREPROCESSING", label |-> m.labels[i],
      confidence |-> m.confidence, severity |-> m.severity,
      weight |-> m.weight]]

Match(m) ==
  /\ stage = "matching" /\ Len(signals) < MaxMatches
  /\ Gather(Adapted(m), "matching")

\* The labels the classifier selects: SAFE only when there is no other.
Selected(scores) ==
  LET hits  == {l \in Labels : scores[l] >= ModelThreshold[l]}
      harms == hits \ {SAFE}
  IN  IF harms = {} THEN {SAFE} ELSE harms

ModelSignal(scores, l) ==
  [source |-> "RUBERT", label |-> l, confidence |-> scores[l],
   severity |-> ModelSeverity[l], weight |-> rules.labelWeight[l]]

Classify(scores) ==
  /\ stage = "matching"
  /\ LET ls == Among(LabelOrder, Selected(scores))
     IN  Gather([i \in 1..Len(ls) |-> ModelSignal(scores, ls[i])], "classified")

\* There is no classifier, or it raised: the message goes on without it.
Unavailable == stage = "matching" /\ Gather(<<>>, "classified")

\* Links are looked up only when something else hints at a scam.
HasScam == \E i \in DOMAIN signals : signals[i].label = SCAM

LinkSignal ==
  [source |-> "PHISHING", label |-> SCAM,
   confidence |-> rules.phishing.confidence,
   severity |-> rules.phishing.severity, weight |-> rules.phishing.weight]

\* n of the links are bad, as far as the lookups that succeeded tell.
CheckLinks(n) ==
  /\ stage = "classified"
  /\ n > 0 => rules.phishing.enabled /\ HasScam
  /\ Gather([i \in 1..n |-> LinkSignal], "checked")

Other(s) ==
  /\ stage = "checked" /\ Len(signals) < MaxSignals
  /\ Gather(<<s>>, "checked")

-----------------------------------------------------------------------------
(* The rule engine                                                         *)

\* A factor given in hundredths.
Times(x, factor) == (x * factor) \div 100

Lesser(x, y) == IF x < y THEN x ELSE y
Greater(x, y) == IF x < y THEN y ELSE x
Clamped(x) == Greater(rules.floor, Lesser(rules.ceiling, x))

\* The threshold of the label goes before that of the source.
MinimumOf(s) ==
  IF rules.minimum.label[s.label] # Unset
  THEN rules.minimum.label[s.label]
  ELSE IF rules.minimum.source[s.source] # Unset
       THEN rules.minimum.source[s.source]
       ELSE rules.minimum.default

Kept(ss) == Among(ss, {s \in SignalType : s.confidence >= MinimumOf(s)})

LabelsOf(ss) == {ss[i].label : i \in DOMAIN ss}
Harmful(ss) == LabelsOf(ss) \ {SAFE}

Contribution(s) ==
  LET weight == Greater(rules.labelWeight[s.label], s.weight)
  IN  Times(Times(weight * s.confidence, rules.sourceWeight[s.source]),
            rules.severityFactor[s.severity])

\* Mutant: the last signal of a label counts.
OfLabelLatest(ss, l) ==
  Greater(0, Contribution(ss[Ext!Max({j \in DOMAIN ss : ss[j].label = l})]))

\* Signals of one label do not add up: the strongest counts.
OfLabel(ss, l) ==
  Ext!Max({0} \cup
          {Contribution(ss[i]) : i \in {j \in DOMAIN ss : ss[j].label = l}})

RawRisk(ss) ==
  IF ss = <<>> THEN 0
  ELSE Clamped(Ext!MapThenSumSet(LAMBDA l : OfLabel(ss, l), LabelsOf(ss)))

\* The label a model gave with high confidence, the last one if it gave more.
LabelOfModel(ss, m) ==
  LET at == {i \in DOMAIN ss :
               ss[i].source = m /\ ss[i].confidence >= rules.agreement.high}
  IN  IF at = {} THEN "none" ELSE ss[Ext!Max(at)].label

Opinions(ss) ==
  {LabelOfModel(ss, m) : m \in ModelSources}

Judged(ss) ==
  rules.agreement.enabled
    /\ \A m \in ModelSources : LabelOfModel(ss, m) # "none"

Disagreed(ss) == Judged(ss) /\ Cardinality(Opinions(ss)) > 1

Agreement(ss) ==
  CASE Disagreed(ss) -> 100 - rules.agreement.penalty
    [] Judged(ss) /\ ~Disagreed(ss) -> 100 + rules.agreement.bonus
    [] OTHER -> 100

\* _user_risk_multiplier: what is known of the author, up to a maximum.
FactorOf(fs, f) == IF f \in fs THEN rules.userRisk.factor[f] ELSE 100

UserRisk(fs) ==
  IF ~rules.userRisk.enabled THEN 100
  ELSE Lesser(rules.userRisk.max,
              Times(Times(Times(FactorOf(fs, "newAccount"),
                                FactorOf(fs, "newMember")),
                          FactorOf(fs, "repeated")),
                    FactorOf(fs, "escalated")))

Risk(ss, fs) ==
  Clamped(Times(Times(RawRisk(ss), Agreement(ss)), UserRisk(fs)))

-----------------------------------------------------------------------------
(* The primary label                                                       *)

\* The position of x in a priority list, its last one when it is repeated.
Rank(list, x) ==
  IF \E i \in DOMAIN list : list[i] = x
  THEN Ext!Max({i \in DOMAIN list : list[i] = x}) ELSE 999

\* Labels early in the list get a bonus, half a point for each place.
Bonus(l) ==
  IF \E i \in DOMAIN rules.priority : rules.priority[i] = l
  THEN Len(rules.priority) + 1 - Rank(rules.priority, l) ELSE 0

ModelBonus(s) ==
  CASE s.label = SAFE \/ s.confidence < 80 -> 0
    [] s.label # SAFE /\ s.confidence >= 80 /\ s.source = "RUBERT" -> 600
    [] s.label # SAFE /\ s.confidence >= 80 /\ s.source = "QWEN" -> 800
    [] OTHER -> 0

Score(s) ==
  <<Contribution(s) + 50 * Bonus(s.label) + ModelBonus(s), s.severity,
    Bonus(s.label), s.confidence>>

\* Tuples are compared by their first difference.
Beats(s, t) ==
  \E k \in 1..4 : /\ Score(s)[k] > Score(t)[k]
                  /\ \A j \in 1..(k - 1) : Score(s)[j] = Score(t)[j]

\* The positions the stable descending sort may put first: the first of those
\* that no other beats.
Foremost(ss) ==
  {i \in DOMAIN ss : /\ \A j \in DOMAIN ss : ~Beats(ss[j], ss[i])
                     /\ \A j \in 1..(i - 1) : Beats(ss[i], ss[j])}

\* The labels a sort by priority may put first: those missing from the list
\* come in the order of a set.
Firsts(ls) ==
  {l \in ls : \A k \in ls :
     Rank(rules.priority, l) <= Rank(rules.priority, k)}

\* Mutant: the primary label may remain SAFE beside harm.
SafeResolvedNever(ss, l) == {l}

\* Harm goes before SAFE, and a scam before the link that carries it.
SafeResolved(ss, l) ==
  IF l = SAFE /\ Harmful(ss) # {} THEN Firsts(Harmful(ss)) ELSE {l}

LinkResolved(ss, l) ==
  IF l = URL /\ {URL, SCAM} \subseteq LabelsOf(ss) THEN SCAM ELSE l

Primaries(ss) ==
  IF ss = <<>> THEN {SAFE}
  ELSE {LinkResolved(ss, l) :
          l \in UNION {SafeResolved(ss, ss[i].label) : i \in Foremost(ss)}}

ResolvedLabels(ss) == IF Harmful(ss) = {} THEN {SAFE} ELSE Harmful(ss)

\* The confidence of the evaluation is that of its most confident signal.
Confidence(ss) ==
  IF ss = <<>> THEN 100 ELSE Ext!Max({ss[i].confidence : i \in DOMAIN ss})

Evaluation(ss, fs, l) ==
  [signals |-> ss, primary |-> l, labels |-> ResolvedLabels(ss),
   risk |-> Risk(ss, fs), confidence |-> Confidence(ss),
   disagreed |-> Disagreed(ss)]

\* The records of the result reject negative numbers, to which a negative
\* factor or a penalty above 1, accepted in a policy, may lead.
Rejected(ss) ==
  Agreement(ss) < 0 \/ \E i \in DOMAIN ss : Contribution(ss[i]) < 0

\* A ValidationError leaves evaluate and _moderate: there is no decision.
Reject ==
  /\ stage = "checked" /\ Rejected(Kept(signals))
  /\ stage' = "rejected"
  /\ UNCHANGED <<rules, policy, facts, signals, evaluation, decision>>

Evaluate ==
  /\ stage = "checked" /\ ~Rejected(Kept(signals))
  /\ \E l \in Primaries(Kept(signals)) :
       evaluation' = Evaluation(Kept(signals), facts, l)
  /\ stage' = "evaluated"
  /\ UNCHANGED <<rules, policy, facts, signals, decision>>

-----------------------------------------------------------------------------
(* The decision engine, as a function of an evaluation and a policy        *)

\* The strict mode sees more risk, and is content with less confidence.
RiskIn(e, p) ==
  IF p.mode # "STRICT" THEN e.risk
  ELSE Lesser(MaxRisk, Times(e.risk, p.riskFactor))

\* Mutant: the strict mode asks for more confidence instead of less.
MinConfidenceRaised(p) ==
  IF p.mode # "STRICT" THEN p.minConfidence ELSE p.minConfidence + p.reduction

MinConfidence(p) ==
  IF p.mode # "STRICT" THEN p.minConfidence
  ELSE Greater(0, p.minConfidence - p.reduction)

\* The gravest action whose threshold the risk reaches.
ByThreshold(risk, p) ==
  LET reached == {a \in Thresholded : risk >= p.threshold[a]}
  IN  IF reached = {} THEN "IGNORE"
      ELSE CHOOSE a \in reached : \A b \in reached : Grade[b] <= Grade[a]

ByRiskOrLabel(e, p) ==
  IF p.overrides[e.primary] \in Actions THEN p.overrides[e.primary]
  ELSE ByThreshold(RiskIn(e, p), p)

\* What destroys something needs confidence, or a person to look at it.
Downgraded(a, e, p) ==
  IF /\ a \in Destructive /\ e.confidence < MinConfidence(p)
     /\ p.reviewLowConfidence
  THEN "REVIEW" ELSE a

Capped(a, p) ==
  IF p.mode = "PASSIVE" /\ Rank(p.priority, a) < Rank(p.priority, p.cap)
  THEN p.cap ELSE a

\* The models' disagreement goes before everything, the cap included.
Reviewed(e, p) == p.reviewDisagreement /\ e.disagreed

Select(e, p) ==
  IF Reviewed(e, p) THEN "REVIEW"
  ELSE Capped(Downgraded(ByRiskOrLabel(e, p), e, p), p)

\* The bundle of an action replaces it (the policy has no duplicates in it).
PlanOf(a, p) == p.bundles[a]

Decide ==
  /\ stage = "evaluated"
  /\ LET a    == Select(evaluation, policy)
         plan == PlanOf(a, policy)
     IN  decision' = [action |-> a, plan |-> plan,
                      required |-> \E i \in DOMAIN plan : plan[i] # "IGNORE"]
  /\ stage' = "decided"
  /\ UNCHANGED <<rules, policy, facts, signals, evaluation>>

-----------------------------------------------------------------------------
Next ==
  \/ \E m \in Matches : Match(m)
  \/ \E c \in Classifications : Classify(c)
  \/ Unavailable
  \/ \E n \in 0..MaxLinks : CheckLinks(n)
  \/ \E s \in OtherSignals : Other(s)
  \/ Reject
  \/ Evaluate
  \/ Decide

Spec == Init /\ [][Next]_vars

-----------------------------------------------------------------------------
(* Properties                                                              *)

EvaluationType ==
  [signals : Seq(SignalType), primary : Labels, labels : SUBSET Labels,
   risk : 0..MaxRisk, confidence : Hundredths, disagreed : BOOLEAN]

\* The types of the variables (_moderate, RuleEvaluationResult and
\* ModerationDecision); what has not been computed is None.
TypeOK ==
  /\ rules \in Rules /\ policy \in DecisionPolicies /\ facts \in Authors
  /\ signals \in Seq(SignalType)
  /\ stage \in {"matching", "classified", "checked", "evaluated", "decided",
                "rejected"}
  /\ evaluation \in EvaluationType \cup {None}
  /\ decision # None =>
       /\ decision.action \in Actions /\ decision.plan \in Seq(Actions)
       /\ decision.plan # <<>> /\ decision.required \in BOOLEAN
  /\ evaluation # None <=> stage \in {"evaluated", "decided"}
  /\ decision # None <=> stage = "decided"

\* Whatever the scores, the priorities and the order of the evidence, harm is
\* never hidden: the primary label is one of the labels that passed the
\* filter; it is SAFE, and SAFE is a label at all, only when no harmful signal
\* passed; and a link is not called URL when a signal says it is a scam
\* (PrimaryLabelResolver, ConflictResolver and _resolve_labels, which the code
\* computes independently of each other).
HarmNamed ==
  evaluation # None =>
    /\ evaluation.primary \in evaluation.labels
    /\ SAFE \in evaluation.labels <=> Harmful(evaluation.signals) = {}
    /\ SAFE \in evaluation.labels => evaluation.labels = {SAFE}
    /\ evaluation.primary = URL => SCAM \notin evaluation.labels

\* More evidence never lowers the risk, be it SAFE, a repetition of what is
\* known or filtered out, unless a model is heard, which may disagree with
\* another one (normalisation, the strongest signal of each label, the sum,
\* the clamps and the factors of evaluate).
Unheard(ss) == \A i \in DOMAIN ss : ss[i].source \notin ModelSources
Added == SubSeq(signals', Len(signals) + 1, Len(signals'))

EvidenceNeverLowersRisk ==
  [][Unheard(Added) =>
       Risk(Kept(signals), facts) <= Risk(Kept(signals'), facts)]_vars

\* The same evidence under the same policy in strict mode gets an action at
\* least as grave as in active mode, with one exception: what would be WARN
\* may become REVIEW, as the higher risk selects an action that destroys, and
\* the confidence does not suffice for it (ActionSelector.select).
NotSofter(e, p) ==
  LET active == Select(e, [p EXCEPT !.mode = "ACTIVE"])
      strict == Select(e, [p EXCEPT !.mode = "STRICT"])
  IN  \/ Grade[active] <= Grade[strict]
      \/ active = "WARN" /\ strict = "REVIEW"

StrictSofterOnlyToReview ==
  evaluation # None /\ policy.riskFactor >= 100 => NotSofter(evaluation, policy)

\* What is judged stays within its ranges and agrees between the modes.
Consistent == TypeOK /\ StrictSofterOnlyToReview

\* In passive mode nothing in the plan goes before the greatest permitted
\* action in the policy's priorities, provided its bundles hold nothing that
\* goes before the action they expand, and except for the review that two
\* disagreeing models get (_adjust_by_mode and ActionPlanBuilder.build).
BundlesWithin(p) ==
  \A a \in Actions : \A i \in DOMAIN p.bundles[a] :
    Rank(p.priority, a) <= Rank(p.priority, p.bundles[a][i])

PassiveCapped ==
  /\ decision # None /\ policy.mode = "PASSIVE" /\ BundlesWithin(policy)
  /\ ~Reviewed(evaluation, policy)
  => \A i \in DOMAIN decision.plan :
       Rank(policy.priority, policy.cap)
         <= Rank(policy.priority, decision.plan[i])

\* The judgement names the harm and keeps to the mode's limit.
JudgementSound == HarmNamed /\ PassiveCapped

-----------------------------------------------------------------------------
(* The inductive invariant                                                 *)

Staged ==
  decision # None => stage = "decided"

IInv ==
  /\ policy \in DecisionPolicies
  /\ Staged
  /\ HarmNamed
  /\ PassiveCapped
=============================================================================
