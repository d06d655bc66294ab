------------------------ MODULE ActionExecutorProofs ------------------------
(***************************************************************************)
(* TLAPS proofs about ActionExecutor, for every policy, every plan and     *)
(* every number of attempts.                                               *)
(***************************************************************************)
EXTENDS ActionExecutor, SequenceTheorems, TLAPS

Statuses == {"SKIPPED", "DRY_RUN", "SUCCESS", "FAILED"}

\* What the types say of the plan, its positions and the steps.
LEMMA Types ==
  ASSUME TypeOK
  PROVE  /\ Len(plan) \in Nat /\ at \in Nat
         /\ \A i \in Positions : plan[i] \in Actions
         /\ steps \in Seq(StepType) /\ Len(steps) \in Nat
         /\ DOMAIN steps = 1..Len(steps)
         /\ \A k \in DOMAIN steps : steps[k] \in StepType
         /\ effects \cup abandoned \subseteq Calls
<1>1. plan \in Seq(Actions) /\ steps \in Seq(StepType)
  BY PlansAssumption DEF TypeOK
<1>2. /\ Len(plan) \in Nat /\ DOMAIN plan = Positions
      /\ Len(steps) \in Nat /\ DOMAIN steps = 1..Len(steps)
      /\ \A i \in Positions : plan[i] \in Actions
      /\ \A k \in DOMAIN steps : steps[k] \in StepType
  BY <1>1, LenProperties, ElementOfSeq DEF Positions
<1>3. QED
  BY <1>1, <1>2 DEF TypeOK

\* What a sequence of steps of one action looks like when its call, or its
\* rehearsal, ended with a status.
LEMMA StepsOfFacts ==
  ASSUME TypeOK, at \in Positions,
         NEW status \in {"DRY_RUN", "SUCCESS", "FAILED"},
         NEW ss, ss = StepsOf(plan[at], status)
  PROVE  /\ ss \in Seq(StepType)
         /\ \A j \in DOMAIN ss :
              /\ ss[j].at = at
              /\ \/ ss[j].status = status
                      /\ (status # "FAILED"
                            => ss[j].action = Called(plan[at]))
                 \/ /\ ss[j].status = "SKIPPED" /\ ss[j].action = plan[at]
                    /\ NeedsReview(plan[at]) /\ status # "FAILED"
         /\ \E j \in DOMAIN ss : ss[j].status = status
         /\ \E j \in DOMAIN ss : ss[j].action = plan[at]
<1> DEFINE a == plan[at]
<1>1. a \in Actions /\ REVIEW \in Actions
  BY Types DEF REVIEW, Actions, Executable
<1>2. \A b \in Actions, s \in Statuses :
        Step(b, s) \in StepType /\ Step(b, s).at = at
          /\ Step(b, s).action = b /\ Step(b, s).status = s
  BY DEF Step, StepType, Statuses
<1>3. CASE NeedsReview(a)
  <2> DEFINE own == IF status = "FAILED" THEN "FAILED" ELSE "SKIPPED"
             s1 == Step(REVIEW, status)
             s2 == Step(a, own)
  <2>1. ss = <<s1, s2>>
    BY <1>3 DEF StepsOf
  <2>2. /\ s1 \in StepType /\ s1.at = at /\ s1.action = REVIEW
        /\ s1.status = status
        /\ s2 \in StepType /\ s2.at = at /\ s2.action = a /\ s2.status = own
    BY <1>1, <1>2 DEF Statuses
  <2> HIDE DEF s1, s2
  <2>3. ss \in Seq(StepType) /\ DOMAIN ss = {1, 2} /\ ss[1] = s1 /\ ss[2] = s2
    BY <2>1, <2>2
  <2>4. Called(a) = REVIEW
    BY <1>3 DEF Called
  <2>5. QED
    BY <1>3, <2>2, <2>3, <2>4
<1>4. CASE ~NeedsReview(a)
  <2> DEFINE s1 == Step(a, status)
  <2>1. ss = <<s1>>
    BY <1>4 DEF StepsOf
  <2>2. /\ s1 \in StepType /\ s1.at = at /\ s1.action = a
        /\ s1.status = status
    BY <1>1, <1>2 DEF Statuses
  <2> HIDE DEF s1
  <2>3. ss \in Seq(StepType) /\ DOMAIN ss = {1} /\ ss[1] = s1
    BY <2>1, <2>2
  <2>4. Called(a) = a
    BY <1>4 DEF Called
  <2>5. QED
    BY <1>4, <2>2, <2>3, <2>4
<1>5. QED
  BY <1>3, <1>4

LEMMA InitIInv == Init => IInv
<1> SUFFICES ASSUME Init PROVE IInv
  OBVIOUS
<1> USE DEF Init
<1>0. plan \in Seq(Actions) /\ Len(plan) \in Nat
  BY PlansAssumption
<1>1. TypeOK
  BY <1>0, LimitAssumption DEF TypeOK, StepType
<1>2. PolicyRespected /\ StepsHonest /\ CallsAdmitted /\ CallsBehind
        /\ CallsReported
  BY DEF PolicyRespected, StepsHonest, CallsAdmitted, CallsBehind,
         CallsReported
<1>3. StepsBehind /\ LogBehind
  BY <1>0 DEF StepsBehind, LogBehind, Positions
<1>4. QED
  BY <1>1, <1>2, <1>3 DEF IInv

-----------------------------------------------------------------------------
(* Going through the plan                                                  *)

\* The call at hand is one the policy lets through.
LEMMA CurrentAdmitted ==
  ASSUME IInv, pc \in {"calling", "waiting"}
  PROVE  /\ at \in Positions /\ Current \in Calls /\ Current.at = at
         /\ Current.action = Called(plan[at])
         /\ policy.enabled /\ ~policy.dryRun
         /\ {Current.action, plan[at]} \subseteq policy.allowed \ {IGNORE}
         /\ IF plan[at] \in policy.review THEN Current.action = REVIEW
                                          ELSE Current.action = plan[at]
<1>1. at \in Positions
  BY Types DEF IInv, TypeOK, Positions
<1>2. Current \in Calls
  BY <1>1 DEF IInv, TypeOK, CallsAdmitted, Current, Calls
<1>3. Current.at = at /\ Current.action = Called(plan[at])
  BY DEF Current
<1>4. /\ policy.enabled /\ ~policy.dryRun /\ ~IsSkipped(plan[at])
  BY DEF IInv, CallsAdmitted
<1>5. QED
  BY <1>1, <1>2, <1>3, <1>4
  DEF IsSkipped, Called, NeedsReview, IGNORE, REVIEW

\* Once the call is given up, it counts among those the platform may execute.
LEMMA PolicyKept ==
  ASSUME IInv, pc \in {"calling", "waiting"}, UNCHANGED <<policy, plan>>,
         (effects \cup abandoned)' \subseteq
            effects \cup abandoned \cup {Current}
  PROVE  PolicyRespected' /\ (effects \cup abandoned)' \subseteq Calls
<1>1. \A e \in (effects \cup abandoned)' : e \in effects \cup abandoned
                                             \/ e = Current
  OBVIOUS
<1>2. QED
  BY <1>1, CurrentAdmitted, Types DEF IInv, PolicyRespected

\* The steps of the action at hand are appended, when they are honest.
LEMMA ConcludeStep ==
  ASSUME IInv, pc \in {"planning", "calling"}, at \in Positions,
         NEW ss \in Seq(StepType), Conclude(ss),
         attempt' = attempt, effects' = effects,
         abandoned' \subseteq Calls, PolicyRespected',
         \A e \in abandoned' : e \in abandoned \/ e.at = at,
         \A e \in effects \cup abandoned' :
           e.at = at => \E j \in DOMAIN ss :
                          ss[j].status \in {"SUCCESS", "FAILED"},
         \A j \in DOMAIN ss :
           /\ ss[j].at = at
           /\ ss[j].status = "SUCCESS" => Happened(ss[j])
           /\ ss[j].status \in {"SKIPPED", "DRY_RUN"}
                /\ ss[j].action # REVIEW
                => \A e \in effects \cup abandoned' :
                     ~(e.at = at /\ e.action = ss[j].action)
           /\ ss[j].status = "DRY_RUN" => policy.dryRun,
         \E j \in DOMAIN ss : ss[j].action = plan[at]
  PROVE  IInv'
<1> USE DEF Conclude
<1>1. /\ steps \in Seq(StepType) /\ DOMAIN steps = 1..Len(steps)
      /\ DOMAIN ss = 1..Len(ss) /\ Len(ss) \in Nat /\ Len(steps) \in Nat
      /\ Len(plan) \in Nat /\ at \in Nat
  BY Types, LenProperties DEF IInv
<1>2. /\ steps' \in Seq(StepType) /\ Len(steps') = Len(steps) + Len(ss)
      /\ \A k \in 1..Len(steps) + Len(ss) :
           steps'[k] = IF k <= Len(steps) THEN steps[k]
                                          ELSE ss[k - Len(steps)]
  BY <1>1, ConcatProperties
<1>3. DOMAIN steps' = 1..Len(steps) + Len(ss)
  BY <1>2, LenProperties
<1>4. \A k \in DOMAIN steps' :
        \/ k \in DOMAIN steps /\ steps'[k] = steps[k]
        \/ \E j \in DOMAIN ss : steps'[k] = ss[j]
  <2> SUFFICES ASSUME NEW k \in DOMAIN steps', ~(k <= Len(steps))
               PROVE  k - Len(steps) \in DOMAIN ss
    BY <1>1, <1>2, <1>3
  <2>1. QED
    BY <1>1, <1>3
<1>5. /\ \A k \in DOMAIN steps : k \in DOMAIN steps' /\ steps'[k] = steps[k]
      /\ \A j \in DOMAIN ss : /\ Len(steps) + j \in DOMAIN steps'
                              /\ steps'[Len(steps) + j] = ss[j]
  <2>1. \A k \in DOMAIN steps : k \in DOMAIN steps' /\ steps'[k] = steps[k]
    BY <1>1, <1>2, <1>3
  <2>2. ASSUME NEW j \in DOMAIN ss
        PROVE  /\ Len(steps) + j \in DOMAIN steps'
               /\ steps'[Len(steps) + j] = ss[j]
    <3>1. /\ Len(steps) + j \in 1..Len(steps) + Len(ss)
          /\ ~(Len(steps) + j <= Len(steps))
          /\ Len(steps) + j - Len(steps) = j
      BY <1>1
    <3>2. QED
      BY <3>1, <1>2, <1>3
  <2>3. QED
    BY <2>1, <2>2
<1>a. /\ at' = at + 1 /\ pc' = "planning"
      /\ UNCHANGED <<policy, plan, saved, tries, rows, faults>>
  OBVIOUS
<1>b. \A e \in (effects \cup abandoned)' :
        /\ e \in Calls
        /\ e \in effects \cup abandoned \/ e.at = at
  BY Types DEF IInv
<1>c. saved = 0 /\ rows = {} /\ saved' = 0 /\ rows' = {}
  BY <1>a DEF IInv, LogBehind
<1>6. TypeOK'
  <2>1. at' \in 1..Len(plan') + 1
    BY <1>1, <1>a DEF Positions
  <2>2. steps' \in Seq(StepType')
    BY <1>2, <1>a DEF StepType, Positions
  <2>3. Calls' = Calls
    BY <1>a DEF Calls, Positions
  <2>4. saved' \in 0..Len(steps')
        /\ rows' \subseteq [step : 1..Len(steps'), copy : 1..MaxRepeats]
    BY <1>1, <1>2, <1>c
  <2>5. QED
    BY <1>a, <2>1, <2>2, <2>3, <2>4 DEF IInv, TypeOK
<1>7. StepsHonest'
  <2> SUFFICES ASSUME NEW k \in DOMAIN steps'
               PROVE  /\ steps'[k].status = "SUCCESS"
                           => \E e \in effects' : e.at = steps'[k].at
                                /\ e.action = steps'[k].action
                      /\ steps'[k].status \in {"SKIPPED", "DRY_RUN"}
                           /\ steps'[k].action # REVIEW
                           => \A e \in (effects \cup abandoned)' :
                                ~(e.at = steps'[k].at
                                    /\ e.action = steps'[k].action)
    BY DEF StepsHonest, Happened, MayHappen
  <2>1. CASE k \in DOMAIN steps /\ steps'[k] = steps[k]
    <3>1. steps[k].at < at
      BY <2>1 DEF IInv, StepsBehind
    <3>2. \A e \in (effects \cup abandoned)' :
            e.at = steps[k].at => e \in effects \cup abandoned
      BY <1>1, <1>b, <3>1
    <3>3. QED
      BY <2>1, <3>2 DEF IInv, StepsHonest, Happened, MayHappen
  <2>2. CASE \E j \in DOMAIN ss : steps'[k] = ss[j]
    BY <2>2 DEF Happened
  <2>3. QED
    BY <1>4, <2>1, <2>2
<1>8. CallsAdmitted'
  BY <1>a DEF CallsAdmitted
<1>9. CallsBehind'
  <2> SUFFICES ASSUME NEW e \in (effects \cup abandoned)'
               PROVE  e.at < at'
    BY DEF CallsBehind
  <2>1. e.at \in Nat
    BY <1>1, <1>b DEF Calls, Positions
  <2>2. e.at <= at
    BY <1>1, <1>b, <2>1 DEF IInv, CallsBehind
  <2>3. QED
    BY <1>1, <1>a, <2>1, <2>2
<1>10. StepsBehind'
  <2>1. ASSUME NEW k \in DOMAIN steps'
        PROVE  /\ steps'[k].at < at'
               /\ steps'[k].status = "DRY_RUN" => policy'.dryRun
    <3>1. CASE k \in DOMAIN steps /\ steps'[k] = steps[k]
      <4>1. steps[k].at \in Nat /\ steps[k].at < at
        BY <1>1, <3>1, Types DEF IInv, StepsBehind, StepType, Positions
      <4>2. steps[k].status = "DRY_RUN" => policy.dryRun
        BY <3>1 DEF IInv, StepsBehind
      <4>3. QED
        BY <1>1, <1>a, <3>1, <4>1, <4>2
    <3>2. CASE \E j \in DOMAIN ss : steps'[k] = ss[j]
      BY <1>1, <1>a, <3>2
    <3>3. QED
      BY <1>4, <3>1, <3>2
  <2>2. ASSUME NEW i \in Positions, i < at'
        PROVE  \E k \in DOMAIN steps' :
                 steps'[k].at = i /\ steps'[k].action = plan[i]
    <3>1. CASE i = at
      <4>1. PICK j \in DOMAIN ss : ss[j].action = plan[at]
        OBVIOUS
      <4>2. ss[j].at = at /\ Len(steps) + j \in DOMAIN steps'
        BY <1>5
      <4>3. QED
        BY <1>5, <3>1, <4>1, <4>2
    <3>2. CASE i # at
      <4>1. i < at
        BY <1>1, <1>a, <2>2, <3>2 DEF Positions
      <4>2. QED
        BY <1>5, <4>1 DEF IInv, StepsBehind
    <3>3. QED
      BY <3>1, <3>2
  <2>3. QED
    BY <1>a, <2>1, <2>2 DEF StepsBehind, Positions
<1>11. CallsReported'
  <2> SUFFICES ASSUME NEW e \in (effects \cup abandoned)'
               PROVE  \E k \in DOMAIN steps' :
                        /\ steps'[k].at = e.at
                        /\ steps'[k].status \in {"SUCCESS", "FAILED"}
    BY DEF CallsReported
  <2>1. CASE e.at = at
    <3>1. PICK j \in DOMAIN ss : ss[j].status \in {"SUCCESS", "FAILED"}
      BY <2>1
    <3>2. ss[j].at = at /\ Len(steps) + j \in DOMAIN steps'
      BY <1>5
    <3>3. QED
      BY <1>5, <2>1, <3>1, <3>2
  <2>2. CASE e.at # at
    BY <1>5, <1>b, <2>2 DEF IInv, CallsReported, CallsBehind
  <2>3. QED
    BY <2>1, <2>2
<1>12. LogBehind'
  BY <1>1, <1>2, <1>a, <1>c DEF LogBehind
<1>13. QED
  BY <1>6, <1>7, <1>8, <1>9, <1>10, <1>11, <1>12 DEF IInv

\* Nothing has been called yet of the action at hand.
LEMMA NothingCalled ==
  ASSUME IInv, pc = "planning"
  PROVE  \A e \in effects \cup abandoned : e.at # at
  BY Types DEF IInv, CallsBehind, Calls, Positions

LEMMA PlanningPosition ==
  ASSUME IInv, Planning
  PROVE  at \in Positions
  BY Types DEF IInv, TypeOK, Planning, Positions

LEMMA SkipStep ==
  ASSUME IInv, Skip
  PROVE  IInv'
<1> DEFINE s == Step(plan[at], "SKIPPED")
<1>1. pc = "planning" /\ at \in Positions /\ plan[at] \in Actions
  BY PlanningPosition, Types DEF Skip, Planning, IInv
<1>2. /\ s \in StepType /\ s.at = at /\ s.status = "SKIPPED"
      /\ s.action = plan[at]
  BY <1>1 DEF Step, StepType
<1>3. Conclude(<<s>>) /\ UNCHANGED <<attempt, effects, abandoned>>
  BY DEF Skip
<1> HIDE DEF s
<1>4. <<s>> \in Seq(StepType) /\ DOMAIN <<s>> = {1} /\ <<s>>[1] = s
  BY <1>2
<1>5. PolicyRespected' /\ abandoned' \subseteq Calls
  BY <1>3, Types DEF IInv, PolicyRespected, Conclude
<1>6. QED
  BY <1>1, <1>2, <1>3, <1>4, <1>5, NothingCalled, ConcludeStep

LEMMA DryRunStep ==
  ASSUME IInv, DryRun
  PROVE  IInv'
<1> DEFINE ss == StepsOf(plan[at], "DRY_RUN")
<1>1. pc = "planning" /\ at \in Positions
  BY PlanningPosition DEF DryRun, Tried, Planning
<1>2. /\ ss \in Seq(StepType)
      /\ \A j \in DOMAIN ss : /\ ss[j].at = at
                              /\ ss[j].status \in {"DRY_RUN", "SKIPPED"}
      /\ \E j \in DOMAIN ss : ss[j].action = plan[at]
  BY <1>1, StepsOfFacts DEF IInv
<1>3. Conclude(ss) /\ UNCHANGED <<attempt, effects, abandoned>>
  BY DEF DryRun
<1>4. policy.dryRun
  BY DEF DryRun, Rehearses
<1> HIDE DEF ss
<1>5. PolicyRespected' /\ abandoned' \subseteq Calls
  BY <1>3, Types DEF IInv, PolicyRespected, Conclude
<1>6. QED
  BY <1>1, <1>2, <1>3, <1>4, <1>5, NothingCalled, ConcludeStep

\* A call of action at hand, answered or given up, ends in honest steps.
LEMMA CallEnds ==
  ASSUME IInv, pc = "calling", NEW status \in {"SUCCESS", "FAILED"},
         Conclude(StepsOf(plan[at], status)),
         attempt' = attempt, effects' = effects,
         abandoned' \subseteq abandoned \cup {Current},
         status = "SUCCESS" => Current \in effects
  PROVE  IInv'
<1> DEFINE ss == StepsOf(plan[at], status)
<1>1. /\ at \in Positions /\ Current \in Calls /\ Current.at = at
      /\ Current.action = Called(plan[at])
  BY CurrentAdmitted
<1>2. /\ ss \in Seq(StepType)
      /\ \A j \in DOMAIN ss :
           /\ ss[j].at = at
           /\ \/ ss[j].status = status
                   /\ (status # "FAILED" => ss[j].action = Called(plan[at]))
              \/ /\ ss[j].status = "SKIPPED" /\ ss[j].action = plan[at]
                 /\ NeedsReview(plan[at])
      /\ \E j \in DOMAIN ss : ss[j].status = status
      /\ \E j \in DOMAIN ss : ss[j].action = plan[at]
  BY <1>1, StepsOfFacts DEF IInv
<1>3. Conclude(ss) /\ UNCHANGED <<policy, plan>>
  BY DEF Conclude
<1> HIDE DEF ss
<1>4. /\ PolicyRespected' /\ abandoned' \subseteq Calls
      /\ \A e \in effects \cup abandoned' : e \in Calls
      /\ \A e \in abandoned' : e \in abandoned \/ e.at = at
  BY <1>1, <1>3, PolicyKept, Types DEF IInv
<1>5. \A e \in effects \cup abandoned' :
        e.at = at /\ NeedsReview(plan[at]) => e.action = REVIEW
  BY <1>3, <1>4 DEF PolicyRespected, NeedsReview
<1>6. ASSUME NEW j \in DOMAIN ss
      PROVE  /\ ss[j].at = at
             /\ ss[j].status = "SUCCESS" => Happened(ss[j])
             /\ ss[j].status \in {"SKIPPED", "DRY_RUN"}
                  /\ ss[j].action # REVIEW
                  => \A e \in effects \cup abandoned' :
                       ~(e.at = at /\ e.action = ss[j].action)
             /\ ss[j].status = "DRY_RUN" => policy.dryRun
  <2>1. ss[j].status = "SUCCESS" => Happened(ss[j])
    BY <1>1, <1>2 DEF Happened
  <2>2. QED
    BY <1>2, <1>5, <2>1
<1>7. \A e \in effects \cup abandoned' :
        e.at = at => \E j \in DOMAIN ss :
                       ss[j].status \in {"SUCCESS", "FAILED"}
  BY <1>2
<1>8. QED
  BY <1>1, <1>2, <1>3, <1>4, <1>6, <1>7, ConcludeStep

LEMMA AnswerStep ==
  ASSUME IInv, Answer
  PROVE  IInv'
<1>1. /\ pc = "calling" /\ Answered \in {"SUCCESS", "FAILED"}
      /\ Answered = "SUCCESS" => Current \in effects
  BY DEF Answer, Answered
<1>2. /\ Conclude(StepsOf(plan[at], Answered))
      /\ UNCHANGED <<attempt, effects, abandoned>>
  BY DEF Answer
<1> HIDE DEF Answered
<1>3. QED
  BY <1>1, <1>2, CallEnds

LEMMA GiveUpStep ==
  ASSUME IInv, pc = "calling", GiveUp
  PROVE  IInv'
<1>1. /\ abandoned' \subseteq abandoned \cup {Current}
      /\ attempt' = attempt /\ effects' = effects
  BY DEF GiveUp
<1>2. CASE Conclude(StepsOf(plan[at], "FAILED"))
  BY <1>1, <1>2, CallEnds
<1>3. CASE /\ MayRetry
           /\ pc' = "waiting"
           /\ UNCHANGED <<policy, plan, at, steps, saved, tries, rows, faults>>
  <2> USE <1>3
  <2>1. /\ PolicyRespected' /\ abandoned' \subseteq Calls
        /\ \A e \in (effects \cup abandoned)' :
             e \in effects \cup abandoned \/ e = Current
    BY <1>1, PolicyKept DEF IInv
  <2>2. TypeOK'
    BY <1>1, <2>1 DEF IInv, TypeOK, StepType, Calls, Positions
  <2>3. at \in Nat /\ at \in Positions /\ Current.at = at
    BY CurrentAdmitted, Types DEF IInv
  <2>4. StepsHonest'
    <3>1. \A k \in DOMAIN steps : steps[k].at < at
      BY DEF IInv, StepsBehind
    <3>2. \A k \in DOMAIN steps : \A e \in (effects \cup abandoned)' :
            e.at = steps[k].at => e \in effects \cup abandoned
      BY <2>1, <2>3, <3>1
    <3>3. QED
      BY <1>1, <3>2 DEF IInv, StepsHonest, Happened, MayHappen
  <2>5. CallsAdmitted'
    BY <1>1 DEF IInv, CallsAdmitted, MayRetry, IsSkipped, NeedsReview, Called
  <2>6. CallsBehind'
    BY <2>1, <2>3 DEF IInv, CallsBehind
  <2>7. CallsReported'
    BY <2>1, <2>3 DEF IInv, CallsReported
  <2>8. StepsBehind' /\ LogBehind'
    BY DEF IInv, StepsBehind, LogBehind, Positions, PlanOver, Logged
  <2>9. QED
    BY <2>1, <2>2, <2>4, <2>5, <2>6, <2>7, <2>8 DEF IInv
<1>4. QED
  BY <1>2, <1>3 DEF GiveUp

\* A disabled policy has called nothing, and everything is skipped.
LEMMA DisabledStep ==
  ASSUME IInv, Disabled
  PROVE  IInv'
<1> USE DEF Disabled
<1>1. effects \cup abandoned = {} /\ (effects \cup abandoned)' = {}
  BY DEF IInv, PolicyRespected
<1>2. /\ Len(plan) \in Nat /\ pc = "planning"
      /\ saved = 0 /\ rows = {}
  BY Types DEF IInv, LogBehind, Planning
<1>3. \A k \in Positions :
        [at |-> k, action |-> plan[k], status |-> "SKIPPED"] \in StepType
  BY Types DEF IInv, StepType
<1>4. /\ steps' \in Seq(StepType) /\ Len(steps') = Len(plan)
      /\ DOMAIN steps' = Positions
      /\ \A k \in Positions :
           steps'[k] = [at |-> k, action |-> plan[k], status |-> "SKIPPED"]
  BY <1>2, <1>3 DEF Positions
<1>5. TypeOK'
  <2>1. at' \in 1..Len(plan) + 1
    BY <1>2
  <2>2. saved' \in 0..Len(steps') /\ rows' = {}
    BY <1>2, <1>4
  <2>3. Calls' = Calls /\ StepType' = StepType
    BY DEF Calls, StepType, Positions
  <2>4. QED
    BY <1>2, <1>4, <2>1, <2>2, <2>3 DEF IInv, TypeOK
<1>6. PolicyRespected' /\ CallsBehind' /\ CallsReported'
  BY <1>1 DEF PolicyRespected, CallsBehind, CallsReported
<1>7. StepsHonest'
  BY <1>1, <1>4 DEF StepsHonest, Happened, MayHappen
<1>8. CallsAdmitted'
  BY <1>2 DEF CallsAdmitted
<1>9. StepsBehind'
  BY <1>2, <1>4 DEF StepsBehind, Positions
<1>10. LogBehind'
  BY <1>2 DEF LogBehind
<1>11. QED
  BY <1>5, <1>6, <1>7, <1>8, <1>9, <1>10 DEF IInv

-----------------------------------------------------------------------------
(* Calls and the platform                                                  *)

LEMMA UnsupportedStep ==
  ASSUME IInv, Unsupported
  PROVE  IInv'
<1> USE DEF Unsupported
<1>1. pc = "planning" /\ pc' = "raised"
  BY DEF Tried, Planning
<1>2. TypeOK'
  BY <1>1 DEF IInv, TypeOK, StepType, Calls, Positions
<1>3. PolicyRespected' /\ StepsHonest' /\ CallsAdmitted'
  BY <1>1 DEF IInv, PolicyRespected, StepsHonest, Happened, MayHappen,
              CallsAdmitted
<1>4. CallsBehind' /\ CallsReported' /\ StepsBehind' /\ LogBehind'
  BY <1>1 DEF IInv, CallsBehind, CallsReported, StepsBehind, LogBehind,
              Positions, Logged
<1>5. QED
  BY <1>2, <1>3, <1>4 DEF IInv

LEMMA CallStep ==
  ASSUME IInv, Call
  PROVE  IInv'
<1> USE DEF Call
<1>1. pc = "planning" /\ pc' = "calling" /\ at \in Positions
  BY PlanningPosition DEF Tried, Planning
<1>2. TypeOK'
  BY <1>1, Types, LimitAssumption, SMTT(30)
  DEF IInv, TypeOK, StepType, Calls, Positions
<1>3. PolicyRespected' /\ StepsHonest'
  BY DEF IInv, PolicyRespected, StepsHonest, Happened, MayHappen
<1>4. CallsAdmitted'
  BY <1>1 DEF CallsAdmitted, Tried, Rehearses, IsSkipped, NeedsReview, Called
<1>5. CallsBehind' /\ CallsReported' /\ StepsBehind' /\ LogBehind'
  BY <1>1 DEF IInv, CallsBehind, CallsReported, StepsBehind, LogBehind,
              Positions, Logged
<1>6. QED
  BY <1>2, <1>3, <1>4, <1>5 DEF IInv

LEMMA RetryStep ==
  ASSUME IInv, Retry
  PROVE  IInv'
<1> USE DEF Retry
<1>1. attempt' \in 1..MaxAttempts
  BY LimitAssumption DEF IInv, TypeOK, CallsAdmitted
<1>2. TypeOK'
  BY <1>1 DEF IInv, TypeOK, StepType, Calls, Positions
<1>3. PolicyRespected' /\ StepsHonest'
  BY DEF IInv, PolicyRespected, StepsHonest, Happened, MayHappen
<1>4. CallsAdmitted'
  BY DEF IInv, CallsAdmitted, IsSkipped, NeedsReview, Called
<1>5. CallsBehind' /\ CallsReported' /\ StepsBehind' /\ LogBehind'
  BY DEF IInv, CallsBehind, CallsReported, StepsBehind, LogBehind,
         Positions, Logged
<1>6. QED
  BY <1>2, <1>3, <1>4, <1>5 DEF IInv

LEMMA TakeEffectStep ==
  ASSUME IInv, TakeEffect
  PROVE  IInv'
<1> USE DEF TakeEffect
<1>1. /\ PolicyRespected' /\ (effects \cup abandoned)' \subseteq Calls
      /\ \A e \in (effects \cup abandoned)' :
           e \in effects \cup abandoned \/ e = Current
  BY PolicyKept
<1>2. TypeOK'
  BY <1>1 DEF IInv, TypeOK, StepType, Calls, Positions
<1>3. at \in Nat /\ at \in Positions /\ Current.at = at
  BY CurrentAdmitted, Types DEF IInv
<1>4. StepsHonest'
  <2>1. \A k \in DOMAIN steps : steps[k].at < at
    BY DEF IInv, StepsBehind
  <2>2. \A k \in DOMAIN steps : \A e \in (effects \cup abandoned)' :
          e.at = steps[k].at => e \in effects \cup abandoned
    BY <1>1, <1>3, <2>1
  <2>3. QED
    BY <2>2 DEF IInv, StepsHonest, Happened, MayHappen
<1>5. CallsAdmitted'
  BY DEF IInv, CallsAdmitted, IsSkipped, NeedsReview, Called
<1>6. CallsBehind' /\ CallsReported'
  BY <1>1, <1>3 DEF IInv, CallsBehind, CallsReported
<1>7. StepsBehind' /\ LogBehind'
  BY DEF IInv, StepsBehind, LogBehind, Positions, PlanOver, Logged
<1>8. QED
  BY <1>1, <1>2, <1>4, <1>5, <1>6, <1>7 DEF IInv

LEMMA LandStep ==
  ASSUME IInv, Land
  PROVE  IInv'
<1> USE DEF Land
<1>1. /\ (effects \cup abandoned)' = effects \cup abandoned
      /\ effects \subseteq effects'
  OBVIOUS
<1>2. TypeOK'
  BY DEF IInv, TypeOK, StepType, Calls, Positions
<1>3. PolicyRespected' /\ CallsBehind' /\ CallsReported'
  BY <1>1 DEF IInv, PolicyRespected, CallsBehind, CallsReported
<1>4. StepsHonest'
  BY <1>1 DEF IInv, StepsHonest, Happened, MayHappen
<1>5. CallsAdmitted'
  BY DEF IInv, CallsAdmitted, IsSkipped, NeedsReview, Called
<1>6. StepsBehind' /\ LogBehind'
  BY DEF IInv, StepsBehind, LogBehind, Positions, PlanOver, Logged
<1>7. QED
  BY <1>2, <1>3, <1>4, <1>5, <1>6 DEF IInv

-----------------------------------------------------------------------------
(* The log                                                                 *)

\* A step of the log leaves plan, calls and steps as they are.
LEMMA LogMoved ==
  ASSUME IInv, TypeOK', LogBehind',
         pc \notin {"calling", "waiting"}, pc' \notin {"calling", "waiting"},
         UNCHANGED <<policy, plan, at, attempt, steps, effects, abandoned>>
  PROVE  IInv'
<1>1. PolicyRespected' /\ StepsHonest' /\ CallsAdmitted'
  BY DEF IInv, PolicyRespected, StepsHonest, Happened, MayHappen,
         CallsAdmitted
<1>2. CallsBehind' /\ CallsReported' /\ StepsBehind'
  BY DEF IInv, CallsBehind, CallsReported, StepsBehind, Positions
<1>3. QED
  BY <1>1, <1>2 DEF IInv

LEMMA FinishStep ==
  ASSUME IInv, Finish
  PROVE  IInv'
<1> USE DEF Finish
<1>1. pc = "planning" /\ pc' \in {"logging", "returned"}
  OBVIOUS
<1>2. TypeOK'
  BY DEF IInv, TypeOK, StepType, Calls, Positions
<1>3. LogBehind'
  BY Types DEF IInv, LogBehind, PlanOver, Logged
<1>4. QED
  BY <1>1, <1>2, <1>3, LogMoved

LEMMA InsertStep ==
  ASSUME IInv, Insert
  PROVE  IInv'
<1> USE DEF Insert, Logging
<1>1. /\ saved \in Nat /\ Len(steps) \in Nat /\ saved < Len(steps)
      /\ saved + 1 \in 1..Len(steps)
  BY Types DEF IInv, TypeOK
<1>2. TypeOK'
  BY <1>1 DEF IInv, TypeOK, StepType, Calls, Positions
<1>3. Logged(saved + 1)' /\ \A k \in 1..saved : Logged(k) => Logged(k)'
  <2> DEFINE r == [step |-> saved + 1, copy |-> tries]
  <2>1. r \in rows' /\ r.step = saved + 1 /\ saved' = saved
    OBVIOUS
  <2> HIDE DEF r
  <2>2. Logged(saved + 1)'
    BY ONLY <2>1 DEF Logged
  <2>3. rows \subseteq rows'
    OBVIOUS
  <2>4. QED
    BY <2>2, <2>3 DEF Logged
<1>4. LogBehind'
  BY <1>1, <1>3 DEF IInv, LogBehind, PlanOver
<1>5. QED
  BY <1>2, <1>4, LogMoved

LEMMA AcknowledgeStep ==
  ASSUME IInv, Acknowledge
  PROVE  IInv'
<1> USE DEF Acknowledge, Logging
<1>1. saved \in Nat /\ Len(steps) \in Nat /\ saved < Len(steps)
  BY Types DEF IInv, TypeOK
<1>2. TypeOK'
  BY <1>1, LimitAssumption DEF IInv, TypeOK, StepType, Calls, Positions
<1>3. \A k \in 1..saved' : Logged(k)
  BY <1>1 DEF IInv, LogBehind
<1>4. \A r \in rows : r.step <= saved' + 1
  BY <1>1 DEF IInv, TypeOK, LogBehind
<1>5. LogBehind'
  BY <1>3, <1>4 DEF IInv, LogBehind, PlanOver, Logged
<1>6. QED
  BY <1>2, <1>5, LogMoved

LEMMA DisconnectStep ==
  ASSUME IInv, Disconnect
  PROVE  IInv'
<1> USE DEF Disconnect, Logging, RaisedTo
<1>1. pc \in {"logging", "logged"} /\ pc' \in {"logging", "raised"}
  OBVIOUS
<1>2. faults' \in 0..MaxFaults /\ tries' \in 1..MaxRepeats
  BY LimitAssumption DEF IInv, TypeOK
<1>3. TypeOK'
  BY <1>1, <1>2 DEF IInv, TypeOK, StepType, Calls, Positions
<1>4. LogBehind'
  BY <1>1 DEF IInv, LogBehind, PlanOver, Logged
<1>5. QED
  BY <1>1, <1>3, <1>4, LogMoved

LEMMA ReturnStep ==
  ASSUME IInv, Return
  PROVE  IInv'
<1> USE DEF Return
<1>1. TypeOK'
  BY DEF IInv, TypeOK, StepType, Calls, Positions
<1>2. LogBehind'
  BY DEF IInv, LogBehind, PlanOver, Logged
<1>3. QED
  BY <1>1, <1>2, LogMoved

-----------------------------------------------------------------------------
(* The theorems                                                            *)

\* Every step keeps the inductive invariant.
THEOREM Invariance == Spec => []IInv
<1>1. IInv /\ [Next]_vars => IInv'
  <2> SUFFICES ASSUME IInv, [Next]_vars
               PROVE  IInv'
    OBVIOUS
  <2>1. CASE Disabled \/ Skip \/ Unsupported \/ DryRun \/ Call
    BY <2>1, DisabledStep, SkipStep, UnsupportedStep, DryRunStep, CallStep
  <2>2. CASE TimeOut \/ Raise
    BY <2>2, GiveUpStep DEF TimeOut, Raise
  <2>3. CASE Retry \/ TakeEffect \/ Land \/ Answer
    BY <2>3, RetryStep, TakeEffectStep, LandStep, AnswerStep
  <2>4. CASE Finish \/ Insert \/ Acknowledge \/ Disconnect \/ Return
    BY <2>4, FinishStep, InsertStep, AcknowledgeStep, DisconnectStep,
       ReturnStep
  <2>5. CASE UNCHANGED vars
    <3> USE <2>5 DEF vars
    <3>1. TypeOK' /\ LogBehind'
      BY DEF IInv, TypeOK, StepType, Calls, Positions, LogBehind, PlanOver,
             Logged
    <3>2. PolicyRespected' /\ StepsHonest' /\ CallsAdmitted'
      BY DEF IInv, PolicyRespected, StepsHonest, Happened, MayHappen,
             CallsAdmitted, IsSkipped, NeedsReview, Called
    <3>3. CallsBehind' /\ CallsReported' /\ StepsBehind'
      BY DEF IInv, CallsBehind, CallsReported, StepsBehind, Positions
    <3>4. QED
      BY <3>1, <3>2, <3>3 DEF IInv
  <2>6. QED
    BY <2>1, <2>2, <2>3, <2>4, <2>5 DEF Next, Progress
<1>2. QED
  BY <1>1, InitIInv, PTL DEF Spec

\* Plan, steps, calls and log keep their types, and no call is attempted more
\* often than the retry policy says.
THEOREM TypeCorrect == Spec => []TypeOK
<1>1. IInv => TypeOK
  BY DEF IInv
<1>2. QED
  BY <1>1, Invariance, PTL

\* Nothing takes effect, in time or late, that the policy does not let through.
THEOREM Policy == Spec => []PolicyRespected
<1>1. IInv => PolicyRespected
  BY DEF IInv
<1>2. QED
  BY <1>1, Invariance, PTL

\* A step says what happened on the platform, whatever was given up before it.
THEOREM Honesty == Spec => []StepsHonest
<1>1. IInv => StepsHonest
  BY DEF IInv
<1>2. QED
  BY <1>1, Invariance, PTL

\* So does the status of the plan.
THEOREM PlanHonesty == Spec => []StatusHonest
<1>1. IInv => StatusHonest
  <2> SUFFICES ASSUME IInv, PlanOver
               PROVE  /\ PlanStatus = "SUCCESS" =>
                           \A i \in Positions :
                             Happened([at |-> i, action |-> plan[i]])
                      /\ PlanStatus \in {"SKIPPED", "DRY_RUN"} =>
                           effects \cup abandoned = {}
                      /\ PlanStatus = "PARTIAL_SUCCESS" =>
                           policy.dryRun \/ effects # {}
    BY DEF StatusHonest
  <2> DEFINE statuses == {steps[k].status : k \in DOMAIN steps}
  <2>1. /\ \A k \in DOMAIN steps : steps[k].status \in statuses
        /\ \A s \in statuses : \E k \in DOMAIN steps : steps[k].status = s
        /\ statuses \subseteq {"SKIPPED", "DRY_RUN", "SUCCESS", "FAILED"}
    BY Types DEF IInv, StepType
  <2> HIDE DEF statuses
  <2>2. PlanStatus = Resolved(statuses)
    BY DEF PlanStatus, statuses
  <2>3. \A i \in Positions : i < at
    BY Types DEF IInv, PlanOver, Positions
  <2>4. ASSUME PlanStatus = "SUCCESS", NEW i \in Positions
        PROVE  Happened([at |-> i, action |-> plan[i]])
    <3>1. statuses = {"SUCCESS"}
      BY <2>2, <2>4 DEF Resolved
    <3>2. PICK k \in DOMAIN steps :
            steps[k].at = i /\ steps[k].action = plan[i]
      BY <2>3 DEF IInv, StepsBehind
    <3>3. Happened(steps[k])
      BY <2>1, <3>1, <3>2 DEF IInv, StepsHonest
    <3>4. QED
      BY <3>2, <3>3 DEF Happened
  <2>5. ASSUME PlanStatus \in {"SKIPPED", "DRY_RUN"}
        PROVE  effects \cup abandoned = {}
    <3>1. statuses \cap {"SUCCESS", "FAILED"} = {}
      BY <2>2, <2>5 DEF Resolved
    <3>2. \A e \in effects \cup abandoned : e.at < at
      BY <2>3, Types DEF IInv, Calls
    <3>3. QED
      BY <2>1, <3>1, <3>2 DEF IInv, CallsReported
  <2>6. ASSUME PlanStatus = "PARTIAL_SUCCESS", ~policy.dryRun
        PROVE  effects # {}
    <3>1. "DRY_RUN" \notin statuses
      BY <2>1, <2>6 DEF IInv, StepsBehind
    <3>2. "SUCCESS" \in statuses
      BY <2>1, <2>2, <2>6, <3>1 DEF Resolved
    <3>3. QED
      BY <2>1, <3>2 DEF IInv, StepsHonest, Happened
  <2>7. QED
    BY <2>4, <2>5, <2>6
<1>2. QED
  BY <1>1, Invariance, PTL

\* The log is complete when a result is returned, and has no gap before.
THEOREM Log == Spec => []LogComplete
<1>1. IInv => LogComplete
  <2> SUFFICES ASSUME IInv
               PROVE  LogComplete
    OBVIOUS
  <2>1. saved \in Nat /\ Len(steps) \in Nat /\ DOMAIN steps = 1..Len(steps)
    BY Types DEF IInv, TypeOK
  <2>2. pc = "returned" /\ policy.logs => \A k \in DOMAIN steps : Logged(k)
    BY <2>1 DEF IInv, LogBehind
  <2>3. ASSUME NEW r \in rows, NEW k \in 1..r.step
        PROVE  Logged(k)
    <3>1. /\ \A q \in rows : q.step \in 1..Len(steps)
          /\ \A q \in rows : q.step <= saved + 1
          /\ \A j \in 1..saved : Logged(j)
      <4>1. rows \subseteq [step : 1..Len(steps), copy : 1..MaxRepeats]
        BY DEF IInv, TypeOK
      <4>2. LogBehind
        BY DEF IInv
      <4>3. QED
        BY ONLY <4>1, <4>2 DEF LogBehind
    <3>2. r.step \in Nat /\ r.step <= saved + 1
      BY ONLY <2>1, <2>3, <3>1
    <3>3. CASE k <= saved
      BY ONLY <2>1, <2>3, <3>1, <3>2, <3>3
    <3>4. CASE k = r.step
      BY <3>4 DEF Logged
    <3>5. QED
      BY <2>1, <3>2, <3>3, <3>4
  <2>4. QED
    BY <2>2, <2>3 DEF LogComplete
<1>2. QED
  BY <1>1, Invariance, PTL

\* The executor's report can be believed: the three theorems above together.
THEOREM Report == Spec => []ReportHonest
<1>1. StepsHonest /\ StatusHonest /\ LogComplete => ReportHonest
  BY DEF ReportHonest
<1>2. QED
  BY <1>1, Honesty, PlanHonesty, Log, PTL

-----------------------------------------------------------------------------
(* The way to the end.  Finishes itself is about fairness and is left to   *)
(* TLC; what it rests on is proved here.                                   *)

\* What is ahead of an execution, the weightiest first: the plan and then the
\* log; the positions; the call and its attempts; the steps to be logged and
\* the attempts of an INSERT.
Ahead ==
  <<CASE pc \in {"planning", "calling", "waiting"} -> 2
      [] pc \in {"logging", "logged"} -> 1
      [] OTHER -> 0,
    Len(plan) + 1 - at,
    IF pc = "planning" THEN 1 ELSE 0,
    MaxAttempts - attempt,
    IF pc = "calling" THEN 1 ELSE 0,
    Len(steps) - saved,
    MaxRepeats - tries,
    IF pc = "logging" THEN 1 ELSE 0>>

\* The lexicographic order.
Below(a, b) ==
  \E k \in 1..8 : a[k] < b[k] /\ \A j \in 1..8 : j < k => a[j] = b[j]

\* The platform executes a call, of which there are finitely many, or one that
\* was given up is no longer outstanding.
PlatformActs ==
  /\ Ahead' = Ahead
  /\ \/ effects \subseteq effects' /\ effects' # effects
        /\ abandoned' = abandoned
     \/ effects \subseteq effects' /\ abandoned' \subseteq abandoned
        /\ abandoned' # abandoned

Nearer == Below(Ahead', Ahead) \/ PlatformActs

LEMMA AheadNatural ==
  ASSUME TypeOK
  PROVE  Ahead \in [1..8 -> Nat]
<1>1. /\ Len(plan) \in Nat /\ at \in 1..Len(plan) + 1
      /\ Len(steps) \in Nat /\ saved \in 0..Len(steps)
      /\ attempt \in 1..MaxAttempts /\ tries \in 1..MaxRepeats
      /\ MaxAttempts \in Nat /\ MaxRepeats \in Nat
  BY Types, LimitAssumption DEF TypeOK
<1>2. /\ Len(plan) + 1 - at \in Nat /\ MaxAttempts - attempt \in Nat
      /\ Len(steps) - saved \in Nat /\ MaxRepeats - tries \in Nat
  BY <1>1
<1>3. DOMAIN Ahead = 1..8 /\ Ahead = [k \in 1..8 |-> Ahead[k]]
  BY DEF Ahead
<1>4. \A k \in 1..8 : Ahead[k] \in Nat
  BY <1>2 DEF Ahead
<1>5. QED
  BY <1>3, <1>4

\* The steps of the plan: the stage stays as it is, and something is done.
LEMMA PlanNearer ==
  ASSUME TypeOK, TypeOK',
         Disabled \/ Skip \/ Unsupported \/ DryRun \/ Call
           \/ TimeOut \/ Raise \/ Answer \/ Retry \/ Finish
  PROVE  Below(Ahead', Ahead)
<1> USE DEF Below, Ahead
<1>1. /\ Len(plan) \in Nat /\ at \in Nat /\ at <= Len(plan) + 1
      /\ attempt \in Nat /\ MaxAttempts \in Nat
  BY Types, LimitAssumption DEF TypeOK
<1>2. CASE Unsupported \/ Finish
  <2>1. pc = "planning" /\ pc' \in {"raised", "logging", "returned"}
    BY <1>2 DEF Unsupported, Finish, Tried, Planning
  <2>2. Ahead'[1] < Ahead[1]
    BY <2>1
  <2>3. QED
    BY <2>2
<1>3. ASSUME pc \in {"planning", "calling"}, pc' = "planning",
             plan' = plan, at' \in Nat, at < at'
      PROVE  Below(Ahead', Ahead)
  <2>1. Ahead'[1] = Ahead[1] /\ Ahead'[2] < Ahead[2]
    BY <1>1, <1>3
  <2>2. QED
    BY <2>1
<1>4. CASE Disabled
  BY <1>1, <1>3, <1>4 DEF Disabled, Planning
<1>5. CASE Skip \/ DryRun \/ Answer
  BY <1>1, <1>3, <1>5 DEF Skip, DryRun, Answer, Conclude, Tried, Planning
<1>6. CASE Call
  <2>1. /\ pc = "planning" /\ pc' = "calling"
        /\ plan' = plan /\ at' = at
    BY <1>6 DEF Call, Tried, Planning
  <2>2. Ahead'[1] = Ahead[1] /\ Ahead'[2] = Ahead[2] /\ Ahead'[3] < Ahead[3]
    BY <2>1
  <2>3. QED
    BY <2>2
<1>7. CASE TimeOut \/ Raise
  <2>1. pc = "calling" /\ GiveUp
    BY <1>7 DEF TimeOut, Raise
  <2>2. CASE Conclude(StepsOf(plan[at], "FAILED"))
    BY <1>1, <1>3, <2>1, <2>2 DEF Conclude
  <2>3. CASE pc' = "waiting" /\ UNCHANGED <<plan, at, attempt>>
    <3>1. /\ Ahead'[1] = Ahead[1] /\ Ahead'[2] = Ahead[2]
          /\ Ahead'[3] = Ahead[3] /\ Ahead'[4] = Ahead[4]
          /\ Ahead'[5] < Ahead[5]
      BY <2>1, <2>3
    <3>2. QED
      BY <3>1
  <2>4. QED
    BY <2>1, <2>2, <2>3 DEF GiveUp
<1>8. CASE Retry
  <2>1. /\ pc = "waiting" /\ pc' = "calling" /\ attempt' = attempt + 1
        /\ plan' = plan /\ at' = at
    BY <1>8 DEF Retry
  <2>2. /\ Ahead'[1] = Ahead[1] /\ Ahead'[2] = Ahead[2]
        /\ Ahead'[3] = Ahead[3] /\ Ahead'[4] < Ahead[4]
    BY <1>1, <2>1
  <2>3. QED
    BY <2>2
<1>9. QED
  BY <1>2, <1>4, <1>5, <1>6, <1>7, <1>8

\* The steps of the log, which ends however often the connection breaks.
LEMMA LogNearer ==
  ASSUME TypeOK, TypeOK',
         Insert \/ Acknowledge \/ Disconnect \/ Return
  PROVE  Below(Ahead', Ahead)
<1> USE DEF Below, Ahead
<1>1. /\ Len(steps) \in Nat /\ saved \in Nat /\ tries \in Nat
      /\ MaxRepeats \in Nat
  BY Types, LimitAssumption DEF TypeOK
<1>2. /\ pc \in {"logging", "logged"}
      /\ UNCHANGED <<plan, at, attempt, steps>>
  BY DEF Insert, Acknowledge, Disconnect, Return, Logging
<1>3. ASSUME pc' \in {"returned", "raised"}
      PROVE  Below(Ahead', Ahead)
  <2>1. Ahead'[1] < Ahead[1]
    BY <1>2, <1>3
  <2>2. QED
    BY <2>1
<1>4. ASSUME pc' \in {"logging", "logged"}
      PROVE  \A j \in 1..5 : Ahead'[j] = Ahead[j]
  BY <1>2, <1>4
<1>5. CASE Insert
  <2>1. /\ pc = "logging" /\ pc' = "logged" /\ saved' = saved
        /\ tries' = tries
    BY <1>5 DEF Insert, Logging
  <2>2. /\ Ahead'[6] = Ahead[6] /\ Ahead'[7] = Ahead[7]
        /\ Ahead'[8] < Ahead[8]
    BY <1>2, <2>1
  <2>3. QED
    BY <1>4, <2>1, <2>2
<1>6. CASE Acknowledge
  <2>1. pc' = "logging" /\ saved' = saved + 1
    BY <1>6 DEF Acknowledge
  <2>2. Ahead'[6] < Ahead[6]
    BY <1>1, <1>2, <2>1
  <2>3. QED
    BY <1>4, <2>1, <2>2
<1>7. CASE Disconnect
  <2>1. \/ pc' = "raised"
        \/ pc' = "logging" /\ tries' = tries + 1 /\ saved' = saved
    BY <1>7 DEF Disconnect, RaisedTo
  <2>2. CASE pc' = "logging" /\ tries' = tries + 1 /\ saved' = saved
    <3>1. Ahead'[6] = Ahead[6] /\ Ahead'[7] < Ahead[7]
      BY <1>1, <1>2, <2>2
    <3>2. QED
      BY <1>4, <2>2, <3>1
  <2>3. QED
    BY <1>3, <2>1, <2>2
<1>8. CASE Return
  BY <1>3, <1>8 DEF Return
<1>9. QED
  BY <1>5, <1>6, <1>7, <1>8

\* Every step of an execution brings its end nearer, in an order without
\* endless descents, or is the platform's and uses up one of finitely many
\* calls: attempts, backoffs and broken connections never lead back to where
\* the executor was before.  So an execution that goes on for ever does not
\* exist, with timeouts or without, and what timeouts are needed for is only
\* that it does not stop at a call.
THEOREM EndNearer ==
  Spec => [](TypeOK /\ Ahead \in [1..8 -> Nat]) /\ [][Nearer]_vars
<1>1. ASSUME IInv, IInv', [Next]_vars
      PROVE  [Nearer]_vars
  <2>1. TypeOK /\ TypeOK'
    BY <1>1 DEF IInv
  <2>2. CASE Disabled \/ Skip \/ Unsupported \/ DryRun \/ Call
               \/ TimeOut \/ Raise \/ Answer \/ Retry \/ Finish
    BY <2>1, <2>2, PlanNearer DEF Nearer
  <2>3. CASE Insert \/ Acknowledge \/ Disconnect \/ Return
    BY <2>1, <2>3, LogNearer DEF Nearer
  <2>4. CASE TakeEffect
    <3>1. Ahead' = Ahead
      BY <2>4 DEF TakeEffect, Ahead
    <3>2. effects \subseteq effects' /\ effects' # effects
          /\ abandoned' = abandoned
      BY <2>4 DEF TakeEffect
    <3>3. QED
      BY <3>1, <3>2 DEF Nearer, PlatformActs
  <2>5. CASE Land
    <3>1. Ahead' = Ahead
      BY <2>5 DEF Land, Ahead
    <3>2. effects \subseteq effects' /\ abandoned' \subseteq abandoned
          /\ abandoned' # abandoned
      BY <2>5 DEF Land
    <3>3. QED
      BY <3>1, <3>2 DEF Nearer, PlatformActs
  <2>6. QED
    BY <1>1, <2>2, <2>3, <2>4, <2>5 DEF Next, Progress
<1>2. TypeOK => TypeOK /\ Ahead \in [1..8 -> Nat]
  BY AheadNatural
<1>3. QED
  BY <1>1, <1>2, Invariance, TypeCorrect, PTL DEF Spec
=============================================================================
