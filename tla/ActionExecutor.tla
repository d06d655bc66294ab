--------------------------- MODULE ActionExecutor ---------------------------
(***************************************************************************)
(* The execution of an action plan on a platform                           *)
(* (src/src/modules/action/action_executor.py) and its log                 *)
(* (src/src/infrastructure/repository/                                     *)
(*  postgresql_action_execution_log_repository.py).                        *)
(*                                                                         *)
(* The actions of a plan are tried in order.  A policy disables, skips,    *)
(* rehearses (dry run) or executes them, or asks a person to review them   *)
(* first, which is an action of the platform too.  A call that raises or   *)
(* exceeds its timeout is repeated; the platform may have executed it all  *)
(* the same, or may do so after the executor has given it up.  When the    *)
(* plan is through, each step is inserted into the log, by a statement     *)
(* that is executed again when its reply was lost.                         *)
(*                                                                         *)
(* One execution is modelled: the executor keeps no state between two.     *)
(* Reasons, times and platform responses are left out.                     *)
(***************************************************************************)
EXTENDS Naturals, Sequences, FiniteSets

CONSTANTS Plans,        \* the action plans of decisions
          Policies,     \* action policies, see PolicyType
          MaxAttempts,  \* the policy's retry_policy.max_attempts
          MaxRepeats,   \* reconnect_attempts of the database layer
          MaxFaults     \* bound: failures of the database

IGNORE == "IGNORE"
REVIEW == "REVIEW"

\* The actions a platform client has a method for.
Executable == {"DELETE", "WARN", "TIMEOUT", "KICK", "BAN", "REVIEW", "LOG"}

Actions == Executable \cup {"IGNORE", "DELETE_WARN"}

\* "timed" are the actions with a timeout; "logs" tells whether the executor
\* was given a log.
PolicyType ==
  [enabled : BOOLEAN, dryRun : BOOLEAN, allowed : SUBSET Actions,
   review : SUBSET Actions, timed : SUBSET Actions, logs : BOOLEAN]

ASSUME PlansAssumption == Plans \subseteq Seq(Actions)
ASSUME PoliciesAssumption == Policies \subseteq PolicyType
ASSUME LimitAssumption ==
  MaxAttempts \in Nat \ {0} /\ MaxRepeats \in Nat \ {0} /\ MaxFaults \in Nat

VARIABLES
  policy,     \* the executor's action policy
  plan,       \* decision.action_plan.actions
  pc,         \* planning, calling, waiting, logging, logged, returned, raised
  at,         \* the position of the plan being executed
  attempt,    \* the attempt of the current call
  steps,      \* [at, action, status], in order
  effects,    \* [at, action, attempt]: what the platform has executed
  abandoned,  \* calls given up that the platform may still execute
  saved,      \* steps whose INSERT has been acknowledged
  tries,      \* attempts of the current INSERT
  rows,       \* [step, copy]: rows of the log
  faults

vars == <<policy, plan, pc, at, attempt, steps, effects, abandoned, saved,
          tries, rows, faults>>

Init ==
  /\ policy \in Policies /\ plan \in Plans
  /\ pc = "planning" /\ at = 1 /\ attempt = 1
  /\ steps = <<>> /\ effects = {} /\ abandoned = {}
  /\ saved = 0 /\ tries = 1 /\ rows = {} /\ faults = 0

-----------------------------------------------------------------------------
(* One action of the plan                                                  *)

Step(action, status) == [at |-> at, action |-> action, status |-> status]

\* Mutant: the list of actions that need a review is not consulted.
NeedsReviewNever(a) == FALSE

NeedsReview(a) == a \in policy.review

IsSkipped(a) ==
  \/ a = IGNORE
  \/ a \notin policy.allowed
  \/ NeedsReview(a) /\ REVIEW \notin policy.allowed

\* The method of the client that is called for action a.
Called(a) == IF NeedsReview(a) THEN REVIEW ELSE a

\* The steps of action a when its call, or rehearsal, ended with status.
StepsOf(a, status) ==
  IF NeedsReview(a)
  THEN <<Step(REVIEW, status),
         Step(a, IF status = "FAILED" THEN "FAILED" ELSE "SKIPPED")>>
  ELSE <<Step(a, status)>>

Planning == pc = "planning" /\ at <= Len(plan)

\* The steps of the action at hand are known.
Conclude(ss) ==
  /\ steps' = steps \o ss
  /\ at' = at + 1
  /\ pc' = "planning"
  /\ UNCHANGED <<policy, plan, saved, tries, rows, faults>>

\* A disabled policy skips the whole plan, what has no method included.
Disabled ==
  /\ Planning /\ ~policy.enabled
  /\ steps' = [k \in 1..Len(plan) |->
                 [at |-> k, action |-> plan[k], status |-> "SKIPPED"]]
  /\ at' = Len(plan) + 1
  /\ UNCHANGED <<policy, plan, pc, attempt, effects, abandoned, saved, tries,
                 rows, faults>>

Skip ==
  /\ Planning /\ policy.enabled /\ IsSkipped(plan[at])
  /\ Conclude(<<Step(plan[at], "SKIPPED")>>)
  /\ UNCHANGED <<attempt, effects, abandoned>>

Rehearses(a) == policy.dryRun

Tried == Planning /\ policy.enabled /\ ~IsSkipped(plan[at])

\* _get_action_call raises, out of execute(): no result, no log.
Unsupported ==
  /\ Tried /\ Called(plan[at]) \notin Executable
  /\ pc' = "raised"
  /\ UNCHANGED <<policy, plan, at, attempt, steps, effects, abandoned, saved,
                 tries, rows, faults>>

DryRun ==
  /\ Tried /\ Called(plan[at]) \in Executable /\ Rehearses(plan[at])
  /\ Conclude(StepsOf(plan[at], "DRY_RUN"))
  /\ UNCHANGED <<attempt, effects, abandoned>>

Call ==
  /\ Tried /\ Called(plan[at]) \in Executable /\ ~Rehearses(plan[at])
  /\ pc' = "calling" /\ attempt' = 1
  /\ UNCHANGED <<policy, plan, at, steps, effects, abandoned, saved, tries,
                 rows, faults>>

-----------------------------------------------------------------------------
(* The platform                                                            *)

Current == [at |-> at, action |-> Called(plan[at]), attempt |-> attempt]

TakeEffect ==
  /\ pc = "calling" /\ Current \notin effects
  /\ effects' = effects \cup {Current}
  /\ UNCHANGED <<policy, plan, pc, at, attempt, steps, abandoned, saved,
                 tries, rows, faults>>

\* A call given up is executed after all.
Land ==
  /\ \E e \in abandoned :
       effects' = effects \cup {e} /\ abandoned' = abandoned \ {e}
  /\ UNCHANGED <<policy, plan, pc, at, attempt, steps, saved, tries, rows,
                 faults>>

\* Mutant: any answer of the platform is a success.
AnsweredSuccess == "SUCCESS"

\* The platform answers what it did; a refusal is not repeated.
Answered == IF Current \in effects THEN "SUCCESS" ELSE "FAILED"

Answer ==
  /\ pc = "calling"
  /\ Conclude(StepsOf(plan[at], Answered))
  /\ UNCHANGED <<attempt, effects, abandoned>>

MayRetry == attempt < MaxAttempts

\* The call raises, or is cancelled by its timeout.
GiveUp ==
  /\ abandoned' = IF Current \in effects THEN abandoned
                                         ELSE abandoned \cup {Current}
  /\ \/ /\ MayRetry
        /\ pc' = "waiting"
        /\ UNCHANGED <<policy, plan, at, steps, saved, tries, rows, faults>>
     \/ /\ ~MayRetry
        /\ Conclude(StepsOf(plan[at], "FAILED"))
  /\ UNCHANGED <<attempt, effects>>

Raise == pc = "calling" /\ GiveUp

\* Mutant: the timeout is looked up by the status of the call.
NeverTimed(a) == a = "PENDING"

Timed(a) == a \in policy.timed

TimeOut == pc = "calling" /\ Timed(Called(plan[at])) /\ GiveUp

\* The next attempt, after the backoff if there is one.
Retry ==
  /\ pc = "waiting"
  /\ pc' = "calling" /\ attempt' = attempt + 1
  /\ UNCHANGED <<policy, plan, at, steps, effects, abandoned, saved, tries,
                 rows, faults>>

-----------------------------------------------------------------------------
(* The result and its log                                                  *)

PlanOver == at > Len(plan)

Resolved(statuses) ==
  CASE statuses = {} -> "SKIPPED"
    [] statuses = {"SKIPPED"} -> "SKIPPED"
    [] statuses = {"DRY_RUN"} -> "DRY_RUN"
    [] statuses = {"SUCCESS"} -> "SUCCESS"
    [] "FAILED" \in statuses /\ statuses \cap {"SUCCESS", "DRY_RUN"} = {}
         -> "FAILED"
    [] OTHER -> "PARTIAL_SUCCESS"

PlanStatus == Resolved({steps[k].status : k \in DOMAIN steps})

Finish ==
  /\ pc = "planning" /\ PlanOver
  /\ pc' = IF policy.logs THEN "logging" ELSE "returned"
  /\ UNCHANGED <<policy, plan, at, attempt, steps, effects, abandoned, saved,
                 tries, rows, faults>>

Logging(step) == pc = step /\ saved < Len(steps)

\* The INSERT of the next step is executed.
Insert ==
  /\ Logging("logging")
  /\ rows' = rows \cup {[step |-> saved + 1, copy |-> tries]}
  /\ pc' = "logged"
  /\ UNCHANGED <<policy, plan, at, attempt, steps, effects, abandoned, saved,
                 tries, faults>>

Acknowledge ==
  /\ Logging("logged")
  /\ saved' = saved + 1 /\ tries' = 1 /\ pc' = "logging"
  /\ UNCHANGED <<policy, plan, at, attempt, steps, effects, abandoned, rows,
                 faults>>

RaisedTo == "raised"

\* The connection breaks before or after the INSERT took effect, or the server
\* refuses it, which is not repeated.
Disconnect ==
  /\ Logging("logging") \/ Logging("logged")
  /\ faults < MaxFaults /\ faults' = faults + 1
  /\ \/ /\ tries < MaxRepeats
        /\ tries' = tries + 1
        /\ pc' = "logging"
     \/ /\ tries = MaxRepeats \/ pc = "logging"
        /\ pc' = RaisedTo
        /\ UNCHANGED tries
  /\ UNCHANGED <<policy, plan, at, attempt, steps, effects, abandoned, saved,
                 rows>>

Return ==
  /\ pc = "logging" /\ saved = Len(steps)
  /\ pc' = "returned"
  /\ UNCHANGED <<policy, plan, at, attempt, steps, effects, abandoned, saved,
                 tries, rows, faults>>

\* What the executor does of itself, the expiry of a timeout included.
Progress ==
  \/ Disabled \/ Skip \/ Unsupported \/ DryRun \/ Call \/ TimeOut \/ Retry
  \/ Finish \/ Insert \/ Acknowledge \/ Return

Next == Progress \/ TakeEffect \/ Land \/ Answer \/ Raise \/ Disconnect

Spec == Init /\ [][Next]_vars

\* The event loop resumes the executor when it can go on; a statement of the
\* log ends, one way or another.  The platform owes nothing.
FairSpec == Spec /\ WF_vars(Progress)

-----------------------------------------------------------------------------
Positions == 1..Len(plan)

Calls == [at : Positions, action : Executable, attempt : 1..MaxAttempts]

StepType == [at : Positions, action : Actions,
             status : {"SKIPPED", "DRY_RUN", "SUCCESS", "FAILED"}]

\* The types, and the bounds on attempts.
TypeOK ==
  /\ policy \in Policies /\ plan \in Plans
  /\ pc \in {"planning", "calling", "waiting", "logging", "logged",
             "returned", "raised"}
  /\ at \in 1..Len(plan) + 1
  /\ pc \in {"calling", "waiting"} => at <= Len(plan)
  /\ attempt \in 1..MaxAttempts
  /\ steps \in Seq(StepType)
  /\ effects \subseteq Calls /\ abandoned \subseteq Calls
  /\ saved \in 0..Len(steps)
  /\ tries \in 1..MaxRepeats
  /\ rows \subseteq [step : 1..Len(steps), copy : 1..MaxRepeats]
  /\ faults \in 0..MaxFaults

\* Nothing happens on the platform, now or later, but what the policy lets
\* through; and of an action that needs a review, nothing but the review.
PolicyRespected ==
  \A e \in effects \cup abandoned :
    /\ policy.enabled /\ ~policy.dryRun
    /\ {e.action, plan[e.at]} \subseteq policy.allowed \ {IGNORE}
    /\ IF plan[e.at] \in policy.review THEN e.action = REVIEW
                                       ELSE e.action = plan[e.at]

Happened(s) == \E e \in effects : e.at = s.at /\ e.action = s.action

MayHappen(s) == \E e \in effects \cup abandoned :
                  e.at = s.at /\ e.action = s.action

\* A step that succeeded took effect, a step that was skipped or rehearsed
\* never will.  (A review that is itself to be reviewed is requested, and
\* skipped.)
StepsHonest ==
  \A k \in DOMAIN steps :
    /\ steps[k].status = "SUCCESS" => Happened(steps[k])
    /\ steps[k].status \in {"SKIPPED", "DRY_RUN"} /\ steps[k].action # REVIEW
         => ~MayHappen(steps[k])

\* A plan that succeeded took effect whole, a plan that was skipped or
\* rehearsed never will, and a partial success is one of something.
StatusHonest ==
  PlanOver =>
    /\ PlanStatus = "SUCCESS" =>
         \A i \in Positions : Happened([at |-> i, action |-> plan[i]])
    /\ PlanStatus \in {"SKIPPED", "DRY_RUN"} => effects \cup abandoned = {}
    /\ PlanStatus = "PARTIAL_SUCCESS" => policy.dryRun \/ effects # {}

Logged(k) == \E r \in rows : r.step = k

\* A result is returned only with all of its steps in the log, which at any
\* time holds the first of them without a gap.
LogComplete ==
  /\ pc = "returned" /\ policy.logs => \A k \in DOMAIN steps : Logged(k)
  /\ \A r \in rows : \A k \in 1..r.step : Logged(k)

\* The report can be believed: of a step, of the plan, and in the log.
ReportHonest == StepsHonest /\ StatusHonest /\ LogComplete

\* With a timeout on every action the execution ends, whatever the platform
\* does: calls that hang are given up, and repeated a bounded number of times.
Finishes ==
  Executable \subseteq policy.timed => <>(pc \in {"returned", "raised"})
-----------------------------------------------------------------------------
(* The inductive invariant of the proofs                                   *)

\* A call is made only of what the policy lets through.
CallsAdmitted ==
  pc \in {"calling", "waiting"} =>
    /\ policy.enabled /\ ~policy.dryRun
    /\ ~IsSkipped(plan[at]) /\ Called(plan[at]) \in Executable
    /\ pc = "waiting" => attempt < MaxAttempts

\* No call is made, or still awaited, of an action further on in the plan.
CallsBehind ==
  \A e \in effects \cup abandoned :
    e.at < at \/ (e.at = at /\ pc \in {"calling", "waiting"})

\* A step is of an action gone through, or of the review of one; only a dry run
\* rehearses; and every action gone through has its step.
StepsBehind ==
  /\ \A k \in DOMAIN steps :
       /\ steps[k].at < at
       /\ steps[k].status = "DRY_RUN" => policy.dryRun
  /\ \A i \in Positions :
       i < at => \E k \in DOMAIN steps :
                   steps[k].at = i /\ steps[k].action = plan[i]

\* A call that is over is reported as a success or as a failure.
CallsReported ==
  \A e \in effects \cup abandoned :
    e.at < at => \E k \in DOMAIN steps : /\ steps[k].at = e.at
                                         /\ steps[k].status \in
                                              {"SUCCESS", "FAILED"}

\* The log is written in order, after the plan.
LogBehind ==
  /\ pc \in {"planning", "calling", "waiting"} => saved = 0 /\ rows = {}
  /\ pc \in {"logging", "logged", "returned"} => PlanOver
  /\ pc = "returned" /\ policy.logs => saved = Len(steps)
  /\ pc = "logged" => saved < Len(steps) /\ Logged(saved + 1)
  /\ \A k \in 1..saved : Logged(k)
  /\ \A r \in rows : r.step <= saved + 1

IInv == /\ TypeOK /\ PolicyRespected /\ StepsHonest /\ CallsAdmitted
        /\ CallsBehind /\ StepsBehind /\ CallsReported /\ LogBehind
=============================================================================
