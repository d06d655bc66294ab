------------------------------ MODULE LoadTest ------------------------------
(***************************************************************************)
(* The load test over RabbitMQ: a runner publishes moderation tasks and    *)
(* counts results (rabbitmq_discord_bot_load_test_runner.py), workers take *)
(* tasks in batches, moderate a batch in one call, publish a result per    *)
(* task and acknowledge (rabbitmq_moderation_worker.py, moderate_batch in  *)
(* api_moderation_service.py).                                             *)
(*                                                                         *)
(* The broker gives a task that was not acknowledged out again when its    *)
(* worker's connection ends; the worker learns of that at its next use of  *)
(* the channel, and goes down.  It goes down, too, when it acknowledges    *)
(* what it has acknowledged before.  Nothing in a task tells a second      *)
(* delivery from a first.  The broker gives out the oldest task and puts   *)
(* one that comes back in its old place; results are read in any order.    *)
(*                                                                         *)
(* An action result is an INSERT without a key, and the database layer     *)
(* (connection.py) executes a statement again when its reply was lost.     *)
(***************************************************************************)
EXTENDS Naturals, Sequences, FiniteSets, SequencesExt

CONSTANTS TaskCount,  \* the tasks of one run, total_messages
          Consumers,
          BatchSize,
          MaxRepeats, \* attempts of one statement, reconnect_attempts
          MaxFaults   \* bound: crashes, failed steps, lost connections and
                      \* lost replies of the database

ASSUME LoadAssumption == /\ TaskCount \in Nat \ {0} /\ BatchSize \in Nat \ {0}
                         /\ MaxRepeats \in Nat \ {0} /\ MaxFaults \in Nat

ASSUME ConsumersFinite == IsFiniteSet(Consumers)

LoadTasks == 1 .. TaskCount  \* by their sequence
Kinds == {"ok", "failed"}
Attempts == 1 .. MaxRepeats

VARIABLES
  runner,      \* publishing, collecting or done
  published,   \* how many tasks it has published
  ready,       \* tasks in the task queue
  unacked,     \* tasks given to each worker and not acknowledged
  at,          \* where each worker is
  batch,       \* its deliveries
  next,        \* the index in them it works on
  connected,   \* whether the broker still has its connection
  stored,      \* how often a decision of each task was committed
  tries,       \* the attempt at its action result each worker makes
  actions,     \* how often each attempt at an action result of it was
  deliveries,  \* how often it was given out
  results,     \* how often a result of each kind was published for each task
  collected,   \* those the runner has read: their kind, task and copy
  faults

run == <<runner, published, collected>>
broker == <<ready, unacked, results>>
worker == <<at, batch, next, connected>>
effects == <<stored, tries, actions>>
loadVars == <<run, broker, worker, effects, deliveries, faults>>

None == [t \in LoadTasks |-> 0]

LoadInit ==
  /\ runner = "publishing" /\ published = 0
  /\ ready = {} /\ unacked = [w \in Consumers |-> {}]
  /\ at = [w \in Consumers |-> "down"]
  /\ batch = [w \in Consumers |-> <<>>] /\ next = [w \in Consumers |-> 1]
  /\ connected = [w \in Consumers |-> FALSE]
  /\ stored = None /\ deliveries = None
  /\ tries = [w \in Consumers |-> 1]
  /\ actions = [k \in Attempts |-> None]
  /\ results = [k \in Kinds |-> None] /\ collected = {}
  /\ faults = 0

-----------------------------------------------------------------------------
Goto(w, step) == at' = [at EXCEPT ![w] = step]
Turn(w, step) == Goto(w, step) /\ next' = [next EXCEPT ![w] = 1]
Fault == faults < MaxFaults /\ faults' = faults + 1
Task(w) == batch[w][next[w]]
Count(f, ts) == [t \in LoadTasks |-> f[t] + IF t \in ts THEN 1 ELSE 0]

\* Mutant: the ended worker leaves its connection open.
GoDownOpen(w) ==
  /\ Goto(w, "down")
  /\ batch' = [batch EXCEPT ![w] = <<>>] /\ next' = [next EXCEPT ![w] = 1]
  /\ connected' = [connected EXCEPT ![w] = FALSE]
  /\ UNCHANGED <<ready, unacked>>

\* The worker ends; the broker takes back what it has not acknowledged.
GoDown(w) ==
  /\ Goto(w, "down")
  /\ batch' = [batch EXCEPT ![w] = <<>>] /\ next' = [next EXCEPT ![w] = 1]
  /\ connected' = [connected EXCEPT ![w] = FALSE]
  /\ ready' = ready \cup unacked[w] /\ unacked' = [unacked EXCEPT ![w] = {}]

\* Go on with the next delivery at the same step, or with step after the last.
Advance(w, same, after) ==
  \/ /\ next[w] < Len(batch[w])
     /\ Goto(w, same) /\ next' = [next EXCEPT ![w] = @ + 1]
  \/ next[w] = Len(batch[w]) /\ Turn(w, after)

-----------------------------------------------------------------------------
(* The runner                                                              *)

Publish ==
  /\ runner = "publishing"
  /\ published' = published + 1
  /\ ready' = ready \cup {published'}
  /\ runner' = IF published' = TaskCount THEN "collecting" ELSE runner
  /\ UNCHANGED <<unacked, results, collected, worker, effects, deliveries,
                 faults>>

\* The results published so far, every copy for itself.
PublishedResults ==
  UNION {{p} \X (1 .. results[p[1]][p[2]]) : p \in Kinds \X LoadTasks}

\* Reading changes nothing for the workers, so it is one step: results of the
\* run are read until there are as many as tasks ...
Collect ==
  /\ runner = "collecting"
  /\ \E read \in SUBSET PublishedResults : /\ Cardinality(read) = TaskCount
                                           /\ collected' = read
  /\ runner' = "done"
  /\ UNCHANGED <<published, broker, worker, effects, deliveries, faults>>

\* ... or result_timeout_seconds passes.
Deadline ==
  /\ runner = "collecting" /\ Fault
  /\ \E read \in SUBSET PublishedResults : /\ Cardinality(read) < TaskCount
                                           /\ collected' = read
  /\ runner' = "done"
  /\ UNCHANGED <<published, broker, worker, effects, deliveries>>

\* Mutant: a failure counts as an answer.
AnyResults == collected

\* _build_result
OkResults == {r \in collected : r[1][1] = "ok"}
Missing == TaskCount - Cardinality({r[1][2] : r \in collected})
TargetsMet == Cardinality(OkResults) = TaskCount

-----------------------------------------------------------------------------
(* A worker: _run_forever and _collect_batch                               *)

Connect(w) ==
  /\ at[w] = "down"
  /\ Goto(w, "collect")
  /\ connected' = [connected EXCEPT ![w] = TRUE]
  /\ UNCHANGED <<run, broker, batch, next, effects, deliveries, faults>>

Receive(w) ==
  LET t == Min(ready) IN
  /\ at[w] = "collect" /\ connected[w]
  /\ ready # {} /\ Len(batch[w]) < BatchSize
  /\ ready' = ready \ {t}
  /\ unacked' = [unacked EXCEPT ![w] = @ \cup {t}]
  /\ batch' = [batch EXCEPT ![w] = Append(@, t)]
  /\ deliveries' = Count(deliveries, {t})
  /\ UNCHANGED <<run, results, at, next, connected, effects, faults>>

\* A batch is closed when it is full or the queue is empty.
CloseBatch(w) ==
  /\ at[w] = "collect" /\ connected[w] /\ batch[w] # <<>>
  /\ Len(batch[w]) = BatchSize \/ ready = {}
  /\ Goto(w, "moderate")
  /\ UNCHANGED <<run, broker, batch, next, connected, effects, deliveries,
                 faults>>

-----------------------------------------------------------------------------
(* moderate_batch: one commit per message, and the first error is the      *)
(* error of the whole batch                                                *)

Moderate(w) ==
  /\ at[w] = "moderate"
  /\ stored' = Count(stored, ToSet(batch[w]))
  /\ Turn(w, "submit")
  /\ UNCHANGED <<run, broker, batch, connected, tries, actions, deliveries,
                 faults>>

\* A payload the schema refuses, a policy, the database or a reply of it.
ModerateFails(w) ==
  /\ at[w] = "moderate" /\ Fault
  /\ \E k \in 0 .. Len(batch[w]) :
       stored' = Count(stored, {batch[w][i] : i \in 1 .. k})
  /\ Turn(w, "fail")
  /\ UNCHANGED <<run, broker, batch, connected, tries, actions, deliveries>>

-----------------------------------------------------------------------------
(* _process_batch after the responses                                      *)

Inserted(w) == [actions EXCEPT ![tries[w]][Task(w)] = @ + 1]
Try(w, k) == tries' = [tries EXCEPT ![w] = k]

\* The action result of one response is inserted, unless its decision is to
\* ignore the message: then nothing is tried.
Submit(w) ==
  /\ at[w] = "submit"
  /\ \/ actions' = Inserted(w)
     \/ tries[w] = 1 /\ UNCHANGED actions
  /\ Try(w, 1)
  /\ Goto(w, "answer")
  /\ UNCHANGED <<run, broker, batch, next, connected, stored, deliveries,
                 faults>>

\* The INSERT may have been committed or not when its connection breaks.  It
\* is executed again, or the attempts are used up and the batch fails.
ReplyLost(w) ==
  /\ at[w] = "submit" /\ Fault
  /\ actions' \in {actions, Inserted(w)}
  /\ \/ /\ tries[w] < MaxRepeats
        /\ Try(w, tries[w] + 1)
        /\ UNCHANGED <<at, next>>
     \/ tries[w] = MaxRepeats /\ Try(w, 1) /\ Turn(w, "fail")
  /\ UNCHANGED <<run, broker, batch, connected, stored, deliveries>>

\* Mutant: the batch is tried again from its start.
SubmitRetries(w) ==
  /\ at[w] = "submit" /\ Fault
  /\ Turn(w, "moderate") /\ Try(w, 1)
  /\ UNCHANGED <<run, broker, batch, connected, stored, actions, deliveries>>

\* Its event is not found, or the statement fails for good: every task of the
\* batch will get a failure, those already answered as well.
SubmitFails(w) ==
  /\ at[w] = "submit" /\ Fault
  /\ Turn(w, "fail") /\ Try(w, 1)
  /\ UNCHANGED <<run, broker, batch, connected, stored, actions, deliveries>>

Send(w, kind) == results' = [results EXCEPT ![kind][Task(w)] = @ + 1]

\* The response goes to the runner, and it is the next one's turn.
Answer(w) ==
  /\ at[w] = "answer" /\ connected[w]
  /\ Send(w, "ok")
  /\ Advance(w, "submit", "ack")
  /\ UNCHANGED <<run, ready, unacked, batch, connected, effects, deliveries,
                 faults>>

\* Mutant: a task is acknowledged as soon as it is moderated.
AckFirst(w) ==
  /\ at[w] = "submit" /\ connected[w] /\ Task(w) \in unacked[w]
  /\ unacked' = [unacked EXCEPT ![w] = @ \ {Task(w)}]
  /\ UNCHANGED <<run, ready, results, worker, effects, deliveries, faults>>

\* Deliveries are acknowledged once the whole batch is answered.
Ack(w) ==
  /\ at[w] = "ack" /\ connected[w]
  /\ unacked' = [unacked EXCEPT ![w] = @ \ {Task(w)}]
  /\ Advance(w, "ack", "metric")
  /\ UNCHANGED <<run, ready, results, batch, connected, effects, deliveries,
                 faults>>

Idle(w) ==
  /\ Turn(w, "collect")
  /\ batch' = [batch EXCEPT ![w] = <<>>]

\* The metric is part of what is tried: when it cannot be written the batch
\* fails although all of it is answered and acknowledged.
Metric(w) ==
  /\ at[w] = "metric"
  /\ \/ Idle(w) /\ UNCHANGED faults
     \/ Fault /\ Turn(w, "fail") /\ UNCHANGED batch
  /\ UNCHANGED <<run, broker, connected, effects, deliveries>>

\* The error path: a failure for each delivery, acknowledged one by one.
Fail(w) ==
  /\ at[w] = "fail" /\ connected[w]
  /\ Send(w, "failed")
  /\ Goto(w, "failAck")
  /\ UNCHANGED <<run, ready, unacked, batch, next, connected, effects,
                 deliveries, faults>>

\* To acknowledge a delivery once more, after its metric failed, closes the
\* channel, and with it the worker.
FailAck(w) ==
  /\ at[w] = "failAck" /\ connected[w]
  /\ \/ /\ Task(w) \in unacked[w]
        /\ unacked' = [unacked EXCEPT ![w] = @ \ {Task(w)}]
        /\ Advance(w, "fail", "failMetric")
        /\ UNCHANGED <<ready, batch, connected>>
     \/ Task(w) \notin unacked[w] /\ GoDown(w)
  /\ UNCHANGED <<run, results, effects, deliveries, faults>>

FailMetric(w) ==
  /\ at[w] = "failMetric"
  /\ \/ Idle(w) /\ UNCHANGED <<ready, unacked, connected, faults>>
     \/ Fault /\ GoDown(w)
  /\ UNCHANGED <<run, results, effects, deliveries>>

-----------------------------------------------------------------------------
(* Faults                                                                  *)

\* The broker drops a connection, for a missed heartbeat say, while the worker
\* goes on with its batch.
Disconnect(w) ==
  /\ connected[w] /\ Fault
  /\ connected' = [connected EXCEPT ![w] = FALSE]
  /\ ready' = ready \cup unacked[w] /\ unacked' = [unacked EXCEPT ![w] = {}]
  /\ UNCHANGED <<run, results, at, batch, next, effects, deliveries>>

\* The first use of a channel that is gone raises, and raises again in the
\* error path.
Stumble(w) ==
  /\ ~connected[w]
  /\ at[w] \in {"collect", "answer", "ack", "fail", "failAck"}
  /\ GoDown(w)
  /\ UNCHANGED <<run, results, effects, deliveries, faults>>

Crash(w) ==
  /\ at[w] # "down" /\ Fault
  /\ GoDown(w) /\ Try(w, 1)
  /\ UNCHANGED <<run, results, stored, actions, deliveries>>

-----------------------------------------------------------------------------
Serve(w) == \/ Connect(w) \/ CloseBatch(w) \/ Receive(w)
            \/ Moderate(w) \/ Submit(w) \/ Answer(w)
            \/ Ack(w) \/ Metric(w)
            \/ Fail(w) \/ FailAck(w) \/ FailMetric(w) \/ Stumble(w)

LoadNext ==
  \/ Publish \/ Collect \/ Deadline
  \/ \E w \in Consumers : \/ Serve(w) \/ ModerateFails(w)
                          \/ ReplyLost(w) \/ SubmitFails(w)
                          \/ Disconnect(w) \/ Crash(w)

LoadSpec == LoadInit /\ [][LoadNext]_loadVars

\* Workers are started again when they end, and their steps end.
FairLoadSpec ==
  /\ LoadSpec
  /\ WF_loadVars(Publish) /\ WF_loadVars(Collect)
  /\ \A w \in Consumers : WF_loadVars(Serve(w))

-----------------------------------------------------------------------------
Times(t, kind) == results[kind][t]
Gone == 1 .. published \ (ready \cup UNION {unacked[w] : w \in Consumers})

\* A task leaves the broker only after a result of it was published, wherever
\* a worker stopped.
NoTaskLost == \A t \in Gone : Times(t, "ok") + Times(t, "failed") > 0

\* What was answered ok was decided and stored, whatever failed around it.
OkIsStored == \A t \in LoadTasks : Times(t, "ok") > 0 => stored[t] > 0

\* A task is gone only with its answer, and an ok answer has its decision.
TasksAccounted == NoTaskLost /\ OkIsStored

\* Only a second delivery repeats effects, or an attempt that follows a lost
\* reply: each delivery commits one decision, one action result in each attempt
\* at it, and answers ok at most once.
EffectsPerDelivery ==
  \A t \in LoadTasks : /\ stored[t] <= deliveries[t]
                       /\ \A k \in Attempts : actions[k][t] <= stored[t]
                       /\ Times(t, "ok") <= deliveries[t]

\* The runner's verdict can be trusted as long as no task was given out twice:
\* then met targets mean that every task was decided and answered.
TargetsTrusted ==
  runner = "done" /\ TargetsMet /\ (\A t \in LoadTasks : deliveries[t] <= 1)
    => Missing = 0 /\ \A t \in LoadTasks : stored[t] = 1

\* No task waits in the broker for ever, through crashes, lost connections and
\* failed batches, as long as workers are started again.
EveryTaskLeaves == \A t \in LoadTasks : t \in ready ~> t \in Gone
=============================================================================
