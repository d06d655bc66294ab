# Muxivo Core in TLA+

A verification development for Muxivo Core, the moderation engine and FastAPI
service under `src/src/`. It holds TLA+ modules of the parts of the service
whose correctness depends on order, concurrency or failure, the TLC
configurations that check them on small instances, and TLAPS proofs of the
properties that matter most.

## 1. The system

Muxivo Core is one asyncio process. A platform adapter sends a message; routers
put it on an in-process request queue; a few worker tasks call
`ApiModerationService`, which preprocesses the text, runs local classifiers in
threads, merges the signals into a risk score, selects an action and writes the
decision to PostgreSQL over one shared connection. Later requests attach
feedback and action results to the stored event. Media requests bypass the
queue: they download, validate, hash and analyse attachments and then call the
same service. A separate load-test worker consumes RabbitMQ batches, and scripts
rebuild the files the classifier is trained on.

| Component | State | Operations | Talks to |
| --- | --- | --- | --- |
| Request queue (`application/moderation_request_queue.py`) | bounded queue, unfinished count, worker tasks, `accepting`, futures | start, stop, moderate, worker loop, retry | routers, `ApiModerationService` |
| Task queue and worker (`infrastructure/queue/`) | priority queue, closed flag, dead letters, worker tasks | publish, consume, task_done, join, close, dead_letter, start, stop | handlers in coroutines or threads |
| Database connection (`infrastructure/database/connection.py`) | one connection, one lock | connect, close, transaction, execute/fetch with retry | PostgreSQL, every repository |
| Moderation lineage (`application/api_moderation_service.py`, the repositories) | events, decisions, feedback, action logs | moderate, moderate_batch, feedback, action result, purge | database connection, collector |
| Media policy (`effective_media_policy_resolver.py`, its repository) | active revision, audit rows, cache | resolve, save, reset, invalidate | database connection |
| Policy resolver (`modules/policy/policy_resolver.py`) | none (stored policies, YAML) | resolve by scope | policy repository |
| Decision and rules (`modules/decision`, `modules/rules`) | none (pure) | evaluate, decide, select, build plan | policies |
| Action executor (`modules/action/`) | execution logs | execute a plan with retries and timeouts | platform adapter, log repository |
| Media moderation (`application/media_moderation_service.py`) | per-request byte budget, duplicates | ingest, analyse, persist | downloader, OCR, YOLO, service |
| Inference providers (`infrastructure/media`, ruBERT) | semaphore, running threads | analyze | thread pool |
| Downloader (`infrastructure/media/http_media_downloader.py`) | redirect count, bytes read | download | CDN |
| Phishing links (`modules/phishing`) | none | build signals | reputation providers |
| Rate limiter (`infrastructure/api/local_rate_limiter.py`) | per-key windows with LRU eviction | allow | middleware |
| Lifecycle and health (`presentation/api/`) | readiness flags | startup, shutdown, health | all of the above |
| Load-test runner and worker (`modules/load_testing/`) | counts, deliveries, correlation table | publish, collect, moderate, publish results, acknowledge | RabbitMQ, service |
| Preprocessing (`modules/preprocessing/`) | the rules loaded at start-up | load, normalise, extract, match | service, rule policies |
| Training and curation (`training/curation/`, `scripts/training/`) | train and validation files with their backups | relabel, gather, merge, replace, audit, train | files |
| Dataset export, evaluation scripts, settings, logging, contracts | none, or files | transformations | - |

## 2. What is hard

* **Interleaving on one loop.** The code between two awaits is atomic and every
  await is a point where anything else may run. The request queue tests
  capacity and puts without an await in between; the database connection
  reads the shared connection under its lock, releases the lock and uses what
  it read under a second acquisition; the policy resolver saves and then reads
  again.
* **Cancellation.** Callers are cancelled by client disconnects and workers by
  shutdown, at any await. An item in the hands of a cancelled worker must still
  be counted as done, or shutdown waits for nothing.
* **Timeouts that do not stop the work.** A drain that expires, a platform call
  or an inference that times out: what timed out may still take effect.
* **Retries of what was already done.** A statement whose acknowledgement was
  lost, a moderation call that failed after it had stored the decision, a
  redelivered RabbitMQ message.
* **Full queues.** A worker that re-publishes into the queue it consumes can
  wait for room that only workers could make.
* **Stale reads.** Cached policies, latched readiness flags, a connection that
  was closed by another coroutine's error handler.
* **Several stores, no transaction.** The event of a message, then its
  attachments one by one; results, then their acknowledgement; one data file,
  then the other. A crash between two of them leaves a state nobody wrote down.
* **Rules written twice.** Start-up checks rules with an order of thresholds
  that the rule engine repeats; a query compares platforms and the ranking
  after it does not; words are matched as typed and again with separators
  removed.

## 3. What makes each part correct

| Component | What must hold |
| --- | --- |
| Request queue | nothing accepted is lost, doubled or evaluated too often; `join()` counts exactly; `stop()` returns, and strands nobody unless its drain expired |
| Task queue | every task has one fate; while the queue is open every task is handled or dead-lettered |
| Database connection | one connection; what was reported done is durable; no effect beyond the retries; nobody waits for the lock for ever |
| Moderation lineage | what is stored hangs together; one feedback per key; what was acknowledged stays until its retention passes |
| Media policy | the audit tells every change; no lost update; no cache answers with an outdated policy |
| Decision and rules | harm is named; more evidence never lowers the risk; the modes keep their promises |
| Action executor | the action policy is respected; steps, status and log tell what happened on the platform |
| Policy resolver | the most specific enabled policy is used, whatever is saved meanwhile |
| Media moderation, providers, downloader | limits on bytes and inferences hold; a result belongs to its image; where media is required nothing is skipped; what is answered is stored |
| Preprocessing | a listed word is found however it is written; links and activity are accounted for; rules that start-up let pass survive the rule engine |
| Training and curation | what is held out stays out of training; no row is lost; files are not replaced by what the audit refuses |
| Rate limiter | no key is allowed more than its budget in a window, unless it was forgotten; none is refused within it |
| Lifecycle | the queue is stopped before the connection; readiness tells the truth |
| Load test | every task is answered before it is gone; only redelivery and repeated statements repeat effects; the runner's verdict can be trusted |

## 4. The modules

| Module | Models | Composed with |
| --- | --- | --- |
| `RequestService` | abstract: what `moderate()` of the request queue promises | implemented by `ModerationRequestQueue` |
| `ModerationRequestQueue` | `application/moderation_request_queue.py` | `RequestService` by a refinement mapping |
| `TaskQueue` | `infrastructure/queue/moderation_queue.py` and `queue_worker.py` together | - |
| `DatabaseConnection` | `infrastructure/database/connection.py` | - |
| `MediaPolicy` | the media policy repository, the resolver's cache, the routes that use them | the retries of the connection, inlined |
| `ModerationLineage` | persistence of the API service and its two repositories | retries of the connection and of the request queue, inlined |
| `ActionExecutor` | the executor and its log | the retries of the connection, inlined |
| `ModerationDecision` | `_moderate` up to the decision, `modules/rules`, `modules/decision`, `modules/phishing` | - |
| `MediaModeration` | `application/media_moderation_service.py` with both providers, the thread pool and the media repositories | - |
| `LoadTest` | the load-test runner, its workers, `moderate_batch`, and the broker as they use it (external) | the retries of the connection, inlined |
| `DatasetCuration` | `curate_sensitive_topics.py`, `complete_dataset_gaps.py`, the merge and the audit | extends `SensitiveTopics` |
| `ContentRules` | the stages an input passes, from the limiter to the rules that match | extends `PreprocessingRules`, `SensitiveTopics`; instantiates `MediaRules`, `PolicyResolution`, `RateLimiter` |
| `TextRules` | normal form, profanity and features of a text | extended by `PreprocessingRules` |
| `PreprocessingRules` | rule settings, their check at start-up, and the rules | extended by `ContentRules` |
| `SensitiveTopics` | the annotation of a training text | extended by `ContentRules`, `DatasetCuration` |
| `MediaRules` | YOLO's candidates and suppression, the image policy and its signals | instantiated by `ContentRules` |
| `PolicyResolution` | `modules/policy/policy_resolver.py` over its repository | instantiated by `ContentRules` |
| `RateLimiter` | `infrastructure/api/local_rate_limiter.py` | instantiated by `ContentRules` |

`M` has its constants for TLC in `MCM` and its proofs in `MProofs`.
`PROJECT.json` maps every definition to the lines it stands for.

**How the state corresponds.** A coroutine is a program counter with a value
for each of its awaits; one action is the code from one await to the next, with
everything it assigns, since asyncio interrupts it nowhere else. A local
variable that is used after an await is a variable (`held`, `mine`, `read`,
`seen`). A statement sent to PostgreSQL is one atomic step of the server, and
its reply another: between the two the connection may break. Variables
commented as history occur in properties and in no guard, except where one also
counts against a bound (`starts`). The operators marked `Mutant:` are used by no
action: each replaces one definition in a run that must fail, to show that the
property it belongs to depends on the code.

### ModerationRequestQueue

`Accept`, `Reject` are `moderate()` up to its await of the future, and
`CallerCancelled` is a client that goes away. `Take`, `CallSucceeds`,
`CallFails`, `GiveUp`, `Retry` are the worker loop with `_moderate_with_retry`.
`Lifecycle` holds `start()` and the steps of `stop()`: refuse, wait for
`join()` until the timeout, cancel and gather the workers. `future` is the
state of a caller's future, `unfinished` the counter inside `asyncio.Queue`.
The abstract `RequestService` knows `future` as `status` and `calls` as
`evaluations`, and nothing of queues and workers.

### TaskQueue

Producers wait for room (`blocked`), workers take the most urgent task, and a
failed one sleeps and is published again by its worker, which may have to wait
for room as well. `lost` collects the tasks nobody has any more. Among tasks of
equal priority the order is open; in the code it is first in, first out.

### DatabaseConnection

Every operation goes through `Connect` (taking the lock, reusing or dialling),
releases the lock, and takes it again in `Use`; `Recover` is the handling of an
`OperationalError`, with `close()` of whatever is shared by then. `Cancel` may
hit any caller anywhere, `Break` is the server or the network. A statement and
a transaction are one write each; a reply may be lost after it took effect.

### MediaPolicy

`Get`/`GetActive`/`Resolve` are a resolution (the read, and after the await the
cache), `Edit`/`Write`/`ReplyLost`/`Answer` a save or reset quoting the revision
read before. `row` is the guild's row, `audit` its audit table.

### ModerationLineage

`Decide` and `Persist` are the two ends of `_moderate`: nothing is stored until
the second, which is one transaction that purges what has expired, upserts the
event and inserts the decision. `Find`/`Save`/`Acknowledge` are feedback and
action results. `Fail` and `Disconnect` are failures, retried by the request
queue and by the connection respectively. Two decisions of the same
microsecond are left out.

### ActionExecutor

The actions of a plan are tried in order under an action policy; a platform
call is `Call`, `TakeEffect` (the platform did it) and `Answer`, `Raise` or
`TimeOut`; what was given up may still `Land` later. `Insert`/`Acknowledge`
write the log. An execution shares no state with another, so one is modelled.

### ModerationDecision

The evidence is gathered in the order of `_moderate`: matches of preprocessing
rules, the classifier (or `Unavailable`), links, then media; `Evaluate` and
`Decide` apply the two engines, which are operators on the gathered sequence.
Policies are arbitrary members of the types the contracts validate, as a scope
may store any payload. Risks and confidences are fixed-point numbers with two
decimals, rounded down after each multiplication, where the code has floats.
Where the code sorts a Python set by a key that some elements share, the outcome
is any of the possible ones. `Reject` is the `ValidationError` that a negative
severity factor or a disagreement penalty above 1 causes: both pass the
policy's own validation.

Some facts a reader of the code may not expect, all in the model: the
confidence of an evaluation is the largest of all signals that passed the
filter, SAFE included; links are looked up before images are analysed, so an
image that says SCAM triggers no lookup; the QWEN source is known to both
engines, and nothing in the repository produces it; the shipped bundle of
DELETE_WARN holds WARN alone; KICK is missing from the shipped priorities, so
the passive mode does not cap it. An invalid `max_action` of the passive mode,
which raises, is left out.

### MediaModeration

A request fetches its attachments in order (`Ingest`), runs each distinct image
through both providers (`Provide`), and has one decision made that commits the
event before the attachments and their results are stored one statement at a
time (`Finish`). A provider call is a place in `line`, a permit in `inside` and
a job in `backlog` or `threads`; a timeout gives the permit back while a thread
that has begun runs on (`EndThread`). The pool is the one the whole process
shares, so a name lookup waits for an inference. An image is its content, a
result the number of the attachment whose inference produced it: what is asked
is whose result stands beside whose image. What a decision has still to store
is a set of statements, `todo`, and `Before` is the order the loop of
`_persist_analyses` executes them in. `Crash` ends the process, retention may
pass at any time, and a purge runs with any decision.

### LoadTest

`ready`, `unacked`, `results` are the broker's, `runner`, `published`,
`collected` the runner's, the rest a worker's: it collects a batch, moderates
it, submits an action result and publishes a result for each task, and
acknowledges. `Submit` is the INSERT of an action result that is answered,
`ReplyLost` one whose connection breaks, committed or not: the database layer
executes it again until `MaxRepeats`, and as the statement has no key each
attempt may leave a row. `actions` counts the rows by attempt. A lost
connection gives its tasks back at once; the worker learns of it when it next
uses the channel. Published results are counted for each kind and task, and the
runner's `collected` names the copies it has taken. When a step after the
moderation fails, each task of the batch gets a failure result, also one that
was answered ok.

### DatasetCuration

A file is a set of rows, and a text stands for all that normalise alike. One run
goes through the phases of `curate` or of `complete`; the merge backs both files
up and replaces one after the other, and the audit comes last. A run may die
between any two steps and another tool may be next.

### ContentRules and its pure modules

`TextRules`, `PreprocessingRules`, `SensitiveTopics`, `MediaRules`,
`PolicyResolution` and `RateLimiter` are operators without state. `ContentRules`
takes one input through the stages of the code that use them: a rule file and a
message, an image, a training text, the lookup of a policy, or requests that
arrive one after the other. Its properties are reference definitions: what is
visible in a text to a reader, which policies are meant for a message, how often
a key was admitted. A character stands for itself, a link or a mention for one
character; ratios are in thousandths, rounded down.

## 5. The runs

| Run | Result | Distinct states | What it asks |
| --- | --- | --- | --- |
| `request_queue` | holds | 93,919 | three calls, two workers, two slots, two attempts, one restart |
| `task_queue` | holds | 47,080 | three tasks of two priorities, two workers, one slot, two attempts, one restart |
| `database_connection` | holds | 121,785 | a statement, a transaction, a probe and a shutdown, two faults |
| `media_policy` | holds | 116,299 | three administrators on two processes, two lost replies |
| `lineage` | holds | 2,896,943 | two moderations of one message, two feedbacks with one key, one action result, two faults |
| `action_executor` | holds | 807,474 | six plans under all of 72 policies, three attempts per call, two faults |
| `decision` | holds | 440,748 | up to five signals of six labels, two rule policies, four decision policies in three modes, three kinds of author |
| `media_moderation` | holds | 199,290 | one request with up to two images of three attachments, or two requests for one message; three configurations, two policies, one fault |
| `media_retention` | violated | 1,000 or so | does OCR text expire with the retention of its attachment? |
| `load_test` | holds | 582,809 | two tasks, two workers, batches of two, two attempts at a statement, two faults |
| `dataset_curation` | holds | 1,312,986 | two runs of either tool, two external rows, a crash anywhere |
| `content_rules` | holds | 133,325 | all inputs of bounded sets: messages, images, texts, stores of up to three policies, six requests |

Run one with `tlc -workers 2 -config MCMediaPolicy.cfg MCMediaPolicy` in this
directory. Each takes less than three minutes on two cores. (A violated run
stops at its counterexample, so its number of states varies.)

**What the passing runs show.**

(Some properties are conjunctions of named parts, given here in parentheses.)

* Request queue: `Accounted`: the counter behind `join()` is exact through
  retries, cancellations and restarts (`UnfinishedExact`); an item is in one
  place (`OnePlaceOnly`); a waiting caller is waiting for something
  (`WaitersAreServed`); a stop whose drain completed answers everybody
  (`CleanStopLeavesNobodyWaiting`). Callers see nothing but `RequestService`
  (`KeepsPromise`); accepted calls are answered and `stop()` returns
  (`NobodyHangs`).
* Task queue: `Accounted`: the same counter, one fate for each task (`OneFate`),
  dead letters only after all attempts (`DeadLettersExhausted`). Losses occur
  only at shutdown (`OnlyShutdownLoses`), and while the queue is open every
  queued task settles (`EveryTaskSettles`), with one exception that the
  property names: `Stalled`, see section 7.
* Database connection: `SharedSafely`: one connection at most
  (`OneConnection`); what was reported done is durable, and no statement slips
  into another caller's transaction (`DurableOnSuccess`); at most one effect per
  attempt (`EffectsBounded`). No transaction outlives its caller
  (`NoAbandonedTransaction`); every call ends (`EveryCallEnds`).
* Media policy: the audit records every change in order, and the policy of the
  row is that of the last save; the record of a reset names none, and follows
  that of the save it withdrew (`AuditComplete`); what is shown was in force
  since the request began, also when another process wrote (`FreshResponse`); a
  write replaces exactly what its author was shown (`NoLostUpdate`).
* Lineage: references lead to stored rows of the same message (`LineageSound`).
  `FeedbackKept`: a feedback key is stored once (`OneFeedbackPerKey`); what was
  acknowledged is kept while its event is (`AcknowledgedKept`); a response is
  backed by what was stored (`ResponseBacked`); feedback about a stored event
  finds it (`FeedbackFound`).
* Action executor: nothing reaches the platform against the action policy, dry
  runs and reviews included (`PolicyRespected`). `ReportHonest`: what is
  reported as SUCCESS happened, and what is reported as SKIPPED or DRY_RUN never
  will (`StepsHonest`, of the plan `StatusHonest`); the log has no gap and is
  complete (`LogComplete`). With timeouts an execution ends (`Finishes`).
* Decision: `JudgementSound`: harm is named (`HarmNamed`), and the passive mode
  keeps to its cap, up to the two exceptions the property names
  (`PassiveCapped`). Evidence never lowers the risk unless a model is heard
  (`EvidenceNeverLowersRisk`); the strict mode is softer in one case only
  (`Consistent`).
* Media moderation: the images kept fit into the byte budget (`WithinBudget`); a
  result stands beside the image it was inferred from, whatever ends late
  (`ResultsBelong`); where media is required, nothing is skipped
  (`RequiredIsComplete`); what an answer tells was stored before it, and no
  result is stored without its attachment (`RecordsWhole`); permits and pool
  agree through timeouts (`PermitsAccounted`); every request ends
  (`EveryRequestEnds`).
* Load test: a task is gone only with its answer, and an ok answer has its
  decision (`TasksAccounted`); only a second delivery repeats effects, and of
  action results also a statement executed again after a lost reply: each
  attempt inserts one at most (`EffectsPerDelivery`); without redelivery, met
  targets mean that every task was decided and answered (`TargetsTrusted`); no
  task stays in the broker (`EveryTaskLeaves`).
* Dataset curation: a merge keeps what the rows said (`MergeKeeps`); `curate`
  leaves nothing for its audit to refuse (`CurateIsAccepted`); held-out texts
  stay out of train, also between the two replacements (`HeldOutStaysOut`); a
  row is in the files or in their backup (`NothingLost`).
* Content rules: listed words that a reader sees are found, in capitals, with
  invisible characters inside, after a mention and spelled out (`WordsFound`),
  links are neither lost nor reported without reason, and the counts of a user's
  activity agree (`MessageRead`); no signal of a rule that start-up let pass is
  filtered out later under the same policy (`EvidenceSurvives`); a detection is
  shown or was beaten (`DetectionsAccounted`); HATE is kept for protected groups
  (`TopicsJudged`); a request is refused just when its key was admitted as often
  as the limit says, counting what an LRU memory must remember (`RatesKept`); a
  message gets the narrowest policy meant for it, and the API shows what holds
  in a channel (`PolicyFits`).

**What the violated run shows.** `media_retention`: the documentation says that
redacted OCR material follows the configured retention period. An attachment is
stored with a retention of its own (24 hours by default) and nothing deletes by
it: the one purge there is deletes events past theirs (90 days by default).

**Bounds, and why they are enough.** Two workers and three requests let one
worker hold an item, another be idle or retry, and one item wait; two slots make
the queue full, and two attempts give a retry that succeeds and one that is the
last. A restart (`MaxStarts` 2) is needed to see what a stop leaves behind. For
the connection, each kind of operation occurs once, and two faults break both
attempts of a retry, or the connection one caller has just made while another
one recovers. Two processes are the fewest with different caches, and three
administrators the fewest of whom two share one. Two moderations of one message
suffice for decisions stored out of order, two feedbacks for a key used twice.
Three attempts in the executor are the first, a middle and the last one. Two
matches, a classification, a link and a media signal hold every relation the
rules distinguish: repeated, stronger, contradicting, SAFE beside harm, URL
beside SCAM, two models; the second rule policy has no priorities for most
labels, a weight for SAFE, a negative factor and a penalty above 1. One slot and
two workers are the fewest with which the task queue stalls. An image of each of
two sizes and a budget of one of each make the second large one exceed it;
`Loads` has a third attachment turned away, and two requests are the fewest that
share a provider, a pool and a message; the pools of one and two threads are the
one in which a lookup waits for an inference and the one in which a late thread
runs beside the next. Two tasks in batches of two, with two workers, give a
batch whose second task fails and a redelivery to another worker; of faults, one
loses a connection and one loses what was done again, or both lose the reply to
an INSERT and use up its two attempts. Two runs of the curation
are one that dies and one that finds what it left. The words of `content_rules`
have three letters (the shortest that is matched), gaps of up to two characters
and text before and after; six requests of three keys are the fewest that fill a
limit of two, forget it and fill it again. Symmetry is
used in runs without liveness only, over sets whose members no constant tells
apart.

Terminating is legal in all of these (requests and faults are finite in number),
so the configurations do not check for deadlock; where something must go on, a
liveness property says so.

**Fairness, and why the code justifies it.**

* `StopFairness` (request queue): the event loop resumes what is runnable,
  cancelled tasks run, and the drain's timer fires. That service calls end is no
  part of it: it is `ServiceFairness`, the hypothesis of `AcceptedIsAnswered`
  alone, which the timeouts of database, models and HTTP clients give.
* `TaskQueue!FairSpec`: handlers end, the loop resumes producers and workers,
  and the pool is started. Nobody has to publish or to stop.
* `DatabaseConnection!FairSpec`: strong fairness for each caller, since the lock
  is taken and released again and again while it waits: `asyncio.Lock` is first
  in, first out. The server answers or fails.
* `ActionExecutor!FairSpec`: the loop resumes the executor and statements end.
  The platform owes nothing; hence the hypothesis of `Finishes`.
* `MediaModeration!FairMediaSpec`: each await of a request ends (network,
  database, inference or its timeout), semaphores wake their waiters in order,
  and threads end. It is no hypothesis that an inference ends before its
  timeout.
* `LoadTest!FairLoadSpec`: the runner publishes and collects, and workers take
  their next step and are started again when they have gone down, as a
  supervisor does; faults are bounded, or nothing would ever be settled.
* The other specifications state no liveness and assume no fairness.

## 6. The proofs

Eleven components are proved about, in eight modules, for all values of the
constants (any number of callers, workers, faults and attempts) under the
assumptions that the modules name, which TLC evaluates in the runs. `tlapm
MProofs.tla` checks them: 17,920 obligations, all proved. Each follows one
argument: an invariant `IInv`, in which the property is a part, holds initially
and is kept by every action.

* **ModerationRequestQueueProofs.** `IInv` adds to the properties
  `AttemptsCounted` (how far a held item's calls are; without it neither the
  bound on evaluations nor that an answer follows one could be derived) and
  `DrainLeavesNothing` (a queue that accepts nothing and whose drain completed
  is empty; this is what turns the exact counter into
  `CleanStopLeavesNobodyWaiting`). That the counter is zero exactly when queue
  and hands are empty rests on facts about the cardinality of the busy workers.
  `Refinement` shows that every step is a step of `RequestService` or leaves
  `future` and `calls` alone.
* **DatabaseConnectionProofs.** `LockHeld` (the lock is held exactly by the
  caller inside it), `DialsAlone` and `OnItsPath` give `OneConnection`;
  `TransactionOwned` (an open transaction belongs to the caller in it, on the
  connection that is `mine`) gives `NoAbandonedTransaction`; `AnsweredDurable`
  gives `DurableOnSuccess`, and `EffectLeft` (the attempt under way has not had
  its effect yet) makes `EffectsBounded` inductive.
* **MediaProofs, MediaPolicy.** `AuditComplete` makes the audit table a history
  of the row; `AllGenuine` says that every snapshot in a cache, in a reader's
  hands or in an answer is one of that history, `FreshRead` that a read is not
  older than its request. `FreshResponse` follows, and, with `WritersChose`, so
  does the action property `NoLostUpdate`.
* **ModerationLineageProofs.** `OwnEvents` and `HeldEvents` (an event has one
  message, and one that a request holds is of its own message, or gone),
  `HeldDecisions` (feedback about to be inserted hangs together as feedback
  inserted does), `DecisionsMade` and `StoredBacked` (what will be answered is
  true already) carry `LineageSound` and `ResponseBacked` through purges;
  `SavedKept` is `AcknowledgedKept` for requests whose INSERT has taken effect
  and whose reply has not arrived.
* **ActionExecutorProofs.** `CallsAdmitted` gives `PolicyRespected`;
  `CallsBehind` and `StepsBehind` (what is done is of earlier positions) and
  `CallsReported` (a call that is over has a step that says SUCCESS or FAILED)
  give `StepsHonest`; `StatusHonest` and `LogComplete` are derived from these
  and `LogBehind`.
* **ModerationDecisionProofs.** Evidence is only gathered and then evaluated
  once, so `TypeOK` is inductive; the work is in lemmas about the engines.
  `PrimaryNamed`: whatever may be foremost, the resolvers name a harmful label
  of the evidence if there is one. `SelectionCapped`, `PlanCapped`: the cap
  bounds the rank of everything in the plan. `StrictNotSofter` is not about
  behaviours at all: for every evaluation and every policy whose strict mode
  does not scale risks down, the strict action is as grave as the active one or
  is REVIEW instead of WARN; that thresholds may be out of order is covered.
  With the types it gives `Consistent`. `EvidenceNeverLowersRisk`, an action
  property, takes a step of evidence apart: what the filter keeps of the longer
  list continues what it kept (`AmongMore`); every term of the raw risk is
  therefore as great as it was, and so is their sum (`SumsMonotone`, after
  `SumsSplit`: a sum may be taken from any of its elements on); the agreement
  of the models is what it was unless they are heard; and what a user's good
  standing takes off leaves the same least risk. As no induction theorem can be
  used, a fact about a sum over a finite set is proved for a least set that
  misses it (`LeastMissing`, by the well-foundedness of strict inclusion).

* **WorkerProofs, TaskQueue.** `HeldOnce` and `Apart` (the eight places of
  tasks, pairwise apart) are `OneFate` in a form that steps disturb one line
  of; `Untried` (a task nobody took has all its attempts) makes
  `DeadLettersExhausted` inductive; `StopCloses` (cancelling means closed, and
  busy workers are only cancelled when the drain expired) gives
  `OnlyShutdownLoses`. That a drain which saw zero interrupts nobody is
  `UnfinishedExact` again, by the cardinality of the busy workers.
* **WorkerProofs, LoadTest.** `LoadIInv` says where a task and its answer are:
  `GivenOnce` (the broker has given a task to one connection at most),
  `WorkerSound` (a batch has a task once; what a worker acknowledges is
  answered, and what it answers is decided) and `EffectsCounted`, which makes
  the bound inductive: for each task, the decisions stored and the deliveries
  still to be decided are no more than its deliveries, and the answers and,
  attempt by attempt, the action results, with those still to come, no more than
  the decisions (attempts are counted from one again, `FirstTries`).
  `TasksAccounted` and `EffectsPerDelivery` follow, and with `ReadWasPublished`
  so does `TargetsTrusted`, by counting. Assumed: the consumers are finitely
  many.
* **MediaProofs, MediaModeration.** `MediaIInv` has three parts. `Sound`, of
  each request by itself: its draft is of a content it has not seen
  (`Drafted`), an image has the results of the first occurrence of its content
  (`Belonging`), what is kept fits into what was counted and admitted
  (`Budgeted`), and a request that is to be recorded is complete (`Whole`).
  `Queued`, `PermitsAccounted` and `Pooled`, of semaphores and threads: a job
  nobody awaits is one that its request will not start again, or its late end
  could be taken for another's. `EventsKnown`, `StoredSoFar` and
  `NoOrphanResults`, of the store: what a request is to store is stored or
  still to come, as long as its event is there. Every action is shown to keep
  the three parts one by one. Bytes are a sum over a sequence, a recursive
  function; that it has its value is proved by a least counterexample
  (`LeastMember`, `BytesIs`, `BytesAppend`).
* **ContentProofs, DatasetCuration.** The invariant follows the rows through a
  run: `OwnKept` (relabelling keeps them), `ExternalNoted`, `MergedSound` and
  `MergedKeeps` (the copies hold what the files held, and no held-out text in
  train), `BackedUp` (the backup is what the files were), `Audited` (what will
  replace them passes). It needs that a finite set of severities has a maximum,
  proved by the well-foundedness of strict inclusion, and that the counts the
  audit compares are cardinalities of sets that a merge only enlarges. Assumed:
  texts and own rows are finite, with integer severities.
* **ContentProofs, ContentRules.** Five of its stages are independent of each
  other, and each has an invariant that says what was computed from what.
  `EvidenceSurvives`: the threshold that start-up checks is not below the one
  the engine asks for, as both maximize over the same three. `TopicsJudged`
  follows the three distances through the labels. `PolicyFits`: the query finds
  the rows that are meant for the message, the order of the scopes agrees with
  the ranks, and the foremost row exists because the rows are finite.
  `RatesKept` needs an invariant over the whole history (`RatesInvariance`):
  the limiter holds the keys in the order of their last uses; of a key it left
  out, at least `MaxKeys` others were used after it; and what it holds of a key
  gives the same count at every later time as the history does.
  `DetectionsAccounted`: sorting gives every detection a place of its own;
  suppression keeps a part, the most confident first, pairwise apart, with the
  best of each class; the best of a class among those kept has only more
  confident ones before it, each of which takes one of the places it could have
  had. Done twice, first by the provider and then by the policy, this still
  holds. `WordsFound` takes the five rewritings of a text one by one. What a
  reader is shown of an addressed text is the addressed form of what is shown
  of the text; taking the address off, leaving one space of every run of blanks
  and collapsing repeated characters each thin the text out (`Thins`): what is
  left is in order, a word character that stays is beside the word characters
  it was beside, no letter that stands alone is lost, and none comes to stand
  alone. So a word that is written stays written, with its boundaries, and
  letters that are spelled out stay alone between their separators. Then a word
  that is written begins a token (`RunOf`), letters that are spelled out begin
  a candidate, and looking up the prefixes of either finds it. With
  `LinksAccounted` and `ActivityCounted` it is `MessageRead`. `LinksAccounted`:
  taking "www." off a second time changes nothing. `ActivityCounted` compares
  cardinalities of nested windows. Assumed: limits are positive, stores finite,
  boxes and confidences integers, domains of the configuration without "www.",
  the address a word of letters that stay as they are, and a mention what no
  other character becomes (`RateAssumption`, `LookupsAssumption`,
  `ImagesAssumption`, `MessagesAssumption`, `AddressAssumption`).

Every invariant and every action property of the passing runs is a theorem.
Only model-checked is liveness (`NobodyHangs`, `EveryTaskSettles`,
`EveryCallEnds`, `Finishes`, `EveryRequestEnds`, `EveryTaskLeaves`), which is
out of the prover's reach. For two of these, what they rest on besides fairness
is proved: `EndNearer` and `CallsMoveOn` give a measure in the natural numbers
(for the executor a tuple of them, in the lexicographic order) that every step
lowers, except that the platform executes a call or that a connection breaks,
which happens once to each. So attempts, retries and callers that close each
other's connections never lead back. What is left to TLC is that an execution
or a call does not stop before its end. `OcrMaterialExpires` is what a run
refutes. The types of `MediaPolicy`, `ActionExecutor`, `MediaModeration` and
`LoadTest` are parts of their inductive invariants.

## 7. What is not modelled, and what the models found

Left out: the wording of anything; regular expressions (a link is a character,
a topic a span); what the models compute (arbitrary); HTTP clients (their
failures are modelled); the checks of a download's address and size, which are
local to one call; routers, which forward one request; the wiring, start-up and
health flags of the application; training, evaluation and load-generating
scripts; the quotas by which curation samples its sources; migrations, settings,
logging and DTOs. `PROJECT.json` gives the reason for each part.

Where the code does not do what a reader may expect, the models follow the code.
These are the places:

* `queue_worker.py:144` publishes a failed task again into the bounded queue its
  worker consumes. When the queue has filled up meanwhile and every worker is
  there, nothing moves any more (`Stalled`).
* `queue_worker.py:141` reads `is_closed` before the backoff; `publish()` tests
  it after. A stop in between loses the task, neither retried nor
  dead-lettered, and the drain completes (`RetryRefused`).
* `postgresql_media_policy_repository.py:41`: a save whose reply was lost is
  repeated by the database layer (`connection.py:195`) and conflicts with
  itself: 409, although the policy was changed.
* `postgresql_moderation_event_repository.py:119`: the INSERT of an action
  result has no key and is stored once by each attempt when repeated, in the
  service as in the load test (`LoadTest!ReplyLost`), though
  `docs/ARCHITECTURE.md:53` and `README.md:35` call these routes idempotent.
* `api_moderation_service.py:704`: an action result that names its message
  alone is looked up with `guild_id = NULL` and always answered 404, though
  `action_result_request_schema.py:25` accepts it.
* `policy_resolver.py:45`: a row in any scope of a message whose payload is no
  object makes the files decide ("Policy DB unavailable"), whatever narrower
  policy is stored, while an invalid payload of the foremost row is an error.
* Media: a failure of a required provider yields an analysis without hashes, and
  reading its `sha256` then ends the request with a 500 and not a 503; a known
  scam hash is lost in a failed analysis; an OCR confidence of 0.0 counts as
  none; requests for one message share its event and mix their rows.
* Curation: `docs/SENSITIVE_TOPIC_DATA_SOURCES.md:67` names the placeholder
  `<DISCORD_INVITE>`, the code writes `<INVITE>`; `complete_dataset_gaps.py`
  does not relabel external rows and may be refused by its audit after the
  files were replaced (running it again heals that); a run that dies between
  the two replacements drops from the files the texts that were moved to
  validation, which are in the backup; a trainer that reads meanwhile
  (`train_rubert_tiny2.py:143`) may see one new and one old file.
* Preprocessing: a spelled-out word is not seen when so many single letters
  follow it that the candidate has more than 32
  (`russian_profanity_detector.py:98`); a token that begins with "-" or "_"
  hides a listed word that is no stem; the confidences of
  `targeted_mass_mentions` and `blacklist_words` are not checked at start-up; a
  text with a user mention never counts as repeated, as former messages are
  compared with their mentions and it without (`text_preprocessor.py:59`,
  `190`); start-up checks against the policy of the file, and a guild may have
  another one stored.

## 8. The plan

Modelled first was what every request passes through and what outlives it: the
queue, the connection, the lineage, the two policies' stores, the executor, the
decision. Then came media, the load test, curation and the content rules, with
the policy lookup and the rate limiter. Left, in this order:

1. `ModerationPipeline`, composing the abstract promises of queue, connection
   and policy with `ModerationDecision`: from an accepted call to a stored
   decision, with the two lookups of a policy as steps of their own.
2. `Lifecycle`: start and stop of the application around `RequestService`,
   connection, purge and readiness.
3. The training and comparison scripts, which read what curation writes.
