----------------------- MODULE ModerationRequestQueue -----------------------
(***************************************************************************)
(* The in-process request queue of the API                                 *)
(* (src/src/application/moderation_request_queue.py): callers put an item  *)
(* holding a future into a bounded asyncio.Queue and await the future; a   *)
(* fixed set of worker tasks takes items, calls the moderation service     *)
(* with retries and resolves the future; stop() refuses new items, waits   *)
(* for the queue to drain for a limited time and cancels the workers.      *)
(*                                                                         *)
(* Each action is the code between two awaits of one coroutine: asyncio    *)
(* runs it without interruption.  `MaxStarts` bounds how often the         *)
(* lifespan restarts the queue, and is the only bound.                     *)
(***************************************************************************)
EXTENDS Naturals, Sequences, FiniteSets

CONSTANTS Requests,     \* calls of moderate()
          Workers,      \* the worker tasks that start() creates
          NoRequest,    \* what a worker without an item holds
          MaxSize,      \* maxsize of the asyncio.Queue
          MaxAttempts,  \* max_attempts of the constructor
          MaxStarts     \* bound: how often start() is called

ASSUME RequestsFinite == IsFiniteSet(Requests) /\ NoRequest \notin Requests
ASSUME WorkersFinite == IsFiniteSet(Workers) /\ Workers # {}
\* The settings require at least one slot and __init__ clamps max_attempts.
ASSUME BoundsPositive == /\ MaxSize \in Nat \ {0}
                         /\ MaxAttempts \in Nat \ {0}
                         /\ MaxStarts \in Nat

VARIABLES
  accepting,    \* self._accepting
  queue,        \* the items of self._queue, oldest first
  unfinished,   \* the queue's count of items without task_done()
  pc,           \* where each worker task is
  held,         \* the item each worker took
  attempt,      \* the worker's loop variable in _moderate_with_retry
  future,       \* the future of each request
  phase,        \* where stop() is
  calls,        \* history: service calls begun for each request
  abandoned,    \* history: items whose worker was cancelled holding them
  drainExpired, \* history: some stop() ran into its drain timeout
  starts        \* history: how often start() created workers

itemVars == <<queue, unfinished>>
workerVars == <<pc, held, attempt>>
history == <<calls, abandoned, drainExpired, starts>>
vars == <<accepting, itemVars, workerVars, future, phase, history>>

\* "none": no task; "idle": in queue.get(); "calling": in service.moderate();
\* "backoff": in the sleep before a retry; "done": cancelled, not yet cleared.
WorkerStates == {"none", "idle", "calling", "backoff", "done"}

\* "none": not called yet; "rejected": moderate() raised; the rest are the
\* states of the asyncio future ("cancelled": its caller was cancelled).
FutureStates ==
  {"none", "rejected", "pending", "result", "exception", "cancelled"}

Busy == {w \in Workers : pc[w] \in {"calling", "backoff"}}
Queued == {queue[i] : i \in DOMAIN queue}
WorkersExist == \E w \in Workers : pc[w] # "none"

Init ==
  /\ accepting = FALSE
  /\ queue = <<>>
  /\ unfinished = 0
  /\ pc = [w \in Workers |-> "none"]
  /\ held = [w \in Workers |-> NoRequest]
  /\ attempt = [w \in Workers |-> 0]
  /\ future = [r \in Requests |-> "none"]
  /\ phase = "none"
  /\ calls = [r \in Requests |-> 0]
  /\ abandoned = {}
  /\ drainExpired = FALSE
  /\ starts = 0

-----------------------------------------------------------------------------
(* The lifespan: start(), then stop(), one after the other.                *)

\* start() returns early while workers exist, which changes nothing.
Start ==
  /\ phase = "none" /\ ~WorkersExist /\ starts < MaxStarts
  /\ starts' = starts + 1
  /\ accepting' = TRUE
  /\ pc' = [w \in Workers |-> "idle"]
  /\ UNCHANGED <<itemVars, held, attempt, future, phase, calls, abandoned,
                 drainExpired>>

StopBegins ==
  /\ phase = "none" /\ WorkersExist
  /\ accepting' = FALSE
  /\ phase' = "draining"
  /\ UNCHANGED <<itemVars, workerVars, future, history>>

\* queue.join() returns when every item put was marked done.
Drained == unfinished = 0

DrainCompletes ==
  /\ phase = "draining" /\ Drained
  /\ phase' = "cancelling"
  /\ UNCHANGED <<accepting, itemVars, workerVars, future, history>>

\* wait_for() gives up on join(): the items that are left stay unfinished.
DrainExpires ==
  /\ phase = "draining" /\ ~Drained
  /\ phase' = "cancelling"
  /\ drainExpired' = TRUE
  /\ UNCHANGED <<accepting, itemVars, workerVars, future, calls, abandoned,
                 starts>>

\* gather() has seen every worker end; the list is cleared and stop() returns.
StopReturns ==
  /\ phase = "cancelling" /\ \A w \in Workers : pc[w] = "done"
  /\ phase' = "none"
  /\ pc' = [w \in Workers |-> "none"]
  /\ UNCHANGED <<accepting, itemVars, held, attempt, future, history>>

-----------------------------------------------------------------------------
(* The callers: moderate() up to its await, and a caller that is cancelled. *)

\* Not self._queue.full().
HasRoom == Len(queue) < MaxSize

Accept(r) ==
  /\ future[r] = "none" /\ accepting /\ HasRoom
  /\ future' = [future EXCEPT ![r] = "pending"]
  /\ queue' = Append(queue, r)
  /\ unfinished' = unfinished + 1
  /\ UNCHANGED <<accepting, workerVars, phase, history>>

\* RuntimeError "not accepting" or "is full".
Reject(r) ==
  /\ future[r] = "none" /\ ~(accepting /\ HasRoom)
  /\ future' = [future EXCEPT ![r] = "rejected"]
  /\ UNCHANGED <<accepting, itemVars, workerVars, phase, history>>

\* Cancelling a task that awaits a future cancels the future; the item stays
\* in the queue or with its worker.
CallerCancelled(r) ==
  /\ future[r] = "pending"
  /\ future' = [future EXCEPT ![r] = "cancelled"]
  /\ UNCHANGED <<accepting, itemVars, workerVars, phase, history>>

-----------------------------------------------------------------------------
(* The workers.  cancel() is delivered at a worker's next resumption, so   *)
(* once stop() has called it no worker does anything else.                 *)

Running(w, state) == phase # "cancelling" /\ pc[w] = state

PopItem == queue' = Tail(queue)

\* queue.get() returns and the first service call begins.
Take(w) ==
  /\ Running(w, "idle") /\ queue # <<>>
  /\ PopItem
  /\ held' = [held EXCEPT ![w] = Head(queue)]
  /\ pc' = [pc EXCEPT ![w] = "calling"]
  /\ attempt' = [attempt EXCEPT ![w] = 1]
  /\ calls' = [calls EXCEPT ![Head(queue)] = @ + 1]
  /\ UNCHANGED <<accepting, unfinished, future, phase, abandoned,
                 drainExpired, starts>>

\* Mutant: the outcome is set without asking whether the future is done.
ResolveUnasked(r, outcome) == future' = [future EXCEPT ![r] = outcome]

\* A done future is left alone.
Resolve(r, outcome) ==
  future' = [future EXCEPT ![r] = IF @ = "pending" THEN outcome ELSE @]

\* The item leaves the worker, which goes on in state.
LetGo(w, state) ==
  /\ pc' = [pc EXCEPT ![w] = state]
  /\ held' = [held EXCEPT ![w] = NoRequest]
  /\ attempt' = [attempt EXCEPT ![w] = 0]

\* The answer, the finally clause, and back to queue.get().
Answer(w, outcome) ==
  /\ Resolve(held[w], outcome)
  /\ unfinished' = unfinished - 1
  /\ LetGo(w, "idle")
  /\ UNCHANGED <<accepting, queue, phase, history>>

CallSucceeds(w) == Running(w, "calling") /\ Answer(w, "result")

AttemptsLeft(w) == attempt[w] < MaxAttempts

\* An exception before the last attempt: sleep, then try again.
CallFails(w) ==
  /\ Running(w, "calling") /\ AttemptsLeft(w)
  /\ pc' = [pc EXCEPT ![w] = "backoff"]
  /\ UNCHANGED <<accepting, itemVars, held, attempt, future, phase, history>>

\* Mutant: the last exception is logged and its caller forgotten.
GiveUpSilently(w) ==
  /\ Running(w, "calling") /\ ~AttemptsLeft(w)
  /\ unfinished' = unfinished - 1
  /\ LetGo(w, "idle")
  /\ UNCHANGED <<accepting, queue, future, phase, history>>

\* An exception of the last attempt goes to the caller.
GiveUp(w) ==
  Running(w, "calling") /\ ~AttemptsLeft(w) /\ Answer(w, "exception")

Retry(w) ==
  /\ Running(w, "backoff")
  /\ pc' = [pc EXCEPT ![w] = "calling"]
  /\ attempt' = [attempt EXCEPT ![w] = @ + 1]
  /\ calls' = [calls EXCEPT ![held[w]] = @ + 1]
  /\ UNCHANGED <<accepting, itemVars, held, future, phase, abandoned,
                 drainExpired, starts>>

\* Cancelled inside queue.get(): the finally clause is not entered.
IdleWorkerCancelled(w) ==
  /\ phase = "cancelling" /\ pc[w] = "idle"
  /\ pc' = [pc EXCEPT ![w] = "done"]
  /\ UNCHANGED <<accepting, itemVars, held, attempt, future, phase, history>>

\* Mutant: task_done() only after an answer, not in a finally clause.
BusyWorkerCancelledUncounted(w) ==
  /\ phase = "cancelling" /\ w \in Busy
  /\ abandoned' = abandoned \cup {held[w]}
  /\ LetGo(w, "done")
  /\ UNCHANGED <<accepting, itemVars, future, phase, calls, drainExpired,
                 starts>>

\* Cancelled with an item in hand: the error is re-raised past set_result and
\* set_exception, task_done() still runs, and the future stays as it was.
BusyWorkerCancelled(w) ==
  /\ phase = "cancelling" /\ w \in Busy
  /\ abandoned' = abandoned \cup {held[w]}
  /\ unfinished' = unfinished - 1
  /\ LetGo(w, "done")
  /\ UNCHANGED <<accepting, queue, future, phase, calls, drainExpired, starts>>

-----------------------------------------------------------------------------
Lifecycle == Start \/ StopBegins \/ DrainCompletes \/ DrainExpires
             \/ StopReturns

Caller(r) == Accept(r) \/ Reject(r) \/ CallerCancelled(r)

Serve(w) == Take(w) \/ CallSucceeds(w) \/ CallFails(w) \/ GiveUp(w)
            \/ Retry(w)

WorkerCancelled(w) == IdleWorkerCancelled(w) \/ BusyWorkerCancelled(w)

Next ==
  \/ Lifecycle
  \/ \E r \in Requests : Caller(r)
  \/ \E w \in Workers : Serve(w) \/ WorkerCancelled(w)

Spec == Init /\ [][Next]_vars

\* The event loop resumes every runnable task and the drain timer fires, but
\* nothing says that the service ever answers.
StopFairness ==
  /\ WF_vars(DrainCompletes \/ DrainExpires)
  /\ WF_vars(StopReturns)
  /\ \A w \in Workers : WF_vars(WorkerCancelled(w))

\* In addition, every service call ends: its own awaits are bounded by the
\* database, model and HTTP timeouts.
ServiceFairness == \A w \in Workers : WF_vars(Serve(w))

FairSpec == Spec /\ StopFairness

-----------------------------------------------------------------------------
\* Types; the queue never exceeds its capacity, and a worker holds an item
\* exactly while it is working on one.
TypeOK ==
  /\ accepting \in BOOLEAN
  /\ queue \in Seq(Requests) /\ Len(queue) <= MaxSize
  /\ unfinished \in Nat
  /\ pc \in [Workers -> WorkerStates]
  /\ held \in [Workers -> Requests \cup {NoRequest}]
  /\ \A w \in Workers : held[w] # NoRequest <=> w \in Busy
  /\ attempt \in [Workers -> 0..MaxAttempts]
  /\ future \in [Requests -> FutureStates]
  /\ phase \in {"none", "draining", "cancelling"}
  /\ calls \in [Requests -> Nat]
  /\ abandoned \subseteq Requests
  /\ drainExpired \in BOOLEAN
  /\ starts \in Nat

\* The counter that join() waits on is exact: the items queued plus the items
\* in workers' hands, through retries, cancellations, timeouts and restarts.
\* Too low and stop() cuts off live work; too high and it always times out.
UnfinishedExact == unfinished = Len(queue) + Cardinality(Busy)

\* An accepted item is in one place only: at one position of the queue, or
\* with one worker, and never both; so no request is worked on twice at once.
OnePlaceOnly ==
  /\ \A i, j \in DOMAIN queue : queue[i] = queue[j] => i = j
  /\ \A v, w \in Busy : held[v] = held[w] => v = w
  /\ \A w \in Busy : held[w] \notin Queued

\* A caller still waiting is waiting for something: its item is queued, or a
\* worker has it, or a worker was cancelled with it after a drain timeout.
WaitersAreServed ==
  \A r \in Requests :
    future[r] = "pending" =>
      \/ r \in Queued
      \/ \E w \in Busy : held[w] = r
      \/ r \in abandoned /\ drainExpired

\* A stop() that did not run into its drain timeout answers everybody it had
\* accepted: when it cancels the workers, and from then until the next start,
\* no caller is left waiting.
CleanStopLeavesNobodyWaiting ==
  ~accepting /\ phase # "draining" /\ ~drainExpired
    => \A r \in Requests : future[r] # "pending"

\* Nothing accepted is miscounted, worked on twice or forgotten, neither while
\* the queue runs nor when it stops.
Accounted == /\ UnfinishedExact /\ OnePlaceOnly
             /\ WaitersAreServed /\ CleanStopLeavesNobodyWaiting

\* The request a worker has was never answered, and the service was called for
\* it as often as the loop variable says; for a queued one, and for one not
\* accepted, it was not called.
AttemptsCounted ==
  /\ \A r \in Requests : future[r] = "none" => calls[r] = 0
  /\ \A r \in Queued : future[r] \in {"pending", "cancelled"} /\ calls[r] = 0
  /\ \A w \in Busy :
       /\ future[held[w]] \in {"pending", "cancelled"}
       /\ calls[held[w]] = attempt[w] /\ attempt[w] > 0
       /\ pc[w] = "backoff" => attempt[w] < MaxAttempts

\* Outside a drain, a queue that accepts nothing and never gave up on a drain
\* holds nothing; only a drain that was given up on abandons an item.
DrainLeavesNothing ==
  /\ accepting => phase = "none"
  /\ ~accepting /\ phase # "draining" /\ ~drainExpired
       => queue = <<>> /\ Busy = {}
  /\ abandoned # {} => drainExpired

\* The inductive invariant: what the safety properties follow from.
IInv == /\ TypeOK /\ UnfinishedExact /\ OnePlaceOnly
        /\ WaitersAreServed /\ AttemptsCounted /\ DrainLeavesNothing

\* The queue keeps the promise made to callers: see RequestService.
Promise == INSTANCE RequestService WITH status <- future,
                                        evaluations <- calls
KeepsPromise == Promise!ServiceSpec

\* If service calls end, and as long as no stop() runs into its timeout, every
\* accepted call is answered or given up by its caller: no retry, cancellation
\* or shutdown strands it.
AcceptedIsAnswered ==
  ServiceFairness =>
    \A r \in Requests :
      future[r] = "pending" ~> (future[r] # "pending" \/ drainExpired)

\* stop() returns even when a service call never does.
StopAlwaysReturns == phase # "none" ~> phase = "none"

\* Neither a caller nor stop() hangs: the two above.
NobodyHangs == AcceptedIsAnswered /\ StopAlwaysReturns
=============================================================================
