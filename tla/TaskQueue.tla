----------------------------- MODULE TaskQueue -----------------------------
(***************************************************************************)
(* The general-purpose priority queue and its worker pool                  *)
(* (src/src/infrastructure/queue/): producers publish tasks and wait for   *)
(* room; a worker runs the handler on the most urgent task and, when it    *)
(* fails, sleeps and publishes the task again into the queue it consumes,  *)
(* or moves it to the dead letters once its attempts are used up or the    *)
(* queue is closed.  stop() closes the queue, may wait for it to drain,    *)
(* and cancels the workers.                                                *)
(*                                                                         *)
(* Tasks of equal priority may be taken in any order here; in the code a   *)
(* sequence number makes that order first-in first-out.                    *)
(***************************************************************************)
EXTENDS Naturals, FiniteSets

CONSTANTS Tasks,        \* tasks that producers publish, each once
          Workers,      \* the worker tasks of the pool
          NoTask,       \* what a worker without a task holds
          Priority,     \* the priority of each task, most urgent lowest
          MaxSize,      \* max_size of the queue
          MaxAttempts,  \* max_attempts of the pool
          MaxStarts     \* bound: how often the pool is started

ASSUME TasksFinite == IsFiniteSet(Tasks) /\ NoTask \notin Tasks
ASSUME PoolFinite == IsFiniteSet(Workers) /\ Workers # {}
ASSUME LimitsPositive == /\ MaxSize \in Nat \ {0}
                         /\ MaxAttempts \in Nat \ {0}
                         /\ MaxStarts \in Nat
ASSUME PriorityType == Priority \in [Tasks -> Nat]

VARIABLES
  fresh,        \* tasks not published yet
  blocked,      \* tasks whose producer waits for room
  refused,      \* tasks whose publish() raised
  queued,       \* tasks in the priority queue
  handled,      \* tasks whose handler returned
  deadLetters,  \* tasks moved to the dead letters
  lost,         \* history: published tasks that nobody has any more
  attempts,     \* the attempts field of each task
  unfinished,   \* the queue's count of tasks without task_done()
  closed,       \* the queue's closed flag
  pc, held,     \* where each worker is, and with which task
  phase,        \* where stop() is
  drainExpired, \* history: stop() did not see the queue drained
  cancelled,    \* history: tasks taken from a worker by cancellation
  starts        \* history: how often start() created workers

history == <<drainExpired, cancelled, starts>>
places == <<fresh, blocked, refused, queued, handled, deadLetters, lost>>
vars == <<places, attempts, unfinished, closed, pc, held, phase, history>>

WorkerStates ==
  {"none", "idle", "handling", "backoff", "publishing", "done"}

Busy == {w \in Workers : pc[w] \in {"handling", "backoff", "publishing"}}
InHand == {held[w] : w \in Busy}
WorkersExist == \E w \in Workers : pc[w] # "none"

Init ==
  /\ fresh = Tasks
  /\ blocked = {} /\ refused = {} /\ queued = {} /\ handled = {}
  /\ deadLetters = {} /\ lost = {}
  /\ attempts = [t \in Tasks |-> 0]
  /\ unfinished = 0
  /\ closed = FALSE
  /\ pc = [w \in Workers |-> "none"]
  /\ held = [w \in Workers |-> NoTask]
  /\ phase = "none"
  /\ drainExpired = FALSE
  /\ cancelled = {}
  /\ starts = 0

-----------------------------------------------------------------------------
(* Producers: publish() outside the pool.                                  *)

HasRoom == Cardinality(queued) < MaxSize

\* publish() on a closed queue raises RuntimeError.
PublishRefused(t) ==
  /\ t \in fresh /\ closed
  /\ fresh' = fresh \ {t} /\ refused' = refused \cup {t}
  /\ UNCHANGED <<blocked, queued, handled, deadLetters, lost, attempts,
                 unfinished, closed, pc, held, phase, history>>

PublishWaits(t) ==
  /\ t \in fresh /\ ~closed /\ ~HasRoom
  /\ fresh' = fresh \ {t} /\ blocked' = blocked \cup {t}
  /\ UNCHANGED <<refused, queued, handled, deadLetters, lost, attempts,
                 unfinished, closed, pc, held, phase, history>>

\* A producer that waited for room does not look at the closed flag again.
Published(t) ==
  /\ (t \in fresh /\ ~closed) \/ t \in blocked
  /\ HasRoom
  /\ fresh' = fresh \ {t} /\ blocked' = blocked \ {t}
  /\ queued' = queued \cup {t}
  /\ unfinished' = unfinished + 1
  /\ UNCHANGED <<refused, handled, deadLetters, lost, attempts, closed, pc,
                 held, phase, history>>

-----------------------------------------------------------------------------
(* The pool.  Once stop() has cancelled them, workers only unwind.         *)

Running(w, state) == phase # "cancelling" /\ pc[w] = state

Take(w) ==
  /\ Running(w, "idle")
  /\ \E t \in queued :
       /\ \A u \in queued : Priority[t] <= Priority[u]
       /\ queued' = queued \ {t}
       /\ held' = [held EXCEPT ![w] = t]
  /\ pc' = [pc EXCEPT ![w] = "handling"]
  /\ UNCHANGED <<fresh, blocked, refused, handled, deadLetters, lost,
                 attempts, unfinished, closed, phase, history>>

\* The finally clause of _handle_task.
TaskDone(w, state) ==
  /\ unfinished' = unfinished - 1
  /\ pc' = [pc EXCEPT ![w] = state]
  /\ held' = [held EXCEPT ![w] = NoTask]

HandlerReturns(w) ==
  /\ Running(w, "handling")
  /\ handled' = handled \cup {held[w]}
  /\ TaskDone(w, "idle")
  /\ UNCHANGED <<fresh, blocked, refused, queued, deadLetters, lost, attempts,
                 closed, phase, history>>

WorthRetrying(t) == attempts[t] + 1 < MaxAttempts /\ ~closed

\* The handler raised: the next attempt waits in the backoff.
HandlerFails(w) ==
  /\ Running(w, "handling") /\ WorthRetrying(held[w])
  /\ attempts' = [attempts EXCEPT ![held[w]] = @ + 1]
  /\ pc' = [pc EXCEPT ![w] = "backoff"]
  /\ UNCHANGED <<places, unfinished, closed, held, phase, history>>

\* Mutant: a failed task is marked done and nothing else.
DropSilently(w) ==
  /\ Running(w, "handling") /\ ~WorthRetrying(held[w])
  /\ attempts' = [attempts EXCEPT ![held[w]] = @ + 1]
  /\ TaskDone(w, "idle")
  /\ UNCHANGED <<places, closed, phase, history>>

DeadLetter(w) ==
  /\ Running(w, "handling") /\ ~WorthRetrying(held[w])
  /\ attempts' = [attempts EXCEPT ![held[w]] = @ + 1]
  /\ deadLetters' = deadLetters \cup {held[w]}
  /\ TaskDone(w, "idle")
  /\ UNCHANGED <<fresh, blocked, refused, queued, handled, lost, closed,
                 phase, history>>

\* publish() of the retry finds the queue closed during the backoff and
\* raises out of _handle_task; _run_worker logs the error and goes on.
RetryRefused(w) ==
  /\ Running(w, "backoff") /\ closed
  /\ lost' = lost \cup {held[w]}
  /\ TaskDone(w, "idle")
  /\ UNCHANGED <<fresh, blocked, refused, queued, handled, deadLetters,
                 attempts, closed, phase, history>>

\* The worker itself waits for room in the queue it should be emptying.
RetryWaits(w) ==
  /\ Running(w, "backoff") /\ ~closed /\ ~HasRoom
  /\ pc' = [pc EXCEPT ![w] = "publishing"]
  /\ UNCHANGED <<places, attempts, unfinished, closed, held, phase, history>>

\* Mutant: task_done() is called before the retry is put.
DoneBeforePut == unfinished' = unfinished - 1

\* The put counts one more and task_done() one less.
PutAndDone == unfinished' = unfinished

RetryPublished(w) ==
  /\ (Running(w, "backoff") /\ ~closed) \/ Running(w, "publishing")
  /\ HasRoom
  /\ queued' = queued \cup {held[w]}
  /\ PutAndDone
  /\ pc' = [pc EXCEPT ![w] = "idle"]
  /\ held' = [held EXCEPT ![w] = NoTask]
  /\ UNCHANGED <<fresh, blocked, refused, handled, deadLetters, lost,
                 attempts, closed, phase, history>>

-----------------------------------------------------------------------------
(* start() and stop(drain=...); a closed queue is never opened again.      *)

Start ==
  /\ phase = "none" /\ ~WorkersExist /\ starts < MaxStarts
  /\ starts' = starts + 1
  /\ pc' = [w \in Workers |-> "idle"]
  /\ UNCHANGED <<places, attempts, unfinished, closed, held, phase,
                 drainExpired, cancelled>>

\* Without drain, or without workers, stop() goes straight to cancellation.
StopBegins(drain) ==
  /\ phase = "none"
  /\ closed' = TRUE
  /\ phase' = IF drain /\ WorkersExist THEN "draining" ELSE "cancelling"
  /\ drainExpired' = (drainExpired \/ ~(drain /\ WorkersExist))
  /\ UNCHANGED <<places, attempts, unfinished, pc, held, cancelled, starts>>

\* Mutant: wait until nothing is queued instead of join().
DrainSeesEmptyQueue ==
  /\ phase = "draining" /\ queued = {}
  /\ phase' = "cancelling"
  /\ UNCHANGED <<places, attempts, unfinished, closed, pc, held, history>>

DrainCompletes ==
  /\ phase = "draining" /\ unfinished = 0
  /\ phase' = "cancelling"
  /\ UNCHANGED <<places, attempts, unfinished, closed, pc, held, history>>

DrainExpires ==
  /\ phase = "draining" /\ unfinished > 0
  /\ phase' = "cancelling"
  /\ drainExpired' = TRUE
  /\ UNCHANGED <<places, attempts, unfinished, closed, pc, held, cancelled,
                 starts>>

IdleWorkerCancelled(w) ==
  /\ phase = "cancelling" /\ pc[w] = "idle"
  /\ pc' = [pc EXCEPT ![w] = "done"]
  /\ UNCHANGED <<places, attempts, unfinished, closed, held, phase, history>>

\* Cancelled in the handler, the backoff or the put: only task_done() runs.
BusyWorkerCancelled(w) ==
  /\ phase = "cancelling" /\ w \in Busy
  /\ lost' = lost \cup {held[w]} /\ cancelled' = cancelled \cup {held[w]}
  /\ TaskDone(w, "done")
  /\ UNCHANGED <<fresh, blocked, refused, queued, handled, deadLetters,
                 attempts, closed, phase, drainExpired, starts>>

StopReturns ==
  /\ phase = "cancelling" /\ \A w \in Workers : pc[w] \in {"done", "none"}
  /\ phase' = "none"
  /\ pc' = [w \in Workers |-> "none"]
  /\ UNCHANGED <<places, attempts, unfinished, closed, held, history>>

-----------------------------------------------------------------------------
Producer(t) == PublishRefused(t) \/ PublishWaits(t) \/ Published(t)

Work(w) == \/ Take(w) \/ HandlerReturns(w) \/ HandlerFails(w) \/ DeadLetter(w)
           \/ RetryRefused(w) \/ RetryWaits(w) \/ RetryPublished(w)

Lifecycle == \/ Start \/ (\E drain \in BOOLEAN : StopBegins(drain))
             \/ DrainCompletes \/ DrainExpires \/ StopReturns

WorkerCancelled(w) == IdleWorkerCancelled(w) \/ BusyWorkerCancelled(w)

Next == \/ \E t \in Tasks : Producer(t)
        \/ \E w \in Workers : Work(w) \/ WorkerCancelled(w)
        \/ Lifecycle

Spec == Init /\ [][Next]_vars

\* The event loop resumes whatever can run, handlers end, the pool is started;
\* nobody has to publish or to stop.
FairSpec ==
  /\ Spec
  /\ WF_vars(Start)
  /\ \A w \in Workers : WF_vars(Work(w)) /\ WF_vars(WorkerCancelled(w))
  /\ \A t \in Tasks : WF_vars(t \in blocked /\ Published(t))

-----------------------------------------------------------------------------
\* The types, the queue's bound, and that a worker holds a task while busy.
TypeOK ==
  /\ \A S \in {fresh, blocked, refused, queued, handled, deadLetters, lost,
               cancelled} : S \subseteq Tasks
  /\ Cardinality(queued) <= MaxSize
  /\ attempts \in [Tasks -> 0..MaxAttempts]
  /\ unfinished \in Nat
  /\ closed \in BOOLEAN
  /\ pc \in [Workers -> WorkerStates]
  /\ held \in [Workers -> Tasks \cup {NoTask}]
  /\ \A w \in Workers : held[w] # NoTask <=> w \in Busy
  /\ phase \in {"none", "draining", "cancelling"}
  /\ drainExpired \in BOOLEAN
  /\ starts \in Nat

\* The counter join() waits on is the tasks queued plus the tasks in hand,
\* also while a worker waits to put a retry.
UnfinishedExact == unfinished = Cardinality(queued) + Cardinality(Busy)

Fates == [fresh |-> fresh, blocked |-> blocked, refused |-> refused,
          queued |-> queued, inHand |-> InHand, handled |-> handled,
          deadLetters |-> deadLetters, lost |-> lost]

\* Every task has exactly one fate: nothing is forgotten, and nothing is both
\* dead-lettered and retried, or in the hands of two workers.
OneFate ==
  /\ \A v, w \in Busy : held[v] = held[w] => v = w
  /\ \A t \in Tasks : \E f \in DOMAIN Fates :
       t \in Fates[f] /\ \A g \in DOMAIN Fates : t \in Fates[g] => g = f

\* A task reaches the dead letters after exactly max_attempts failures, unless
\* the queue was closed; a task that may still run has an attempt left.
DeadLettersExhausted ==
  /\ \A t \in deadLetters : attempts[t] = MaxAttempts \/ closed
  /\ \A t \in queued \cup InHand \cup handled : attempts[t] < MaxAttempts

\* Every task is counted, has one fate, and got the attempts it was due.
Accounted == TypeOK /\ UnfinishedExact /\ OneFate /\ DeadLettersExhausted

\* Only shutdown loses tasks: while the queue is open none is lost, and a
\* drain that completed interrupts no worker.
OnlyShutdownLoses ==
  /\ lost # {} => closed
  /\ cancelled # {} => drainExpired

\* Every worker waits to put a retry into the full queue only workers empty.
Stalled == /\ Cardinality(queued) = MaxSize
           /\ \A w \in Workers : pc[w] = "publishing"

\* An open queue settles every task it was given, handled or dead-lettered, and
\* there is one way only that it may not: the pool waits for itself.
EveryTaskSettles ==
  \A t \in Tasks :
    t \in queued ~> (t \in handled \cup deadLetters \/ closed \/ Stalled)
=============================================================================
