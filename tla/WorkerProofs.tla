---------------------------- MODULE WorkerProofs ----------------------------
(***************************************************************************)
(* Proofs about the safety of TaskQueue, for every set of tasks and        *)
(* workers, every bound of the queue and of the attempts and any number of *)
(* starts and stops, and, in the second part, of LoadTest, the other pool  *)
(* of workers that take tasks from a queue: for every number of tasks,     *)
(* finite set of workers, size of batches and number of faults.            *)
(***************************************************************************)
EXTENDS TaskQueue, LoadTest, FiniteSetTheorems, WellFoundedInduction, TLAPS

-----------------------------------------------------------------------------
(* The invariant                                                           *)

\* Two workers never hold one task, and the places of tasks are apart: each
\* line names what the places before it exclude.
HeldOnce == \A v, w \in Busy : held[v] = held[w] => v = w
Apart ==
  /\ Tasks = fresh \cup blocked \cup refused \cup queued \cup InHand
             \cup handled \cup deadLetters \cup lost
  /\ fresh \cap (blocked \cup refused \cup queued \cup InHand \cup handled
                 \cup deadLetters \cup lost) = {}
  /\ blocked \cap (refused \cup queued \cup InHand \cup handled
                   \cup deadLetters \cup lost) = {}
  /\ refused \cap (queued \cup InHand \cup handled \cup deadLetters \cup lost)
       = {}
  /\ queued \cap (InHand \cup handled \cup deadLetters \cup lost) = {}
  /\ InHand \cap (handled \cup deadLetters \cup lost) = {}
  /\ handled \cap (deadLetters \cup lost) = {}
  /\ deadLetters \cap lost = {}

\* A task that no worker has taken yet has all its attempts.
Untried == \A t \in fresh \cup blocked : attempts[t] = 0

\* stop() closes the queue first, and cancels busy workers only when it did
\* not see the queue drained.
StopCloses ==
  /\ phase # "none" => closed
  /\ phase = "cancelling" => drainExpired \/ Busy = {}

IInv == /\ TypeOK /\ UnfinishedExact /\ HeldOnce /\ Apart
        /\ DeadLettersExhausted /\ Untried /\ StopCloses /\ OnlyShutdownLoses

\* OneFate says the same of the record of the places.
LEMMA FatesApart ==
  ASSUME HeldOnce, Apart
  PROVE  OneFate
<1>1. DOMAIN Fates = {"fresh", "blocked", "refused", "queued", "inHand",
                      "handled", "deadLetters", "lost"}
  BY DEF Fates
<1>2. /\ Fates["fresh"] = fresh /\ Fates["blocked"] = blocked
      /\ Fates["refused"] = refused /\ Fates["queued"] = queued
      /\ Fates["inHand"] = InHand /\ Fates["handled"] = handled
      /\ Fates["deadLetters"] = deadLetters /\ Fates["lost"] = lost
  BY DEF Fates
<1> DEFINE Is(t, f) == t \in Fates[f] /\ \A g \in DOMAIN Fates :
                                           t \in Fates[g] => g = f
<1>3. ASSUME NEW t \in Tasks
      PROVE  \E f \in DOMAIN Fates : Is(t, f)
  <2>1. CASE t \in fresh
    <3>1. Is(t, "fresh") BY <1>1, <1>2, <2>1 DEF Apart
    <3> QED BY <1>1, <3>1
  <2>2. CASE t \in blocked
    <3>1. Is(t, "blocked") BY <1>1, <1>2, <2>2 DEF Apart
    <3> QED BY <1>1, <3>1
  <2>3. CASE t \in refused
    <3>1. Is(t, "refused") BY <1>1, <1>2, <2>3 DEF Apart
    <3> QED BY <1>1, <3>1
  <2>4. CASE t \in queued
    <3>1. Is(t, "queued") BY <1>1, <1>2, <2>4 DEF Apart
    <3> QED BY <1>1, <3>1
  <2>5. CASE t \in InHand
    <3>1. Is(t, "inHand") BY <1>1, <1>2, <2>5 DEF Apart
    <3> QED BY <1>1, <3>1
  <2>6. CASE t \in handled
    <3>1. Is(t, "handled") BY <1>1, <1>2, <2>6 DEF Apart
    <3> QED BY <1>1, <3>1
  <2>7. CASE t \in deadLetters
    <3>1. Is(t, "deadLetters") BY <1>1, <1>2, <2>7 DEF Apart
    <3> QED BY <1>1, <3>1
  <2>8. CASE t \in lost
    <3>1. Is(t, "lost") BY <1>1, <1>2, <2>8 DEF Apart
    <3> QED BY <1>1, <3>1
  <2> QED BY <2>1, <2>2, <2>3, <2>4, <2>5, <2>6, <2>7, <2>8 DEF Apart
<1> QED BY <1>3 DEF OneFate, HeldOnce

-----------------------------------------------------------------------------
(* Workers that take a task and let it go                                  *)

LEMMA Counted ==
  ASSUME TypeOK
  PROVE  /\ IsFiniteSet(queued) /\ Cardinality(queued) \in Nat
         /\ IsFiniteSet(Busy) /\ Cardinality(Busy) \in Nat
<1>1. queued \subseteq Tasks /\ Busy \subseteq Workers
  BY DEF TypeOK, Busy
<1>2. IsFiniteSet(queued) /\ IsFiniteSet(Busy)
  BY <1>1, TasksFinite, PoolFinite, FS_Subset
<1> QED BY <1>2, FS_CardinalityType

\* A busy worker that is done with its task leaves the others as they were.
LEMMA LetGo ==
  ASSUME TypeOK, UnfinishedExact, HeldOnce, NEW w \in Busy,
         NEW s \in {"idle", "done"}, TaskDone(w, s)
  PROVE  /\ held[w] \in Tasks /\ held[w] \in InHand
         /\ Busy' = Busy \ {w} /\ InHand' = InHand \ {held[w]}
         /\ Cardinality(Busy') = Cardinality(Busy) - 1
         /\ \A v \in Busy' : held'[v] = held[v]
         /\ HeldOnce' /\ unfinished \in Nat \ {0}
         /\ pc' \in [Workers -> WorkerStates]
         /\ held' \in [Workers -> Tasks \cup {NoTask}]
         /\ \A v \in Workers : held'[v] # NoTask <=> v \in Busy'
<1>1. w \in Workers /\ held[w] \in Tasks /\ held[w] \in InHand
  BY DEF TypeOK, Busy, InHand
<1>2. Busy' = Busy \ {w}
  BY DEF Busy, TaskDone, TypeOK, WorkerStates
<1>3. \A v \in Busy' : held'[v] = held[v]
  BY <1>2 DEF TaskDone, TypeOK, Busy
<1>4. InHand' = InHand \ {held[w]}
  BY <1>2, <1>3 DEF InHand, HeldOnce
<1>5. HeldOnce'
  BY <1>2, <1>3 DEF HeldOnce
<1>6. Cardinality(Busy') = Cardinality(Busy) - 1
  BY <1>2, Counted, FS_RemoveElement
<1>7. unfinished \in Nat \ {0}
  <2>1. Cardinality(Busy) # 0
    BY Counted, FS_EmptySet
  <2> QED BY <2>1, Counted DEF UnfinishedExact
<1>8. /\ pc' \in [Workers -> WorkerStates]
      /\ held' \in [Workers -> Tasks \cup {NoTask}]
  BY DEF TypeOK, TaskDone, WorkerStates
<1>9. \A v \in Workers : held'[v] # NoTask <=> v \in Busy'
  BY <1>1, <1>2 DEF TypeOK, TaskDone
<1> QED BY <1>1, <1>2, <1>3, <1>4, <1>5, <1>6, <1>7, <1>8, <1>9

\* A busy worker that changes its state and stays busy changes nothing else.
LEMMA StaysBusy ==
  ASSUME TypeOK, NEW w \in Busy, NEW s \in {"backoff", "publishing"},
         pc' = [pc EXCEPT ![w] = s], held' = held
  PROVE  /\ held[w] \in Tasks /\ held[w] \in InHand
         /\ Busy' = Busy /\ InHand' = InHand
         /\ pc' \in [Workers -> WorkerStates]
<1>1. Busy' = Busy
  BY DEF Busy, TypeOK
<1>2. pc' \in [Workers -> WorkerStates]
  BY DEF TypeOK, WorkerStates
<1> QED BY <1>1, <1>2 DEF TypeOK, Busy, InHand

-----------------------------------------------------------------------------
(* Each step keeps it                                                      *)

LEMMA Initially == Init => IInv
<1> SUFFICES ASSUME Init PROVE IInv
  OBVIOUS
<1>1. Busy = {} /\ InHand = {}
  BY DEF Init, Busy, InHand
<1>2. Cardinality(queued) = 0 /\ Cardinality(Busy) = 0
  BY <1>1, FS_EmptySet DEF Init
<1>3. TypeOK
  <2>1. attempts \in [Tasks -> 0..MaxAttempts]
    BY LimitsPositive DEF Init
  <2>2. /\ pc \in [Workers -> WorkerStates]
        /\ held \in [Workers -> Tasks \cup {NoTask}]
    BY DEF Init, WorkerStates
  <2>3. \A w \in Workers : held[w] # NoTask <=> w \in Busy
    BY <1>1 DEF Init
  <2>4. Cardinality(queued) <= MaxSize
    BY <1>2, LimitsPositive
  <2> QED BY <2>1, <2>2, <2>3, <2>4 DEF Init, TypeOK
<1>4. UnfinishedExact
  BY <1>2 DEF Init, UnfinishedExact
<1> QED BY <1>1, <1>3, <1>4, LimitsPositive
        DEF Init, IInv, HeldOnce, Apart, DeadLettersExhausted, Untried,
            StopCloses, OnlyShutdownLoses

\* A producer moves a task among fresh, blocked, refused and queued.
LEMMA RefusedKeeps ==
  ASSUME IInv, NEW t \in Tasks, PublishRefused(t) \/ PublishWaits(t)
  PROVE  IInv'
<1>1. /\ Busy' = Busy /\ InHand' = InHand
      /\ t \in fresh /\ fresh' = fresh \ {t} /\ queued' = queued
      /\ \/ refused' = refused \cup {t} /\ blocked' = blocked
         \/ blocked' = blocked \cup {t} /\ refused' = refused
      /\ UNCHANGED <<handled, deadLetters, lost, attempts, unfinished, closed,
                     pc, held, phase, drainExpired, cancelled, starts>>
  BY DEF PublishRefused, PublishWaits, Busy, InHand, history
<1>2. TypeOK'
  BY <1>1 DEF IInv, TypeOK
<1>3. Apart'
  BY <1>1 DEF IInv, Apart
<1> QED BY <1>1, <1>2, <1>3
        DEF IInv, UnfinishedExact, HeldOnce, DeadLettersExhausted, Untried,
            StopCloses, OnlyShutdownLoses

LEMMA PublishedKeeps ==
  ASSUME IInv, NEW t \in Tasks, Published(t)
  PROVE  IInv'
<1>1. /\ Busy' = Busy /\ InHand' = InHand
      /\ t \in fresh \cup blocked /\ HasRoom
      /\ fresh' = fresh \ {t} /\ blocked' = blocked \ {t}
      /\ queued' = queued \cup {t} /\ unfinished' = unfinished + 1
      /\ UNCHANGED <<refused, handled, deadLetters, lost, attempts, closed,
                     pc, held, phase, drainExpired, cancelled, starts>>
  BY DEF Published, Busy, InHand, history
<1>2. /\ t \notin queued /\ Cardinality(queued') = Cardinality(queued) + 1
      /\ Cardinality(queued) \in Nat /\ Cardinality(Busy) \in Nat
  <2>1. t \notin queued
    BY <1>1 DEF IInv, Apart
  <2>2. TypeOK
    BY DEF IInv
  <2> QED BY <1>1, <2>1, <2>2, Counted, FS_AddElement
<1>3. TypeOK'
  BY <1>1, <1>2, LimitsPositive DEF IInv, TypeOK, HasRoom
<1>4. Apart'
  BY <1>1 DEF IInv, Apart
<1>5. UnfinishedExact'
  BY <1>1, <1>2 DEF IInv, UnfinishedExact
<1>6. DeadLettersExhausted' /\ Untried'
  BY <1>1, LimitsPositive DEF IInv, DeadLettersExhausted, Untried
<1> QED BY <1>1, <1>3, <1>4, <1>5, <1>6
        DEF IInv, HeldOnce, StopCloses, OnlyShutdownLoses

LEMMA TakeKeeps ==
  ASSUME IInv, NEW w \in Workers, Take(w)
  PROVE  IInv'
<1>1. PICK t \in queued : /\ queued' = queued \ {t}
                          /\ held' = [held EXCEPT ![w] = t]
  BY DEF Take
<1>2. /\ pc[w] = "idle" /\ phase # "cancelling"
      /\ pc' = [pc EXCEPT ![w] = "handling"]
      /\ UNCHANGED <<fresh, blocked, refused, handled, deadLetters, lost,
                     attempts, unfinished, closed, phase, drainExpired,
                     cancelled, starts>>
  BY DEF Take, Running, history
<1>3. TypeOK /\ t \in Tasks /\ t # NoTask
  BY <1>1, TasksFinite DEF IInv, TypeOK
<1>4. w \notin Busy /\ Busy' = Busy \cup {w}
  BY <1>2, <1>3 DEF Busy, TypeOK
<1>5. held'[w] = t /\ \A v \in Busy : held'[v] = held[v]
  BY <1>1, <1>3, <1>4 DEF TypeOK
<1>6. InHand' = InHand \cup {t}
  BY <1>4, <1>5 DEF InHand
<1>7. /\ Cardinality(queued') = Cardinality(queued) - 1
      /\ Cardinality(Busy') = Cardinality(Busy) + 1
      /\ Cardinality(queued) \in Nat \ {0} /\ Cardinality(Busy) \in Nat
  <2>1. Cardinality(queued) # 0
    BY <1>1, <1>3, Counted, FS_EmptySet
  <2> QED BY <1>1, <1>3, <1>4, <2>1, Counted, FS_AddElement, FS_RemoveElement
<1>8. TypeOK'
  <2>1. /\ pc' \in [Workers -> WorkerStates]
        /\ held' \in [Workers -> Tasks \cup {NoTask}]
    BY <1>1, <1>2, <1>3 DEF TypeOK, WorkerStates
  <2>2. \A v \in Workers : held'[v] # NoTask <=> v \in Busy'
    BY <1>1, <1>3, <1>4 DEF TypeOK
  <2>3. Cardinality(queued') <= MaxSize
    BY <1>3, <1>7, LimitsPositive DEF TypeOK
  <2> QED BY <1>1, <1>2, <1>3, <2>1, <2>2, <2>3 DEF TypeOK
<1>9. Apart' /\ HeldOnce'
  <2>1. t \notin InHand
    BY <1>1 DEF IInv, Apart
  <2>2. HeldOnce'
    BY <1>4, <1>5, <2>1 DEF IInv, HeldOnce, InHand
  <2> QED BY <1>1, <1>2, <1>6, <2>2 DEF IInv, Apart
<1>10. UnfinishedExact'
  BY <1>2, <1>7 DEF IInv, UnfinishedExact
<1>11. DeadLettersExhausted' /\ Untried'
  BY <1>1, <1>2, <1>6 DEF IInv, DeadLettersExhausted, Untried
<1> QED BY <1>2, <1>8, <1>9, <1>10, <1>11
        DEF IInv, StopCloses, OnlyShutdownLoses

\* A task that a worker is done with goes to one of the final places.
LEMMA HandledKeeps ==
  ASSUME IInv, NEW w \in Workers, HandlerReturns(w)
  PROVE  IInv'
<1>1. /\ w \in Busy /\ TaskDone(w, "idle") /\ phase # "cancelling"
      /\ handled' = handled \cup {held[w]}
      /\ UNCHANGED <<fresh, blocked, refused, queued, deadLetters, lost,
                     attempts, closed, phase, drainExpired, cancelled,
                     starts>>
  BY DEF HandlerReturns, Running, Busy, history
<1>2. /\ held[w] \in Tasks /\ held[w] \in InHand
      /\ Busy' = Busy \ {w} /\ InHand' = InHand \ {held[w]}
      /\ Cardinality(Busy') = Cardinality(Busy) - 1
      /\ HeldOnce' /\ unfinished \in Nat \ {0}
      /\ pc' \in [Workers -> WorkerStates]
      /\ held' \in [Workers -> Tasks \cup {NoTask}]
      /\ \A v \in Workers : held'[v] # NoTask <=> v \in Busy'
  BY <1>1, LetGo DEF IInv
<1>3. TypeOK'
  BY <1>1, <1>2 DEF IInv, TypeOK, TaskDone
<1>4. Apart'
  BY <1>1, <1>2 DEF IInv, Apart
<1>5. UnfinishedExact'
  BY <1>1, <1>2, Counted DEF IInv, UnfinishedExact, TaskDone
<1>6. DeadLettersExhausted' /\ Untried'
  BY <1>1, <1>2 DEF IInv, DeadLettersExhausted, Untried
<1> QED BY <1>1, <1>2, <1>3, <1>4, <1>5, <1>6
        DEF IInv, StopCloses, OnlyShutdownLoses

LEMMA DeadLetterKeeps ==
  ASSUME IInv, NEW w \in Workers, DeadLetter(w)
  PROVE  IInv'
<1>1. /\ w \in Busy /\ TaskDone(w, "idle") /\ phase # "cancelling"
      /\ ~WorthRetrying(held[w])
      /\ attempts' = [attempts EXCEPT ![held[w]] = @ + 1]
      /\ deadLetters' = deadLetters \cup {held[w]}
      /\ UNCHANGED <<fresh, blocked, refused, queued, handled, lost, closed,
                     phase, drainExpired, cancelled, starts>>
  BY DEF DeadLetter, Running, Busy, history
<1>2. /\ held[w] \in Tasks /\ held[w] \in InHand
      /\ Busy' = Busy \ {w} /\ InHand' = InHand \ {held[w]}
      /\ Cardinality(Busy') = Cardinality(Busy) - 1
      /\ HeldOnce' /\ unfinished \in Nat \ {0}
      /\ pc' \in [Workers -> WorkerStates]
      /\ held' \in [Workers -> Tasks \cup {NoTask}]
      /\ \A v \in Workers : held'[v] # NoTask <=> v \in Busy'
  BY <1>1, LetGo DEF IInv
<1>3. /\ attempts[held[w]] \in Nat /\ attempts[held[w]] < MaxAttempts
      /\ attempts' \in [Tasks -> 0..MaxAttempts]
      /\ attempts'[held[w]] = attempts[held[w]] + 1
      /\ \A t \in Tasks \ {held[w]} : attempts'[t] = attempts[t]
  BY <1>1, <1>2, LimitsPositive DEF IInv, TypeOK, DeadLettersExhausted
<1>4. TypeOK'
  BY <1>1, <1>2, <1>3 DEF IInv, TypeOK, TaskDone
<1>5. Apart'
  BY <1>1, <1>2 DEF IInv, Apart
<1>6. UnfinishedExact'
  BY <1>1, <1>2, Counted DEF IInv, UnfinishedExact, TaskDone
<1>7. \A t \in fresh \cup blocked \cup queued \cup handled \cup deadLetters :
        t \in Tasks \ {held[w]}
  BY <1>2 DEF IInv, Apart
<1>8. attempts'[held[w]] = MaxAttempts \/ closed
  BY <1>1, <1>3, LimitsPositive DEF WorthRetrying
<1>9. InHand \subseteq Tasks
  BY DEF IInv, Apart
<1>10. DeadLettersExhausted'
  <2>1. \A t \in deadLetters' : attempts'[t] = MaxAttempts \/ closed'
    BY <1>1, <1>3, <1>7, <1>8 DEF IInv, DeadLettersExhausted
  <2>2. \A t \in (queued \cup InHand \cup handled)' : attempts'[t] < MaxAttempts
    BY <1>1, <1>2, <1>3, <1>7, <1>9 DEF IInv, DeadLettersExhausted
  <2> QED BY <2>1, <2>2 DEF DeadLettersExhausted
<1>11. Untried'
  BY <1>1, <1>3, <1>7 DEF IInv, Untried
<1> QED BY <1>1, <1>2, <1>4, <1>5, <1>6, <1>10, <1>11
        DEF IInv, StopCloses, OnlyShutdownLoses

\* A task that is lost was in hand, and the queue is closed.
LEMMA LostKeeps ==
  ASSUME IInv, NEW w \in Workers, RetryRefused(w) \/ BusyWorkerCancelled(w)
  PROVE  IInv'
<1>1. /\ w \in Busy /\ (TaskDone(w, "idle") \/ TaskDone(w, "done"))
      /\ lost' = lost \cup {held[w]}
      /\ UNCHANGED <<fresh, blocked, refused, queued, handled, deadLetters,
                     attempts, closed, phase, drainExpired, starts>>
  BY DEF RetryRefused, BusyWorkerCancelled, Running, Busy, history
<1>2. /\ held[w] \in Tasks /\ held[w] \in InHand
      /\ Busy' = Busy \ {w} /\ InHand' = InHand \ {held[w]}
      /\ Cardinality(Busy') = Cardinality(Busy) - 1
      /\ HeldOnce' /\ unfinished \in Nat \ {0}
      /\ pc' \in [Workers -> WorkerStates]
      /\ held' \in [Workers -> Tasks \cup {NoTask}]
      /\ \A v \in Workers : held'[v] # NoTask <=> v \in Busy'
  BY <1>1, LetGo DEF IInv
<1>3. /\ closed
      /\ \/ cancelled' = cancelled
         \/ cancelled' = cancelled \cup {held[w]} /\ drainExpired
  <2>1. CASE RetryRefused(w)
    BY <2>1 DEF RetryRefused, history
  <2>2. CASE BusyWorkerCancelled(w)
    BY <1>1, <2>2 DEF BusyWorkerCancelled, IInv, StopCloses
  <2> QED BY <2>1, <2>2
<1>4. TypeOK' /\ UnfinishedExact'
  <2>1. unfinished' = unfinished - 1
    BY <1>1 DEF TaskDone
  <2>2. TypeOK'
    BY <1>1, <1>2, <1>3, <2>1 DEF IInv, TypeOK
  <2>3. UnfinishedExact'
    BY <1>1, <1>2, <2>1, Counted DEF IInv, UnfinishedExact
  <2> QED BY <2>2, <2>3
<1>5. Apart'
  BY <1>1, <1>2 DEF IInv, Apart
<1>6. DeadLettersExhausted' /\ Untried'
  BY <1>1, <1>2 DEF IInv, DeadLettersExhausted, Untried
<1>7. StopCloses' /\ OnlyShutdownLoses'
  BY <1>1, <1>2, <1>3 DEF IInv, StopCloses, OnlyShutdownLoses
<1> QED BY <1>2, <1>4, <1>5, <1>6, <1>7 DEF IInv

\* A failed attempt that is worth another leaves one more to come.
LEMMA FailedKeeps ==
  ASSUME IInv, NEW w \in Workers, HandlerFails(w)
  PROVE  IInv'
<1>1. /\ w \in Busy /\ WorthRetrying(held[w])
      /\ attempts' = [attempts EXCEPT ![held[w]] = @ + 1]
      /\ pc' = [pc EXCEPT ![w] = "backoff"]
      /\ UNCHANGED <<fresh, blocked, refused, queued, handled, deadLetters,
                     lost, unfinished, closed, held, phase, drainExpired,
                     cancelled, starts>>
  BY DEF HandlerFails, Running, Busy, places, history
<1>2. /\ held[w] \in Tasks /\ held[w] \in InHand
      /\ Busy' = Busy /\ InHand' = InHand
      /\ pc' \in [Workers -> WorkerStates]
  BY <1>1, StaysBusy DEF IInv
<1>3. /\ attempts' \in [Tasks -> 0..MaxAttempts]
      /\ attempts'[held[w]] < MaxAttempts
      /\ \A t \in Tasks \ {held[w]} : attempts'[t] = attempts[t]
  BY <1>1, <1>2, LimitsPositive DEF IInv, TypeOK, WorthRetrying
<1>4. TypeOK'
  BY <1>1, <1>2, <1>3 DEF IInv, TypeOK
<1>5. \A t \in fresh \cup blocked \cup queued \cup handled \cup deadLetters :
        t \in Tasks \ {held[w]}
  BY <1>2 DEF IInv, Apart
<1>6. DeadLettersExhausted'
  <2>1. \A t \in deadLetters : attempts'[t] = MaxAttempts \/ closed
    BY <1>3, <1>5 DEF IInv, DeadLettersExhausted
  <2>2. InHand \subseteq Tasks
    BY DEF IInv, Apart
  <2>3. \A t \in queued \cup InHand \cup handled : attempts'[t] < MaxAttempts
    BY <1>3, <1>5, <2>2 DEF IInv, DeadLettersExhausted
  <2> QED BY <1>1, <1>2, <2>1, <2>3 DEF DeadLettersExhausted
<1>7. Untried'
  BY <1>1, <1>3, <1>5 DEF IInv, Untried
<1> QED BY <1>1, <1>2, <1>4, <1>6, <1>7
        DEF IInv, UnfinishedExact, HeldOnce, Apart, StopCloses,
            OnlyShutdownLoses

LEMMA WaitsKeeps ==
  ASSUME IInv, NEW w \in Workers, RetryWaits(w)
  PROVE  IInv'
<1>1. /\ w \in Busy /\ pc' = [pc EXCEPT ![w] = "publishing"]
      /\ UNCHANGED <<fresh, blocked, refused, queued, handled, deadLetters,
                     lost, attempts, unfinished, closed, held, phase,
                     drainExpired, cancelled, starts>>
  BY DEF RetryWaits, Running, Busy, places, history
<1>2. /\ Busy' = Busy /\ InHand' = InHand
      /\ pc' \in [Workers -> WorkerStates]
  BY <1>1, StaysBusy DEF IInv
<1>3. TypeOK'
  BY <1>1, <1>2 DEF IInv, TypeOK
<1> QED BY <1>1, <1>2, <1>3
        DEF IInv, UnfinishedExact, HeldOnce, Apart, DeadLettersExhausted,
            Untried, StopCloses, OnlyShutdownLoses

\* The retry goes back to the queue: one more queued, one less in hand.
LEMMA RetriedKeeps ==
  ASSUME IInv, NEW w \in Workers, RetryPublished(w)
  PROVE  IInv'
<1>1. /\ w \in Busy /\ HasRoom /\ phase # "cancelling"
      /\ queued' = queued \cup {held[w]} /\ unfinished' = unfinished
      /\ pc' = [pc EXCEPT ![w] = "idle"]
      /\ held' = [held EXCEPT ![w] = NoTask]
      /\ UNCHANGED <<fresh, blocked, refused, handled, deadLetters, lost,
                     attempts, closed, phase, drainExpired, cancelled,
                     starts>>
  BY DEF RetryPublished, PutAndDone, Running, Busy, history
<1>2. held[w] \in Tasks /\ held[w] \in InHand /\ held[w] \notin queued
  BY <1>1 DEF IInv, TypeOK, Busy, InHand, Apart
<1>3. Busy' = Busy \ {w}
  BY <1>1 DEF IInv, Busy, TypeOK
<1>4. \A v \in Busy' : held'[v] = held[v]
  BY <1>1, <1>3 DEF IInv, TypeOK, Busy
<1>5. InHand' = InHand \ {held[w]} /\ HeldOnce'
  BY <1>1, <1>3, <1>4 DEF IInv, InHand, HeldOnce
<1>6. /\ Cardinality(Busy') = Cardinality(Busy) - 1
      /\ Cardinality(queued') = Cardinality(queued) + 1
      /\ Cardinality(queued) \in Nat /\ Cardinality(Busy) \in Nat
  <2>1. TypeOK
    BY DEF IInv
  <2> QED BY <1>1, <1>2, <1>3, <2>1, Counted, FS_AddElement, FS_RemoveElement
<1>7. TypeOK'
  <2>1. /\ pc' \in [Workers -> WorkerStates]
        /\ held' \in [Workers -> Tasks \cup {NoTask}]
    BY <1>1 DEF IInv, TypeOK, WorkerStates
  <2>2. \A v \in Workers : held'[v] # NoTask <=> v \in Busy'
    BY <1>1, <1>3 DEF IInv, TypeOK
  <2>3. Cardinality(queued') <= MaxSize
    BY <1>1, <1>6, LimitsPositive DEF HasRoom
  <2> QED BY <1>1, <1>2, <2>1, <2>2, <2>3 DEF IInv, TypeOK
<1>8. Apart'
  BY <1>1, <1>2, <1>5 DEF IInv, Apart
<1>9. UnfinishedExact'
  BY <1>1, <1>6 DEF IInv, UnfinishedExact
<1>10. DeadLettersExhausted' /\ Untried'
  BY <1>1, <1>2, <1>5 DEF IInv, DeadLettersExhausted, Untried
<1> QED BY <1>1, <1>5, <1>7, <1>8, <1>9, <1>10
        DEF IInv, StopCloses, OnlyShutdownLoses

LEMMA WorkKeeps ==
  ASSUME IInv, NEW w \in Workers, Work(w) \/ BusyWorkerCancelled(w)
  PROVE  IInv'
BY TakeKeeps, HandledKeeps, FailedKeeps, DeadLetterKeeps, LostKeeps,
   WaitsKeeps, RetriedKeeps DEF Work

\* start(), the cancellation of idle workers and the return of stop() replace
\* the workers while none of them is busy or leave the busy ones alone.
LEMMA PoolKeeps ==
  ASSUME IInv, Start \/ StopReturns
               \/ \E w \in Workers : IdleWorkerCancelled(w)
  PROVE  IInv'
<1>1. /\ pc' \in [Workers -> WorkerStates] /\ Busy' = Busy
      /\ phase' \in {"none", phase} /\ starts' \in Nat
      /\ UNCHANGED <<fresh, blocked, refused, queued, handled, deadLetters,
                     lost, attempts, unfinished, closed, held, drainExpired,
                     cancelled>>
  <2>1. CASE Start
    BY <2>1 DEF Start, WorkersExist, IInv, TypeOK, WorkerStates, Busy, places
  <2>2. CASE StopReturns
    BY <2>2 DEF StopReturns, IInv, TypeOK, WorkerStates, Busy, places, history
  <2>3. CASE \E w \in Workers : IdleWorkerCancelled(w)
    BY <2>3 DEF IdleWorkerCancelled, IInv, TypeOK, WorkerStates, Busy, places,
                history
  <2> QED BY <2>1, <2>2, <2>3
<1>2. InHand' = InHand
  BY <1>1 DEF InHand
<1>3. TypeOK'
  BY <1>1 DEF IInv, TypeOK
<1> QED BY <1>1, <1>2, <1>3
        DEF IInv, UnfinishedExact, HeldOnce, Apart, DeadLettersExhausted,
            Untried, StopCloses, OnlyShutdownLoses

LEMMA StopKeeps ==
  ASSUME IInv, DrainCompletes \/ DrainExpires
               \/ \E drain \in BOOLEAN : StopBegins(drain)
  PROVE  IInv'
<1>1. /\ Busy' = Busy /\ InHand' = InHand
      /\ UNCHANGED <<fresh, blocked, refused, queued, handled, deadLetters,
                     lost, attempts, unfinished, pc, held, cancelled, starts>>
  BY DEF DrainCompletes, DrainExpires, StopBegins, Busy, InHand, places,
         history
<1>2. /\ phase' \in {"draining", "cancelling"} /\ closed' = TRUE
      /\ drainExpired' \in BOOLEAN /\ (drainExpired => drainExpired')
      /\ phase' = "cancelling" => drainExpired' \/ Busy = {}
  <2>1. CASE DrainCompletes
    <3>1. Cardinality(Busy) = 0
      BY <2>1, Counted DEF DrainCompletes, IInv, UnfinishedExact
    <3>2. Busy = {}
      BY <3>1, Counted, FS_EmptySet DEF IInv
    <3> QED BY <2>1, <3>2
            DEF DrainCompletes, IInv, TypeOK, StopCloses, history
  <2>2. CASE DrainExpires
    BY <2>2 DEF DrainExpires, IInv, TypeOK, StopCloses
  <2>3. CASE \E drain \in BOOLEAN : StopBegins(drain)
    BY <2>3 DEF StopBegins, IInv, TypeOK
  <2> QED BY <2>1, <2>2, <2>3
<1>3. TypeOK'
  BY <1>1, <1>2 DEF IInv, TypeOK
<1> QED BY <1>1, <1>2, <1>3
        DEF IInv, UnfinishedExact, HeldOnce, Apart, DeadLettersExhausted,
            Untried, StopCloses, OnlyShutdownLoses

-----------------------------------------------------------------------------
(* The theorems                                                            *)

LEMMA Inductive == IInv /\ [Next]_vars => IInv'
<1> SUFFICES ASSUME IInv, [Next]_vars PROVE IInv'
  OBVIOUS
<1>1. ASSUME NEW t \in Tasks, Producer(t) PROVE IInv'
  BY <1>1, RefusedKeeps, PublishedKeeps DEF Producer
<1>2. ASSUME NEW w \in Workers, Work(w) \/ WorkerCancelled(w) PROVE IInv'
  BY <1>2, WorkKeeps, PoolKeeps DEF WorkerCancelled
<1>3. ASSUME Lifecycle PROVE IInv'
  BY <1>3, PoolKeeps, StopKeeps DEF Lifecycle
<1>4. CASE UNCHANGED vars
  BY <1>4 DEF vars, places, history, IInv, TypeOK, UnfinishedExact, HeldOnce,
              Apart, DeadLettersExhausted, Untried, StopCloses,
              OnlyShutdownLoses, Busy, InHand
<1> QED BY <1>1, <1>2, <1>3, <1>4 DEF Next

LEMMA Invariance == Spec => []IInv
BY Initially, Inductive, PTL DEF Spec

\* Whatever the producers, the workers and stop() do (queue_worker.py:105-154),
\* the types hold, join() counts exactly the tasks queued or in hand, every
\* task has one fate, and only a closed queue dead-letters one early.
THEOREM AllAccounted == Spec => []Accounted
<1>1. IInv => Accounted
  BY FatesApart DEF IInv, Accounted
<1> QED BY <1>1, Invariance, PTL

\* While the queue is open no task is lost, and a drain that completed was
\* exact: it interrupts no worker (queue_worker.py:63-85).
THEOREM ShutdownLoses == Spec => []OnlyShutdownLoses
<1>1. IInv => OnlyShutdownLoses
  BY DEF IInv
<1> QED BY <1>1, Invariance, PTL

-----------------------------------------------------------------------------
(* LoadTest: the invariant                                                 *)

Steps == {"down", "collect", "moderate", "submit", "answer", "ack", "metric",
          "fail", "failAck", "failMetric"}

\* The types.
BrokerShape ==
  /\ runner \in {"publishing", "collecting", "done"}
  /\ published \in Nat /\ published <= TaskCount
  /\ runner = "publishing" => published < TaskCount
  /\ ready \subseteq 1 .. published
  /\ unacked \in [Consumers -> SUBSET (1 .. published)]
  /\ results \in [Kinds -> [LoadTasks -> Nat]]
WorkerShape ==
  /\ at \in [Consumers -> Steps]
  /\ batch \in [Consumers -> Seq(LoadTasks)]
  /\ next \in [Consumers -> Nat \ {0}]
  /\ connected \in [Consumers -> BOOLEAN]
EffectShape ==
  /\ stored \in [LoadTasks -> Nat] /\ deliveries \in [LoadTasks -> Nat]
  /\ tries \in [Consumers -> Attempts]
  /\ actions \in [Attempts -> [LoadTasks -> Nat]]
  /\ faults \in Nat
Shape == BrokerShape /\ WorkerShape /\ EffectShape

\* A worker past collecting works on one of its deliveries.
AtWork(w) ==
  /\ at[w] = "down" => batch[w] = <<>> /\ ~connected[w]
  /\ at[w] \in {"down", "collect"} => next[w] = 1
  /\ at[w] \notin {"down", "collect"} => next[w] <= Len(batch[w])

\* A batch has a task once: while it grows, the broker holds all of it.
Distinct(w) ==
  /\ ~connected[w] => unacked[w] = {}
  /\ connected[w] /\ at[w] = "collect" =>
       \A i \in 1 .. Len(batch[w]) : batch[w][i] \in unacked[w]
  /\ \A i, j \in 1 .. Len(batch[w]) : batch[w][i] = batch[w][j] => i = j

\* What a worker acknowledges is answered, and what it answers is decided.
AnsweredFirst(w) ==
  /\ at[w] \in {"submit", "answer"} =>
       \A i \in 1 .. Len(batch[w]) : /\ stored[batch[w][i]] > 0
                                     /\ i < next[w] => Times(batch[w][i], "ok") > 0
  /\ at[w] = "ack" => \A i \in 1 .. Len(batch[w]) : Times(batch[w][i], "ok") > 0
  /\ at[w] = "failAck" => Times(Task(w), "failed") > 0

WorkerSound(w) == AtWork(w) /\ Distinct(w) /\ AnsweredFirst(w)

\* The broker has given each task to one connection.
GivenOnce ==
  /\ \A w \in Consumers : unacked[w] \cap ready = {}
  /\ \A v, w \in Consumers : v # w => unacked[v] \cap unacked[w] = {}

\* Deliveries of a task that have not been decided, and those decided that have
\* not been answered, are still to be counted.
Undecided ==
  [t \in LoadTasks |->
     {w \in Consumers : /\ at[w] \in {"collect", "moderate"}
                        /\ \E i \in 1 .. Len(batch[w]) : batch[w][i] = t}]
Unanswered ==
  [t \in LoadTasks |->
     {w \in Consumers : /\ at[w] \in {"submit", "answer"}
                        /\ \E i \in 1 .. Len(batch[w]) :
                           i >= next[w] /\ batch[w][i] = t}]

\* Those whose action result attempt k may still insert.
ToInsert(w, k, i) ==
  \/ i > next[w]
  \/ i = next[w] /\ at[w] = "submit" /\ tries[w] <= k
Unsubmitted ==
  [k \in Attempts |-> [t \in LoadTasks |->
     {w \in Consumers : /\ at[w] \in {"submit", "answer"}
                        /\ \E i \in 1 .. Len(batch[w]) :
                           ToInsert(w, k, i) /\ batch[w][i] = t}]]
InBalance(t) ==
  /\ stored[t] + Cardinality(Undecided[t]) <= deliveries[t]
  /\ \A k \in Attempts :
       actions[k][t] + Cardinality(Unsubmitted[k][t]) <= stored[t]
  /\ Times(t, "ok") + Cardinality(Unanswered[t]) <= stored[t]
EffectsCounted == \A t \in LoadTasks : InBalance(t)

ReadWasPublished == collected \subseteq PublishedResults

\* Attempts are counted from one for each action result.
FirstTries == \A w \in Consumers : at[w] # "submit" => tries[w] = 1

LoadIInv == /\ Shape /\ GivenOnce /\ \A w \in Consumers : WorkerSound(w)
            /\ FirstTries /\ NoTaskLost /\ OkIsStored /\ EffectsCounted /\ ReadWasPublished

-----------------------------------------------------------------------------
(* Minima and counts                                                       *)

\* The least member of a finite set of numbers is one of them: of the sets of
\* what is not greater than a member, the least by inclusion is that of it.
LEMMA MinIsMember ==
  ASSUME NEW S \in SUBSET Nat, IsFiniteSet(S), S # {}
  PROVE  Min(S) \in S /\ \A i \in S : Min(S) <= i
<1> DEFINE Below(k) == {i \in S : i <= k}
           T == {Below(k) : k \in S}
<1>1. T \subseteq FiniteSubsetsOf(S) /\ T # {}
  <2>1. T \subseteq SUBSET S /\ T # {}
    OBVIOUS
  <2>2. FiniteSubsetsOf(S) = SUBSET S
    BY FS_FiniteSubsetsOfFinite
  <2> QED BY <2>1, <2>2
<1>2. PICK t \in T : \A u \in T : <<u, t>> \notin StrictSubsetOrdering(S)
  <2> HIDE DEF T
  <2> QED BY ONLY <1>1, FS_StrictSubsetOrderingWellFounded, WFMin
<1>3. PICK k \in S : t = Below(k)
  BY <1>2
<1>4. ASSUME NEW j \in S, j < k
      PROVE  FALSE
  <2>0. \A i \in S : i <= j => i <= k
    BY <1>4
  <2>1. Below(j) \in T /\ Below(j) \subseteq Below(k)
    BY <2>0
  <2>2. k \in Below(k) /\ k \notin Below(j)
    BY <1>4
  <2>3. <<Below(j), t>> \in StrictSubsetOrdering(S)
    BY <2>1, <2>2, <1>3 DEF StrictSubsetOrdering
  <2> QED BY <1>2, <2>1, <2>3
<1>5. \A i \in S : k <= i
  BY <1>4
<1> QED BY <1>5 DEF Min

\* Sets of workers are finite; one that gains or loses one worker at most
\* changes its size by one at most.
LEMMA ConsumersCounted ==
  ASSUME NEW S \in SUBSET Consumers
  PROVE  /\ IsFiniteSet(S) /\ Cardinality(S) \in Nat
         /\ \A T \in SUBSET S : Cardinality(T) <= Cardinality(S)
         /\ \A w : Cardinality(S \cup {w}) <= Cardinality(S) + 1
         /\ \A w \in S : Cardinality(S \ {w}) = Cardinality(S) - 1
<1>1. IsFiniteSet(S)
  BY ConsumersFinite, FS_Subset
<1>2. Cardinality(S) \in Nat
  BY <1>1, FS_CardinalityType
<1> QED BY <1>1, <1>2, FS_Subset, FS_AddElement, FS_RemoveElement

-----------------------------------------------------------------------------
(* One step                                                                *)

LEMMA CountFacts ==
  ASSUME NEW f \in [LoadTasks -> Nat], NEW ts
  PROVE  /\ Count(f, ts) \in [LoadTasks -> Nat]
         /\ \A t \in LoadTasks :
              Count(f, ts)[t] = IF t \in ts THEN f[t] + 1 ELSE f[t]
BY DEF Count

LEMMA InsertedFacts ==
  ASSUME EffectShape, NEW w \in Consumers
  PROVE  /\ Inserted(w) \in [Attempts -> [LoadTasks -> Nat]]
         /\ \A k \in Attempts, t \in LoadTasks :
              Inserted(w)[k][t] = IF k = tries[w] /\ t = Task(w)
                                  THEN actions[k][t] + 1 ELSE actions[k][t]
<1>1. tries[w] \in Attempts /\ actions \in [Attempts -> [LoadTasks -> Nat]]
  BY DEF EffectShape
<1>2. Inserted(w) \in [Attempts -> [LoadTasks -> Nat]]
  <2>1. CASE Task(w) \in LoadTasks
    BY <1>1, <2>1 DEF Inserted
  <2>2. CASE Task(w) \notin LoadTasks
    BY <1>1, <2>2 DEF Inserted
  <2> QED BY <2>1, <2>2
<1>3. \A k \in Attempts, t \in LoadTasks :
        Inserted(w)[k][t] = IF k = tries[w] /\ t = Task(w)
                            THEN actions[k][t] + 1 ELSE actions[k][t]
  BY <1>1 DEF Inserted
<1> QED BY <1>2, <1>3

LEMMA LoadInitially == LoadInit => LoadIInv
<1> SUFFICES ASSUME LoadInit PROVE LoadIInv
  OBVIOUS
<1>1. Shape
  BY LoadAssumption DEF LoadInit, Shape, BrokerShape, WorkerShape, EffectShape,
                        Steps, None, LoadTasks, Attempts
<1>2. /\ \A w \in Consumers : WorkerSound(w)
      /\ GivenOnce /\ NoTaskLost
  BY DEF LoadInit, WorkerSound, AtWork, Distinct, AnsweredFirst, GivenOnce,
         NoTaskLost, Gone
<1>3. \A t \in LoadTasks : Times(t, "ok") = 0
  BY DEF LoadInit, Times, Kinds, None
<1>4. OkIsStored /\ ReadWasPublished
  BY <1>3 DEF LoadInit, OkIsStored, ReadWasPublished
<1>5. EffectsCounted
  <2>1. \A t \in LoadTasks :
          /\ Undecided[t] = {} /\ Unanswered[t] = {}
          /\ \A k \in Attempts : Unsubmitted[k][t] = {}
    BY DEF LoadInit, Undecided, Unanswered, Unsubmitted
  <2>2. \A t \in LoadTasks :
          /\ stored[t] = 0 /\ deliveries[t] = 0
          /\ \A k \in Attempts : actions[k][t] = 0
    BY DEF LoadInit, None
  <2>3. Cardinality({}) = 0
    BY FS_EmptySet
  <2>4. ASSUME NEW t \in LoadTasks, NEW k \in Attempts
        PROVE  actions[k][t] + Cardinality(Unsubmitted[k][t]) <= stored[t]
    <3>1. Unsubmitted[k][t] = {} /\ actions[k][t] = 0 /\ stored[t] = 0
      BY <2>1, <2>2
    <3> QED BY <2>3, <3>1
  <2>5. ASSUME NEW t \in LoadTasks
        PROVE  /\ stored[t] + Cardinality(Undecided[t]) <= deliveries[t]
               /\ Times(t, "ok") + Cardinality(Unanswered[t]) <= stored[t]
    BY <1>3, <2>1, <2>2, <2>3
  <2> QED BY <2>4, <2>5 DEF EffectsCounted, InBalance
<1>6. FirstTries
  BY DEF LoadInit, FirstTries
<1> QED BY <1>1, <1>2, <1>4, <1>5, <1>6 DEF LoadIInv

\* What the broker gives out is a task it has.
LEMMA OldestIsReady ==
  ASSUME BrokerShape, ready # {}
  PROVE  Min(ready) \in ready /\ Min(ready) \in LoadTasks
<1>1. TaskCount \in Int /\ 1 \in Int
  BY LoadAssumption
<1>2. ready \in SUBSET (1 .. TaskCount)
  BY <1>1 DEF BrokerShape
<1>3. IsFiniteSet(1 .. TaskCount)
  BY <1>1, FS_Interval
<1>4. IsFiniteSet(ready)
  BY <1>2, <1>3, FS_Subset
<1>5. ready \in SUBSET Nat
  BY DEF BrokerShape
<1>6. Min(ready) \in ready
  BY <1>4, <1>5, MinIsMember
<1> QED BY <1>2, <1>6 DEF LoadTasks

\* Every action of a worker but Receive, as far as types go: what the broker holds
\* for it goes nowhere but back, and the number of effects of a task grows by
\* one at most.
GoesTo(w) ==
  /\ at' \in {[at EXCEPT ![w] = s] : s \in Steps}
  /\ batch' \in {batch, [batch EXCEPT ![w] = <<>>]}
  /\ next' \in {next, [next EXCEPT ![w] = 1], [next EXCEPT ![w] = @ + 1]}
  /\ connected' \in {[connected EXCEPT ![w] = c] : c \in BOOLEAN}
Releases(w) ==
  \/ UNCHANGED <<ready, unacked>>
  \/ /\ ready' = ready \cup unacked[w]
     /\ unacked' = [unacked EXCEPT ![w] = {}]
  \/ /\ at[w] \in {"ack", "failAck"} /\ ready' = ready
     /\ unacked' = [unacked EXCEPT ![w] = @ \ {Task(w)}]
Answers(w) ==
  \/ results' = results
  \/ at[w] = "answer" /\ Send(w, "ok")
  \/ Send(w, "failed")
Affects(w) ==
  /\ stored' = stored \/ \E ts : stored' = Count(stored, ts)
  /\ tries' \in {[tries EXCEPT ![w] = k] : k \in Attempts}
  /\ \/ actions' = actions
     \/ at[w] = "submit" /\ actions' = Inserted(w)
  /\ deliveries' = deliveries
  /\ faults' \in {faults, faults + 1}

LEMMA ServeSteps ==
  ASSUME Shape, NEW w \in Consumers,
         \/ Serve(w) \/ ModerateFails(w) \/ ReplyLost(w)
         \/ SubmitFails(w) \/ Disconnect(w) \/ Crash(w),
         ~Receive(w)
  PROVE  /\ GoesTo(w) /\ Releases(w) /\ Affects(w) /\ Answers(w)
         /\ UNCHANGED run
<1>1. /\ \A s \in Steps : Goto(w, s) => at' \in {[at EXCEPT ![w] = u] : u \in Steps}
      /\ at = [at EXCEPT ![w] = at[w]] /\ at[w] \in Steps
      /\ connected = [connected EXCEPT ![w] = connected[w]]
      /\ connected[w] \in BOOLEAN
  BY DEF Shape, WorkerShape, Goto
<1>a. /\ tries = [tries EXCEPT ![w] = tries[w]] /\ tries[w] \in Attempts
      /\ 1 \in Attempts /\ MaxRepeats \in Nat
      /\ tries[w] < MaxRepeats => tries[w] + 1 \in Attempts
  BY LoadAssumption DEF Shape, EffectShape, Attempts
<1>b. /\ tries' = tries => tries' \in {[tries EXCEPT ![w] = k] : k \in Attempts}
      /\ \A k \in Attempts :
           Try(w, k) => tries' \in {[tries EXCEPT ![w] = j] : j \in Attempts}
  BY <1>a DEF Try
<1>2. CASE Connect(w)
  BY <1>1, <1>b, <1>2 DEF Connect, GoesTo, Releases, Affects, Answers, Goto,
                          broker, effects, Steps
<1>3. CASE CloseBatch(w)
  BY <1>1, <1>b, <1>3 DEF CloseBatch, GoesTo, Releases, Affects, Answers, broker,
                          effects, Steps
<1>4. CASE Moderate(w)
  BY <1>1, <1>b, <1>4 DEF Moderate, GoesTo, Releases, Affects, Answers, Turn,
                          broker, Steps
<1>5. CASE ModerateFails(w)
  BY <1>1, <1>b, <1>5 DEF ModerateFails, GoesTo, Releases, Affects, Answers, Turn,
                          Fault, broker, Steps
<1>6. CASE Answer(w)
  BY <1>1, <1>b, <1>6 DEF Answer, GoesTo, Releases, Affects, Answers, Turn,
                          Advance, effects, Steps
<1>7. CASE Submit(w)
  BY <1>1, <1>a, <1>b, <1>7 DEF Submit, GoesTo, Releases, Affects, Answers, broker,
                                Steps
<1>8. CASE Ack(w)
  BY <1>1, <1>b, <1>8 DEF Ack, GoesTo, Releases, Affects, Answers, Turn, Advance,
                          effects, Steps
<1>9. CASE Metric(w)
  BY <1>1, <1>b, <1>9 DEF Metric, Idle, GoesTo, Releases, Affects, Answers, Turn,
                          Fault, broker, effects, Steps
<1>10. CASE Fail(w)
  BY <1>1, <1>b, <1>10 DEF Fail, GoesTo, Releases, Affects, Answers, effects, Steps
<1>11. CASE FailAck(w)
  BY <1>1, <1>b, <1>11 DEF FailAck, GoDown, GoesTo, Releases, Affects, Answers,
                           Turn, Advance, effects, Steps
<1>12. CASE FailMetric(w)
  BY <1>1, <1>b, <1>12 DEF FailMetric, GoDown, Idle, GoesTo, Releases, Affects,
                           Answers, Turn, Fault, effects, Steps
<1>13. CASE Stumble(w)
  BY <1>1, <1>b, <1>13 DEF Stumble, GoDown, GoesTo, Releases, Affects, Answers,
                           effects, Steps
<1>14. CASE Disconnect(w)
  BY <1>1, <1>b, <1>14 DEF Disconnect, GoesTo, Releases, Affects, Answers, Fault,
                           effects, Steps
<1>15. CASE Crash(w)
  BY <1>1, <1>a, <1>b, <1>15 DEF Crash, GoDown, GoesTo, Releases, Affects, Answers,
                                 Fault, Steps
<1>16. CASE ReplyLost(w) \/ SubmitFails(w)
  <2>1. /\ at[w] = "submit" /\ faults' = faults + 1
        /\ UNCHANGED <<run, broker, batch, connected, stored, deliveries>>
        /\ actions' \in {actions, Inserted(w)}
        /\ UNCHANGED <<at, next>> \/ Turn(w, "fail")
        /\ \/ Try(w, 1)
           \/ tries[w] < MaxRepeats /\ Try(w, tries[w] + 1)
    BY <1>16 DEF ReplyLost, SubmitFails, Fault
  <2> QED BY <1>1, <1>a, <1>b, <2>1 DEF GoesTo, Releases, Affects, Answers, Turn,
                                        broker, Steps
<1> QED BY <1>2, <1>3, <1>4, <1>5, <1>6, <1>7, <1>8, <1>9, <1>10, <1>11, <1>12,
           <1>13, <1>14, <1>15, <1>16 DEF Serve

LEMMA ShapeKept ==
  ASSUME Shape, LoadNext
  PROVE  Shape'
<1>1. CASE Publish
  BY <1>1, LoadAssumption DEF Shape, BrokerShape, WorkerShape, EffectShape,
                              Publish, worker, effects
<1>2. CASE Collect \/ Deadline
  <2>1. /\ runner' = "done"
        /\ faults' \in {faults, faults + 1}
        /\ UNCHANGED <<published, broker, worker, effects, deliveries>>
    BY <1>2 DEF Collect, Deadline, Fault
  <2> QED BY <2>1 DEF Shape, BrokerShape, WorkerShape, EffectShape, worker,
                      effects, broker
<1>3. ASSUME NEW w \in Consumers, Receive(w)
      PROVE  Shape'
  <2>1. Min(ready) \in ready /\ Min(ready) \in LoadTasks
    BY <1>3, OldestIsReady DEF Receive, Shape
  <2> DEFINE t == Min(ready)
  <2> HIDE DEF t
  <2>2. /\ ready' = ready \ {t}
        /\ unacked' = [unacked EXCEPT ![w] = @ \cup {t}]
        /\ batch' = [batch EXCEPT ![w] = Append(@, t)]
        /\ deliveries' = Count(deliveries, {t})
        /\ UNCHANGED <<run, results, at, next, connected, effects, faults>>
    BY <1>3 DEF Receive, t
  <2>3. BrokerShape'
    BY <2>1, <2>2 DEF Shape, BrokerShape, run, t
  <2>4. WorkerShape'
    BY <2>1, <2>2 DEF Shape, WorkerShape, t
  <2>5. EffectShape'
    BY <2>2, CountFacts DEF Shape, EffectShape, effects
  <2> QED BY <2>3, <2>4, <2>5 DEF Shape
<1>4. ASSUME NEW w \in Consumers,
             GoesTo(w), Releases(w), Affects(w), Answers(w), UNCHANGED run
      PROVE  Shape'
  <2>1. results' \in [Kinds -> [LoadTasks -> Nat]]
    BY <1>4 DEF Shape, BrokerShape, Answers, Send
  <2>2. BrokerShape'
    BY <1>4, <2>1 DEF Shape, BrokerShape, Releases, run
  <2>3. WorkerShape'
    <3>1. at' \in [Consumers -> Steps] /\ connected' \in [Consumers -> BOOLEAN]
      BY <1>4 DEF Shape, WorkerShape, GoesTo
    <3>2. batch' \in [Consumers -> Seq(LoadTasks)]
      <4>1. batch' = batch \/ batch' = [batch EXCEPT ![w] = <<>>]
        BY <1>4 DEF GoesTo
      <4>2. batch \in [Consumers -> Seq(LoadTasks)] /\ <<>> \in Seq(LoadTasks)
        BY DEF Shape, WorkerShape
      <4> QED BY <4>1, <4>2
    <3>3. next' \in [Consumers -> Nat \ {0}]
      <4>1. \/ next' = next \/ next' = [next EXCEPT ![w] = 1]
            \/ next' = [next EXCEPT ![w] = next[w] + 1]
        BY <1>4 DEF GoesTo
      <4> QED BY <4>1 DEF Shape, WorkerShape
    <3> QED BY <3>1, <3>2, <3>3 DEF WorkerShape
  <2>4. EffectShape'
    <3>1. EffectShape /\ (stored' = stored \/ \E ts : stored' = Count(stored, ts))
      BY <1>4 DEF Shape, Affects
    <3>2. stored' \in [LoadTasks -> Nat]
      BY <3>1, CountFacts DEF EffectShape
    <3>3. actions' \in [Attempts -> [LoadTasks -> Nat]]
      BY <1>4, <3>1, InsertedFacts DEF EffectShape, Affects
    <3>4. tries' \in [Consumers -> Attempts] /\ faults' \in Nat
      BY <1>4, <3>1 DEF EffectShape, Affects
    <3> QED BY <1>4, <3>1, <3>2, <3>3, <3>4 DEF EffectShape, Affects
  <2> QED BY <2>2, <2>3, <2>4 DEF Shape
<1> QED BY <1>1, <1>2, <1>3, <1>4, ServeSteps DEF LoadNext, Serve, Shape

\* A worker leaves the others alone, takes nothing from what was stored or
\* published, and only Receive has tasks given to it.
LEMMA OthersKept ==
  ASSUME Shape, NEW w \in Consumers,
         \/ Serve(w) \/ ModerateFails(w) \/ ReplyLost(w)
         \/ SubmitFails(w) \/ Disconnect(w) \/ Crash(w)
  PROVE  /\ \A v \in Consumers \ {w} :
              /\ at'[v] = at[v] /\ batch'[v] = batch[v] /\ next'[v] = next[v]
              /\ connected'[v] = connected[v] /\ unacked'[v] = unacked[v]
              /\ tries'[v] = tries[v]
         /\ \A t \in LoadTasks : /\ stored'[t] >= stored[t]
                                 /\ Times(t, "ok")' >= Times(t, "ok")
                                 /\ Times(t, "failed")' >= Times(t, "failed")
         /\ UNCHANGED run
<1>1. CASE Receive(w)
  BY <1>1 DEF Receive, Shape, WorkerShape, BrokerShape, EffectShape, run, effects,
              Times, Kinds
<1>2. CASE ~Receive(w)
  <2>1. GoesTo(w) /\ Releases(w) /\ Affects(w) /\ Answers(w) /\ UNCHANGED run
    BY <1>2, ServeSteps DEF Shape
  <2>2. results' = results \/ Send(w, "ok") \/ Send(w, "failed")
    BY <2>1 DEF Answers
  <2>3. \A v \in Consumers \ {w} :
              /\ at'[v] = at[v] /\ batch'[v] = batch[v] /\ next'[v] = next[v]
              /\ connected'[v] = connected[v] /\ unacked'[v] = unacked[v]
    BY <2>1 DEF GoesTo, Releases, Shape, WorkerShape, BrokerShape
  <2>6. \A v \in Consumers \ {w} : tries'[v] = tries[v]
    BY <2>1 DEF Affects, Shape, EffectShape
  <2>4. \A t \in LoadTasks : stored'[t] >= stored[t]
    BY <2>1, CountFacts DEF Affects, Shape, EffectShape
  <2>5. \A t \in LoadTasks : /\ Times(t, "ok")' >= Times(t, "ok")
                             /\ Times(t, "failed")' >= Times(t, "failed")
    BY <2>2 DEF Send, Shape, BrokerShape, Times, Kinds
  <2> QED BY <2>1, <2>3, <2>4, <2>5, <2>6
<1> QED BY <1>1, <1>2

\* Whoever leaves the submission counts from one again.
LEMMA TriesKept ==
  ASSUME Shape, FirstTries, NEW w \in Consumers,
         \/ Serve(w) \/ ModerateFails(w) \/ ReplyLost(w)
         \/ SubmitFails(w) \/ Disconnect(w) \/ Crash(w)
  PROVE  FirstTries'
<1>1. \A v \in Consumers \ {w} : at'[v] = at[v] /\ tries'[v] = tries[v]
  BY OthersKept
<1>2. /\ \A k : Try(w, k) => tries'[w] = k
      /\ \A s : Turn(w, s) \/ Goto(w, s) => at'[w] = s
  BY DEF Try, Turn, Goto, Shape, WorkerShape, EffectShape
<1>3. CASE Submit(w) \/ SubmitFails(w) \/ Crash(w)
  <2>1. Try(w, 1)
    BY <1>3 DEF Submit, SubmitFails, Crash
  <2> QED BY <1>1, <1>2, <2>1 DEF FirstTries
<1>4. CASE ReplyLost(w)
  <2>1. Try(w, 1) \/ (at[w] = "submit" /\ at' = at)
    BY <1>4 DEF ReplyLost
  <2> QED BY <1>1, <1>2, <2>1 DEF FirstTries
<1>5. CASE \/ Connect(w) \/ CloseBatch(w) \/ Receive(w) \/ Moderate(w)
           \/ ModerateFails(w) \/ Answer(w) \/ Ack(w) \/ Metric(w) \/ Fail(w)
           \/ FailAck(w) \/ FailMetric(w) \/ Stumble(w) \/ Disconnect(w)
  <2>1. tries' = tries
    BY <1>5 DEF Connect, CloseBatch, Receive, Moderate, ModerateFails, Answer, Ack,
                Metric, Fail, FailAck, FailMetric, Stumble, Disconnect, effects
  <2>2. at[w] = "submit" => ~Stumble(w)
    BY DEF Stumble
  <2>3. at[w] = "submit" => at'[w] = "submit"
    BY <1>5, <2>2 DEF Connect, CloseBatch, Receive, Moderate, ModerateFails, Answer,
                      Ack, Metric, Fail, FailAck, FailMetric, Disconnect
  <2> QED BY <1>1, <2>1, <2>3 DEF FirstTries
<1> QED BY <1>3, <1>4, <1>5 DEF Serve

\* What is sound about the worker that moves.
LEMMA MoverSound ==
  ASSUME Shape, Shape', GivenOnce, NEW w \in Consumers, WorkerSound(w),
         \/ Serve(w) \/ ModerateFails(w) \/ ReplyLost(w)
         \/ SubmitFails(w) \/ Disconnect(w) \/ Crash(w)
  PROVE  WorkerSound(w)'
<1> DEFINE b == batch[w]
           n == next[w]
<1>0. /\ b \in Seq(LoadTasks) /\ Len(b) \in Nat /\ n \in Nat \ {0}
      /\ \A i \in 1 .. Len(b) : b[i] \in LoadTasks
      /\ \A s : Goto(w, s) => at'[w] = s
      /\ \A s : Turn(w, s) => at'[w] = s /\ next'[w] = 1
      /\ \A s, a : Advance(w, s, a) =>
           \/ n < Len(b) /\ at'[w] = s /\ next'[w] = n + 1
           \/ n = Len(b) /\ at'[w] = a /\ next'[w] = 1
      /\ Idle(w) => at'[w] = "collect" /\ batch'[w] = <<>> /\ next'[w] = 1
      /\ GoDown(w) => /\ at'[w] = "down" /\ batch'[w] = <<>> /\ next'[w] = 1
                      /\ ~connected'[w] /\ unacked'[w] = {}
  BY DEF Shape, WorkerShape, BrokerShape, Goto, Turn, Advance, Idle, GoDown
<1>a. AtWork(w) /\ Distinct(w) /\ AnsweredFirst(w)
  BY DEF WorkerSound
<1>b. \A t \in LoadTasks : /\ stored'[t] >= stored[t]
                           /\ Times(t, "ok")' >= Times(t, "ok")
                           /\ Times(t, "failed")' >= Times(t, "failed")
  BY OthersKept
<1>c. \A t \in LoadTasks : /\ stored[t] \in Nat /\ stored'[t] \in Nat
                           /\ Times(t, "ok") \in Nat /\ Times(t, "ok")' \in Nat
                           /\ Times(t, "failed") \in Nat
                           /\ Times(t, "failed")' \in Nat
  BY DEF Shape, EffectShape, BrokerShape, Times, Kinds
<1>d. \A k \in Kinds, t \in LoadTasks :
        Send(w, k) /\ t = Task(w) => results'[k][t] > 0
  BY DEF Send, Shape, BrokerShape, Times, Kinds
<1>e. GoDown(w) => WorkerSound(w)'
  BY <1>0 DEF WorkerSound, AtWork, Distinct, AnsweredFirst
<1>f. ASSUME Idle(w), unacked'[w] \in {unacked[w], {}}, connected'[w] = connected[w]
      PROVE  WorkerSound(w)'
  BY <1>0, <1>a, <1>f DEF WorkerSound, AtWork, Distinct, AnsweredFirst
<1> HIDE DEF b, n
<1>1. CASE Connect(w)
  <2>1. at[w] = "down" /\ at'[w] = "collect" /\ batch'[w] = batch[w] /\ next'[w] = n
    BY <1>1, <1>0 DEF Connect, n
  <2> QED BY <2>1, <1>1, <1>a DEF Connect, WorkerSound, AtWork, Distinct,
                                  AnsweredFirst, Shape, WorkerShape, n
<1>2. CASE CloseBatch(w)
  <2>1. /\ at'[w] = "moderate" /\ batch'[w] = b /\ b # <<>> /\ next'[w] = n
        /\ connected'[w] = connected[w] /\ unacked'[w] = unacked[w]
    BY <1>2, <1>0 DEF CloseBatch, broker, b, n
  <2> QED BY <2>1, <1>0, <1>a DEF WorkerSound, AtWork, Distinct, AnsweredFirst,
                                  b, n
<1>3. CASE Receive(w)
  <2> DEFINE t == Min(ready)
  <2>0. t \in ready /\ t \in LoadTasks
    BY <1>3, OldestIsReady DEF Receive, Shape
  <2> HIDE DEF t
  <2>1. /\ at[w] = "collect" /\ connected[w] /\ batch'[w] = Append(b, t)
        /\ at'[w] = "collect" /\ connected'[w] /\ next'[w] = n
        /\ unacked'[w] = unacked[w] \cup {t}
    BY <1>3 DEF Receive, Shape, WorkerShape, BrokerShape, b, n, t
  <2>2. \A i \in 1 .. Len(b) : b[i] # t
    BY <2>0, <2>1, <1>a DEF Distinct, GivenOnce, b
  <2>3. /\ Len(batch'[w]) = Len(b) + 1
        /\ \A i \in 1 .. Len(b) : batch'[w][i] = b[i]
        /\ batch'[w][Len(b) + 1] = t
    BY <1>0, <2>0, <2>1
  <2>4. AtWork(w)' /\ AnsweredFirst(w)'
    BY <2>1, <1>a DEF AtWork, AnsweredFirst, n
  <2>5. \A i \in 1 .. Len(batch'[w]) :
          \/ i \in 1 .. Len(b) /\ batch'[w][i] = b[i]
          \/ i = Len(b) + 1 /\ batch'[w][i] = t
    <3> DEFINE k == Len(b)
    <3>1. k \in Nat /\ Len(batch'[w]) = k + 1
      BY <1>0, <2>3
    <3>2. \A i \in 1 .. k : batch'[w][i] = b[i]
      BY <2>3
    <3>3. batch'[w][k + 1] = t
      BY <2>3
    <3> HIDE DEF k
    <3>4. ASSUME NEW i \in 1 .. Len(batch'[w])
          PROVE  i \in 1 .. k \/ i = k + 1
      BY <3>1
    <3> QED BY <3>2, <3>3, <3>4 DEF k
  <2>6. \A i \in 1 .. Len(batch'[w]) : batch'[w][i] \in unacked'[w]
    BY <2>1, <2>5, <1>a DEF Distinct, b
  <2>7. \A i, j \in 1 .. Len(batch'[w]) : batch'[w][i] = batch'[w][j] => i = j
    BY <2>2, <2>5, <1>a DEF Distinct, b
  <2>8. Distinct(w)'
    BY <2>1, <2>6, <2>7 DEF Distinct
  <2> QED BY <2>4, <2>8 DEF WorkerSound
<1>4. CASE Moderate(w)
  <2>1. /\ at[w] = "moderate" /\ at'[w] = "submit" /\ batch'[w] = b
        /\ next'[w] = 1 /\ connected'[w] = connected[w] /\ unacked'[w] = unacked[w]
        /\ stored' = Count(stored, ToSet(b))
    BY <1>4, <1>0 DEF Moderate, broker, b
  <2>2. \A i \in 1 .. Len(b) : stored'[b[i]] > 0
    <3>1. \A i \in 1 .. Len(b) : b[i] \in ToSet(b)
      BY <1>0 DEF ToSet
    <3>2. \A t \in LoadTasks : t \in ToSet(b) => stored'[t] = stored[t] + 1
      BY <2>1, CountFacts DEF Shape, EffectShape
    <3>3. \A t \in LoadTasks : t \in ToSet(b) => stored'[t] > 0
      BY <3>2, <1>c
    <3>4. \A i \in 1 .. Len(b) : b[i] \in LoadTasks
      BY <1>0
    <3> QED BY <3>1, <3>3, <3>4
  <2> QED BY <2>1, <2>2, <1>0, <1>a DEF WorkerSound, AtWork, Distinct,
                                        AnsweredFirst, b, n
<1>5. CASE \/ ModerateFails(w) \/ SubmitFails(w)
           \/ ReplyLost(w) /\ Turn(w, "fail")
  <2>1. /\ at[w] \in {"moderate", "submit"} /\ at'[w] = "fail" /\ batch'[w] = b
        /\ next'[w] = 1 /\ connected'[w] = connected[w] /\ unacked'[w] = unacked[w]
    BY <1>5, <1>0 DEF ModerateFails, SubmitFails, ReplyLost, broker, b
  <2> QED BY <2>1, <1>0, <1>a DEF WorkerSound, AtWork, Distinct, AnsweredFirst, b, n
<1>14. CASE \/ Submit(w)
            \/ ReplyLost(w) /\ UNCHANGED <<at, next>>
  <2>1. /\ at[w] = "submit" /\ at'[w] \in {"submit", "answer"} /\ batch'[w] = b
        /\ next'[w] = n /\ connected'[w] = connected[w] /\ unacked'[w] = unacked[w]
        /\ stored' = stored /\ results' = results
    BY <1>14, <1>0 DEF Submit, ReplyLost, broker, b, n
  <2> QED BY <2>1, <1>0, <1>a DEF WorkerSound, AtWork, Distinct, AnsweredFirst,
                                  Times, b, n
<1>6. CASE Answer(w)
  <2>1. /\ at[w] = "answer" /\ batch'[w] = b
        /\ \/ n < Len(b) /\ at'[w] = "submit" /\ next'[w] = n + 1
           \/ n = Len(b) /\ at'[w] = "ack" /\ next'[w] = 1
        /\ connected'[w] = connected[w] /\ unacked'[w] = unacked[w]
        /\ stored' = stored /\ Send(w, "ok")
    BY <1>6, <1>0 DEF Answer, effects, b
  <2>2. results'["ok"][b[n]] > 0 /\ n <= Len(b)
    BY <2>1, <1>0, <1>a, <1>d DEF AtWork, Task, Kinds, b, n
  <2>3. \A i \in 1 .. Len(b) : i < n + 1 => results'["ok"][b[i]] > 0
    <3>1. ASSUME NEW i \in 1 .. Len(b), i < n
          PROVE  results'["ok"][b[i]] > 0
      <4>1. results["ok"][b[i]] > 0 /\ b[i] \in LoadTasks
        BY <2>1, <3>1, <1>0, <1>a DEF AnsweredFirst, Times, b, n
      <4> QED BY <4>1, <1>b, <1>c DEF Times
    <3> QED BY <3>1, <2>2, <1>0
  <2>4. AtWork(w)' /\ Distinct(w)'
    BY <2>1, <1>0, <1>a DEF AtWork, Distinct, b
  <2>5. AnsweredFirst(w)'
    BY <2>1, <2>3, <1>0, <1>a DEF AnsweredFirst, Times, b
  <2> QED BY <2>4, <2>5 DEF WorkerSound
<1>7. CASE Ack(w)
  <2>1. /\ at[w] = "ack" /\ batch'[w] = b /\ results' = results
        /\ \/ n < Len(b) /\ at'[w] = "ack" /\ next'[w] = n + 1
           \/ n = Len(b) /\ at'[w] = "metric" /\ next'[w] = 1
        /\ connected'[w] = connected[w] /\ unacked'[w] \subseteq unacked[w]
    BY <1>7, <1>0 DEF Ack, b, Shape, BrokerShape
  <2>2. AtWork(w)' /\ Distinct(w)'
    BY <2>1, <1>0, <1>a DEF AtWork, Distinct, b
  <2>3. AnsweredFirst(w)'
    BY <2>1, <1>0, <1>a DEF AnsweredFirst, Times, b
  <2> QED BY <2>2, <2>3 DEF WorkerSound
<1>8. CASE Metric(w)
  <2>1. CASE Idle(w)
    BY <1>8, <2>1, <1>f DEF Metric, broker
  <2>2. CASE ~Idle(w)
    <3>1. /\ at[w] = "metric" /\ batch'[w] = b /\ at'[w] = "fail"
          /\ next'[w] = 1 /\ connected'[w] = connected[w] /\ unacked'[w] = unacked[w]
      BY <1>8, <2>2, <1>0 DEF Metric, broker, b
    <3> QED BY <3>1, <1>0, <1>a DEF WorkerSound, AtWork, Distinct, AnsweredFirst,
                                    b, n
  <2> QED BY <2>1, <2>2
<1>9. CASE Fail(w)
  <2>1. /\ at[w] = "fail" /\ at'[w] = "failAck" /\ batch'[w] = b /\ next'[w] = n
        /\ connected'[w] = connected[w] /\ unacked'[w] = unacked[w] /\ Send(w, "failed")
    BY <1>9, <1>0 DEF Fail, b, n
  <2>2. results'["failed"][b[n]] > 0
    BY <2>1, <1>0, <1>a, <1>d DEF AtWork, Task, Kinds, b, n
  <2> QED BY <2>1, <2>2, <1>0, <1>a DEF WorkerSound, AtWork, Distinct,
                                        AnsweredFirst, Times, Task, b, n
<1>10. CASE FailAck(w)
  <2>1. CASE GoDown(w)
    BY <2>1, <1>e
  <2>2. CASE ~GoDown(w)
    <3>1. /\ at[w] = "failAck" /\ batch'[w] = b
          /\ \/ n < Len(b) /\ at'[w] = "fail" /\ next'[w] = n + 1
             \/ n = Len(b) /\ at'[w] = "failMetric" /\ next'[w] = 1
          /\ connected'[w] = connected[w] /\ unacked'[w] \subseteq unacked[w]
      BY <1>10, <2>2, <1>0 DEF FailAck, b, Shape, BrokerShape
    <3> QED BY <3>1, <1>0, <1>a DEF WorkerSound, AtWork, Distinct, AnsweredFirst,
                                    b
  <2> QED BY <2>1, <2>2
<1>11. CASE FailMetric(w)
  BY <1>11, <1>e, <1>f DEF FailMetric
<1>12. CASE Stumble(w) \/ Crash(w)
  BY <1>12, <1>e DEF Stumble, Crash
<1>13. CASE Disconnect(w)
  <2>1. /\ at'[w] = at[w] /\ batch'[w] = b /\ next'[w] = n
        /\ ~connected'[w] /\ unacked'[w] = {} /\ UNCHANGED <<results, stored>>
    BY <1>13 DEF Disconnect, Shape, WorkerShape, BrokerShape, effects, b, n
  <2> QED BY <2>1, <1>0, <1>a DEF WorkerSound, AtWork, Distinct, AnsweredFirst,
                                  Times, Task, b, n
<1> QED BY <1>1, <1>2, <1>3, <1>4, <1>5, <1>6, <1>7, <1>8, <1>9, <1>10, <1>11,
           <1>12, <1>13, <1>14 DEF Serve, ReplyLost

\* The broker gives a task to one connection at a time, and what it has given
\* back or still has is not gone.
LEMMA GivenKept ==
  ASSUME Shape, Shape', GivenOnce, NoTaskLost, NEW w \in Consumers, WorkerSound(w),
         \/ Serve(w) \/ ModerateFails(w) \/ ReplyLost(w)
         \/ SubmitFails(w) \/ Disconnect(w) \/ Crash(w)
  PROVE  GivenOnce' /\ NoTaskLost'
<1> DEFINE All == ready \cup UNION {unacked[v] : v \in Consumers}
<1>0. \A t \in LoadTasks : /\ Times(t, "ok") \in Nat /\ Times(t, "ok")' \in Nat
                           /\ Times(t, "failed") \in Nat
                           /\ Times(t, "failed")' \in Nat
  BY DEF Shape, BrokerShape, Times, Kinds
<1>1. \A t \in LoadTasks : Times(t, "ok")' + Times(t, "failed")'
                         >= Times(t, "ok") + Times(t, "failed")
  BY <1>0, OthersKept
<1>2. 1 .. published \subseteq LoadTasks /\ published' = published
  BY OthersKept, LoadAssumption DEF Shape, BrokerShape, LoadTasks, run
<1>3. ASSUME All \subseteq All'
      PROVE  NoTaskLost'
  <2>1. Gone' \subseteq Gone
    BY <1>2, <1>3 DEF Gone
  <2>2. Gone \subseteq LoadTasks
    BY <1>2 DEF Gone
  <2> QED BY <1>0, <1>1, <2>1, <2>2 DEF NoTaskLost
<1>4. CASE Receive(w)
  <2> DEFINE t == Min(ready)
  <2>1. t \in ready
    BY <1>4, OldestIsReady DEF Receive, Shape
  <2> HIDE DEF t
  <2>2. ready' = ready \ {t} /\ unacked' = [unacked EXCEPT ![w] = @ \cup {t}]
    BY <1>4 DEF Receive, t
  <2>3. GivenOnce'
    BY <2>1, <2>2 DEF GivenOnce, Shape, BrokerShape
  <2>4. All \subseteq All'
    BY <2>1, <2>2 DEF Shape, BrokerShape
  <2> QED BY <1>3, <2>3, <2>4
<1>5. CASE ~Receive(w)
  <2>1. Releases(w) /\ Answers(w)
    BY <1>5, ServeSteps DEF Shape
  <2>2. GivenOnce'
    <3>1. /\ \A v \in Consumers : unacked'[v] \subseteq unacked[v]
          /\ \/ ready' = ready
             \/ ready' = ready \cup unacked[w] /\ unacked'[w] = {}
      BY <2>1 DEF Releases, Shape, BrokerShape
    <3>2. \A v \in Consumers : unacked'[v] \cap ready' = {}
      <4> SUFFICES ASSUME NEW v \in Consumers PROVE unacked'[v] \cap ready' = {}
        OBVIOUS
      <4>1. unacked[v] \cap ready = {} /\ (v # w => unacked[v] \cap unacked[w] = {})
        BY DEF GivenOnce
      <4> QED BY <3>1, <4>1
    <3>3. \A v, u \in Consumers : v # u => unacked'[v] \cap unacked'[u] = {}
      BY <3>1 DEF GivenOnce
    <3> QED BY <3>2, <3>3 DEF GivenOnce
  <2>3. CASE UNCHANGED <<ready, unacked>>
    BY <2>2, <2>3, <1>3
  <2>4. CASE ready' = ready \cup unacked[w] /\ unacked' = [unacked EXCEPT ![w] = {}]
    <3>1. All \subseteq All'
      BY <2>4 DEF Shape, BrokerShape
    <3> QED BY <2>2, <3>1, <1>3
  <2>5. CASE /\ at[w] \in {"ack", "failAck"} /\ ready' = ready
             /\ unacked' = [unacked EXCEPT ![w] = @ \ {Task(w)}]
    <3>1. Gone' \subseteq Gone \cup {Task(w)}
      BY <2>5, <1>2 DEF Gone, Shape, BrokerShape
    <3>2. /\ Task(w) \in LoadTasks
          /\ Times(Task(w), "ok") > 0 \/ Times(Task(w), "failed") > 0
      BY <2>5 DEF WorkerSound, AtWork, AnsweredFirst, Task, Shape, WorkerShape
    <3>3. Gone \subseteq LoadTasks
      BY <1>2 DEF Gone
    <3> DEFINE a == Task(w)
    <3>5. a \in LoadTasks /\ Times(a, "ok") + Times(a, "failed") > 0
      BY <3>2, <1>0
    <3>6. Gone' \subseteq Gone \cup {a}
      BY <3>1
    <3> HIDE DEF a
    <3>7. \A t \in Gone \cup {a} :
            t \in LoadTasks /\ Times(t, "ok") + Times(t, "failed") > 0
      BY <3>3, <3>5 DEF NoTaskLost
    <3>8. \A t \in Gone' : Times(t, "ok")' + Times(t, "failed")' > 0
      BY <1>0, <3>6, <3>7, <1>1
    <3> QED BY <2>2, <3>8 DEF NoTaskLost
  <2> QED BY <2>1, <2>3, <2>4, <2>5 DEF Releases
<1> QED BY <1>4, <1>5

\* An ok answer is sent for a task that was decided.
LEMMA StoredKept ==
  ASSUME Shape, Shape', OkIsStored, NEW w \in Consumers, WorkerSound(w),
         \/ Serve(w) \/ ModerateFails(w) \/ ReplyLost(w)
         \/ SubmitFails(w) \/ Disconnect(w) \/ Crash(w)
  PROVE  OkIsStored'
<1> SUFFICES ASSUME NEW t \in LoadTasks, Times(t, "ok")' > 0
             PROVE  stored'[t] > 0
  BY DEF OkIsStored
<1>1. stored'[t] >= stored[t] /\ stored[t] \in Nat /\ stored'[t] \in Nat
  BY OthersKept DEF Shape, EffectShape
<1>2. CASE Times(t, "ok")' = Times(t, "ok")
  BY <1>1, <1>2 DEF OkIsStored
<1>3. CASE Times(t, "ok")' # Times(t, "ok")
  <2>1. ~Receive(w)
    BY <1>3 DEF Receive, Times
  <2>2. Answers(w)
    BY <2>1, ServeSteps DEF Shape
  <2>3. at[w] = "answer" /\ t = Task(w)
    BY <2>2, <1>3 DEF Answers, Send, Times, Kinds, Shape, BrokerShape
  <2>4. next[w] \in 1 .. Len(batch[w])
    BY <2>3 DEF WorkerSound, AtWork, Shape, WorkerShape
  <2>5. stored[t] > 0
    BY <2>3, <2>4 DEF WorkerSound, AnsweredFirst, Task
  <2> QED BY <1>1, <2>5
<1> QED BY <1>2, <1>3

\* What a step of a worker changes in the books of one task, each by 0 or 1:
\* an attempt inserts what it had still to insert.
Inserts(w, t, decided) ==
  \A k \in Attempts :
    /\ \/ actions'[k][t] = actions[k][t]
       \/ /\ actions'[k][t] = actions[k][t] + 1
          /\ w \in Unsubmitted[k][t] /\ w \notin Unsubmitted'[k][t]
    /\ w \in Unsubmitted'[k][t] => w \in Unsubmitted[k][t] \/ decided = 1
Entries(w, t, taken, decided, told) ==
  /\ deliveries'[t] = deliveries[t] + taken
  /\ stored'[t] = stored[t] + decided
  /\ Inserts(w, t, decided)
  /\ Times(t, "ok")' = Times(t, "ok") + told
  /\ w \in Undecided'[t] => w \in Undecided[t] \/ taken = 1
  /\ decided = 1 => w \in Undecided[t] /\ w \notin Undecided'[t] /\ taken = 0
  /\ w \in Unanswered'[t] => w \in Unanswered[t] \/ decided = 1
  /\ told = 1 => w \in Unanswered[t] /\ w \notin Unanswered'[t] /\ decided = 0

\* The entries of the other workers stay.
OthersStay(w, t) ==
  \A v \in Consumers \ {w} :
    /\ v \in Undecided'[t] <=> v \in Undecided[t]
    /\ v \in Unanswered'[t] <=> v \in Unanswered[t]
    /\ \A k \in Attempts : v \in Unsubmitted'[k][t] <=> v \in Unsubmitted[k][t]

\* When only w may join or leave a set of workers, its size follows.
LEMMA OneMoves ==
  ASSUME NEW w \in Consumers,
         NEW A \in SUBSET Consumers, NEW B \in SUBSET Consumers,
         \A v \in Consumers \ {w} : v \in B <=> v \in A
  PROVE  /\ Cardinality(A) \in Nat /\ Cardinality(B) \in Nat
         /\ Cardinality(B) <= Cardinality(A) + 1
         /\ (w \in B => w \in A) => Cardinality(B) <= Cardinality(A)
         /\ w \in A /\ w \notin B => Cardinality(B) + 1 <= Cardinality(A)
<1>1. Cardinality(A) \in Nat /\ Cardinality(B) \in Nat
  BY ConsumersCounted
<1>2. Cardinality(B) <= Cardinality(A) + 1
  <2>1. A \cup {w} \in SUBSET Consumers /\ B \in SUBSET (A \cup {w})
    OBVIOUS
  <2>2. /\ Cardinality(B) <= Cardinality(A \cup {w})
        /\ Cardinality(A \cup {w}) <= Cardinality(A) + 1
        /\ Cardinality(A \cup {w}) \in Nat
    BY <2>1, ConsumersCounted
  <2> QED BY <1>1, <2>2
<1>3. ASSUME w \in B => w \in A
      PROVE  Cardinality(B) <= Cardinality(A)
  <2>1. B \in SUBSET A
    BY <1>3
  <2> QED BY <2>1, ConsumersCounted
<1>4. ASSUME w \in A, w \notin B
      PROVE  Cardinality(B) + 1 <= Cardinality(A)
  <2>1. A \ {w} \in SUBSET Consumers /\ B \in SUBSET (A \ {w})
    BY <1>4
  <2>2. /\ Cardinality(A \ {w}) = Cardinality(A) - 1
        /\ Cardinality(B) <= Cardinality(A \ {w})
    BY <1>4, <2>1, ConsumersCounted
  <2> QED BY <1>1, <2>2
<1> QED BY <1>1, <1>2, <1>3, <1>4

\* The books of one task stay in balance when the worker's own entries do.
LEMMA Balance ==
  ASSUME Shape, Shape', EffectsCounted, NEW w \in Consumers, NEW t \in LoadTasks,
         OthersStay(w, t),
         NEW taken \in {0, 1}, NEW decided \in {0, 1}, NEW told \in {0, 1},
         Entries(w, t, taken, decided, told)
  PROVE  InBalance(t)'
<1>1. /\ Undecided[t] \in SUBSET Consumers /\ Undecided'[t] \in SUBSET Consumers
      /\ Unanswered[t] \in SUBSET Consumers /\ Unanswered'[t] \in SUBSET Consumers
      /\ \A k \in Attempts : /\ Unsubmitted[k][t] \in SUBSET Consumers
                             /\ Unsubmitted'[k][t] \in SUBSET Consumers
  BY DEF Undecided, Unanswered, Unsubmitted
<1>2. /\ stored[t] \in Nat /\ deliveries[t] \in Nat /\ Times(t, "ok") \in Nat
      /\ \A k \in Attempts : actions[k][t] \in Nat
  BY DEF Shape, BrokerShape, EffectShape, Times, Kinds
<1>3. InBalance(t)
  BY DEF EffectsCounted
<1>4. stored'[t] + Cardinality(Undecided'[t]) <= deliveries'[t]
  <2> DEFINE U == Undecided[t]
             V == Undecided'[t]
  <2> SUFFICES stored'[t] + Cardinality(V) <= deliveries'[t]
    OBVIOUS
  <2>1. \A v \in Consumers \ {w} : v \in V <=> v \in U
    BY DEF OthersStay
  <2>2. /\ Cardinality(U) \in Nat /\ Cardinality(V) \in Nat
        /\ Cardinality(V) <= Cardinality(U) + 1
        /\ (w \in V => w \in U) => Cardinality(V) <= Cardinality(U)
        /\ w \in U /\ w \notin V => Cardinality(V) + 1 <= Cardinality(U)
    BY <1>1, <2>1, OneMoves
  <2>3. /\ w \in V => w \in U \/ taken = 1
        /\ decided = 1 => w \in U /\ w \notin V /\ taken = 0
        /\ stored'[t] = stored[t] + decided /\ deliveries'[t] = deliveries[t] + taken
    BY DEF Entries
  <2>4. stored[t] + Cardinality(U) <= deliveries[t]
    BY <1>3 DEF InBalance
  <2> HIDE DEF U, V
  <2>5. CASE decided = 1
    BY <2>2, <2>3, <2>4, <2>5, <1>2
  <2>6. CASE decided = 0 /\ taken = 0
    BY <2>2, <2>3, <2>4, <2>6, <1>2
  <2>7. CASE decided = 0 /\ taken = 1
    BY <2>2, <2>3, <2>4, <2>7, <1>2
  <2> QED BY <2>5, <2>6, <2>7
<1>5. ASSUME NEW k \in Attempts
      PROVE  actions'[k][t] + Cardinality(Unsubmitted'[k][t]) <= stored'[t]
  <2> DEFINE A == Unsubmitted[k][t]
             B == Unsubmitted'[k][t]
  <2> SUFFICES actions'[k][t] + Cardinality(B) <= stored'[t]
    OBVIOUS
  <2>1. \A v \in Consumers \ {w} : v \in B <=> v \in A
    BY DEF OthersStay
  <2>2. /\ Cardinality(A) \in Nat /\ Cardinality(B) \in Nat
        /\ Cardinality(B) <= Cardinality(A) + 1
        /\ (w \in B => w \in A) => Cardinality(B) <= Cardinality(A)
        /\ w \in A /\ w \notin B => Cardinality(B) + 1 <= Cardinality(A)
    BY <1>1, <2>1, OneMoves
  <2>3. /\ \/ actions'[k][t] = actions[k][t]
           \/ actions'[k][t] = actions[k][t] + 1 /\ w \in A /\ w \notin B
        /\ w \in B => w \in A \/ decided = 1
        /\ stored'[t] = stored[t] + decided
    BY DEF Entries, Inserts
  <2>4. actions[k][t] + Cardinality(A) <= stored[t] /\ actions[k][t] \in Nat
    BY <1>2, <1>3 DEF InBalance
  <2> HIDE DEF A, B
  <2>5. CASE decided = 1
    BY <2>2, <2>3, <2>4, <2>5, <1>2
  <2>6. CASE decided = 0
    BY <2>2, <2>3, <2>4, <2>6, <1>2
  <2> QED BY <2>5, <2>6
<1>6. Times(t, "ok")' + Cardinality(Unanswered'[t]) <= stored'[t]
  <2> DEFINE A == Unanswered[t]
             B == Unanswered'[t]
             tn == Times(t, "ok")
             tn1 == Times(t, "ok")'
  <2> SUFFICES tn1 + Cardinality(B) <= stored'[t]
    OBVIOUS
  <2>1. \A v \in Consumers \ {w} : v \in B <=> v \in A
    BY DEF OthersStay
  <2>2. /\ Cardinality(A) \in Nat /\ Cardinality(B) \in Nat
        /\ Cardinality(B) <= Cardinality(A) + 1
        /\ (w \in B => w \in A) => Cardinality(B) <= Cardinality(A)
        /\ w \in A /\ w \notin B => Cardinality(B) + 1 <= Cardinality(A)
    BY <1>1, <2>1, OneMoves
  <2>3. /\ tn1 = tn + told
        /\ w \in B => w \in A \/ decided = 1
        /\ told = 1 => w \in A /\ w \notin B /\ decided = 0
        /\ stored'[t] = stored[t] + decided
    BY DEF Entries
  <2>4. tn + Cardinality(A) <= stored[t] /\ tn \in Nat
    BY <1>2, <1>3 DEF InBalance
  <2> HIDE DEF A, B, tn, tn1
  <2>5. CASE told = 1
    BY <2>2, <2>3, <2>4, <2>5, <1>2
  <2>6. CASE told = 0 /\ decided = 0
    BY <2>2, <2>3, <2>4, <2>6, <1>2
  <2>7. CASE told = 0 /\ decided = 1
    BY <2>2, <2>3, <2>4, <2>7, <1>2
  <2> QED BY <2>5, <2>6, <2>7
<1> QED BY <1>4, <1>5, <1>6 DEF InBalance

\* Each step of a worker keeps the books of every task in balance.
LEMMA EffectsCountedKept ==
  ASSUME Shape, Shape', FirstTries, EffectsCounted, NEW w \in Consumers,
         WorkerSound(w), WorkerSound(w)',
         \/ Serve(w) \/ ModerateFails(w) \/ ReplyLost(w)
         \/ SubmitFails(w) \/ Disconnect(w) \/ Crash(w)
  PROVE  EffectsCounted'
<1> SUFFICES ASSUME NEW t \in LoadTasks PROVE InBalance(t)'
  BY DEF EffectsCounted
<1>0. OthersStay(w, t)
  BY OthersKept DEF OthersStay, Undecided, Unanswered, Unsubmitted, ToInsert
<1>a. ASSUME NEW taken \in {0, 1}, NEW decided \in {0, 1}, NEW told \in {0, 1},
             Entries(w, t, taken, decided, told)
      PROVE  InBalance(t)'
  BY <1>0, <1>a, Balance
<1> SUFFICES \E taken, decided, told \in {0, 1} :
               Entries(w, t, taken, decided, told)
  BY <1>a
<1> DEFINE b == batch[w]
           n == next[w]
           None3 == Entries(w, t, 0, 0, 0)
<1>1. /\ deliveries[t] \in Nat /\ stored[t] \in Nat
      /\ Times(t, "ok") \in Nat
      /\ b \in Seq(LoadTasks) /\ Len(b) \in Nat /\ n \in Nat \ {0}
  BY DEF Shape, BrokerShape, WorkerShape, EffectShape, Times, Kinds
<1>b. /\ \A s : Goto(w, s) => at'[w] = s
      /\ \A s : Turn(w, s) => at'[w] = s /\ next'[w] = 1
  BY DEF Turn, Goto, Shape, WorkerShape
<1>2. CASE Receive(w)
  <2> DEFINE u == Min(ready)
  <2>1. u \in LoadTasks
    BY <1>2, OldestIsReady DEF Receive, Shape
  <2> HIDE DEF u
  <2>2. /\ at[w] = "collect" /\ at'[w] = "collect" /\ batch'[w] = Append(b, u)
        /\ deliveries' = Count(deliveries, {u})
        /\ UNCHANGED <<stored, actions, results>>
    BY <1>2 DEF Receive, effects, Shape, WorkerShape, u
  <2>3. \A i \in 1 .. Len(batch'[w]) : batch'[w][i] # u =>
          i \in 1 .. Len(b) /\ batch'[w][i] = b[i]
    BY <1>1, <2>1, <2>2
  <2>4. w \notin Unanswered'[t] /\ Inserts(w, t, 0)
    BY <2>2 DEF Unanswered, Unsubmitted, Inserts
  <2>5. CASE t = u
    <3>1. Entries(w, t, 1, 0, 0)
      BY <1>1, <2>2, <2>4, <2>5 DEF Entries, Times, Count
    <3> QED BY <3>1
  <2>6. CASE t # u
    <3>1. w \in Undecided'[t] => w \in Undecided[t]
      BY <2>2, <2>3, <2>6 DEF Undecided, b
    <3>2. deliveries'[t] = deliveries[t]
      BY <1>1, <2>2, <2>6 DEF Count
    <3>3. None3
      BY <1>1, <2>2, <2>4, <3>1, <3>2 DEF Entries, Times
    <3> QED BY <3>3
  <2> QED BY <2>5, <2>6
<1>3. CASE Moderate(w) \/ ModerateFails(w)
  <2>1. PICK ts : /\ stored' = Count(stored, ts) /\ ts \subseteq ToSet(b)
                  /\ Moderate(w) => ts = ToSet(b)
    <3>1. CASE Moderate(w)
      BY <3>1 DEF Moderate, b
    <3>2. CASE ModerateFails(w)
      <4>1. PICK k \in 0 .. Len(b) : stored' = Count(stored, {b[i] : i \in 1 .. k})
        BY <3>2 DEF ModerateFails, b
      <4>2. {b[i] : i \in 1 .. k} \subseteq ToSet(b)
        BY <1>1, <4>1 DEF ToSet
      <4>3. ~Moderate(w)
        BY <3>2 DEF ModerateFails, Moderate, Turn, Goto, Shape, WorkerShape
      <4> QED BY <4>1, <4>2, <4>3
    <3> QED BY <1>3, <3>1, <3>2
  <2>2. /\ at[w] = "moderate" /\ at'[w] \in {"submit", "fail"}
        /\ at'[w] = "submit" => Moderate(w)
        /\ batch' = batch /\ next'[w] = 1
        /\ UNCHANGED <<actions, results, deliveries>>
    BY <1>3, <1>b DEF Moderate, ModerateFails, broker
  <2>3. w \notin Undecided'[t]
    BY <2>2 DEF Undecided
  <2>4. t \in ToSet(b) <=> \E i \in 1 .. Len(b) : b[i] = t
    BY <1>1 DEF ToSet
  <2>5. CASE t \in ts
    <3>1. w \in Undecided[t]
      BY <2>1, <2>2, <2>4, <2>5 DEF Undecided, b
    <3>2. stored'[t] = stored[t] + 1
      BY <2>1, <2>5, CountFacts DEF Shape, EffectShape
    <3>3. Inserts(w, t, 1)
      BY <2>2 DEF Inserts
    <3>4. Entries(w, t, 0, 1, 0)
      BY <1>1, <2>2, <2>3, <3>1, <3>2, <3>3 DEF Entries, Times
    <3> QED BY <3>4
  <2>6. CASE t \notin ts
    <3>1. /\ w \notin Unanswered'[t]
          /\ \A k \in Attempts : w \notin Unsubmitted'[k][t]
      BY <2>1, <2>2, <2>4, <2>6 DEF Unanswered, Unsubmitted, b
    <3>2. Inserts(w, t, 0)
      BY <2>2, <3>1 DEF Inserts
    <3>3. stored'[t] = stored[t]
      <4>1. Count(stored, ts)[t] = IF t \in ts THEN stored[t] + 1 ELSE stored[t]
        BY CountFacts DEF Shape, EffectShape
      <4> QED BY <2>1, <2>6, <4>1
    <3>4. None3
      BY <1>1, <2>2, <2>3, <3>1, <3>2, <3>3 DEF Entries, Times
    <3> QED BY <3>4
  <2> QED BY <2>5, <2>6
<1>4. CASE Answer(w)
  <2>1. /\ at[w] = "answer" /\ batch' = batch /\ deliveries' = deliveries
        /\ UNCHANGED <<stored, tries, actions>> /\ Send(w, "ok")
        /\ \/ n < Len(b) /\ at'[w] = "submit" /\ next'[w] = n + 1
           \/ n = Len(b) /\ at'[w] = "ack" /\ next'[w] = 1
    BY <1>4 DEF Answer, Advance, Turn, Goto, Shape, WorkerShape, effects, b, n
  <2>2. n \in 1 .. Len(b) /\ Task(w) = b[n] /\ b[n] \in LoadTasks
    BY <1>1, <2>1 DEF WorkerSound, AtWork, Task, b, n
  <2>3. w \notin Undecided'[t]
    BY <2>1 DEF Undecided
  <2>4. w \in Unanswered'[t] => w \in Unanswered[t]
    BY <1>1, <2>1 DEF Unanswered, b, n
  <2>7. Inserts(w, t, 0)
    <3>1. ASSUME NEW k \in Attempts, w \in Unsubmitted'[k][t]
          PROVE  w \in Unsubmitted[k][t]
      <4>1. at'[w] = "submit" /\ next'[w] = n + 1
        BY <2>1, <3>1 DEF Unsubmitted
      <4>2. PICK i \in 1 .. Len(b) : (i > n + 1 \/ i = n + 1) /\ b[i] = t
        BY <2>1, <3>1, <4>1 DEF Unsubmitted, ToInsert, b
      <4>3. i > n
        BY <4>2, <1>1
      <4> QED BY <2>1, <4>2, <4>3 DEF Unsubmitted, ToInsert, b, n
    <3> QED BY <2>1, <3>1 DEF Inserts
  <2>5. CASE t = Task(w)
    <3>1. w \in Unanswered[t]
      BY <1>1, <2>1, <2>2, <2>5 DEF Unanswered, b, n
    <3>2. w \notin Unanswered'[t]
      <4>1. \A i \in 1 .. Len(b) : b[i] = t => i = n
        BY <2>2, <2>5 DEF WorkerSound, Distinct, b
      <4> QED BY <4>1, <1>1, <2>1 DEF Unanswered, b, n
    <3>3. Times(t, "ok")' = Times(t, "ok") + 1
      BY <2>1, <2>5 DEF Send, Times, Kinds, Shape, BrokerShape
    <3>4. Entries(w, t, 0, 0, 1)
      BY <1>1, <2>1, <2>3, <2>4, <2>7, <3>1, <3>2, <3>3 DEF Entries
    <3> QED BY <3>4
  <2>6. CASE t # Task(w)
    <3>1. Times(t, "ok")' = Times(t, "ok")
      BY <2>1, <2>6 DEF Send, Times, Kinds, Shape, BrokerShape
    <3>2. None3
      BY <1>1, <2>1, <2>3, <2>4, <2>7, <3>1 DEF Entries
    <3> QED BY <3>2
  <2> QED BY <2>5, <2>6
<1>5. CASE Submit(w) \/ ReplyLost(w)
  <2> DEFINE j == tries[w]
  <2>1. /\ at[w] = "submit" /\ batch' = batch
        /\ UNCHANGED <<deliveries, stored, results>>
        /\ actions' \in {actions, Inserted(w)}
        /\ \/ at'[w] = "answer" /\ next'[w] = n
           \/ at'[w] = "submit" /\ next'[w] = n /\ tries'[w] = j + 1
           \/ at'[w] = "fail"
    BY <1>5, <1>b DEF Submit, ReplyLost, Try, broker, Shape, EffectShape, b, n
  <2>2. j \in Attempts /\ Attempts \subseteq Int
    BY DEF Shape, EffectShape, Attempts
  <2>3. w \notin Undecided'[t] /\ (w \in Unanswered'[t] => w \in Unanswered[t])
    BY <2>1 DEF Undecided, Unanswered, b, n
  <2>4. n \in 1 .. Len(b) /\ Task(w) = b[n]
    BY <1>1, <2>1 DEF WorkerSound, AtWork, Task, b, n
  <2>5. ASSUME NEW k \in Attempts, w \in Unsubmitted'[k][t]
        PROVE  w \in Unsubmitted[k][t]
    <3>1. PICK i \in 1 .. Len(b) : ToInsert(w, k, i)' /\ b[i] = t
      BY <2>1, <2>5 DEF Unsubmitted, b
    <3>2. at'[w] \in {"submit", "answer"}
      BY <2>5 DEF Unsubmitted
    <3>3. i > n \/ (i = n /\ at'[w] = "submit" /\ tries'[w] <= k)
      BY <2>1, <3>1, <3>2 DEF ToInsert
    <3>4. i > n \/ (i = n /\ j <= k)
      <4>1. CASE at'[w] = "submit"
        <5>1. tries'[w] = j + 1 /\ j \in Int /\ k \in Int
          BY <2>1, <2>2, <4>1
        <5> QED BY <3>3, <5>1
      <4>2. CASE at'[w] # "submit"
        BY <3>3, <4>2
      <4> QED BY <4>1, <4>2
    <3>5. ToInsert(w, k, i)
      BY <2>1, <3>4 DEF ToInsert, n
    <3> QED BY <2>1, <3>1, <3>5 DEF Unsubmitted, b
  <2>6. ASSUME NEW k \in Attempts, actions'[k][t] # actions[k][t]
        PROVE  /\ actions'[k][t] = actions[k][t] + 1
               /\ w \in Unsubmitted[k][t] /\ w \notin Unsubmitted'[k][t]
    <3>1. k = j /\ t = b[n] /\ actions'[k][t] = actions[k][t] + 1
      BY <2>1, <2>4, <2>6, InsertedFacts DEF Shape
    <3>2. w \in Unsubmitted[k][t]
      <4>1. ToInsert(w, k, n)
        BY <2>1, <2>2, <3>1 DEF ToInsert, n
      <4> QED BY <2>1, <2>4, <3>1, <4>1 DEF Unsubmitted, b
    <3>3. ASSUME w \in Unsubmitted'[k][t]
          PROVE  FALSE
      <4>1. PICK i \in 1 .. Len(b) : ToInsert(w, k, i)' /\ b[i] = t
        BY <2>1, <3>3 DEF Unsubmitted, b
      <4>2. i = n
        BY <2>4, <3>1, <4>1 DEF WorkerSound, Distinct, b
      <4>3. at'[w] \in {"submit", "answer"}
        BY <3>3 DEF Unsubmitted
      <4>4. at'[w] = "submit" /\ tries'[w] <= k /\ tries'[w] = j + 1
        BY <1>1, <2>1, <4>1, <4>2, <4>3 DEF ToInsert
      <4> QED BY <2>2, <3>1, <4>4
    <3> QED BY <3>1, <3>2, <3>3
  <2>7. None3
    BY <1>1, <2>1, <2>3, <2>5, <2>6 DEF Entries, Inserts, Times
  <2> QED BY <2>7
<1>6. CASE \/ Connect(w) \/ CloseBatch(w) \/ SubmitFails(w) \/ Ack(w) \/ Metric(w)
           \/ Fail(w) \/ FailAck(w) \/ FailMetric(w) \/ Disconnect(w) \/ Crash(w)
           \/ Stumble(w)
  <2>1. UNCHANGED <<deliveries, stored, actions>>
    BY <1>6 DEF Connect, CloseBatch, SubmitFails, Ack, Metric, Fail, FailAck,
                FailMetric, Disconnect, Crash, Stumble, effects
  <2>2. Times(t, "ok")' = Times(t, "ok")
    BY <1>6 DEF Connect, CloseBatch, SubmitFails, Ack, Metric, Fail, FailAck,
                FailMetric, Disconnect, Crash, Stumble, broker, Send, Times, Kinds,
                Shape, BrokerShape
  <2>3. \/ at'[w] \notin {"collect", "moderate", "submit", "answer"}
        \/ batch'[w] = <<>>
        \/ at[w] = "collect" /\ at'[w] = "moderate" /\ batch' = batch
        \/ at' = at /\ batch' = batch /\ next' = next /\ tries' = tries
    BY <1>6 DEF Connect, CloseBatch, SubmitFails, Ack, Metric, Fail, FailAck,
                FailMetric, Disconnect, Crash, Stumble, GoDown, Idle, Turn, Goto,
                Advance, Shape, WorkerShape, WorkerSound, AtWork, effects
  <2>4. /\ w \in Undecided'[t] => w \in Undecided[t]
        /\ w \in Unanswered'[t] => w \in Unanswered[t]
        /\ \A k \in Attempts :
             w \in Unsubmitted'[k][t] => w \in Unsubmitted[k][t]
    BY <2>3 DEF Undecided, Unanswered, Unsubmitted, ToInsert
  <2>5. None3
    BY <1>1, <2>1, <2>2, <2>4 DEF Entries, Inserts
  <2> QED BY <2>5
<1> QED BY <1>2, <1>3, <1>4, <1>5, <1>6 DEF Serve

LEMMA ResultMember ==
  ASSUME NEW k \in Kinds, NEW t \in LoadTasks, NEW i
  PROVE  <<<<k, t>>, i>> \in PublishedResults <=> i \in 1 .. results[k][t]
<1>1. ASSUME i \in 1 .. results[k][t]
      PROVE  <<<<k, t>>, i>> \in PublishedResults
  <2>1. <<k, t>> \in Kinds \X LoadTasks
    OBVIOUS
  <2>2. <<<<k, t>>, i>> \in {<<k, t>>} \X (1 .. results[<<k, t>>[1]][<<k, t>>[2]])
    BY <1>1
  <2> QED BY <2>1, <2>2 DEF PublishedResults
<1>2. ASSUME <<<<k, t>>, i>> \in PublishedResults
      PROVE  i \in 1 .. results[k][t]
  <2>1. PICK p \in Kinds \X LoadTasks :
               <<<<k, t>>, i>> \in {p} \X (1 .. results[p[1]][p[2]])
    BY <1>2 DEF PublishedResults
  <2> QED BY <2>1
<1> QED BY <1>1, <1>2

LEMMA ResultForm ==
  ASSUME NEW r \in PublishedResults
  PROVE  \E k \in Kinds, t \in LoadTasks : r \in {<<k, t>>} \X (1 .. results[k][t])
<1>1. PICK p \in Kinds \X LoadTasks : r \in {p} \X (1 .. results[p[1]][p[2]])
  BY DEF PublishedResults
<1>2. p = <<p[1], p[2]>> /\ p[1] \in Kinds /\ p[2] \in LoadTasks
  OBVIOUS
<1> QED BY <1>1, <1>2

\* Results stay published.
LEMMA ResultsGrow ==
  ASSUME Shape, Shape',
         \A t \in LoadTasks : /\ Times(t, "ok")' >= Times(t, "ok")
                              /\ Times(t, "failed")' >= Times(t, "failed")
  PROVE  PublishedResults \subseteq PublishedResults'
<1> SUFFICES ASSUME NEW r \in PublishedResults
             PROVE  r \in PublishedResults'
  OBVIOUS
<1>1. PICK k \in Kinds, t \in LoadTasks : r \in {<<k, t>>} \X (1 .. results[k][t])
  BY ResultForm
<1>2. /\ results[k][t] \in Nat /\ results'[k][t] \in Nat
      /\ results'[k][t] >= results[k][t]
  BY DEF Shape, BrokerShape, Times, Kinds
<1>3. PICK i \in 1 .. results[k][t] : r = <<<<k, t>>, i>>
  BY <1>1
<1>4. i \in 1 .. results'[k][t]
  BY <1>2, <1>3
<1>5. r \in {<<k, t>>} \X (1 .. results'[<<k, t>>[1]][<<k, t>>[2]])
  BY <1>3, <1>4
<1>6. <<k, t>> \in Kinds \X LoadTasks
  OBVIOUS
<1> QED BY <1>5, <1>6 DEF PublishedResults

\* A step of a worker.
LEMMA ServeKept ==
  ASSUME LoadIInv, NEW w \in Consumers,
         \/ Serve(w) \/ ModerateFails(w) \/ ReplyLost(w)
         \/ SubmitFails(w) \/ Disconnect(w) \/ Crash(w)
  PROVE  LoadIInv'
<1>1. Shape /\ Shape' /\ WorkerSound(w) /\ FirstTries
  BY ShapeKept DEF LoadIInv, LoadNext
<1>2. WorkerSound(w)' /\ GivenOnce' /\ NoTaskLost' /\ OkIsStored'
  BY <1>1, MoverSound, GivenKept, StoredKept DEF LoadIInv
<1>3. EffectsCounted'
  BY <1>1, <1>2, EffectsCountedKept DEF LoadIInv
<1>4. ASSUME NEW v \in Consumers \ {w}
      PROVE  WorkerSound(v)'
  <2>1. /\ at'[v] = at[v] /\ batch'[v] = batch[v] /\ next'[v] = next[v]
        /\ connected'[v] = connected[v] /\ unacked'[v] = unacked[v]
    BY <1>1, OthersKept
  <2>2. \A t \in LoadTasks : /\ stored'[t] >= stored[t]
                             /\ Times(t, "ok")' >= Times(t, "ok")
                             /\ Times(t, "failed")' >= Times(t, "failed")
    BY <1>1, OthersKept
  <2>3. \A t \in LoadTasks : /\ stored[t] \in Nat /\ stored'[t] \in Nat
                             /\ Times(t, "ok") \in Nat /\ Times(t, "ok")' \in Nat
                             /\ Times(t, "failed") \in Nat
                             /\ Times(t, "failed")' \in Nat
    BY <1>1 DEF Shape, EffectShape, BrokerShape, Times, Kinds
  <2>4. \A t \in LoadTasks : /\ stored[t] > 0 => stored'[t] > 0
                             /\ results["ok"][t] > 0 => results'["ok"][t] > 0
                             /\ results["failed"][t] > 0 => results'["failed"][t] > 0
    BY <2>2, <2>3 DEF Times
  <2>5. /\ \A i \in 1 .. Len(batch[v]) : batch[v][i] \in LoadTasks
        /\ next[v] \in Nat \ {0} /\ Len(batch[v]) \in Nat
    BY <1>1 DEF Shape, WorkerShape
  <2>6. WorkerSound(v)
    BY DEF LoadIInv
  <2>7. AtWork(v)' /\ Distinct(v)'
    BY <2>1, <2>6 DEF WorkerSound, AtWork, Distinct
  <2>8. at[v] = "failAck" => batch[v][next[v]] \in LoadTasks
    BY <2>5, <2>6 DEF WorkerSound, AtWork
  <2>9. AnsweredFirst(v)'
    BY <2>1, <2>4, <2>5, <2>6, <2>8 DEF WorkerSound, AnsweredFirst, Times, Task
  <2> QED BY <2>7, <2>9 DEF WorkerSound
<1>5. ReadWasPublished'
  <2>1. PublishedResults \subseteq PublishedResults' /\ collected' = collected
    BY <1>1, OthersKept, ResultsGrow DEF run
  <2> QED BY <2>1 DEF LoadIInv, ReadWasPublished
<1>6. FirstTries'
  BY <1>1, TriesKept
<1> QED BY <1>1, <1>2, <1>3, <1>4, <1>5, <1>6 DEF LoadIInv

\* A step of the runner.
LEMMA RunnerKept ==
  ASSUME LoadIInv, Publish \/ Collect \/ Deadline
  PROVE  LoadIInv'
<1>1. Shape'
  BY ShapeKept DEF LoadIInv, LoadNext
<1>2. UNCHANGED <<unacked, results, worker, effects, deliveries>>
  BY DEF Publish, Collect, Deadline, broker
<1>3. (\A w \in Consumers : WorkerSound(w)') /\ OkIsStored' /\ FirstTries'
  BY <1>2 DEF LoadIInv, WorkerSound, AtWork, Distinct, AnsweredFirst, OkIsStored,
              FirstTries, Times, Task, worker, effects
<1>4. EffectsCounted'
  <2>1. UNCHANGED <<Undecided, Unanswered, Unsubmitted>>
    BY <1>2 DEF Undecided, Unanswered, Unsubmitted, ToInsert, worker, effects
  <2> QED BY <1>2, <2>1 DEF LoadIInv, EffectsCounted, InBalance, Times, effects
<1>5. ReadWasPublished'
  <2>1. PublishedResults' = PublishedResults
    BY <1>2 DEF PublishedResults
  <2>2. collected' = collected \/ collected' \in SUBSET PublishedResults
    BY DEF Publish, Collect, Deadline
  <2> QED BY <2>1, <2>2 DEF LoadIInv, ReadWasPublished
<1>6. CASE Publish
  <2>1. /\ published' = published + 1 /\ published \in Nat
        /\ ready' = ready \cup {published'}
        /\ ready \subseteq 1 .. published
        /\ unacked \in [Consumers -> SUBSET (1 .. published)] /\ unacked' = unacked
    BY <1>6 DEF Publish, LoadIInv, Shape, BrokerShape
  <2>2. published + 1 \notin 1 .. published
    BY <2>1
  <2>3. GivenOnce'
    BY <2>1, <2>2 DEF LoadIInv, GivenOnce
  <2>4. Gone' \subseteq Gone
    <3>1. 1 .. (published + 1) \subseteq 1 .. published \cup {published + 1}
      BY <2>1
    <3> QED BY <2>1, <3>1 DEF Gone
  <2>5. NoTaskLost'
    BY <1>2, <2>4 DEF LoadIInv, NoTaskLost, Times
  <2> QED BY <1>1, <1>3, <1>4, <1>5, <2>3, <2>5 DEF LoadIInv
<1>7. CASE Collect \/ Deadline
  <2>1. UNCHANGED <<ready, unacked, published>>
    BY <1>7 DEF Collect, Deadline, broker
  <2>2. GivenOnce' /\ NoTaskLost'
    BY <1>2, <2>1 DEF LoadIInv, GivenOnce, NoTaskLost, Gone, Times
  <2> QED BY <1>1, <1>3, <1>4, <1>5, <2>2 DEF LoadIInv
<1> QED BY <1>6, <1>7

\* The invariant holds in every behaviour of the load test.
THEOREM LoadInvariance == LoadSpec => []LoadIInv
<1>1. LoadIInv /\ [LoadNext]_loadVars => LoadIInv'
  <2> SUFFICES ASSUME LoadIInv, [LoadNext]_loadVars PROVE LoadIInv'
    OBVIOUS
  <2>1. CASE UNCHANGED loadVars
    <3>1. /\ UNCHANGED <<runner, published, collected, ready, unacked, results>>
          /\ UNCHANGED <<at, batch, next, connected>>
          /\ UNCHANGED <<stored, tries, actions, deliveries, faults>>
      BY <2>1 DEF loadVars, run, broker, worker, effects
    <3>2. Shape'
      BY <3>1 DEF LoadIInv, Shape, BrokerShape, WorkerShape, EffectShape
    <3>3. \A w \in Consumers : WorkerSound(w)'
      BY <3>1 DEF LoadIInv, WorkerSound, AtWork, Distinct, AnsweredFirst, Times,
                  Task
    <3>4. GivenOnce' /\ NoTaskLost' /\ OkIsStored' /\ FirstTries'
      BY <3>1 DEF LoadIInv, GivenOnce, NoTaskLost, OkIsStored, FirstTries, Gone,
                  Times
    <3>5. UNCHANGED <<Undecided, Unanswered, Unsubmitted>>
      BY <3>1 DEF Undecided, Unanswered, Unsubmitted, ToInsert
    <3>6. EffectsCounted'
      BY <3>1, <3>5 DEF LoadIInv, EffectsCounted, InBalance, Times
    <3>7. ReadWasPublished'
      BY <3>1 DEF LoadIInv, ReadWasPublished, PublishedResults
    <3> QED BY <3>2, <3>3, <3>4, <3>6, <3>7 DEF LoadIInv
  <2>2. CASE LoadNext
    BY <2>2, ServeKept, RunnerKept DEF LoadNext
  <2> QED BY <2>1, <2>2
<1> QED BY <1>1, LoadInitially, PTL DEF LoadSpec

\* In every state of every behaviour, a task the broker no longer has was
\* answered, and one answered ok has its decision stored (Ack, Fail, GoDown).
THEOREM NothingLost == LoadSpec => []TasksAccounted
<1>1. LoadIInv => TasksAccounted
  BY DEF LoadIInv, TasksAccounted
<1> QED BY <1>1, LoadInvariance, PTL

\* No task has more decisions or ok answers than deliveries, nor does any one
\* attempt at its action result insert more of them than it has decisions,
\* whatever crashes, loses a reply and is delivered again (Receive, Moderate,
\* Submit, ReplyLost, Answer).
THEOREM OncePerDelivery == LoadSpec => []EffectsPerDelivery
<1>1. LoadIInv => EffectsPerDelivery
  <2> SUFFICES ASSUME LoadIInv, NEW t \in LoadTasks
               PROVE  /\ stored[t] <= deliveries[t]
                      /\ \A k \in Attempts : actions[k][t] <= stored[t]
                      /\ Times(t, "ok") <= deliveries[t]
    BY DEF EffectsPerDelivery
  <2>1. /\ stored[t] \in Nat /\ deliveries[t] \in Nat /\ Times(t, "ok") \in Nat
        /\ \A k \in Attempts : actions[k][t] \in Nat
    BY DEF LoadIInv, Shape, BrokerShape, EffectShape, Times, Kinds
  <2>2. /\ Undecided[t] \in SUBSET Consumers /\ Unanswered[t] \in SUBSET Consumers
        /\ \A k \in Attempts : Unsubmitted[k][t] \in SUBSET Consumers
    BY DEF Undecided, Unanswered, Unsubmitted
  <2>3. /\ Cardinality(Undecided[t]) \in Nat /\ Cardinality(Unanswered[t]) \in Nat
        /\ \A k \in Attempts : Cardinality(Unsubmitted[k][t]) \in Nat
    BY <2>2, ConsumersCounted
  <2>4. InBalance(t)
    BY DEF LoadIInv, EffectsCounted
  <2>5. stored[t] <= deliveries[t] /\ Times(t, "ok") <= deliveries[t]
    BY <2>1, <2>3, <2>4 DEF InBalance
  <2>6. ASSUME NEW k \in Attempts PROVE actions[k][t] <= stored[t]
    <3>1. actions[k][t] + Cardinality(Unsubmitted[k][t]) <= stored[t]
      BY <2>4 DEF InBalance
    <3> QED BY <2>1, <2>3, <3>1
  <2> QED BY <2>5, <2>6
<1> QED BY <1>1, LoadInvariance, PTL

\* The verdict of a run in which no task was given out twice can be trusted:
\* met targets mean that each task was decided once, and none is missing.
THEOREM VerdictTrusted == LoadSpec => []TargetsTrusted
<1>1. LoadIInv /\ EffectsPerDelivery => TargetsTrusted
  <2> SUFFICES ASSUME LoadIInv, EffectsPerDelivery, TargetsMet,
                      \A t \in LoadTasks : deliveries[t] <= 1
               PROVE  Missing = 0 /\ \A t \in LoadTasks : stored[t] = 1
    BY DEF TargetsTrusted
  <2> DEFINE Ok == {<<<<"ok", t>>, 1>> : t \in LoadTasks}
  <2>1. \A t \in LoadTasks : /\ Times(t, "ok") \in Nat /\ stored[t] \in Nat
                             /\ Times(t, "ok") <= 1 /\ stored[t] <= 1
                             /\ deliveries[t] \in Nat
    BY DEF LoadIInv, Shape, BrokerShape, EffectShape, EffectsPerDelivery, Times,
           Kinds
  <2>2. OkResults \subseteq Ok
    <3> SUFFICES ASSUME NEW r \in OkResults PROVE r \in Ok
      OBVIOUS
    <3>1. r \in PublishedResults /\ r[1][1] = "ok"
      BY DEF OkResults, LoadIInv, ReadWasPublished
    <3>2. PICK k \in Kinds, t \in LoadTasks : r \in {<<k, t>>} \X (1 .. results[k][t])
      BY <3>1, ResultForm
    <3>3. k = "ok"
      BY <3>1, <3>2
    <3>4. PICK i \in 1 .. results["ok"][t] : r = <<<<"ok", t>>, i>>
      BY <3>2, <3>3
    <3>5. i = 1
      BY <2>1, <3>4 DEF Times
    <3> QED BY <3>4, <3>5
  <2>3. IsFiniteSet(LoadTasks) /\ Cardinality(LoadTasks) = TaskCount
    BY LoadAssumption, FS_Interval DEF LoadTasks
  <2>4. IsFiniteSet(Ok) /\ Cardinality(Ok) = TaskCount
    <3> DEFINE f == [t \in LoadTasks |-> <<<<"ok", t>>, 1>>]
    <3>1. f \in Injection(LoadTasks, Ok)
      <4>1. f \in [LoadTasks -> Ok]
        OBVIOUS
      <4>2. \A t, u \in LoadTasks : f[t] = f[u] => t = u
        OBVIOUS
      <4> QED BY <4>1, <4>2 DEF Injection, IsInjective
    <3>2. f \in Surjection(LoadTasks, Ok)
      <4>1. \A r \in Ok : \E t \in LoadTasks : f[t] = r
        OBVIOUS
      <4> QED BY <4>1 DEF Surjection
    <3>3. f \in Bijection(LoadTasks, Ok)
      BY <3>1, <3>2 DEF Bijection
    <3>4. ExistsBijection(LoadTasks, Ok)
      BY <3>3 DEF ExistsBijection
    <3> QED BY <2>3, <3>4, FS_Bijection
  <2>5. OkResults = Ok
    BY <2>2, <2>4, FS_Subset DEF TargetsMet
  <2>6. \A t \in LoadTasks : stored[t] = 1
    <3> SUFFICES ASSUME NEW t \in LoadTasks PROVE stored[t] = 1
      OBVIOUS
    <3>1. <<<<"ok", t>>, 1>> \in collected
      BY <2>5 DEF OkResults
    <3>2. 1 \in 1 .. results["ok"][t]
      BY <3>1, ResultMember DEF LoadIInv, ReadWasPublished, Kinds
    <3>3. Times(t, "ok") > 0
      BY <2>1, <3>2 DEF Times
    <3> QED BY <2>1, <3>3 DEF LoadIInv, OkIsStored
  <2>7. {r[1][2] : r \in collected} = LoadTasks
    <3>1. \A t \in LoadTasks : \E r \in collected : r[1][2] = t
      <4> SUFFICES ASSUME NEW t \in LoadTasks PROVE \E r \in collected : r[1][2] = t
        OBVIOUS
      <4>1. <<<<"ok", t>>, 1>> \in collected
        BY <2>5 DEF OkResults
      <4> QED BY <4>1
    <3>2. \A r \in collected : r[1][2] \in LoadTasks
      BY ResultForm DEF LoadIInv, ReadWasPublished
    <3> QED BY <3>1, <3>2
  <2>8. Missing = 0
    <3>1. Missing = TaskCount - Cardinality(LoadTasks)
      BY <2>7 DEF Missing
    <3> QED BY <2>3, <3>1, LoadAssumption
  <2> QED BY <2>6, <2>8
<1> QED BY <1>1, LoadInvariance, OncePerDelivery, PTL
=============================================================================
