-------------------- MODULE ModerationRequestQueueProofs --------------------
(***************************************************************************)
(* TLAPS proofs about ModerationRequestQueue, for every set of requests    *)
(* and workers and every bound.                                            *)
(***************************************************************************)
EXTENDS ModerationRequestQueue, FiniteSetTheorems, TLAPS

\* What the proofs use of Append, Tail and Head.
LEMMA AppendFacts ==
  ASSUME NEW S, NEW q \in Seq(S), NEW e \in S
  PROVE  /\ Append(q, e) \in Seq(S)
         /\ Len(Append(q, e)) = Len(q) + 1
         /\ \A i \in 1..Len(q) : Append(q, e)[i] = q[i]
         /\ Append(q, e)[Len(q) + 1] = e
  OBVIOUS

LEMMA TailFacts ==
  ASSUME NEW S, NEW q \in Seq(S), q # <<>>
  PROVE  /\ Len(q) \in Nat \ {0}
         /\ Tail(q) \in Seq(S)
         /\ Len(Tail(q)) = Len(q) - 1
         /\ \A i \in 1..(Len(q) - 1) : Tail(q)[i] = q[i + 1]
         /\ Head(q) = q[1] /\ Head(q) \in S
  OBVIOUS

\* The workers with an item are finitely many.
LEMMA BusyFinite == IsFiniteSet(Busy) /\ Cardinality(Busy) \in Nat
<1>1. Busy \in SUBSET Workers
  BY DEF Busy
<1>2. IsFiniteSet(Busy)
  BY <1>1, WorkersFinite, FS_Subset
<1>3. QED
  BY <1>2, FS_CardinalityType

\* A worker that lets its item go leaves Busy, and the rest stay.
LEMMA LetGoFacts ==
  ASSUME TypeOK, NEW w \in Busy, NEW s \in {"idle", "done"}, LetGo(w, s)
  PROVE  /\ Busy' = Busy \ {w}
         /\ Cardinality(Busy') = Cardinality(Busy) - 1
         /\ pc' \in [Workers -> WorkerStates]
         /\ held' \in [Workers -> Requests \cup {NoRequest}]
         /\ attempt' \in [Workers -> 0..MaxAttempts]
         /\ \A v \in Workers : held'[v] # NoRequest <=> v \in Busy'
         /\ \A v \in Busy' : /\ held'[v] = held[v]
                             /\ attempt'[v] = attempt[v]
                             /\ pc'[v] = pc[v]
<1>1. Busy' = Busy \ {w}
  BY DEF LetGo, Busy, TypeOK, WorkerStates
<1>2. Cardinality(Busy \ {w}) = Cardinality(Busy) - 1
  BY BusyFinite, FS_RemoveElement
<1>3. Cardinality(Busy') = Cardinality(Busy) - 1
  BY <1>1, <1>2
<1>4. /\ pc' = [pc EXCEPT ![w] = s]
      /\ held' = [held EXCEPT ![w] = NoRequest]
      /\ attempt' = [attempt EXCEPT ![w] = 0]
      /\ w \in Workers /\ s \in WorkerStates /\ 0 \in 0..MaxAttempts
  BY BoundsPositive DEF LetGo, Busy, WorkerStates
<1>5. /\ pc' \in [Workers -> WorkerStates]
      /\ held' \in [Workers -> Requests \cup {NoRequest}]
      /\ attempt' \in [Workers -> 0..MaxAttempts]
  BY <1>4 DEF TypeOK
<1>6. \A v \in Workers : v # w =>
       held'[v] = held[v] /\ pc'[v] = pc[v] /\ attempt'[v] = attempt[v]
  BY <1>4 DEF TypeOK
<1>7. \A v \in Workers : held'[v] # NoRequest <=> v \in Busy'
  BY <1>1, <1>4, <1>6 DEF TypeOK
<1>8. Busy \subseteq Workers
  BY DEF Busy
<1>9. QED
  BY <1>1, <1>3, <1>5, <1>6, <1>7, <1>8

-----------------------------------------------------------------------------
\* The initial states satisfy the inductive invariant.
LEMMA InitIInv == Init => IInv
<1> SUFFICES ASSUME Init PROVE IInv
  OBVIOUS
<1> USE DEF Init
<1>1. Busy = {} /\ Queued = {}
  BY DEF Busy, Queued
<1>2. TypeOK
  <2>1. queue \in Seq(Requests) /\ Len(queue) <= MaxSize
    BY BoundsPositive
  <2>2. attempt \in [Workers -> 0..MaxAttempts] /\ calls \in [Requests -> Nat]
    BY BoundsPositive
  <2>3. QED
    BY <1>1, <2>1, <2>2 DEF TypeOK, WorkerStates, FutureStates
<1>3. UnfinishedExact
  BY <1>1, FS_EmptySet DEF UnfinishedExact
<1>4. OnePlaceOnly /\ WaitersAreServed /\ AttemptsCounted
  BY <1>1 DEF OnePlaceOnly, WaitersAreServed, AttemptsCounted
<1>5. DrainLeavesNothing
  BY <1>1 DEF DrainLeavesNothing
<1>6. QED
  BY <1>2, <1>3, <1>4, <1>5 DEF IInv

\* Steps that touch neither the items nor which worker has which.
LEMMA LifecycleIInv == IInv /\ Lifecycle => IInv'
<1> SUFFICES ASSUME IInv, Lifecycle PROVE IInv'
  OBVIOUS
<1> USE DEF IInv
<1>1. /\ Busy' = Busy /\ Queued' = Queued
      /\ UNCHANGED <<itemVars, held, attempt, future, calls, abandoned>>
      /\ \A w \in Busy : pc'[w] = pc[w]
      /\ drainExpired => drainExpired'
  <2>1. CASE Start
    BY <2>1 DEF Start, WorkersExist, Busy, Queued, itemVars
  <2>2. CASE StopReturns
    BY <2>2 DEF StopReturns, Busy, Queued, itemVars, history
  <2>3. CASE StopBegins \/ DrainCompletes \/ DrainExpires
    BY <2>3 DEF StopBegins, DrainCompletes, DrainExpires, Busy, Queued,
                itemVars, workerVars, history, TypeOK
  <2>4. QED
    BY <2>1, <2>2, <2>3 DEF Lifecycle
<1>2. TypeOK'
  <2>1. pc' \in [Workers -> WorkerStates]
    BY DEF Lifecycle, Start, StopBegins, DrainCompletes, DrainExpires,
           StopReturns, TypeOK, WorkerStates, workerVars
  <2>2. starts' \in Nat
    BY DEF Lifecycle, Start, StopBegins, DrainCompletes, DrainExpires,
           StopReturns, TypeOK, history
  <2>3. accepting' \in BOOLEAN /\ drainExpired' \in BOOLEAN
    BY Zenon DEF Lifecycle, Start, StopBegins, DrainCompletes, DrainExpires,
                 StopReturns, TypeOK, history
  <2>4. phase' \in {"none", "draining", "cancelling"}
    BY DEF Lifecycle, Start, StopBegins, DrainCompletes, DrainExpires,
           StopReturns
  <2>5. QED
    BY <1>1, <2>1, <2>2, <2>3, <2>4 DEF TypeOK, itemVars
<1>3. UnfinishedExact'
  BY <1>1 DEF UnfinishedExact, itemVars
<1>4. OnePlaceOnly' /\ WaitersAreServed' /\ AttemptsCounted'
  BY <1>1 DEF OnePlaceOnly, WaitersAreServed, AttemptsCounted, itemVars
<1>5. DrainLeavesNothing'
  <2>1. CASE DrainCompletes
    <3>1. Len(queue) = 0 /\ Cardinality(Busy) = 0
      BY <2>1, BusyFinite DEF DrainCompletes, Drained, UnfinishedExact, TypeOK
    <3>2. queue = <<>> /\ Busy = {}
      BY <3>1, BusyFinite, FS_EmptySet DEF TypeOK
    <3>3. QED
      BY <1>1, <2>1, <3>2 DEF DrainCompletes, DrainLeavesNothing, itemVars,
                              history
  <2>2. CASE Start \/ StopBegins \/ DrainExpires \/ StopReturns
    BY <1>1, <2>2 DEF Start, StopBegins, DrainExpires, StopReturns,
                      DrainLeavesNothing, itemVars, history
  <2>3. QED
    BY <2>1, <2>2 DEF Lifecycle
<1>6. QED
  BY <1>2, <1>3, <1>4, <1>5

\* A new item joins the end of the queue.
LEMMA AcceptIInv == ASSUME IInv, NEW r \in Requests, Accept(r) PROVE IInv'
<1> USE DEF IInv
<1>1. /\ queue \in Seq(Requests) /\ Len(queue) \in Nat
      /\ queue' = Append(queue, r) /\ queue' \in Seq(Requests)
      /\ Len(queue') = Len(queue) + 1
      /\ \A i \in 1..Len(queue) : queue'[i] = queue[i]
      /\ queue'[Len(queue) + 1] = r
  BY AppendFacts DEF Accept, TypeOK
<1>2. Queued' = Queued \cup {r} /\ Busy' = Busy
  BY <1>1 DEF Queued, Busy, Accept, workerVars
<1>3. r \notin Queued /\ \A w \in Busy : held[w] # r
  <2>1. future[r] \notin {"pending", "cancelled"}
    BY DEF Accept
  <2>2. QED
    BY <2>1 DEF AttemptsCounted
<1>4. /\ future' \in [Requests -> FutureStates] /\ future'[r] = "pending"
      /\ \A q \in Requests : q # r => future'[q] = future[q]
  BY DEF Accept, TypeOK, FutureStates
<1>5. UNCHANGED <<pc, held, attempt, calls, abandoned, drainExpired, phase,
                  accepting, starts>>
  BY DEF Accept, workerVars, history
<1>6. TypeOK'
  <2>1. Len(queue') <= MaxSize /\ unfinished' \in Nat
    BY <1>1, BoundsPositive DEF Accept, HasRoom, TypeOK
  <2>2. QED
    BY <1>1, <1>2, <1>4, <1>5, <2>1 DEF TypeOK
<1>7. UnfinishedExact'
  BY <1>1, <1>2, BusyFinite DEF UnfinishedExact, Accept
<1>8. OnePlaceOnly'
  <2>1. \A i, j \in DOMAIN queue' : queue'[i] = queue'[j] => i = j
    BY <1>1, <1>3 DEF OnePlaceOnly, Queued
  <2>2. QED
    BY <1>2, <1>3, <1>5, <2>1 DEF OnePlaceOnly
<1>9. WaitersAreServed'
  BY <1>2, <1>4, <1>5 DEF WaitersAreServed
<1>10. AttemptsCounted'
  <2>1. Queued \subseteq Requests /\ \A w \in Busy : held[w] \in Requests
    BY <1>1 DEF Queued, Busy, TypeOK
  <2>2. calls[r] = 0
    BY DEF Accept, AttemptsCounted
  <2>3. QED
    BY <1>2, <1>3, <1>4, <1>5, <2>1, <2>2 DEF AttemptsCounted
<1>11. DrainLeavesNothing'
  BY <1>5 DEF DrainLeavesNothing, Accept
<1>12. QED
  BY <1>6, <1>7, <1>8, <1>9, <1>10, <1>11

\* A future that is turned away, or dropped by its caller.
LEMMA FutureIInv ==
  ASSUME IInv, NEW r \in Requests, Reject(r) \/ CallerCancelled(r)
  PROVE  IInv'
<1> USE DEF IInv
<1>1. UNCHANGED <<accepting, queue, unfinished, pc, held, attempt, phase,
                  calls, abandoned, drainExpired, starts>>
  BY DEF Reject, CallerCancelled, itemVars, workerVars, history
<1>2. Busy' = Busy /\ Queued' = Queued
  BY <1>1 DEF Busy, Queued
<1>3. /\ future' \in [Requests -> FutureStates]
      /\ \A q \in Requests : q # r => future'[q] = future[q]
      /\ future'[r] \in {"rejected", "cancelled"}
      /\ future[r] = "pending" => future'[r] = "cancelled"
  BY DEF Reject, CallerCancelled, TypeOK, FutureStates
<1>4. TypeOK'
  BY <1>1, <1>2, <1>3 DEF TypeOK
<1>5. UnfinishedExact' /\ OnePlaceOnly' /\ DrainLeavesNothing'
  BY <1>1, <1>2 DEF UnfinishedExact, OnePlaceOnly, DrainLeavesNothing
<1>6. WaitersAreServed'
  BY <1>1, <1>2, <1>3 DEF WaitersAreServed
<1>7. AttemptsCounted'
  <2>1. Queued \subseteq Requests /\ \A w \in Busy : held[w] \in Requests
    BY DEF Queued, Busy, TypeOK
  <2>2. \A q \in Requests : future[q] \in {"pending", "cancelled"}
                              => future'[q] \in {"pending", "cancelled"}
    BY <1>3 DEF Reject, CallerCancelled
  <2>3. \A q \in Requests : future'[q] = "none" => calls'[q] = 0
    BY <1>1, <1>3 DEF AttemptsCounted
  <2>4. QED
    BY <1>1, <1>2, <2>1, <2>2, <2>3 DEF AttemptsCounted
<1>8. QED
  BY <1>4, <1>5, <1>6, <1>7

\* The head of the queue moves to a worker.
LEMMA TakeIInv == ASSUME IInv, NEW w \in Workers, Take(w) PROVE IInv'
<1> USE DEF IInv
<1> DEFINE r == Head(queue)
<1>1. /\ queue \in Seq(Requests) /\ Len(queue) \in Nat \ {0}
      /\ queue' \in Seq(Requests) /\ Len(queue') = Len(queue) - 1
      /\ \A i \in 1..(Len(queue) - 1) : queue'[i] = queue[i + 1]
      /\ r = queue[1] /\ r \in Requests
      /\ DOMAIN queue = 1..Len(queue) /\ DOMAIN queue' = 1..Len(queue')
  BY TailFacts DEF Take, PopItem, TypeOK
<1>2. /\ w \in Workers /\ w \notin Busy /\ pc[w] = "idle"
      /\ pc' = [pc EXCEPT ![w] = "calling"]
      /\ held' = [held EXCEPT ![w] = r]
      /\ attempt' = [attempt EXCEPT ![w] = 1]
      /\ calls' = [calls EXCEPT ![r] = @ + 1]
      /\ UNCHANGED <<accepting, unfinished, future, phase, abandoned,
                     drainExpired, starts>>
  BY DEF Take, Running, Busy
<1>3. Busy' = Busy \cup {w}
  BY <1>2 DEF Busy, TypeOK, WorkerStates
<1>4. Queued' = Queued \ {r} /\ r \in Queued
  <2>1. \A i, j \in 1..Len(queue) : queue[i] = queue[j] => i = j
    BY <1>1 DEF OnePlaceOnly
  <2>2. Queued' = {queue[i] : i \in 2..Len(queue)}
    <3>1. Queued' = {queue'[i] : i \in 1..Len(queue')}
      BY <1>1 DEF Queued
    <3>2. \A i \in 1..Len(queue') : i + 1 \in 2..Len(queue)
      BY <1>1
    <3>3. \A i \in 2..Len(queue) : i - 1 \in 1..Len(queue')
                                   /\ queue'[i - 1] = queue[i]
      BY <1>1
    <3>4. QED
      BY <1>1, <3>1, <3>2, <3>3
  <2>3. Queued = {queue[i] : i \in 1..Len(queue)}
    BY <1>1 DEF Queued
  <2>4. QED
    BY <1>1, <2>1, <2>2, <2>3
<1>5. /\ \A v \in Workers : v # w => /\ held'[v] = held[v]
                                     /\ attempt'[v] = attempt[v]
                                     /\ pc'[v] = pc[v]
      /\ held'[w] = r /\ attempt'[w] = 1 /\ pc'[w] = "calling"
      /\ \A q \in Requests : q # r => calls'[q] = calls[q]
      /\ calls'[r] = calls[r] + 1
  BY <1>1, <1>2 DEF TypeOK
<1>6. r \notin {held[v] : v \in Busy} /\ Busy \subseteq Workers
  BY <1>4 DEF OnePlaceOnly, Busy
<1>7. TypeOK'
  <2>1. /\ pc' \in [Workers -> WorkerStates]
        /\ held' \in [Workers -> Requests \cup {NoRequest}]
        /\ attempt' \in [Workers -> 0..MaxAttempts]
        /\ calls' \in [Requests -> Nat]
    BY <1>1, <1>2, BoundsPositive DEF TypeOK, WorkerStates
  <2>2. \A v \in Workers : held'[v] # NoRequest <=> v \in Busy'
    BY <1>1, <1>3, <1>5, RequestsFinite DEF TypeOK
  <2>3. Len(queue') <= MaxSize
    BY <1>1, BoundsPositive DEF TypeOK
  <2>4. QED
    BY <1>1, <1>2, <2>1, <2>2, <2>3 DEF TypeOK
<1>8. UnfinishedExact'
  <2>1. Cardinality(Busy') = Cardinality(Busy) + 1
    BY <1>2, <1>3, BusyFinite, FS_AddElement
  <2>2. QED
    BY <1>1, <1>2, <2>1, BusyFinite DEF UnfinishedExact
<1>9. OnePlaceOnly'
  <2>1. \A i, j \in DOMAIN queue' : queue'[i] = queue'[j] => i = j
    <3>1. \A i, j \in 1..Len(queue) : queue[i] = queue[j] => i = j
      BY <1>1 DEF OnePlaceOnly
    <3>2. \A i \in 1..Len(queue') : /\ i + 1 \in 1..Len(queue) /\ i \in Nat
                                    /\ queue'[i] = queue[i + 1]
      BY <1>1
    <3>3. QED
      BY <1>1, <3>1, <3>2
  <2>2. \A u, v \in Busy' : held'[u] = held'[v] => u = v
    BY <1>3, <1>5, <1>6 DEF OnePlaceOnly
  <2>3. \A v \in Busy' : held'[v] \notin Queued'
    BY <1>3, <1>4, <1>5, <1>6 DEF OnePlaceOnly
  <2>4. QED
    BY <2>1, <2>2, <2>3 DEF OnePlaceOnly
<1>10. WaitersAreServed'
  BY <1>2, <1>3, <1>4, <1>5, <1>6 DEF WaitersAreServed
<1>11. AttemptsCounted'
  <2>1. \A v \in Busy : held[v] \in Requests
    BY <1>6, RequestsFinite DEF TypeOK
  <2>2. future[r] \in {"pending", "cancelled"} /\ calls[r] = 0
    BY <1>4 DEF AttemptsCounted
  <2>3. \A q \in Requests : future'[q] = "none" => calls'[q] = 0
    BY <1>2, <1>5, <2>2 DEF AttemptsCounted
  <2>4. \A q \in Queued' : /\ future'[q] \in {"pending", "cancelled"}
                           /\ calls'[q] = 0
    <3>1. Queued \subseteq Requests
      BY <1>1 DEF Queued
    <3>2. QED
      BY <1>2, <1>4, <1>5, <3>1 DEF AttemptsCounted
  <2>5. \A v \in Busy' : /\ future'[held'[v]] \in {"pending", "cancelled"}
                         /\ calls'[held'[v]] = attempt'[v] /\ attempt'[v] > 0
                         /\ pc'[v] = "backoff" => attempt'[v] < MaxAttempts
    BY <1>2, <1>3, <1>5, <1>6, <2>1, <2>2 DEF AttemptsCounted
  <2>6. QED
    BY <2>3, <2>4, <2>5 DEF AttemptsCounted
<1>12. DrainLeavesNothing'
  <2>1. queue # <<>>
    BY DEF Take
  <2>2. ~(~accepting /\ phase # "draining" /\ ~drainExpired)
    BY <2>1 DEF DrainLeavesNothing
  <2>3. QED
    BY <1>2, <2>2 DEF DrainLeavesNothing
<1>13. QED
  BY <1>7, <1>8, <1>9, <1>10, <1>11, <1>12

\* A worker's item is finished with: answered, or abandoned to cancellation.
LEMMA LetGoIInv ==
  ASSUME IInv, NEW w \in Busy, NEW s \in {"idle", "done"}, LetGo(w, s),
         unfinished' = unfinished - 1,
         UNCHANGED <<accepting, queue, phase, calls, drainExpired, starts>>,
         future' \in [Requests -> FutureStates],
         abandoned' \in SUBSET Requests,
         \A r \in Requests : r # held[w] => future'[r] = future[r],
         future'[held[w]] # "none",
         abandoned \subseteq abandoned',
         future'[held[w]] = "pending" =>
           held[w] \in abandoned' /\ drainExpired,
         abandoned' # {} => drainExpired
  PROVE  IInv'
<1> USE DEF IInv
<1>1. /\ Busy' = Busy \ {w} /\ Busy \subseteq Workers
      /\ Cardinality(Busy') = Cardinality(Busy) - 1
      /\ pc' \in [Workers -> WorkerStates]
      /\ held' \in [Workers -> Requests \cup {NoRequest}]
      /\ attempt' \in [Workers -> 0..MaxAttempts]
      /\ \A v \in Workers : held'[v] # NoRequest <=> v \in Busy'
      /\ \A v \in Busy' : /\ held'[v] = held[v]
                          /\ attempt'[v] = attempt[v]
                          /\ pc'[v] = pc[v]
  BY LetGoFacts DEF Busy
<1>2. Queued' = Queued /\ Queued \subseteq Requests
  BY DEF Queued, TypeOK
<1>3. \A v \in Busy : held[v] \in Requests
  BY <1>1 DEF TypeOK
<1>4. held[w] \notin Queued /\ \A v \in Busy' : held[v] # held[w]
  BY <1>1 DEF OnePlaceOnly
<1>5. UnfinishedExact' /\ unfinished' \in Nat
  <2>1. Cardinality(Busy) >= 1 /\ Len(queue) \in Nat
    BY <1>1, BusyFinite, FS_EmptySet DEF TypeOK
  <2>2. QED
    BY <1>1, <2>1, BusyFinite DEF UnfinishedExact
<1>6. TypeOK'
  BY <1>1, <1>5 DEF TypeOK
<1>7. OnePlaceOnly'
  BY <1>1, <1>2 DEF OnePlaceOnly
<1>8. WaitersAreServed'
  BY <1>1, <1>2, <1>3, <1>4 DEF WaitersAreServed
<1>9. AttemptsCounted'
  <2>1. \A r \in Requests : future'[r] = "none" => calls'[r] = 0
    BY <1>3 DEF AttemptsCounted
  <2>2. \A r \in Queued' : /\ future'[r] \in {"pending", "cancelled"}
                           /\ calls'[r] = 0
    BY <1>2, <1>4 DEF AttemptsCounted
  <2>3. \A v \in Busy' :
          /\ future'[held'[v]] \in {"pending", "cancelled"}
          /\ calls'[held'[v]] = attempt'[v] /\ attempt'[v] > 0
          /\ pc'[v] = "backoff" => attempt'[v] < MaxAttempts
    BY <1>1, <1>3, <1>4 DEF AttemptsCounted
  <2>4. QED
    BY <2>1, <2>2, <2>3 DEF AttemptsCounted
<1>10. DrainLeavesNothing'
  BY <1>1 DEF DrainLeavesNothing
<1>11. QED
  BY <1>5, <1>6, <1>7, <1>8, <1>9, <1>10

LEMMA AnswerIInv ==
  ASSUME IInv, NEW w \in Workers, Running(w, "calling"),
         NEW outcome \in {"result", "exception"}, Answer(w, outcome)
  PROVE  IInv'
<1> USE DEF IInv
<1>1. w \in Busy /\ held[w] \in Requests
  BY DEF Running, Busy, TypeOK
<1>2. future[held[w]] \in {"pending", "cancelled"}
  BY <1>1 DEF AttemptsCounted
<1>3. /\ future' \in [Requests -> FutureStates]
      /\ \A r \in Requests : r # held[w] => future'[r] = future[r]
      /\ future'[held[w]] \in {"result", "exception", "cancelled"}
  BY <1>1, <1>2 DEF Answer, Resolve, TypeOK, FutureStates
<1>4. /\ unfinished' = unfinished - 1 /\ LetGo(w, "idle")
      /\ UNCHANGED <<accepting, queue, phase, calls, drainExpired, starts,
                     abandoned>>
  BY DEF Answer, history
<1>5. abandoned' \in SUBSET Requests /\ (abandoned' # {} => drainExpired)
  BY <1>4 DEF TypeOK, DrainLeavesNothing
<1>6. QED
  BY <1>1, <1>3, <1>4, <1>5, LetGoIInv

LEMMA BusyCancelledIInv ==
  ASSUME IInv, NEW w \in Workers, BusyWorkerCancelled(w) PROVE IInv'
<1> USE DEF IInv
<1>1. w \in Busy /\ held[w] \in Requests
  BY DEF BusyWorkerCancelled, Busy, TypeOK
<1>2. future[held[w]] \in {"pending", "cancelled"}
  BY <1>1 DEF AttemptsCounted
<1>3. drainExpired
  BY <1>1 DEF BusyWorkerCancelled, DrainLeavesNothing
<1>4. /\ unfinished' = unfinished - 1 /\ LetGo(w, "done")
      /\ abandoned' = abandoned \cup {held[w]}
      /\ UNCHANGED <<accepting, queue, phase, calls, drainExpired, starts,
                     future>>
  BY DEF BusyWorkerCancelled
<1>5. future' \in [Requests -> FutureStates] /\ abandoned' \in SUBSET Requests
  BY <1>1, <1>4 DEF TypeOK
<1>6. QED
  BY <1>1, <1>2, <1>3, <1>4, <1>5, LetGoIInv

\* Steps of a worker that keeps its item, or has none and ends.
LEMMA KeepItemIInv ==
  ASSUME IInv, NEW w \in Workers,
         CallFails(w) \/ Retry(w) \/ IdleWorkerCancelled(w)
  PROVE  IInv'
<1> USE DEF IInv
<1>1. /\ UNCHANGED <<accepting, queue, unfinished, held, future, phase,
                     abandoned, drainExpired, starts>>
      /\ Queued' = Queued
  BY DEF CallFails, Retry, IdleWorkerCancelled, itemVars, history, Queued
<1>2. Busy' = Busy
  BY DEF CallFails, Retry, IdleWorkerCancelled, Running, Busy, TypeOK,
         WorkerStates
<1>3. /\ pc' \in [Workers -> WorkerStates]
      /\ \A v \in Workers : v # w =>
           pc'[v] = pc[v] /\ attempt'[v] = attempt[v]
  BY DEF CallFails, Retry, IdleWorkerCancelled, TypeOK, WorkerStates
<1>4. \A v \in Busy : held[v] \in Requests /\ v \in Workers
  BY DEF Busy, TypeOK
<1>5. /\ attempt' \in [Workers -> 0..MaxAttempts]
      /\ calls' \in [Requests -> Nat]
      /\ \A r \in Requests : r \notin {held[v] : v \in Busy}
                               => calls'[r] = calls[r]
      /\ \A v \in Busy : /\ calls'[held[v]] = attempt'[v] /\ attempt'[v] > 0
                         /\ pc'[v] = "backoff" => attempt'[v] < MaxAttempts
  <2>1. CASE Retry(w)
    <3>1. /\ w \in Busy /\ pc[w] = "backoff" /\ attempt[w] \in 0..MaxAttempts
          /\ calls[held[w]] = attempt[w] /\ attempt[w] < MaxAttempts
      BY <2>1 DEF Retry, Running, Busy, AttemptsCounted, TypeOK
    <3>2. attempt[w] + 1 \in 0..MaxAttempts /\ attempt[w] + 1 > 0
      BY <3>1, BoundsPositive
    <3>3. /\ attempt' = [attempt EXCEPT ![w] = attempt[w] + 1]
          /\ calls' = [calls EXCEPT ![held[w]] = attempt[w] + 1]
          /\ pc' = [pc EXCEPT ![w] = "calling"]
      BY <2>1, <3>1, <1>4 DEF Retry, TypeOK
    <3>4. attempt' \in [Workers -> 0..MaxAttempts] /\ calls' \in [Requests -> Nat]
      BY <3>2, <3>3, <3>1, <1>4, BoundsPositive DEF TypeOK
    <3>5. \A v \in Busy : v # w => held[v] # held[w]
      BY <3>1 DEF OnePlaceOnly
    <3>6. QED
      BY <1>3, <1>4, <3>1, <3>2, <3>3, <3>4, <3>5 DEF AttemptsCounted, TypeOK
  <2>2. CASE CallFails(w)
    BY <1>3, <2>2 DEF CallFails, AttemptsLeft, AttemptsCounted, TypeOK, history
  <2>3. CASE IdleWorkerCancelled(w)
    BY <1>3, <2>3 DEF IdleWorkerCancelled, Busy, AttemptsCounted, TypeOK,
                      history
  <2>4. QED
    BY <2>1, <2>2, <2>3
<1>6. TypeOK'
  BY <1>1, <1>2, <1>3, <1>5 DEF TypeOK
<1>7. UnfinishedExact' /\ OnePlaceOnly' /\ WaitersAreServed'
      /\ DrainLeavesNothing'
  BY <1>1, <1>2 DEF UnfinishedExact, OnePlaceOnly, WaitersAreServed,
                    DrainLeavesNothing
<1>8. AttemptsCounted'
  <2>1. \A r \in Queued \cup {q \in Requests : future[q] = "none"} :
          r \in Requests /\ r \notin {held[v] : v \in Busy}
    BY DEF Queued, TypeOK, OnePlaceOnly, AttemptsCounted
  <2>2. QED
    BY <1>1, <1>2, <1>4, <1>5, <2>1 DEF AttemptsCounted
<1>9. QED
  BY <1>6, <1>7, <1>8

LEMMA StutterIInv == IInv /\ UNCHANGED vars => IInv'
BY DEF IInv, vars, itemVars, workerVars, history, TypeOK, UnfinishedExact,
       OnePlaceOnly, WaitersAreServed, AttemptsCounted, DrainLeavesNothing,
       Busy, Queued

LEMMA NextIInv == IInv /\ [Next]_vars => IInv'
<1> SUFFICES ASSUME IInv, [Next]_vars PROVE IInv'
  OBVIOUS
<1>1. CASE Lifecycle
  BY <1>1, LifecycleIInv
<1>2. ASSUME NEW r \in Requests, Caller(r) PROVE IInv'
  BY <1>2, AcceptIInv, FutureIInv DEF Caller
<1>3. ASSUME NEW w \in Workers, Serve(w) PROVE IInv'
  <2>1. CASE Take(w)
    BY <2>1, TakeIInv
  <2>2. CASE CallSucceeds(w)
    BY <2>2, AnswerIInv DEF CallSucceeds
  <2>3. CASE GiveUp(w)
    BY <2>3, AnswerIInv DEF GiveUp
  <2>4. CASE CallFails(w) \/ Retry(w)
    BY <2>4, KeepItemIInv
  <2>5. QED
    BY <1>3, <2>1, <2>2, <2>3, <2>4 DEF Serve
<1>4. ASSUME NEW w \in Workers, WorkerCancelled(w) PROVE IInv'
  BY <1>4, BusyCancelledIInv, KeepItemIInv DEF WorkerCancelled
<1>5. CASE UNCHANGED vars
  BY <1>5, StutterIInv
<1>6. QED
  BY <1>1, <1>2, <1>3, <1>4, <1>5 DEF Next

-----------------------------------------------------------------------------
\* Every reachable state satisfies the inductive invariant.
THEOREM Invariance == Spec => []IInv
BY InitIInv, NextIInv, PTL DEF Spec

\* moderation_request_queue.py keeps its types, capacity and hands-on items.
THEOREM TypeCorrect == Spec => []TypeOK
BY Invariance, PTL DEF IInv

\* The counter behind join() is the number of items queued or in hand.
THEOREM CounterExact == Spec => []UnfinishedExact
BY Invariance, PTL DEF IInv

\* No accepted item is ever in two places, so never evaluated twice at once.
THEOREM NoDoubleWork == Spec => []OnePlaceOnly
BY Invariance, PTL DEF IInv

\* A waiting caller's item is queued, in hand, or lost to an expired drain.
THEOREM WaitersTracked == Spec => []WaitersAreServed
BY Invariance, PTL DEF IInv

\* A stop() that never ran into its timeout leaves no caller waiting.
THEOREM CleanStop == Spec => []CleanStopLeavesNobodyWaiting
<1>1. IInv => CleanStopLeavesNobodyWaiting
  <2> SUFFICES ASSUME IInv, ~accepting, phase # "draining", ~drainExpired,
                      NEW r \in Requests, future[r] = "pending"
               PROVE  FALSE
    BY DEF CleanStopLeavesNobodyWaiting
  <2>1. queue = <<>> /\ Busy = {}
    BY DEF IInv, DrainLeavesNothing
  <2>2. r \notin Queued /\ ~\E w \in Busy : held[w] = r
    BY <2>1 DEF Queued
  <2>3. QED
    BY <2>2 DEF IInv, WaitersAreServed
<1>2. QED
  BY <1>1, Invariance, PTL

-----------------------------------------------------------------------------
(* The queue implements RequestService: each step is a step of the service *)
(* or leaves futures and calls alone.                                      *)

\* An answer goes only to a caller that waits, after at least one call, and
\* an exception only when the attempts are used up.
LEMMA AnswerRefines ==
  ASSUME IInv, NEW w \in Workers, CallSucceeds(w) \/ GiveUp(w)
  PROVE  [Promise!ServiceNext]_(Promise!serviceVars)
<1> DEFINE r == held[w]
<1>1. /\ w \in Busy /\ r \in Requests /\ attempt[w] \in 0..MaxAttempts
      /\ calls[r] = attempt[w] /\ attempt[w] > 0
      /\ future[r] \in {"pending", "cancelled"}
      /\ future \in [Requests -> FutureStates]
  BY DEF IInv, TypeOK, AttemptsCounted, CallSucceeds, GiveUp, Running, Busy
<1>2. UNCHANGED calls
  BY DEF CallSucceeds, GiveUp, Answer, history
<1>3. CASE future[r] = "cancelled"
  <2>1. future' = future
    BY <1>1, <1>3 DEF CallSucceeds, GiveUp, Answer, Resolve
  <2>2. QED
    BY <1>2, <2>1 DEF Promise!serviceVars
<1>4. CASE future[r] = "pending" /\ CallSucceeds(w)
  <2>1. future' = [future EXCEPT ![r] = "result"]
    BY <1>1, <1>4 DEF CallSucceeds, Answer, Resolve
  <2>2. QED
    BY <1>1, <1>2, <1>4, <2>1 DEF Promise!ServiceNext, Promise!Answer
<1>5. CASE future[r] = "pending" /\ GiveUp(w)
  <2>1. future' = [future EXCEPT ![r] = "exception"]
    BY <1>1, <1>5 DEF GiveUp, Answer, Resolve
  <2>2. calls[r] = MaxAttempts
    BY <1>1, <1>5, BoundsPositive DEF GiveUp, AttemptsLeft
  <2>3. QED
    BY <1>1, <1>2, <1>5, <2>1, <2>2 DEF Promise!ServiceNext, Promise!Answer
<1>6. QED
  BY <1>1, <1>3, <1>4, <1>5

LEMMA EvaluateRefines ==
  ASSUME IInv, NEW w \in Workers, Take(w) \/ Retry(w)
  PROVE  Promise!ServiceNext
<1>1. CASE Take(w)
  <2>1. Head(queue) \in Queued /\ Head(queue) \in Requests
    <3>1. queue \in Seq(Requests) /\ queue # <<>>
      BY <1>1 DEF IInv, TypeOK, Take
    <3>2. Head(queue) = queue[1] /\ 1 \in DOMAIN queue
      BY <3>1
    <3>3. QED
      BY <3>1, <3>2, TailFacts DEF Queued
  <2>2. /\ future[Head(queue)] \in {"pending", "cancelled"}
        /\ calls[Head(queue)] = 0 /\ 0 < MaxAttempts
    BY <2>1, BoundsPositive DEF IInv, AttemptsCounted
  <2>3. QED
    BY <1>1, <2>1, <2>2 DEF Take, Promise!ServiceNext, Promise!Evaluate
<1>2. CASE Retry(w)
  <2>1. w \in Busy /\ held[w] \in Requests
    BY <1>2 DEF Retry, Running, Busy, IInv, TypeOK
  <2>2. /\ future[held[w]] \in {"pending", "cancelled"}
        /\ calls[held[w]] < MaxAttempts
    BY <1>2, <2>1 DEF Retry, Running, IInv, AttemptsCounted
  <2>3. QED
    BY <1>2, <2>1, <2>2 DEF Retry, Promise!ServiceNext, Promise!Evaluate
<1>3. QED
  BY <1>1, <1>2

\* The request queue keeps the promise of RequestService to its callers.
THEOREM Refinement == Spec => KeepsPromise
<1>1. Init => Promise!ServiceInit
  BY DEF Init, Promise!ServiceInit
<1>2. IInv /\ [Next]_vars => [Promise!ServiceNext]_(Promise!serviceVars)
  <2> SUFFICES ASSUME IInv, [Next]_vars
               PROVE  [Promise!ServiceNext]_(Promise!serviceVars)
    OBVIOUS
  <2>1. CASE Lifecycle \/ UNCHANGED vars
    BY <2>1 DEF Lifecycle, Start, StopBegins, DrainCompletes, DrainExpires,
                StopReturns, vars, history, Promise!serviceVars
  <2>2. ASSUME NEW r \in Requests, Caller(r) PROVE Promise!ServiceNext
    BY <2>2 DEF Caller, Accept, Reject, CallerCancelled, history,
                Promise!ServiceNext, Promise!Answer
  <2>3. ASSUME NEW w \in Workers, Serve(w)
        PROVE  [Promise!ServiceNext]_(Promise!serviceVars)
    <3>1. CASE CallFails(w)
      BY <3>1 DEF CallFails, history, Promise!serviceVars
    <3>2. QED
      BY <2>3, <3>1, AnswerRefines, EvaluateRefines DEF Serve
  <2>4. ASSUME NEW w \in Workers, WorkerCancelled(w)
        PROVE  UNCHANGED Promise!serviceVars
    BY <2>4 DEF WorkerCancelled, IdleWorkerCancelled, BusyWorkerCancelled,
                history, Promise!serviceVars
  <2>5. QED
    BY <2>1, <2>2, <2>3, <2>4 DEF Next
<1>3. QED
  BY <1>1, <1>2, Invariance, PTL DEF Spec, KeepsPromise, Promise!ServiceSpec

\* The four safety properties of the request queue together.
THEOREM AllAccounted == Spec => []Accounted
<1>1. UnfinishedExact /\ OnePlaceOnly /\ WaitersAreServed /\ CleanStopLeavesNobodyWaiting => Accounted
  BY DEF Accounted
<1>2. QED
  BY <1>1, CounterExact, NoDoubleWork, WaitersTracked, CleanStop, PTL
=============================================================================
