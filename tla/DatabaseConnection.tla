------------------------- MODULE DatabaseConnection -------------------------
(***************************************************************************)
(* The one PostgreSQL connection that every repository of the process      *)
(* shares (src/src/infrastructure/database/connection.py).  A lock guards  *)
(* it: connect(), each statement, each whole transaction and close() take  *)
(* the lock, but an operation takes it twice, once to obtain the           *)
(* connection and once to use it, and another task may close or replace    *)
(* the connection in between.  On an OperationalError an operation closes  *)
(* whatever connection is shared at that moment; statements are then       *)
(* retried, transactions are not.                                          *)
(*                                                                         *)
(* The server executes each request before its reply is read, so a broken  *)
(* connection may hide a request that took effect.  One write stands for   *)
(* the statements of a transaction.  asyncio.Lock serves its waiters first *)
(* in, first out: the order is left open, its fairness is in FairSpec.     *)
(***************************************************************************)
EXTENDS Naturals, FiniteSets

CONSTANTS Callers,      \* tasks that use the connection, one operation each
          NoCaller,     \* the holder of the free lock
          Kind,         \* what each caller runs: see Kinds
          MaxAttempts,  \* reconnect_attempts
          MaxFaults     \* bound: failures of the server or of the network

Kinds == {"statement", "transaction", "connect", "close"}

ASSUME CallersAssumption == IsFiniteSet(Callers) /\ NoCaller \notin Callers
ASSUME KindAssumption == Kind \in [Callers -> Kinds]
ASSUME LimitAssumption == MaxAttempts \in Nat \ {0} /\ MaxFaults \in Nat

None == 0  \* connections are numbered from 1

VARIABLES
  lock,      \* holder of _lock
  current,   \* the shared _connection
  opened,    \* connections made so far
  open,      \* connections the client has not closed or seen fail
  alive,     \* connections the server still serves
  pc,        \* where each caller is
  mine,      \* the connection its connect() returned
  attempt,   \* attempts its operation has started
  tx,        \* connections on which a transaction is open
  pending,   \* <<connection, caller>>: writes a transaction has not committed
  applied,   \* how often the server made each caller's write durable
  faults

server == <<alive, tx, pending, applied>>
vars == <<lock, current, opened, open, alive, pc, mine, attempt, tx, pending,
          applied, faults>>

\* Steps at which a caller holds the lock across an await.
Holding == {"connecting", "executing", "beginning", "written", "answered"}
Ended == {"succeeded", "failed", "cancelled"}
Steps == Holding \cup Ended
           \cup {"idle", "wantConnect", "wantLock", "wantClose", "backoff"}

Usable == open \cap alive

Init ==
  /\ lock = NoCaller
  /\ current = None /\ opened = 0 /\ open = {} /\ alive = {}
  /\ pc = [c \in Callers |-> "idle"]
  /\ mine = [c \in Callers |-> None]
  /\ attempt = [c \in Callers |-> 0]
  /\ tx = {} /\ pending = {}
  /\ applied = [c \in Callers |-> 0]
  /\ faults = 0

-----------------------------------------------------------------------------
Goto(c, step) == pc' = [pc EXCEPT ![c] = step]
Free == lock = NoCaller
Release(c) == lock' = IF lock = c THEN NoCaller ELSE lock
Fault == faults < MaxFaults /\ faults' = faults + 1

\* The server ends what was open on connection k without committing it.
RollBack(k) ==
  /\ tx' = tx \ {k}
  /\ pending' = {p \in pending : p[1] # k}

Begin(c) ==
  /\ pc[c] = "idle"
  /\ Goto(c, IF Kind[c] = "close" THEN "wantClose" ELSE "wantConnect")
  /\ attempt' = [attempt EXCEPT ![c] = 1]
  /\ UNCHANGED <<lock, current, opened, open, server, mine, faults>>

-----------------------------------------------------------------------------
(* connect()                                                               *)

AfterConnect(c) == IF Kind[c] = "connect" THEN "succeeded" ELSE "wantLock"

\* The client only knows what it has closed or seen fail: not open \cap alive.
Reuse(c) ==
  /\ pc[c] = "wantConnect" /\ Free
  /\ current \in open
  /\ mine' = [mine EXCEPT ![c] = current]
  /\ Goto(c, AfterConnect(c))
  /\ UNCHANGED <<lock, current, opened, open, server, attempt, faults>>

Dial(c) ==
  /\ pc[c] = "wantConnect" /\ Free
  /\ current \notin open
  /\ lock' = c
  /\ Goto(c, "connecting")
  /\ UNCHANGED <<current, opened, open, server, mine, attempt, faults>>

DialSucceeds(c) ==
  /\ pc[c] = "connecting"
  /\ opened' = opened + 1
  /\ current' = opened'
  /\ open' = open \cup {opened'} /\ alive' = alive \cup {opened'}
  /\ mine' = [mine EXCEPT ![c] = opened']
  /\ Goto(c, AfterConnect(c))
  /\ Release(c)
  /\ UNCHANGED <<attempt, tx, pending, applied, faults>>

\* transaction() connects outside its try: the error leaves it directly.
DialFails(c) ==
  /\ pc[c] = "connecting" /\ Fault
  /\ Goto(c, IF Kind[c] = "statement" THEN "wantClose" ELSE "failed")
  /\ Release(c)
  /\ UNCHANGED <<current, opened, open, server, mine, attempt>>

-----------------------------------------------------------------------------
(* One statement, under the second acquisition of the lock                 *)

\* Mutant: the statement is sent without the lock.
EnterStatementUnlocked(c) ==
  /\ pc[c] = "wantLock" /\ Kind[c] = "statement"
  /\ Goto(c, "executing")
  /\ UNCHANGED <<lock, current, opened, open, server, mine, attempt, faults>>

EnterStatement(c) ==
  /\ pc[c] = "wantLock" /\ Free /\ Kind[c] = "statement"
  /\ lock' = c
  /\ Goto(c, "executing")
  /\ UNCHANGED <<current, opened, open, server, mine, attempt, faults>>

\* On a connection with an open transaction a statement becomes part of it.
Execute(c) ==
  /\ pc[c] = "executing" /\ mine[c] \in Usable
  /\ \/ /\ mine[c] \in tx
        /\ pending' = pending \cup {<<mine[c], c>>}
        /\ UNCHANGED applied
     \/ /\ mine[c] \notin tx
        /\ applied' = [applied EXCEPT ![c] = @ + 1]
        /\ UNCHANGED pending
  /\ Goto(c, "answered")
  /\ UNCHANGED <<lock, current, opened, open, alive, mine, attempt, tx, faults>>

-----------------------------------------------------------------------------
(* A transaction: BEGIN, its statements and COMMIT under one acquisition   *)

EnterTransaction(c) ==
  /\ pc[c] = "wantLock" /\ Free /\ Kind[c] = "transaction"
  /\ lock' = c
  /\ Goto(c, "beginning")
  /\ UNCHANGED <<current, opened, open, server, mine, attempt, faults>>

BeginAndWrite(c) ==
  /\ pc[c] = "beginning" /\ mine[c] \in Usable
  /\ tx' = tx \cup {mine[c]}
  /\ pending' = pending \cup {<<mine[c], c>>}
  /\ Goto(c, "written")
  /\ UNCHANGED <<lock, current, opened, open, alive, mine, attempt, applied,
                 faults>>

Commit(c) ==
  /\ pc[c] = "written" /\ mine[c] \in Usable
  /\ applied' = [d \in Callers |->
                   applied[d] + IF <<mine[c], d>> \in pending THEN 1 ELSE 0]
  /\ RollBack(mine[c])
  /\ Goto(c, "answered")
  /\ UNCHANGED <<lock, current, opened, open, alive, mine, attempt, faults>>

-----------------------------------------------------------------------------
(* How an operation ends                                                   *)

Succeed(c) ==
  /\ pc[c] = "answered" /\ mine[c] \in Usable
  /\ Goto(c, "succeeded")
  /\ Release(c)
  /\ UNCHANGED <<current, opened, open, server, mine, attempt, faults>>

Working(c) == pc[c] \in Holding \ {"connecting"}

\* Mutant: close() is called before the lock is left.
LoseConnectionLocked(c) ==
  /\ Working(c) /\ mine[c] \notin Usable
  /\ open' = open \ {mine[c]}
  /\ Goto(c, "wantClose")
  /\ UNCHANGED <<lock, current, opened, server, mine, attempt, faults>>

\* The connection was closed by another caller or broke: OperationalError.
LoseConnection(c) ==
  /\ Working(c) /\ mine[c] \notin Usable
  /\ open' = open \ {mine[c]}
  /\ Goto(c, "wantClose")
  /\ Release(c)
  /\ UNCHANGED <<current, opened, server, mine, attempt, faults>>

\* An OperationalError of a healthy connection (a deadlock, a query cancelled
\* by the server): the transaction is rolled back and the caller will close.
Refused(c) ==
  /\ Working(c) /\ pc[c] # "answered" /\ mine[c] \in Usable /\ Fault
  /\ RollBack(mine[c])
  /\ Goto(c, "wantClose")
  /\ Release(c)
  /\ UNCHANGED <<current, opened, open, alive, mine, attempt, applied>>

\* Any other error, of the database or of the body of the transaction.
Rejected(c) ==
  /\ Working(c) /\ pc[c] # "answered" /\ mine[c] \in Usable
  /\ RollBack(mine[c])
  /\ Goto(c, "failed")
  /\ Release(c)
  /\ UNCHANGED <<current, opened, open, alive, mine, attempt, applied, faults>>

AfterClose(c) ==
  CASE Kind[c] = "close" -> "succeeded"
    [] Kind[c] = "statement" /\ attempt[c] < MaxAttempts -> "backoff"
    [] OTHER -> "failed"

\* close() closes the connection shared now, which may not be the one that
\* failed: then another caller's operation fails in turn.
Close(c) ==
  /\ pc[c] = "wantClose" /\ Free
  /\ open' = open \ {current} /\ alive' = alive \ {current}
  /\ RollBack(current)
  /\ current' = None
  /\ Goto(c, AfterClose(c))
  /\ UNCHANGED <<lock, opened, mine, attempt, applied, faults>>

Retry(c) ==
  /\ pc[c] = "backoff"
  /\ Goto(c, "wantConnect")
  /\ attempt' = [attempt EXCEPT ![c] = @ + 1]
  /\ UNCHANGED <<lock, current, opened, open, server, mine, faults>>

\* Mutant: cancellation skips the rollback.
CancelLeavesOpen(c) ==
  /\ pc[c] \notin Ended \cup {"idle"}
  /\ Goto(c, "cancelled")
  /\ Release(c)
  /\ UNCHANGED <<current, opened, open, server, mine, attempt, faults>>

\* The task is cancelled at an await: both context managers unwind.
Cancel(c) ==
  /\ pc[c] \notin Ended \cup {"idle"}
  /\ Goto(c, "cancelled")
  /\ Release(c)
  /\ IF Working(c) THEN RollBack(mine[c]) ELSE UNCHANGED <<tx, pending>>
  /\ UNCHANGED <<current, opened, open, alive, mine, attempt, applied, faults>>

\* The server or the network drops a connection; the client learns it later.
Break(k) ==
  /\ Fault
  /\ alive' = alive \ {k}
  /\ RollBack(k)
  /\ UNCHANGED <<lock, current, opened, open, pc, mine, attempt, applied>>

-----------------------------------------------------------------------------
Connect(c) == Reuse(c) \/ Dial(c) \/ DialSucceeds(c) \/ DialFails(c)

Use(c) == \/ EnterStatement(c) \/ Execute(c)
          \/ EnterTransaction(c) \/ BeginAndWrite(c) \/ Commit(c)
          \/ Succeed(c)

Recover(c) == \/ LoseConnection(c) \/ Refused(c) \/ Rejected(c)
              \/ Close(c) \/ Retry(c)

Next == \/ \E c \in Callers : Begin(c) \/ Connect(c) \/ Use(c) \/ Recover(c)
                                \/ Cancel(c)
        \/ \E k \in Usable : Break(k)

Spec == Init /\ [][Next]_vars

\* The server and the network answer or fail, sleeps end, and the lock goes
\* round its waiters.
FairSpec ==
  /\ Spec
  /\ \A c \in Callers : SF_vars(Connect(c) \/ Use(c) \/ Recover(c))

-----------------------------------------------------------------------------
\* The types, and that the lock is held exactly by the caller inside it.
TypeOK ==
  /\ lock \in Callers \cup {NoCaller}
  /\ current \in Nat /\ opened \in Nat /\ current <= opened
  /\ open \subseteq 1..opened /\ alive \subseteq 1..opened
  /\ pc \in [Callers -> Steps]
  /\ mine \in [Callers -> 0..opened]
  /\ attempt \in [Callers -> 0..MaxAttempts]
  /\ tx \subseteq 1..opened
  /\ pending \subseteq (1..opened) \X Callers
  /\ applied \in [Callers -> Nat]
  /\ faults \in 0..MaxFaults

\* The process never holds a second open connection: whatever order callers
\* connect, fail, close and are cancelled in, none leaks.
OneConnection == open \subseteq {current}

\* A write that was reported done is durable: no statement slips into another
\* caller's transaction, to be undone with it.
DurableOnSuccess ==
  \A c \in Callers :
    pc[c] = "succeeded" /\ Kind[c] \in {"statement", "transaction"}
      => applied[c] > 0

\* A transaction takes effect at most once; a statement at most once for each
\* attempt made, the earlier ones being those whose reply was lost.
EffectsBounded ==
  \A c \in Callers :
    applied[c] <= IF Kind[c] = "transaction" THEN 1 ELSE attempt[c]

\* Callers share one connection without harm to each other's effects: none is
\* reported and undone, none happens more often than it was tried.
SharedSafely == OneConnection /\ DurableOnSuccess /\ EffectsBounded

\* A transaction is open on the server only while its caller holds the lock.
NoAbandonedTransaction ==
  \A k \in tx : \E c \in Callers : lock = c /\ mine[c] = k /\ Working(c)

\* Every operation that was begun ends: the lock is never left behind.
EveryCallEnds == \A c \in Callers : pc[c] # "idle" ~> pc[c] \in Ended
-----------------------------------------------------------------------------
(* The inductive invariant of the proofs                                   *)

\* The lock's holder is the caller at a step inside it.
LockHeld == \A c \in Callers : lock = c <=> pc[c] \in Holding

\* Whoever makes a connection has none to lose.
DialsAlone == \A c \in Callers : pc[c] = "connecting" => current \notin open

\* Each kind of caller stays on its own path.
OnItsPath ==
  \A c \in Callers :
    /\ pc[c] \in {"executing", "backoff"} => Kind[c] = "statement"
    /\ pc[c] \in {"beginning", "written"} => Kind[c] = "transaction"
    /\ pc[c] = "backoff" => attempt[c] < MaxAttempts

\* An open transaction belongs to the lock's holder, who has written, and lives
\* on a usable connection; nothing else is pending.
TransactionOwned ==
  /\ tx \subseteq Usable
  /\ \A k \in tx : \E c \in Callers : pc[c] = "written" /\ mine[c] = k
  /\ \A c \in Callers : pc[c] = "written" /\ mine[c] \in Usable =>
       mine[c] \in tx /\ <<mine[c], c>> \in pending
  /\ \A p \in pending : /\ p[1] \in tx
                        /\ pc[p[2]] = "written" /\ mine[p[2]] = p[1]

\* What was answered is durable.
AnsweredDurable ==
  \A c \in Callers :
    pc[c] \in {"answered", "succeeded"}
      /\ Kind[c] \in {"statement", "transaction"} => applied[c] > 0

\* Steps of an attempt before its effect.
Early == {"wantConnect", "connecting", "wantLock", "executing", "beginning",
          "written"}

\* An effect is left for the attempt under way.
EffectLeft ==
  \A c \in Callers :
    /\ pc[c] = "idle" => applied[c] = 0
    /\ pc[c] \in Early => applied[c] + 1 <=
         IF Kind[c] = "transaction" THEN 1 ELSE attempt[c]

IInv == /\ TypeOK /\ LockHeld /\ OneConnection /\ DialsAlone /\ OnItsPath
        /\ TransactionOwned /\ AnsweredDurable /\ EffectsBounded /\ EffectLeft
=============================================================================
