---------------------- MODULE DatabaseConnectionProofs ----------------------
(***************************************************************************)
(* TLAPS proofs about DatabaseConnection, for every set of callers of      *)
(* every kind and every number of attempts and faults.                     *)
(***************************************************************************)
EXTENDS DatabaseConnection, TLAPS

\* While the lock is free no transaction is open, and while it is held only the
\* holder is inside; only a holder that has written has one open.
LEMMA Alone ==
  ASSUME IInv
  PROVE  /\ Free => /\ \A d \in Callers : pc[d] \notin Holding
                    /\ tx = {} /\ pending = {}
         /\ \A c \in Callers : pc[c] \in Holding =>
              /\ lock = c
              /\ \A d \in Callers : d # c => pc[d] \notin Holding
              /\ pc[c] # "written" => tx = {} /\ pending = {}
              /\ tx \subseteq {mine[c]}
              /\ pending \subseteq {<<mine[c], c>>}
<1>1. /\ \A k \in tx : \E c \in Callers : pc[c] = "written" /\ mine[c] = k
      /\ \A p \in pending : p \in (1..opened) \X Callers /\ p[1] \in tx
                            /\ pc[p[2]] = "written" /\ mine[p[2]] = p[1]
  BY DEF IInv, TypeOK, TransactionOwned
<1>2. \A c \in Callers : lock = c <=> pc[c] \in Holding
  BY DEF IInv, LockHeld
<1>3. "written" \in Holding
  BY DEF Holding
<1>4. NoCaller \notin Callers
  BY CallersAssumption
<1>5. QED
  BY <1>1, <1>2, <1>3, <1>4 DEF Free

\* The lock's holder rolls back all there is.
LEMMA RollBackEmpties ==
  ASSUME IInv, NEW c \in Callers, pc[c] \in Holding, RollBack(mine[c])
  PROVE  tx' = {} /\ pending' = {}
<1>1. tx \subseteq {mine[c]} /\ pending \subseteq {<<mine[c], c>>}
  BY Alone
<1>2. QED
  BY <1>1 DEF RollBack

-----------------------------------------------------------------------------
(* Every action preserves the inductive invariant                          *)

LEMMA InitIInv == Init => IInv
<1> SUFFICES ASSUME Init PROVE IInv
  OBVIOUS
<1> USE DEF Init, None
<1>1. TypeOK
  BY LimitAssumption DEF TypeOK, Steps
<1>2. LockHeld /\ OnItsPath /\ OneConnection /\ DialsAlone
  BY CallersAssumption DEF LockHeld, OnItsPath, OneConnection, DialsAlone,
                           Holding
<1>3. TransactionOwned
  BY DEF TransactionOwned
<1>4. AnsweredDurable /\ EffectsBounded /\ EffectLeft
  BY DEF AnsweredDurable, EffectsBounded, EffectLeft, Early
<1>5. QED
  BY <1>1, <1>2, <1>3, <1>4 DEF IInv

LEMMA BeginStep ==
  ASSUME IInv, NEW c \in Callers, Begin(c)
  PROVE  IInv'
<1> USE DEF IInv, Begin,
            Goto, Release, Free, server, Steps, Holding, Ended, None
<1>1. TypeOK'
  BY LimitAssumption DEF TypeOK
<1>2. LockHeld'
  BY Alone, CallersAssumption DEF TypeOK, LockHeld
<1>3. OneConnection' /\ DialsAlone'
  BY Alone DEF TypeOK, OneConnection, DialsAlone
<1>4. OnItsPath'
  BY KindAssumption DEF TypeOK, OnItsPath, Kinds
<1>5. TransactionOwned'
  BY Alone DEF TypeOK, TransactionOwned, Usable
<1>6. AnsweredDurable'
  BY Alone DEF TypeOK, AnsweredDurable
<1>7. EffectsBounded' /\ EffectLeft'
  BY Alone DEF TypeOK, EffectsBounded, EffectLeft, Early
<1>8. QED
  BY <1>1, <1>2, <1>3, <1>4, <1>5, <1>6, <1>7

LEMMA ReuseStep ==
  ASSUME IInv, NEW c \in Callers, Reuse(c)
  PROVE  IInv'
<1> USE DEF IInv, Reuse, AfterConnect,
            Goto, Release, Free, server, Steps, Holding, Ended, None
<1>1. TypeOK'
  BY LimitAssumption DEF TypeOK
<1>2. LockHeld'
  BY Alone, CallersAssumption DEF TypeOK, LockHeld
<1>3. OneConnection' /\ DialsAlone'
  BY Alone DEF TypeOK, OneConnection, DialsAlone
<1>4. OnItsPath'
  BY KindAssumption DEF TypeOK, OnItsPath, Kinds
<1>5. TransactionOwned'
  BY Alone DEF TypeOK, TransactionOwned, Usable
<1>6. AnsweredDurable'
  BY Alone DEF TypeOK, AnsweredDurable
<1>7. EffectsBounded' /\ EffectLeft'
  BY Alone DEF TypeOK, EffectsBounded, EffectLeft, Early
<1>8. QED
  BY <1>1, <1>2, <1>3, <1>4, <1>5, <1>6, <1>7

LEMMA DialStep ==
  ASSUME IInv, NEW c \in Callers, Dial(c)
  PROVE  IInv'
<1> USE DEF IInv, Dial,
            Goto, Release, Free, server, Steps, Holding, Ended, None
<1>1. TypeOK'
  BY LimitAssumption DEF TypeOK
<1>2. LockHeld'
  BY Alone, CallersAssumption DEF TypeOK, LockHeld
<1>3. OneConnection' /\ DialsAlone'
  BY Alone DEF TypeOK, OneConnection, DialsAlone
<1>4. OnItsPath'
  BY KindAssumption DEF TypeOK, OnItsPath, Kinds
<1>5. TransactionOwned'
  BY Alone DEF TypeOK, TransactionOwned, Usable
<1>6. AnsweredDurable'
  BY Alone DEF TypeOK, AnsweredDurable
<1>7. EffectsBounded' /\ EffectLeft'
  BY Alone DEF TypeOK, EffectsBounded, EffectLeft, Early
<1>8. QED
  BY <1>1, <1>2, <1>3, <1>4, <1>5, <1>6, <1>7

LEMMA DialSucceedsStep ==
  ASSUME IInv, NEW c \in Callers, DialSucceeds(c)
  PROVE  IInv'
<1> USE DEF IInv, DialSucceeds, AfterConnect,
            Goto, Release, Free, server, Steps, Holding, Ended, None
<1>1. TypeOK'
  BY LimitAssumption DEF TypeOK
<1>2. LockHeld'
  BY Alone, CallersAssumption DEF TypeOK, LockHeld
<1>3. OneConnection' /\ DialsAlone'
  BY Alone DEF TypeOK, OneConnection, DialsAlone
<1>4. OnItsPath'
  BY KindAssumption DEF TypeOK, OnItsPath, Kinds
<1>5. TransactionOwned'
  BY Alone DEF TypeOK, TransactionOwned, Usable
<1>6. AnsweredDurable'
  BY Alone DEF TypeOK, AnsweredDurable
<1>7. EffectsBounded' /\ EffectLeft'
  BY Alone DEF TypeOK, EffectsBounded, EffectLeft, Early
<1>8. QED
  BY <1>1, <1>2, <1>3, <1>4, <1>5, <1>6, <1>7

LEMMA DialFailsStep ==
  ASSUME IInv, NEW c \in Callers, DialFails(c)
  PROVE  IInv'
<1> USE DEF IInv, DialFails, Fault,
            Goto, Release, Free, server, Steps, Holding, Ended, None
<1>1. TypeOK'
  BY LimitAssumption DEF TypeOK
<1>2. LockHeld'
  BY Alone, CallersAssumption DEF TypeOK, LockHeld
<1>3. OneConnection' /\ DialsAlone'
  BY Alone DEF TypeOK, OneConnection, DialsAlone
<1>4. OnItsPath'
  BY KindAssumption DEF TypeOK, OnItsPath, Kinds
<1>5. TransactionOwned'
  BY Alone DEF TypeOK, TransactionOwned, Usable
<1>6. AnsweredDurable'
  BY Alone DEF TypeOK, AnsweredDurable
<1>7. EffectsBounded' /\ EffectLeft'
  BY Alone DEF TypeOK, EffectsBounded, EffectLeft, Early
<1>8. QED
  BY <1>1, <1>2, <1>3, <1>4, <1>5, <1>6, <1>7

LEMMA EnterStatementStep ==
  ASSUME IInv, NEW c \in Callers, EnterStatement(c)
  PROVE  IInv'
<1> USE DEF IInv, EnterStatement,
            Goto, Release, Free, server, Steps, Holding, Ended, None
<1>1. TypeOK'
  BY LimitAssumption DEF TypeOK
<1>2. LockHeld'
  BY Alone, CallersAssumption DEF TypeOK, LockHeld
<1>3. OneConnection' /\ DialsAlone'
  BY Alone DEF TypeOK, OneConnection, DialsAlone
<1>4. OnItsPath'
  BY KindAssumption DEF TypeOK, OnItsPath, Kinds
<1>5. TransactionOwned'
  BY Alone DEF TypeOK, TransactionOwned, Usable
<1>6. AnsweredDurable'
  BY Alone DEF TypeOK, AnsweredDurable
<1>7. EffectsBounded' /\ EffectLeft'
  BY Alone DEF TypeOK, EffectsBounded, EffectLeft, Early
<1>8. QED
  BY <1>1, <1>2, <1>3, <1>4, <1>5, <1>6, <1>7

LEMMA ExecuteStep ==
  ASSUME IInv, NEW c \in Callers, Execute(c)
  PROVE  IInv'
<1> USE DEF IInv, Execute,
            Goto, Release, Free, server, Steps, Holding, Ended, None
<1>1. TypeOK'
  BY LimitAssumption DEF TypeOK
<1>2. LockHeld'
  BY Alone, CallersAssumption DEF TypeOK, LockHeld
<1>3. OneConnection' /\ DialsAlone'
  BY Alone DEF TypeOK, OneConnection, DialsAlone
<1>4. OnItsPath'
  BY KindAssumption DEF TypeOK, OnItsPath, Kinds
<1>5. TransactionOwned'
  BY Alone DEF TypeOK, TransactionOwned, Usable
<1>6. AnsweredDurable'
  BY Alone DEF TypeOK, AnsweredDurable
<1>7. EffectsBounded' /\ EffectLeft'
  BY Alone DEF TypeOK, EffectsBounded, EffectLeft, Early
<1>8. QED
  BY <1>1, <1>2, <1>3, <1>4, <1>5, <1>6, <1>7

LEMMA EnterTransactionStep ==
  ASSUME IInv, NEW c \in Callers, EnterTransaction(c)
  PROVE  IInv'
<1> USE DEF IInv, EnterTransaction,
            Goto, Release, Free, server, Steps, Holding, Ended, None
<1>1. TypeOK'
  BY LimitAssumption DEF TypeOK
<1>2. LockHeld'
  BY Alone, CallersAssumption DEF TypeOK, LockHeld
<1>3. OneConnection' /\ DialsAlone'
  BY Alone DEF TypeOK, OneConnection, DialsAlone
<1>4. OnItsPath'
  BY KindAssumption DEF TypeOK, OnItsPath, Kinds
<1>5. TransactionOwned'
  BY Alone DEF TypeOK, TransactionOwned, Usable
<1>6. AnsweredDurable'
  BY Alone DEF TypeOK, AnsweredDurable
<1>7. EffectsBounded' /\ EffectLeft'
  BY Alone DEF TypeOK, EffectsBounded, EffectLeft, Early
<1>8. QED
  BY <1>1, <1>2, <1>3, <1>4, <1>5, <1>6, <1>7

LEMMA BeginAndWriteStep ==
  ASSUME IInv, NEW c \in Callers, BeginAndWrite(c)
  PROVE  IInv'
<1> USE DEF IInv, BeginAndWrite,
            Goto, Release, Free, server, Steps, Holding, Ended, None
<1>0. /\ tx' = {mine[c]} /\ pending' = {<<mine[c], c>>}
      /\ mine[c] \in 1..opened
  BY Alone DEF TypeOK, Usable
<1>1. TypeOK'
  BY <1>0 DEF TypeOK
<1>2. LockHeld'
  BY Alone, CallersAssumption DEF TypeOK, LockHeld
<1>3. OneConnection' /\ DialsAlone'
  BY Alone DEF TypeOK, OneConnection, DialsAlone
<1>4. OnItsPath'
  BY KindAssumption DEF TypeOK, OnItsPath, Kinds
<1>5. TransactionOwned'
  BY <1>0, Alone DEF TypeOK, TransactionOwned, Usable
<1>6. AnsweredDurable'
  BY Alone DEF TypeOK, AnsweredDurable
<1>7. EffectsBounded' /\ EffectLeft'
  BY Alone DEF TypeOK, EffectsBounded, EffectLeft, Early
<1>8. QED
  BY <1>1, <1>2, <1>3, <1>4, <1>5, <1>6, <1>7

LEMMA CommitStep ==
  ASSUME IInv, NEW c \in Callers, Commit(c)
  PROVE  IInv'
<1> USE DEF IInv, Commit, RollBack,
            Goto, Release, Free, server, Steps, Holding, Ended, None
<1>0. /\ tx' = {} /\ pending' = {}
      /\ \A d \in Callers :
           applied'[d] = IF d = c THEN applied[d] + 1 ELSE applied[d]
      /\ applied' \in [Callers -> Nat]
  <2>1. tx' = {} /\ pending' = {}
    BY RollBackEmpties DEF RollBack
  <2>2. pending = {<<mine[c], c>>}
    BY Alone DEF TransactionOwned
  <2>3. \A d \in Callers : applied[d] \in Nat
    BY DEF TypeOK
  <2>4. \A d \in Callers : <<mine[c], d>> \in pending <=> d = c
    BY <2>2
  <2>5. applied' = [d \in Callers |->
                     applied[d] + IF <<mine[c], d>> \in pending THEN 1 ELSE 0]
    OBVIOUS
  <2>6. \A d \in Callers :
          applied'[d] = IF d = c THEN applied[d] + 1 ELSE applied[d]
    BY <2>3, <2>4, <2>5
  <2>7. applied' \in [Callers -> Nat]
    BY <2>3, <2>5
  <2>8. QED
    BY <2>1, <2>6, <2>7
<1>1. TypeOK'
  BY <1>0 DEF TypeOK
<1>2. LockHeld'
  BY Alone, CallersAssumption DEF TypeOK, LockHeld
<1>3. OneConnection' /\ DialsAlone'
  BY Alone DEF TypeOK, OneConnection, DialsAlone
<1>4. OnItsPath'
  BY KindAssumption DEF TypeOK, OnItsPath, Kinds
<1>5. TransactionOwned'
  <2>1. \A d \in Callers : pc'[d] # "written"
    BY Alone DEF TypeOK
  <2>2. QED
    BY <1>0, <2>1 DEF TransactionOwned
<1>6. AnsweredDurable'
  BY <1>0 DEF TypeOK, AnsweredDurable
<1>7. EffectsBounded' /\ EffectLeft'
  BY <1>0 DEF TypeOK, EffectsBounded, EffectLeft, Early
<1>8. QED
  BY <1>1, <1>2, <1>3, <1>4, <1>5, <1>6, <1>7

LEMMA SucceedStep ==
  ASSUME IInv, NEW c \in Callers, Succeed(c)
  PROVE  IInv'
<1> USE DEF IInv, Succeed,
            Goto, Release, Free, server, Steps, Holding, Ended, None
<1>1. TypeOK'
  BY LimitAssumption DEF TypeOK
<1>2. LockHeld'
  BY Alone, CallersAssumption DEF TypeOK, LockHeld
<1>3. OneConnection' /\ DialsAlone'
  BY Alone DEF TypeOK, OneConnection, DialsAlone
<1>4. OnItsPath'
  BY KindAssumption DEF TypeOK, OnItsPath, Kinds
<1>5. TransactionOwned'
  BY Alone DEF TypeOK, TransactionOwned, Usable
<1>6. AnsweredDurable'
  BY Alone DEF TypeOK, AnsweredDurable
<1>7. EffectsBounded' /\ EffectLeft'
  BY Alone DEF TypeOK, EffectsBounded, EffectLeft, Early
<1>8. QED
  BY <1>1, <1>2, <1>3, <1>4, <1>5, <1>6, <1>7

LEMMA LoseConnectionStep ==
  ASSUME IInv, NEW c \in Callers, LoseConnection(c)
  PROVE  IInv'
<1> USE DEF IInv, LoseConnection, Working,
            Goto, Release, Free, server, Steps, Holding, Ended, None
<1>1. TypeOK'
  BY LimitAssumption DEF TypeOK
<1>2. LockHeld'
  BY Alone, CallersAssumption DEF TypeOK, LockHeld
<1>3. OneConnection' /\ DialsAlone'
  BY Alone DEF TypeOK, OneConnection, DialsAlone
<1>4. OnItsPath'
  BY KindAssumption DEF TypeOK, OnItsPath, Kinds
<1>5. TransactionOwned'
  BY Alone DEF TypeOK, TransactionOwned, Usable
<1>6. AnsweredDurable'
  BY Alone DEF TypeOK, AnsweredDurable
<1>7. EffectsBounded' /\ EffectLeft'
  BY Alone DEF TypeOK, EffectsBounded, EffectLeft, Early
<1>8. QED
  BY <1>1, <1>2, <1>3, <1>4, <1>5, <1>6, <1>7

LEMMA RefusedStep ==
  ASSUME IInv, NEW c \in Callers, Refused(c)
  PROVE  IInv'
<1> USE DEF IInv, Refused, Working, Fault,
            Goto, Release, Free, server, Steps, Holding, Ended, None
<1>0. tx' = {} /\ pending' = {}
  BY RollBackEmpties
<1>1. TypeOK'
  BY <1>0, LimitAssumption DEF TypeOK
<1>2. LockHeld'
  BY Alone, CallersAssumption DEF TypeOK, LockHeld
<1>3. OneConnection' /\ DialsAlone'
  BY Alone DEF TypeOK, OneConnection, DialsAlone
<1>4. OnItsPath'
  BY KindAssumption DEF TypeOK, OnItsPath, Kinds
<1>5. TransactionOwned'
  BY <1>0, Alone DEF TypeOK, TransactionOwned, Usable
<1>6. AnsweredDurable'
  BY Alone DEF TypeOK, AnsweredDurable
<1>7. EffectsBounded' /\ EffectLeft'
  BY Alone DEF TypeOK, EffectsBounded, EffectLeft, Early
<1>8. QED
  BY <1>1, <1>2, <1>3, <1>4, <1>5, <1>6, <1>7

LEMMA RejectedStep ==
  ASSUME IInv, NEW c \in Callers, Rejected(c)
  PROVE  IInv'
<1> USE DEF IInv, Rejected, Working,
            Goto, Release, Free, server, Steps, Holding, Ended, None
<1>0. tx' = {} /\ pending' = {}
  BY RollBackEmpties
<1>1. TypeOK'
  BY <1>0, LimitAssumption DEF TypeOK
<1>2. LockHeld'
  BY Alone, CallersAssumption DEF TypeOK, LockHeld
<1>3. OneConnection' /\ DialsAlone'
  BY Alone DEF TypeOK, OneConnection, DialsAlone
<1>4. OnItsPath'
  BY KindAssumption DEF TypeOK, OnItsPath, Kinds
<1>5. TransactionOwned'
  BY <1>0, Alone DEF TypeOK, TransactionOwned, Usable
<1>6. AnsweredDurable'
  BY Alone DEF TypeOK, AnsweredDurable
<1>7. EffectsBounded' /\ EffectLeft'
  BY Alone DEF TypeOK, EffectsBounded, EffectLeft, Early
<1>8. QED
  BY <1>1, <1>2, <1>3, <1>4, <1>5, <1>6, <1>7

LEMMA CloseStep ==
  ASSUME IInv, NEW c \in Callers, Close(c)
  PROVE  IInv'
<1> USE DEF IInv, Close, AfterClose, RollBack,
            Goto, Release, Free, server, Steps, Holding, Ended, None
<1>1. TypeOK'
  BY LimitAssumption DEF TypeOK
<1>2. LockHeld'
  BY Alone, CallersAssumption DEF TypeOK, LockHeld
<1>3. OneConnection' /\ DialsAlone'
  BY Alone DEF TypeOK, OneConnection, DialsAlone
<1>4. OnItsPath'
  BY KindAssumption DEF TypeOK, OnItsPath, Kinds
<1>5. TransactionOwned'
  BY Alone DEF TypeOK, TransactionOwned, Usable
<1>6. AnsweredDurable'
  BY Alone DEF TypeOK, AnsweredDurable
<1>7. EffectsBounded' /\ EffectLeft'
  BY Alone DEF TypeOK, EffectsBounded, EffectLeft, Early
<1>8. QED
  BY <1>1, <1>2, <1>3, <1>4, <1>5, <1>6, <1>7

LEMMA RetryStep ==
  ASSUME IInv, NEW c \in Callers, Retry(c)
  PROVE  IInv'
<1> USE DEF IInv, Retry,
            Goto, Release, Free, server, Steps, Holding, Ended, None
<1>0. /\ attempt[c] + 1 \in 0..MaxAttempts /\ attempt[c] \in Nat
      /\ Kind[c] = "statement"
  BY LimitAssumption DEF TypeOK, OnItsPath
<1>a. \A d \in Callers :
        attempt'[d] = IF d = c THEN attempt[c] + 1 ELSE attempt[d]
  BY DEF TypeOK
<1>1. TypeOK'
  BY <1>0 DEF TypeOK
<1>2. LockHeld'
  BY Alone, CallersAssumption DEF TypeOK, LockHeld
<1>3. OneConnection' /\ DialsAlone'
  BY Alone DEF TypeOK, OneConnection, DialsAlone
<1>4. OnItsPath'
  BY KindAssumption DEF TypeOK, OnItsPath, Kinds
<1>5. TransactionOwned'
  BY Alone DEF TypeOK, TransactionOwned, Usable
<1>6. AnsweredDurable'
  BY Alone DEF TypeOK, AnsweredDurable
<1>7. EffectsBounded' /\ EffectLeft'
  BY <1>0, <1>a DEF TypeOK, EffectsBounded, EffectLeft, Early
<1>8. QED
  BY <1>1, <1>2, <1>3, <1>4, <1>5, <1>6, <1>7

LEMMA CancelStep ==
  ASSUME IInv, NEW c \in Callers, Cancel(c)
  PROVE  IInv'
<1> USE DEF IInv, Cancel, Working,
            Goto, Release, Free, server, Steps, Holding, Ended, None
<1>0. Working(c) => tx' = {} /\ pending' = {}
  BY RollBackEmpties
<1>1. TypeOK'
  BY <1>0, LimitAssumption DEF TypeOK
<1>2. LockHeld'
  BY Alone, CallersAssumption DEF TypeOK, LockHeld
<1>3. OneConnection' /\ DialsAlone'
  BY Alone DEF TypeOK, OneConnection, DialsAlone
<1>4. OnItsPath'
  BY KindAssumption DEF TypeOK, OnItsPath, Kinds
<1>5. TransactionOwned'
  <2>1. CASE Working(c)
    <3>1. \A d \in Callers : pc'[d] # "written"
      BY <2>1, Alone DEF TypeOK
    <3>2. QED
      BY <1>0, <2>1, <3>1 DEF TransactionOwned
  <2>2. CASE ~Working(c)
    <3>1. \A d \in Callers : pc'[d] = "written" <=> pc[d] = "written"
      BY <2>2 DEF TypeOK
    <3>2. UNCHANGED <<tx, pending, mine, open, alive>>
      BY <2>2
    <3>3. QED
      BY <3>1, <3>2 DEF TransactionOwned, Usable
  <2>3. QED
    BY <2>1, <2>2
<1>6. AnsweredDurable'
  BY Alone DEF TypeOK, AnsweredDurable
<1>7. EffectsBounded' /\ EffectLeft'
  BY Alone DEF TypeOK, EffectsBounded, EffectLeft, Early
<1>8. QED
  BY <1>1, <1>2, <1>3, <1>4, <1>5, <1>6, <1>7

\* The server ends the transaction of a broken connection itself.
LEMMA BreakStep ==
  ASSUME IInv, NEW k \in Usable, Break(k)
  PROVE  IInv'
<1> USE DEF IInv, Break, Fault, RollBack
<1>1. TypeOK'
  <2>1. faults' \in 0..MaxFaults
    BY LimitAssumption DEF TypeOK
  <2>2. tx' \subseteq tx /\ pending' \subseteq pending /\ alive' \subseteq alive
    OBVIOUS
  <2>3. QED
    BY <2>1, <2>2 DEF TypeOK
<1>2. LockHeld' /\ OneConnection' /\ DialsAlone' /\ OnItsPath'
  BY DEF LockHeld, OneConnection, DialsAlone, OnItsPath
<1>3. TransactionOwned'
  BY DEF TypeOK, TransactionOwned, Usable
<1>4. AnsweredDurable' /\ EffectsBounded' /\ EffectLeft'
  BY DEF AnsweredDurable, EffectsBounded, EffectLeft
<1>5. QED
  BY <1>1, <1>2, <1>3, <1>4

LEMMA Stutter == IInv /\ UNCHANGED vars => IInv'
<1> SUFFICES ASSUME IInv, UNCHANGED vars PROVE IInv'
  OBVIOUS
<1> USE DEF IInv, vars
<1>1. TypeOK' /\ LockHeld' /\ OneConnection' /\ DialsAlone' /\ OnItsPath'
  BY DEF TypeOK, LockHeld, OneConnection, DialsAlone, OnItsPath
<1>2. TransactionOwned' /\ AnsweredDurable' /\ EffectsBounded' /\ EffectLeft'
  BY DEF TransactionOwned, Usable, AnsweredDurable, EffectsBounded, EffectLeft
<1>3. QED
  BY <1>1, <1>2

-----------------------------------------------------------------------------
(* The theorems                                                            *)

\* The inductive invariant holds of every behaviour of the connection.
THEOREM Invariance == Spec => []IInv
<1>1. IInv /\ [Next]_vars => IInv'
  <2> SUFFICES ASSUME IInv, [Next]_vars PROVE IInv'
    OBVIOUS
  <2>1. ASSUME NEW c \in Callers, Begin(c) \/ Connect(c) PROVE IInv'
    BY <2>1, BeginStep, ReuseStep, DialStep, DialSucceedsStep, DialFailsStep
    DEF Connect
  <2>2. ASSUME NEW c \in Callers, Use(c) PROVE IInv'
    BY <2>2, EnterStatementStep, ExecuteStep, EnterTransactionStep,
       BeginAndWriteStep, CommitStep, SucceedStep DEF Use
  <2>3. ASSUME NEW c \in Callers, Recover(c) \/ Cancel(c) PROVE IInv'
    BY <2>3, LoseConnectionStep, RefusedStep, RejectedStep, CloseStep,
       RetryStep, CancelStep DEF Recover
  <2>4. QED
    BY <2>1, <2>2, <2>3, BreakStep, Stutter DEF Next
<1>2. QED
  BY <1>1, InitIInv, PTL DEF Spec

\* The types of connection.py's state, for every set of callers.
THEOREM TypeCorrect == Spec => []TypeOK
<1>1. IInv => TypeOK
  BY DEF IInv
<1>2. QED
  BY <1>1, Invariance, PTL

\* connect() and close() never leave a second connection open.
THEOREM SingleConnection == Spec => []OneConnection
<1>1. IInv => OneConnection
  BY DEF IInv
<1>2. QED
  BY <1>1, Invariance, PTL

\* What execute() or a transaction reported done is durable in the database.
THEOREM Durability == Spec => []DurableOnSuccess
<1>1. IInv => DurableOnSuccess
  BY DEF IInv, AnsweredDurable, DurableOnSuccess
<1>2. QED
  BY <1>1, Invariance, PTL

\* _with_retry() repeats an effect at most once an attempt, transaction() never.
THEOREM BoundedEffects == Spec => []EffectsBounded
<1>1. IInv => EffectsBounded
  BY DEF IInv
<1>2. QED
  BY <1>1, Invariance, PTL

\* No caller leaves its transaction open behind it, even when it is cancelled.
THEOREM TransactionsEnd == Spec => []NoAbandonedTransaction
<1>1. IInv => NoAbandonedTransaction
  <2> SUFFICES ASSUME IInv, NEW k \in tx
               PROVE  \E c \in Callers : lock = c /\ mine[c] = k /\ Working(c)
    BY DEF NoAbandonedTransaction
  <2>1. PICK c \in Callers : pc[c] = "written" /\ mine[c] = k
    BY DEF IInv, TransactionOwned
  <2>2. lock = c /\ Working(c)
    BY <2>1, Alone DEF Working, Holding
  <2>3. QED
    BY <2>1, <2>2
<1>2. QED
  BY <1>1, Invariance, PTL

\* Callers share the connection safely: the three theorems above together.
THEOREM SafeSharing == Spec => []SharedSafely
<1>1. OneConnection /\ DurableOnSuccess /\ EffectsBounded => SharedSafely
  BY DEF SharedSafely
<1>2. QED
  BY <1>1, SingleConnection, Durability, BoundedEffects, PTL

-----------------------------------------------------------------------------
(* The way to the end.  EveryCallEnds itself is about fairness and is left *)
(* to TLC; what it rests on is proved here.                                *)

\* How far a step is from the end of the attempt it belongs to.
Rank(step) ==
  CASE step = "idle" -> 9
    [] step = "wantConnect" -> 8
    [] step = "connecting" -> 7
    [] step = "wantLock" -> 6
    [] step \in {"executing", "beginning"} -> 5
    [] step = "written" -> 4
    [] step = "answered" -> 3
    [] step = "wantClose" -> 2
    [] step = "backoff" -> 1
    [] OTHER -> 0

\* The steps that are still ahead of a caller, and more.
Ahead(c) == 10 * (MaxAttempts - attempt[c]) + Rank(pc[c])

\* One caller moves on, and all others stay where they are.
MovesOn(c) ==
  /\ Ahead(c)' < Ahead(c)
  /\ \A d \in Callers \ {c} : Ahead(d)' = Ahead(d)

\* A connection breaks, which it does once, and nobody moves.
BreaksOne ==
  /\ \A d \in Callers : Ahead(d)' = Ahead(d)
  /\ alive' \subseteq alive /\ alive' # alive /\ opened' = opened

LEMMA AheadNatural ==
  ASSUME TypeOK, NEW c \in Callers
  PROVE  Ahead(c) \in Nat
<1>1. attempt[c] \in 0..MaxAttempts /\ MaxAttempts \in Nat
  BY LimitAssumption DEF TypeOK
<1>2. Rank(pc[c]) \in Nat
  BY DEF Rank
<1>3. QED
  BY <1>1, <1>2 DEF Ahead

\* A step of c that starts no attempt moves on when it lowers the rank.
LEMMA RankLowered ==
  ASSUME TypeOK, NEW c \in Callers, NEW step \in Steps,
         Goto(c, step), attempt' = attempt, Rank(step) < Rank(pc[c])
  PROVE  MovesOn(c)
<1>1. /\ pc'[c] = step /\ \A d \in Callers \ {c} : pc'[d] = pc[d]
      /\ attempt[c] \in Nat /\ MaxAttempts \in Nat
      /\ pc[c] \in Steps
  BY LimitAssumption DEF TypeOK, Goto
<1>2. Rank(step) \in Nat /\ Rank(pc[c]) \in Nat
  BY DEF Rank
<1>3. Ahead(c)' < Ahead(c)
  BY <1>1, <1>2 DEF Ahead
<1>4. QED
  BY <1>1, <1>3 DEF MovesOn, Ahead

\* A step of c that starts an attempt moves on wherever it comes from.
LEMMA AttemptStarted ==
  ASSUME TypeOK, NEW c \in Callers, NEW step \in Steps,
         Goto(c, step), Rank(step) <= Rank(pc[c]) + 9,
         attempt' = [attempt EXCEPT ![c] = @ + 1]
  PROVE  MovesOn(c)
<1>1. /\ pc'[c] = step /\ \A d \in Callers \ {c} : pc'[d] = pc[d]
      /\ attempt[c] \in Nat /\ MaxAttempts \in Nat
      /\ attempt'[c] = attempt[c] + 1
      /\ \A d \in Callers \ {c} : attempt'[d] = attempt[d]
  BY LimitAssumption DEF TypeOK, Goto
<1>2. Rank(step) \in Nat /\ Rank(pc[c]) \in Nat
  BY DEF Rank
<1>3. Ahead(c)' < Ahead(c)
  BY <1>1, <1>2 DEF Ahead
<1>4. QED
  BY <1>1, <1>3 DEF MovesOn, Ahead

\* Nobody has started an attempt before beginning.
IdleUntried == \A c \in Callers : pc[c] = "idle" => attempt[c] = 0

LEMMA IdleStaysUntried == Spec => []IdleUntried
<1>1. Init => IdleUntried
  BY DEF Init, IdleUntried
<1>2. ASSUME TypeOK, IdleUntried, [Next]_vars
      PROVE  IdleUntried'
  <2>1. ASSUME NEW c \in Callers, NEW step \in Steps \ {"idle"}, Goto(c, step),
               \A d \in Callers \ {c} : attempt'[d] = attempt[d]
        PROVE  IdleUntried'
    BY <1>2, <2>1 DEF TypeOK, Goto, IdleUntried
  <2>2. ASSUME NEW c \in Callers,
               Begin(c) \/ Connect(c) \/ Use(c) \/ Recover(c) \/ Cancel(c)
        PROVE  /\ \E step \in Steps \ {"idle"} : Goto(c, step)
               /\ \A d \in Callers \ {c} : attempt'[d] = attempt[d]
    <3> USE DEF Steps, Holding, Ended
    <3>1. CASE Begin(c) \/ Retry(c)
      BY <1>2, <3>1 DEF Begin, Retry, TypeOK
    <3>2. CASE Connect(c)
      BY <3>2 DEF Connect, Reuse, Dial, DialSucceeds, DialFails, AfterConnect
    <3>3. CASE Use(c)
      BY <3>3 DEF Use, EnterStatement, Execute, EnterTransaction,
                  BeginAndWrite, Commit, Succeed
    <3>4. CASE LoseConnection(c) \/ Refused(c) \/ Rejected(c) \/ Close(c)
      BY <3>4 DEF LoseConnection, Refused, Rejected, Close, AfterClose
    <3>5. CASE Cancel(c)
      BY <3>5 DEF Cancel
    <3>6. QED
      BY <2>2, <3>1, <3>2, <3>3, <3>4, <3>5 DEF Recover
  <2>3. ASSUME NEW k \in Usable, Break(k)
        PROVE  IdleUntried'
    BY <1>2, <2>3 DEF Break, IdleUntried
  <2>4. CASE UNCHANGED vars
    BY <1>2, <2>4 DEF vars, IdleUntried
  <2>5. QED
    BY <1>2, <2>1, <2>2, <2>3, <2>4 DEF Next
<1>3. QED
  BY <1>1, <1>2, TypeCorrect, PTL DEF Spec

\* Every step of a caller brings its operation nearer to its end and leaves the
\* other callers where they are, and the only other steps are connections that
\* break: attempts are counted, and closing the shared connection, by which one
\* caller makes another's operation fail, costs that one an attempt and never
\* makes it repeat a step of the same attempt.  So callers that close each
\* other's connections do not go on for ever; what EveryCallEnds needs beyond
\* this is that whoever waits for the lock is woken.
THEOREM CallsMoveOn ==
  Spec => /\ [](\A c \in Callers : Ahead(c) \in Nat)
          /\ [][(\E c \in Callers : MovesOn(c)) \/ BreaksOne]_vars
<1>1. ASSUME TypeOK, IdleUntried, NEW c \in Callers,
             Begin(c) \/ Connect(c) \/ Use(c) \/ Recover(c) \/ Cancel(c)
      PROVE  MovesOn(c)
  <2>0. MaxAttempts \in Nat /\ attempt \in [Callers -> 0..MaxAttempts]
        /\ pc[c] \in Steps
    BY <1>1, LimitAssumption DEF TypeOK
  <2>1. CASE Begin(c)
    <3>1. attempt' = [attempt EXCEPT ![c] = @ + 1]
      <4>1. attempt[c] = 0 /\ attempt[c] + 1 = 1
        BY <1>1, <2>1 DEF Begin, IdleUntried
      <4>2. attempt' = [attempt EXCEPT ![c] = 1]
        BY <2>1 DEF Begin
      <4>3. QED
        BY <4>1, <4>2
    <3>2. PICK step \in {"wantClose", "wantConnect"} : Goto(c, step)
      BY <2>1 DEF Begin
    <3>3. step \in Steps /\ Rank(step) <= 9 /\ Rank(pc[c]) \in Nat
      BY DEF Steps, Rank
    <3>4. Rank(step) <= Rank(pc[c]) + 9
      BY <3>3 DEF Rank
    <3>5. QED
      BY <1>1, <3>1, <3>2, <3>3, <3>4, AttemptStarted
  <2>2. CASE Retry(c)
    <3>1. attempt' = [attempt EXCEPT ![c] = @ + 1]
      BY <2>2 DEF Retry
    <3>2. Goto(c, "wantConnect") /\ "wantConnect" \in Steps
      BY <2>2 DEF Retry, Steps
    <3>3. Rank("wantConnect") <= Rank(pc[c]) + 9
      BY <2>2 DEF Retry, Rank
    <3>4. QED
      BY <1>1, <3>1, <3>2, <3>3, AttemptStarted
  <2>3. CASE Connect(c)
    <3>1. PICK step \in {"wantLock", "connecting", "wantClose", "succeeded",
                         "failed"} :
            /\ Goto(c, step) /\ attempt' = attempt
            /\ \/ pc[c] = "wantConnect"
               \/ pc[c] = "connecting" /\ step # "connecting"
      BY <2>3 DEF Connect, Reuse, Dial, DialSucceeds, DialFails, AfterConnect
    <3>2. step \in Steps /\ Rank(step) < Rank(pc[c])
      BY <3>1 DEF Steps, Holding, Ended, Rank
    <3>3. QED
      BY <1>1, <3>1, <3>2, RankLowered
  <2>4. CASE Use(c)
    <3>1. PICK step \in {"executing", "beginning", "written", "answered",
                         "succeeded"} :
            /\ Goto(c, step) /\ attempt' = attempt
            /\ \/ pc[c] = "wantLock"
               \/ pc[c] \in {"executing", "beginning"}
                    /\ step \in {"written", "answered"}
               \/ pc[c] = "written" /\ step = "answered"
               \/ pc[c] = "answered" /\ step = "succeeded"
      BY <2>4 DEF Use, EnterStatement, Execute, EnterTransaction,
                  BeginAndWrite, Commit, Succeed
    <3>2. step \in Steps /\ Rank(step) < Rank(pc[c])
      BY <3>1 DEF Steps, Holding, Ended, Rank
    <3>3. QED
      BY <1>1, <3>1, <3>2, RankLowered
  <2>5. CASE LoseConnection(c) \/ Refused(c) \/ Rejected(c) \/ Close(c)
    <3>1. PICK step \in {"wantClose", "backoff", "succeeded", "failed"} :
            /\ Goto(c, step) /\ attempt' = attempt
            /\ \/ pc[c] \in {"executing", "beginning", "written", "answered"}
               \/ pc[c] = "wantClose" /\ step # "wantClose"
      BY <2>5 DEF LoseConnection, Refused, Rejected, Close, AfterClose,
                  Working, Holding
    <3>2. step \in Steps /\ Rank(step) < Rank(pc[c])
      BY <3>1 DEF Steps, Holding, Ended, Rank
    <3>3. QED
      BY <1>1, <3>1, <3>2, RankLowered
  <2>6. CASE Cancel(c)
    <3>1. Goto(c, "cancelled") /\ attempt' = attempt /\ pc[c] \notin Ended
      BY <2>6 DEF Cancel
    <3>2. "cancelled" \in Steps /\ Rank("cancelled") < Rank(pc[c])
      BY <2>0, <3>1 DEF Steps, Holding, Ended, Rank
    <3>3. QED
      BY <1>1, <3>1, <3>2, RankLowered
  <2>7. QED
    BY <1>1, <2>1, <2>2, <2>3, <2>4, <2>5, <2>6 DEF Recover
<1>2. ASSUME NEW k \in Usable, Break(k)
      PROVE  BreaksOne
  BY <1>2 DEF Break, BreaksOne, Usable, Ahead
<1>3. ASSUME TypeOK, IdleUntried, [Next]_vars
      PROVE  [(\E c \in Callers : MovesOn(c)) \/ BreaksOne]_vars
  BY <1>1, <1>2, <1>3 DEF Next
<1>4. TypeOK => \A c \in Callers : Ahead(c) \in Nat
  BY AheadNatural
<1>5. QED
  BY <1>3, <1>4, TypeCorrect, IdleStaysUntried, PTL DEF Spec
=============================================================================
