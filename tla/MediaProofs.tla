----------------------------- MODULE MediaProofs -----------------------------
(***************************************************************************)
(* TLAPS proofs about the two components of media.                         *)
(*                                                                         *)
(* First about MediaPolicy, for every set of callers, processes and        *)
(* policies and every number of attempts and lost replies.                 *)
(*                                                                         *)
(* Then about MediaModeration, for every set of requests, messages, images *)
(* and policies, every limit, load and configuration and every number of   *)
(* permits, threads and faults: MediaIInv is inductive, and the five       *)
(* safety properties follow from it.                                       *)
(***************************************************************************)
EXTENDS MediaPolicy, MediaModeration, FiniteSetTheorems, WellFoundedInduction,
        TLAPS


\* Appending leaves the records there are and adds the last one.
LEMMA AppendFacts ==
  ASSUME NEW S, NEW s \in Seq(S), NEW e \in S
  PROVE  /\ Append(s, e) \in Seq(S)
         /\ Len(Append(s, e)) = Len(s) + 1
         /\ DOMAIN Append(s, e) = 1..(Len(s) + 1)
         /\ \A i \in 1..Len(s) : Append(s, e)[i] = s[i]
         /\ Append(s, e)[Len(s) + 1] = e
  OBVIOUS

LEMMA EffectiveFacts ==
  ASSUME TypeOK
  PROVE  /\ Effective(row) \in Snapshots
         /\ Effective(row).revision = IF row.active THEN row.revision ELSE 0
         /\ Effective(row).content = IF row.active THEN row.content
                                                   ELSE Default
  BY DEF TypeOK, Effective, Snapshot, Snapshots

\* What GET would show now is genuine, and fresh for every request under way.
LEMMA EffectiveGenuine ==
  ASSUME TypeOK, AuditComplete
  PROVE  /\ Genuine(Effective(row))
         /\ \A c \in Callers : began[c] <= row.revision =>
              Fresh(c, Effective(row))
<1>1. row.revision \in Nat /\ Len(audit) = row.revision
  BY DEF TypeOK, AuditComplete
<1>2. CASE row.revision = 0 /\ ~row.active
  BY <1>1, <1>2, EffectiveFacts DEF Genuine, Fresh, DefaultAt, TypeOK
<1>3. CASE row.revision > 0
  <2>1. audit \in Seq(Entries) /\ audit # <<>>
    BY <1>1, <1>3 DEF TypeOK, Entries
  <2>2. audit[row.revision] \in Entries
    BY <1>1, <1>3, <2>1
  <2>3. /\ row.active = (audit[row.revision].op = "save")
        /\ row.active => row.content = audit[row.revision].content
    BY <1>1, <2>1 DEF AuditComplete
  <2>4. audit[row.revision].op \in {"save", "reset"}
    BY <2>2 DEF Entries
  <2>5. QED
    BY <1>1, <1>3, <2>3, <2>4, EffectiveFacts, SMTT(30)
    DEF Genuine, Fresh, DefaultAt, TypeOK
<1>4. row.revision = 0 => ~row.active
  BY DEF AuditComplete
<1>5. QED
  BY <1>1, <1>2, <1>3, <1>4

\* Genuine and fresh policies stay so when the row and the audit grow.
LEMMA StaysGenuine ==
  ASSUME TypeOK, AuditComplete, NEW s \in Snapshots, Genuine(s),
         Len(audit') >= Len(audit),
         \A i \in 1..Len(audit) : audit'[i] = audit[i]
  PROVE  Genuine(s)'
<1>1. s.revision \in Nat /\ Len(audit) \in Nat
  BY DEF Snapshots, TypeOK
<1>2. QED
  BY <1>1 DEF Genuine

LEMMA StaysFresh ==
  ASSUME TypeOK, AuditComplete, NEW s \in Snapshots, NEW c \in Callers,
         Fresh(c, s), began'[c] = began[c],
         row'.revision \in Nat, row'.revision >= row.revision,
         \A i \in 1..Len(audit) : audit'[i] = audit[i]
  PROVE  Fresh(c, s)'
<1>1. /\ s.revision \in Nat /\ row.revision \in Nat /\ began[c] \in Nat
      /\ Len(audit) = row.revision
  BY DEF Snapshots, TypeOK, AuditComplete
<1>2. CASE s.revision > 0
  BY <1>1, <1>2 DEF Fresh
<1>3. CASE s.revision = 0
  <2>1. PICK i \in began[c]..row.revision : DefaultAt(i)
    BY <1>1, <1>3 DEF Fresh
  <2>2. i \in (began[c]..row.revision)' /\ DefaultAt(i)'
    BY <1>1, <2>1 DEF DefaultAt
  <2>3. QED
    BY <1>3, <2>2 DEF Fresh
<1>4. QED
  BY <1>1, <1>2, <1>3

\* A step that leaves row, audit and cache alone keeps what was fresh.
LEMMA Unmoved ==
  ASSUME IInv, UNCHANGED <<row, audit>>
  PROVE  /\ AuditComplete'
         /\ \A s \in Snapshots : Genuine(s) => Genuine(s)'
         /\ \A c \in Callers, s \in Snapshots :
              Fresh(c, s) /\ began'[c] = began[c] => Fresh(c, s)'
<1>1. AuditComplete'
  BY DEF IInv, AuditComplete
<1>2. \A s \in Snapshots : Genuine(s) => Genuine(s)'
  BY DEF Genuine
<1>3. ASSUME NEW c \in Callers, NEW s \in Snapshots, Fresh(c, s),
             began'[c] = began[c]
      PROVE  Fresh(c, s)'
  BY <1>3, StaysFresh DEF IInv, TypeOK
<1>4. QED
  BY <1>1, <1>2, <1>3

-----------------------------------------------------------------------------
(* Every action preserves the inductive invariant                          *)

LEMMA InitIInv == Init => IInv
<1> SUFFICES ASSUME Init PROVE IInv
  OBVIOUS
<1> USE DEF Init, Snapshot
<1>1. TypeOK
  BY BoundAssumption DEF TypeOK, Snapshots, Steps
<1>2. AuditComplete
  BY DEF AuditComplete
<1>3. AllGenuine /\ FreshRead /\ FreshResponse /\ WritersChose
  BY DEF WritersChose, AllGenuine, Genuine, FreshRead, FreshResponse
<1>4. QED
  BY <1>1, <1>2, <1>3 DEF IInv

\* What the types say of one caller and of the row.
LEMMA Types ==
  ASSUME TypeOK, NEW c \in Callers
  PROVE  /\ read[c] \in Snapshots /\ response[c] \in Snapshots
         /\ row.revision \in Nat /\ row.active \in BOOLEAN
         /\ row.content \in Policies \cup {Default}
         /\ began[c] \in Nat
         /\ audit \in Seq(Entries) /\ Len(audit) \in Nat
         /\ Where[c] \in Processes /\ cache[Where[c]] \subseteq Snapshots
  BY WhereAssumption DEF TypeOK, Entries

LEMMA GetStep ==
  ASSUME IInv, NEW c \in Callers, Get(c)
  PROVE  IInv'
<1> USE DEF IInv, Get, request, Goto
<1>1. TypeOK'
  BY DEF TypeOK, Steps
<1>a. WritersChose'
  BY DEF WritersChose, TypeOK
<1>2. AllGenuine'
  BY Unmoved, Types DEF AllGenuine, TypeOK
<1>3. FreshRead' /\ FreshResponse'
  BY Unmoved, Types DEF FreshRead, FreshResponse, TypeOK
<1>4. QED
  BY <1>a, <1>1, <1>2, <1>3, Unmoved

LEMMA GetActiveStep ==
  ASSUME IInv, NEW c \in Callers, GetActive(c)
  PROVE  IInv'
<1> USE DEF IInv, GetActive, request, Goto
<1>1. TypeOK'
  BY EffectiveFacts DEF TypeOK, Steps
<1>2. read' = [read EXCEPT ![c] = Effective(row)]
  OBVIOUS
<1>a. WritersChose'
  BY DEF WritersChose, TypeOK
<1>3. AllGenuine'
  BY <1>2, Unmoved, EffectiveFacts, EffectiveGenuine, Types
  DEF AllGenuine, TypeOK
<1>4. FreshRead' /\ FreshResponse'
  BY <1>2, Unmoved, EffectiveFacts, EffectiveGenuine, Types
  DEF FreshRead, FreshResponse, TypeOK
<1>5. QED
  BY <1>a, <1>1, <1>3, <1>4, Unmoved

LEMMA ResolveStep ==
  ASSUME IInv, NEW c \in Callers, Resolve(c)
  PROVE  IInv'
<1> USE DEF IInv, Resolve, request, Goto
<1>1. PICK s \in Snapshots : /\ response' = [response EXCEPT ![c] = s]
                             /\ Genuine(s) /\ s.revision = read[c].revision
                             /\ \/ UNCHANGED cache
                                \/ /\ s.revision > 0
                                   /\ cache' = [cache EXCEPT ![Where[c]] =
                                                  @ \cup {s}]
  BY Types DEF Cached, AllGenuine
<1>2. TypeOK'
  <2>1. cache' \in [Processes -> SUBSET Snapshots]
    <3>1. cache \in [Processes -> SUBSET Snapshots]
      BY DEF TypeOK
    <3>2. cache[Where[c]] \cup {s} \in SUBSET Snapshots
      BY <3>1, WhereAssumption
    <3>3. [cache EXCEPT ![Where[c]] = @ \cup {s}]
             \in [Processes -> SUBSET Snapshots]
      BY <3>1, <3>2
    <3>4. QED
      BY <1>1, <3>1, <3>3
  <2>2. pc' \in [Callers -> Steps] /\ response' \in [Callers -> Snapshots]
    BY <1>1 DEF TypeOK, Steps
  <2>3. QED
    BY <2>1, <2>2 DEF TypeOK
<1>3. Fresh(c, s)
  BY <1>1, Types DEF FreshRead, Fresh, Genuine, AllGenuine, AuditComplete,
                     Snapshots
<1>a. WritersChose'
  BY DEF WritersChose, TypeOK
<1>4. AllGenuine'
  <2>1. \A d \in Callers : Genuine(read[d])' /\ Genuine(response[d])'
    BY <1>1, Unmoved, Types DEF AllGenuine, TypeOK
  <2>2. \A p \in Processes : \A t \in cache'[p] :
          t \in cache[p] \/ (t = s /\ s.revision > 0)
    <3>1. CASE UNCHANGED cache
      BY <3>1
    <3>2. CASE s.revision > 0 /\ cache' = [cache EXCEPT ![Where[c]] = @ \cup {s}]
      <4>1. cache \in [Processes -> SUBSET Snapshots]
        BY DEF TypeOK
      <4>2. \A p \in Processes : cache'[p] = IF p = Where[c]
                                             THEN cache[p] \cup {s}
                                             ELSE cache[p]
        BY <3>2, <4>1
      <4>3. QED
        BY <3>2, <4>2
    <3>3. QED
      BY <1>1, <3>1, <3>2
  <2>3. \A p \in Processes : \A t \in cache'[p] :
          t \in Snapshots /\ t.revision > 0 /\ Genuine(t)
    BY <1>1, <2>2 DEF AllGenuine, TypeOK
  <2>4. QED
    BY <2>1, <2>3, Unmoved DEF AllGenuine
<1>5. FreshRead' /\ FreshResponse'
  BY <1>1, <1>3, Unmoved, Types DEF FreshRead, FreshResponse, TypeOK
<1>6. QED
  BY <1>a, <1>2, <1>4, <1>5, Unmoved

LEMMA EditStep ==
  ASSUME IInv, NEW c \in Callers, Edit(c)
  PROVE  IInv'
<1> USE DEF IInv, Edit, Goto
<1>1. TypeOK'
  <2>1. attempt' \in [Callers -> 0..MaxAttempts]
    <3>1. /\ attempt \in [Callers -> 0..MaxAttempts] /\ 1 \in 0..MaxAttempts
          /\ attempt' = [attempt EXCEPT ![c] = 1]
      BY BoundAssumption DEF TypeOK
    <3>2. QED
      BY <3>1
  <2>a. content' \in [Callers -> Policies \cup {Default}]
    <3>1. content \in [Callers -> Policies \cup {Default}]
      BY DEF TypeOK
    <3>2. \/ UNCHANGED content
          \/ \E p \in Policies : content' = [content EXCEPT ![c] = p]
      OBVIOUS
    <3>3. QED
      BY <3>1, <3>2
  <2>2. /\ pc' \in [Callers -> Steps]
        /\ op' \in [Callers -> {"read", "save", "reset"}]
    BY DEF TypeOK, Steps
  <2>3. QED
    BY <2>1, <2>a, <2>2 DEF TypeOK
<1>a. WritersChose'
  BY DEF WritersChose, TypeOK
<1>2. AllGenuine'
  BY Unmoved, Types DEF AllGenuine, TypeOK
<1>3. FreshRead' /\ FreshResponse'
  BY Unmoved, Types DEF FreshRead, FreshResponse, TypeOK
<1>4. QED
  BY <1>a, <1>1, <1>2, <1>3, Unmoved

LEMMA ReplyLostStep ==
  ASSUME IInv, NEW c \in Callers, ReplyLost(c)
  PROVE  IInv'
<1> USE DEF IInv, ReplyLost, Goto
<1>1. TypeOK'
  <2>1. attempt' \in [Callers -> 0..MaxAttempts]
    <3>1. /\ attempt \in [Callers -> 0..MaxAttempts]
          /\ attempt[c] \in 0..MaxAttempts
      BY DEF TypeOK
    <3>2. CASE MayRetry(c)
      <4>1. attempt[c] + 1 \in 0..MaxAttempts
        BY <3>1, <3>2, BoundAssumption DEF MayRetry
      <4>2. attempt' = [attempt EXCEPT ![c] = attempt[c] + 1]
        BY <3>2
      <4>3. QED
        BY <3>1, <4>1, <4>2
    <3>3. QED
      BY <3>1, <3>2
  <2>a. lost' \in 0..MaxLost
    BY BoundAssumption DEF TypeOK
  <2>2. pc' \in [Callers -> Steps]
    BY DEF TypeOK, Steps
  <2>3. QED
    BY <2>1, <2>a, <2>2 DEF TypeOK
<1>a. WritersChose'
  BY DEF WritersChose, TypeOK
<1>2. AllGenuine'
  BY Unmoved, Types DEF AllGenuine, TypeOK
<1>3. FreshRead' /\ FreshResponse'
  BY Unmoved, Types DEF FreshRead, FreshResponse, TypeOK
<1>4. QED
  BY <1>a, <1>1, <1>2, <1>3, Unmoved

LEMMA AnswerStep ==
  ASSUME IInv, NEW c \in Callers, Answer(c)
  PROVE  IInv'
<1> USE DEF IInv, Answer, request, Goto
<1>1. TypeOK'
  BY DEF TypeOK, Steps
<1>a. WritersChose'
  BY DEF WritersChose, TypeOK
<1>2. AllGenuine'
  BY Unmoved, Types, WhereAssumption DEF AllGenuine, TypeOK
<1>3. FreshRead' /\ FreshResponse'
  BY Unmoved, Types DEF FreshRead, FreshResponse, TypeOK
<1>4. QED
  BY <1>a, <1>1, <1>2, <1>3, Unmoved

\* A write that matched: the row moves on by one revision, with its record.
LEMMA WriteFacts ==
  ASSUME IInv, NEW c \in Callers, Write(c), Matches(c)
  PROVE  /\ row' \in [revision : Nat, active : BOOLEAN,
                      content : Policies \cup {Default}]
         /\ row'.revision = row.revision + 1
         /\ row'.active = (op[c] = "save")
         /\ Entry(c, row') \in Entries
         /\ Entry(c, row').op = op[c]
         /\ Entry(c, row').revision = row'.revision
         /\ op[c] = "save" => Entry(c, row').content = row'.content
         /\ op[c] = "reset" => row.active /\ row'.content = row.content
         /\ op[c] \in {"save", "reset"}
         /\ audit' = Append(audit, Entry(c, row'))
         /\ began' = [began EXCEPT ![c] = row'.revision]
<1> USE DEF IInv, Write
<1>1. /\ op[c] \in {"save", "reset"}
      /\ content[c] \in Policies \cup {Default}
      /\ row \in [revision : Nat, active : BOOLEAN,
                  content : Policies \cup {Default}]
  BY DEF WritersChose, TypeOK
<1>2. row' = Written(c) /\ audit' = Append(audit, Entry(c, row'))
      /\ began' = [began EXCEPT ![c] = row'.revision]
  OBVIOUS
<1>3. /\ row' \in [revision : Nat, active : BOOLEAN,
                   content : Policies \cup {Default}]
      /\ row'.revision = row.revision + 1
      /\ row'.active = (op[c] = "save")
      /\ op[c] = "reset" => row'.content = row.content
  <2>1. /\ row.revision \in Nat
        /\ row.content \in Policies \cup {Default}
    BY <1>1
  <2>2. row' = [revision |-> row.revision + 1, active |-> op[c] = "save",
                content |-> IF op[c] = "save" THEN content[c]
                                              ELSE row.content]
    BY <1>2 DEF Written
  <2>3. (op[c] = "save") \in BOOLEAN
    OBVIOUS
  <2>4. (IF op[c] = "save" THEN content[c] ELSE row.content)
          \in Policies \cup {Default}
    BY <1>1, <2>1
  <2>5. QED
    BY <2>1, <2>2, <2>3, <2>4
<1>4. op[c] = "reset" => row.active
  BY DEF Matches, ResetMatches
<1>5. CASE op[c] = "save"
  <2>1. Entry(c, row') = SaveEntry(c, row')
    BY <1>5 DEF Entry
  <2>2. SaveEntry(c, row') \in Entries
    BY <1>3 DEF SaveEntry, Entries
  <2>3. QED
    BY <1>2, <1>3, <1>4, <1>5, <2>1, <2>2 DEF SaveEntry
<1>6. CASE op[c] = "reset"
  <2>1. Entry(c, row') = ResetEntry(c, row')
    BY <1>6 DEF Entry
  <2>2. ResetEntry(c, row') \in Entries
    BY <1>3 DEF ResetEntry, Entries
  <2>3. QED
    BY <1>2, <1>3, <1>4, <1>6, <2>1, <2>2 DEF ResetEntry
<1>7. QED
  BY <1>1, <1>5, <1>6

LEMMA WriteStep ==
  ASSUME IInv, NEW c \in Callers, Write(c)
  PROVE  IInv'
<1> USE DEF IInv
<1>1. /\ changed' \in [Callers -> BOOLEAN] /\ pc' \in [Callers -> Steps]
      /\ WritersChose'
      /\ \A d \in Callers : pc'[d] # pc[d] => d = c /\ pc'[d] = "written"
      /\ UNCHANGED <<cache, op, content, read, response, attempt, lost>>
  BY DEF Write, Goto, TypeOK, Steps, WritersChose, Matches, SaveMatches,
         ResetMatches
<1>2. CASE ~Matches(c)
  <2>1. UNCHANGED <<row, audit, began>>
    BY <1>2 DEF Write
  <2>2. TypeOK'
    BY <1>1, <2>1 DEF TypeOK
  <2>3. AllGenuine' /\ FreshRead' /\ FreshResponse'
    BY <1>1, <2>1, Unmoved, Types DEF AllGenuine, FreshRead, FreshResponse,
                                      TypeOK
  <2>4. QED
    BY <1>1, <2>1, <2>2, <2>3, Unmoved
<1>3. CASE Matches(c)
  <2>1. /\ audit \in Seq(Entries) /\ Len(audit) = row.revision
        /\ row.revision \in Nat
    BY DEF TypeOK, AuditComplete, Entries
  <2>2. /\ audit' \in Seq(Entries) /\ Len(audit') = row'.revision
        /\ row'.revision = row.revision + 1
        /\ DOMAIN audit' = 1..row'.revision
        /\ \A i \in 1..Len(audit) : audit'[i] = audit[i]
        /\ audit'[row'.revision] = Entry(c, row')
    <3> DEFINE e == Entry(c, row')
    <3>1. e \in Entries /\ audit' = Append(audit, e)
          /\ row'.revision = row.revision + 1
      BY <1>3, WriteFacts
    <3> HIDE DEF e
    <3>2. QED
      BY <2>1, <3>1, AppendFacts DEF e
  <2>3. TypeOK'
    BY <1>1, <1>3, <2>2, WriteFacts DEF TypeOK, Entries
  <2>4. AuditComplete'
    <3> DEFINE n == row.revision
    <3>1. n \in Nat /\ Len(audit) = n /\ Len(audit') = n + 1
          /\ row'.revision = n + 1 /\ DOMAIN audit = 1..n
          /\ DOMAIN audit' = 1..(n + 1)
      BY <2>1, <2>2
    <3>2. /\ \A i \in 1..n : audit'[i] = audit[i]
          /\ audit'[n + 1].op = op[c] /\ audit'[n + 1].revision = n + 1
          /\ op[c] = "save" => audit'[n + 1].content = row'.content
          /\ op[c] = "reset" => row.active /\ row'.content = row.content
          /\ op[c] \in {"save", "reset"} /\ row'.active = (op[c] = "save")
      BY <1>3, <2>2, <3>1, WriteFacts
    <3>3. ASSUME row.active
          PROVE  /\ n > 0 /\ audit[n].op = "save"
                 /\ audit[n].content = row.content
      <4>1. n # 0
        BY <3>3 DEF AuditComplete
      <4>2. n > 0
        BY <3>1, <4>1
      <4>3. audit # <<>> /\ Len(audit) = n
        BY <3>1, <4>2
      <4>4. QED
        BY ONLY AuditComplete, row.active, <4>2, <4>3 DEF AuditComplete
    <3>4. \A i \in 1..n :
            /\ audit[i].revision = i
            /\ audit[i].op = "reset" => i > 1 /\ audit[i - 1].op = "save"
      BY <3>1 DEF AuditComplete
    <3> HIDE DEF n
    <3>5. ASSUME NEW i \in 1..(n + 1)
          PROVE  /\ audit'[i].revision = i
                 /\ audit'[i].op = "reset" => i > 1 /\ audit'[i - 1].op = "save"
      <4>1. CASE i \in 1..n
        <5>1. i > 1 => i - 1 \in 1..n
          BY <3>1, <4>1
        <5>2. QED
          BY <3>2, <3>4, <4>1, <5>1
      <4>2. CASE i = n + 1
        <5>1. op[c] = "reset" => n > 0 /\ audit[n].op = "save"
          BY <3>2, <3>3
        <5>2. i - 1 = n /\ (n > 0 => i > 1 /\ n \in 1..n)
          BY <3>1, <4>2
        <5>3. QED
          BY <3>2, <4>2, <5>1, <5>2
      <4>3. QED
        BY <3>1, <4>1, <4>2
    <3> DEFINE saved == IF row'.active THEN n + 1 ELSE n
    <3>6. audit'[saved].op = "save" /\ audit'[saved].content = row'.content
      <4>1. CASE op[c] = "save"
        BY <3>2, <4>1
      <4>2. CASE op[c] = "reset"
        <5>1. saved = n /\ row.active /\ row'.content = row.content
          BY <3>2, <4>2
        <5>2. n \in 1..n
          BY <3>1, <3>3, <5>1
        <5>3. audit'[n] = audit[n]
          BY <3>2, <5>2
        <5>4. QED
          BY <3>3, <5>1, <5>3
      <4>3. QED
        BY <3>2, <4>1, <4>2
    <3>7. saved = IF row'.active THEN Len(audit') ELSE Len(audit') - 1
      BY <3>1
    <3>8. QED
      BY <3>1, <3>2, <3>5, <3>6, <3>7 DEF AuditComplete
  <2>5. AllGenuine'
    BY <1>1, <2>1, <2>2, StaysGenuine, Types DEF AllGenuine, TypeOK
  <2>6. \A d \in Callers : pc'[d] # "written" =>
          d # c /\ began'[d] = began[d] /\ pc'[d] = pc[d]
    BY <1>1, <1>3, WriteFacts DEF TypeOK, Write, Goto
  <2>7. \A d \in Callers : began'[d] <= row'.revision
    <3>1. \A d \in Callers : began[d] \in Nat /\ began[d] <= row.revision
      BY DEF FreshRead, TypeOK
    <3>2. \A d \in Callers : began'[d] = IF d = c THEN row'.revision
                                                  ELSE began[d]
      BY <1>3, WriteFacts DEF TypeOK
    <3>3. QED
      BY <2>1, <2>2, <3>1, <3>2
  <2>8. ASSUME NEW d \in Callers, NEW s \in Snapshots, Fresh(d, s),
               pc'[d] # "written"
        PROVE  Fresh(d, s)'
    <3>1. began'[d] = began[d]
      BY <2>6, <2>8
    <3>2. row'.revision \in Nat /\ row'.revision >= row.revision
      BY <2>1, <2>2
    <3>3. QED
      BY <2>2, <2>8, <3>1, <3>2, StaysFresh
  <2>9. FreshRead' /\ FreshResponse'
    BY <1>1, <2>6, <2>7, <2>8, Types DEF FreshRead, FreshResponse
  <2>10. QED
    BY <1>1, <2>3, <2>4, <2>5, <2>9
<1>4. QED
  BY <1>2, <1>3

-----------------------------------------------------------------------------
(* The theorems                                                            *)

\* The inductive invariant holds of every behaviour of the policy store.
THEOREM Invariance == Spec => []IInv
<1>1. IInv /\ [Next]_vars => IInv'
  <2> SUFFICES ASSUME IInv, [Next]_vars PROVE IInv'
    OBVIOUS
  <2>1. CASE UNCHANGED vars
    <3>1. TypeOK' /\ WritersChose'
      BY <2>1 DEF vars, IInv, TypeOK, WritersChose
    <3>2. AllGenuine' /\ FreshRead' /\ FreshResponse'
      BY <2>1, Unmoved, Types
      DEF vars, IInv, AllGenuine, FreshRead, FreshResponse, TypeOK
    <3>3. QED
      BY <2>1, <3>1, <3>2, Unmoved DEF IInv, vars
  <2>2. QED
    BY <2>1, GetStep, GetActiveStep, ResolveStep, EditStep, WriteStep,
       ReplyLostStep, AnswerStep DEF Next
<1>2. QED
  BY <1>1, InitIInv, PTL DEF Spec

\* Row and audit table stay in step, one record for each revision, and what a
\* reset withdrew is told by the record before its own.
THEOREM AuditKept == Spec => []AuditComplete
<1>1. IInv => AuditComplete
  BY DEF IInv
<1>2. QED
  BY <1>1, Invariance, PTL

\* resolve() answers with a policy that was in force during the request, also
\* from its cache and also when another process wrote.
THEOREM Freshness == Spec => []FreshResponse
<1>1. IInv => FreshResponse
  BY DEF IInv
<1>2. QED
  BY <1>1, Invariance, PTL

\* save() and reset() replace exactly the policy their author was shown.
THEOREM LostUpdateFree == Spec => NoLostUpdate
<1> DEFINE A == row' # row => \E c \in Callers : /\ pc[c] = "writing"
                                                 /\ pc'[c] = "written"
                                                 /\ Effective(row) = response[c]
<1>1. IInv /\ [Next]_vars => [A]_vars
  <2> SUFFICES ASSUME IInv, Next, row' # row PROVE A
    BY DEF vars
  <2>1. PICK c \in Callers : Write(c)
    BY DEF Next, Get, GetActive, Resolve, Edit, ReplyLost, Answer
  <2>2. pc[c] = "writing" /\ pc'[c] = "written" /\ Matches(c)
    BY <2>1 DEF Write, Goto, IInv, TypeOK
  <2>3. /\ Effective(row) \in Snapshots /\ response[c] \in Snapshots
        /\ row.revision \in Nat /\ Len(audit) = row.revision
        /\ row.active \in BOOLEAN
    BY Types, EffectiveFacts DEF IInv, AuditComplete
  <2>4. Genuine(response[c]) /\ Genuine(Effective(row))
    BY EffectiveGenuine DEF IInv, AllGenuine
  <2>5. response[c].revision = Effective(row).revision
    <3>1. row.active => row.revision > 0
      BY <2>3 DEF IInv, AuditComplete
    <3>2. ~row.active /\ row.revision > 0 => audit[row.revision].op # "save"
      BY <2>3 DEF IInv, AuditComplete, TypeOK
    <3>3. response[c].revision <= row.revision
      BY <2>3, <2>4 DEF Genuine, Snapshots
    <3>4. QED
      BY <2>2, <2>3, <2>4, <3>1, <3>2, <3>3, EffectiveFacts
      DEF Matches, SaveMatches, ResetMatches, Expected, Genuine, IInv,
          Snapshots
  <2>6. response[c] = Effective(row)
    BY <2>3, <2>4, <2>5 DEF Genuine, Snapshots
  <2>7. QED
    BY <2>2, <2>6
<1>2. QED
  BY <1>1, Invariance, PTL DEF Spec, NoLostUpdate

-----------------------------------------------------------------------------
(* MediaModeration: the invariant                                          *)

MediaSteps == {"idle", "ingest", "ocr", "image", "decide", "save", "done"}
Answers == {"none", "refused", "unavailable", "error", "lost", "ok"}
Statuses == {"analyzed", "duplicate", "rejected", "unavailable"}
Tables == Stages \cup {"attachment"}

\* The types.
AnalysisType == [status : Statuses, content : Contents \cup {NoContent},
                 ocr : Nat, image : Nat]
RequestType == [pc : MediaSteps, answer : Answers, policy : MediaPolicies,
                count : Nat, analyses : Seq(AnalysisType),
                draft : AnalysisType, total : Nat,
                todo : SUBSET (Nat \X Tables), event : Nat]
JobType == Requests \X (Nat \ {0}) \X Stages
Clients == Requests \cup {Nobody}
SlotShape ==
  /\ line \in [Stages -> Seq(Requests)]
  /\ inside \in [Stages -> SUBSET Requests]
  /\ backlog \in Seq(JobType) /\ threads \in SUBSET JobType
  /\ faults \in Nat
StoreShape ==
  /\ event \in [Messages -> Nat] /\ events \in Nat
  /\ attachment \in [Messages -> [Places -> Clients]]
  /\ result \in [Messages -> [Places -> [Stages -> Clients]]]
MediaShape == /\ config \in Configs /\ req \in [Requests -> RequestType]
              /\ SlotShape /\ StoreShape

\* What a request knows, v, under the configuration c.
\* It works on an attachment of its own, and decides when it is done with all.
Progress(c, v) ==
  /\ v.count <= MaxAttachments /\ Len(v.analyses) <= v.count
  /\ v.pc \in {"ingest", "ocr", "image"} => Len(v.analyses) < v.count
  /\ c.enabled /\ (v.pc \in {"decide", "save"} \/ v.answer = "ok") =>
       Len(v.analyses) = v.count
  /\ v.pc = "idle" => Len(v.analyses) = 0
  /\ v.answer = "ok" => v.pc = "done" /\ v.todo = {}

\* The image under way is new to it, and has no results but its own.
Drafted(v) ==
  v.pc \in {"ocr", "image"} =>
    /\ v.draft.status = "analyzed" /\ v.draft.content \in Contents
    /\ \A k \in 1 .. Len(v.analyses) : v.analyses[k].content # v.draft.content
    /\ v.draft.ocr \in {NoResult, Len(v.analyses) + 1}
    /\ v.draft.image = NoResult

\* An image has the results of its first occurrence.
BelongsTo(v, k, f) ==
  /\ v.analyses[f].content = v.analyses[k].content
  /\ \A i \in 1 .. (f - 1) : v.analyses[i].content # v.analyses[k].content
  /\ v.analyses[k].ocr \in {NoResult, f} /\ v.analyses[k].image \in {NoResult, f}
  /\ v.analyses[k].ocr = v.analyses[f].ocr
  /\ v.analyses[k].image = v.analyses[f].image
Belonging(v) ==
  \A k \in 1 .. Len(v.analyses) : v.analyses[k].content # NoContent =>
    \E f \in 1 .. k : BelongsTo(v, k, f)

NeedsImage(c, v) == /\ v.policy.image.required /\ v.policy.image.enabled
                    /\ c.provider.image # "off"
Seen(c, v) ==
  NeedsImage(c, v) =>
    \A k \in 1 .. Len(v.analyses) :
      v.analyses[k].content # NoContent => v.analyses[k].image # NoResult

\* What is kept fits into what was counted, and that was admitted.
Budgeted(v) ==
  /\ Bytes(v.analyses) <= MaxTotal
  /\ v.pc = "ingest" => Bytes(v.analyses) <= v.total
  /\ v.pc \in {"ocr", "image"} =>
       /\ Bytes(v.analyses) + Size[v.draft.content] <= v.total
       /\ v.total <= MaxTotal

Recorded(v) == v.pc = "save" \/ v.answer = "ok"
Whole(c, v) ==
  Recorded(v) /\ c.required =>
    \A k \in 1 .. Len(v.analyses) :
      v.analyses[k].status \in {"analyzed", "duplicate"}

Sound(c, v) == /\ Progress(c, v) /\ Drafted(v) /\ Belonging(v) /\ Seen(c, v)
               /\ Budgeted(v) /\ Whole(c, v)

\* A request holds or awaits a permit of the stage it is at.
Queued ==
  \A s \in Stages :
    /\ \A r \in inside[s] : req[r].pc = s
    /\ \A i \in 1 .. Len(line[s]) :
         req[line[s][i]].pc = s /\ line[s][i] \notin inside[s]
    /\ \A i, j \in 1 .. Len(line[s]) : line[s][i] = line[s][j] => i = j

\* A job nobody awaits is one its request will not start again.
Past(v, j) == \/ v.pc = "done"
              \/ j[2] < Len(v.analyses) + 1
              \/ j[2] = Len(v.analyses) + 1 /\ j[3] = "ocr" /\ v.pc = "image"
Pooled ==
  /\ IsFiniteSet(threads)
  /\ \A i, j \in 1 .. Len(backlog) : backlog[i] = backlog[j] => i = j
  /\ \A i \in 1 .. Len(backlog) : backlog[i] \notin threads
  /\ \A j \in threads : Awaited(j) \/ Past(req[j[1]], j)

\* Events are numbered; what a request is to store is stored or still to come,
\* as long as its event is there.
EventsKnown ==
  /\ \A m \in Messages : event[m] <= events
  /\ \A r \in Requests : Recorded(req[r]) => req[r].event \in 1 .. events
IsStored(m, p) == IF p[2] = "attachment" THEN attachment[m][p[1]] # Nobody
                  ELSE result[m][p[1]][p[2]] # Nobody
StoredSoFar ==
  \A r \in Requests : Recorded(req[r]) =>
    /\ req[r].todo \subseteq Statements(r)
    /\ Referenced(r) =>
         \A p \in Statements(r) \ req[r].todo : IsStored(About[r], p)

MediaIInv ==
  /\ MediaShape /\ \A r \in Requests : Sound(config, req[r])
  /\ Queued /\ PermitsAccounted /\ Pooled
  /\ EventsKnown /\ StoredSoFar /\ NoOrphanResults
-----------------------------------------------------------------------------
(* Least members and sums                                                  *)

\* A non-empty finite set of numbers has a least member: of the sets of what
\* is not greater than a member, the least by inclusion is that of it.
LEMMA LeastMember ==
  ASSUME NEW S \in SUBSET Nat, IsFiniteSet(S), S # {}
  PROVE  \E k \in S : \A i \in S : k <= i
<1> DEFINE Below(k) == {i \in S : i <= k}
           T == {Below(k) : k \in S}
<1>1. T \subseteq FiniteSubsetsOf(S) /\ T # {}
  <2>1. T \subseteq SUBSET S /\ T # {}
    OBVIOUS
  <2>2. FiniteSubsetsOf(S) = SUBSET S
    BY FS_FiniteSubsetsOfFinite
  <2> QED BY <2>1, <2>2
<1>2. PICK t \in T : \A u \in T : <<u, t>> \notin StrictSubsetOrdering(S)
  <2> HIDE DEF T
  <2> QED BY ONLY <1>1, FS_StrictSubsetOrderingWellFounded, WFMin
<1>3. PICK k \in S : t = Below(k)
  BY <1>2
<1>4. ASSUME NEW j \in S, j < k
      PROVE  FALSE
  <2>0. \A i \in S : i <= j => i <= k
    BY <1>4
  <2>1. Below(j) \in T /\ Below(j) \subseteq Below(k)
    BY <2>0
  <2>2. k \in Below(k) /\ k \notin Below(j)
    BY <1>4
  <2>3. <<Below(j), t>> \in StrictSubsetOrdering(S)
    BY <2>1, <2>2, <1>3 DEF StrictSubsetOrdering
  <2> QED BY <1>2, <2>1, <2>3
<1> QED BY <1>4

\* ... which Min chooses.
LEMMA MinIs ==
  ASSUME NEW S \in SUBSET Nat, NEW k \in S, \A i \in S : k <= i
  PROVE  Min(S) = k
<1>1. ASSUME NEW i \in S, \A j \in S : i <= j
      PROVE  i = k
  <2>1. i <= k /\ k <= i /\ i \in Nat /\ k \in Nat
    BY <1>1
  <2> QED BY <2>1
<1> QED BY <1>1 DEF Min

LEMMA WeightType ==
  ASSUME NEW a \in AnalysisType
  PROVE  Weight(a) \in Nat
BY ContentsAssumption DEF Weight, AnalysisType

\* The running totals of the bytes of a sequence.
Totals(kept, f) == /\ f \in [0 .. Len(kept) -> Nat] /\ f[0] = 0
                 /\ \A k \in 1 .. Len(kept) : f[k] = f[k-1] + Weight(kept[k])

LEMMA BytesIs ==
  ASSUME NEW kept \in Seq(AnalysisType), NEW f, Totals(kept, f)
  PROVE Bytes(kept) = f[Len(kept)]
<1> DEFINE n == Len(kept)
           g == [k \in 0 .. n |-> IF k = 0 THEN 0 ELSE f[k-1] + Weight(kept[k])]
           T(h) == h = [k \in 0 .. n |->
                          IF k = 0 THEN 0 ELSE h[k-1] + Weight(kept[k])]
           u == CHOOSE h : T(h)
<1>0. n \in Nat
  OBVIOUS
<1>1. T(f)
  <2>1. \A k \in 0 .. n : f[k] = g[k]
    <3> SUFFICES ASSUME NEW k \in 0 .. n PROVE f[k] = g[k]
      OBVIOUS
    <3>1. k = 0 \/ k \in 1 .. n
      BY <1>0
    <3> QED BY <3>1 DEF Totals
  <2>2. f \in [0 .. n -> Nat]
    BY DEF Totals
  <2>3. f = g
    BY <2>1, <2>2
  <2> QED BY <2>3
<1>2. T(u)
  BY <1>1
<1>3. Bytes(kept) = u[n]
  BY DEF Bytes
<1>4. ASSUME u[n] # f[n] PROVE FALSE
  <2> DEFINE S == {k \in 0 .. n : u[k] # f[k]}
  <2> HIDE DEF u, n
  <2>0. IsFiniteSet(0 .. n)
    BY <1>0, FS_Interval
  <2>1. S \in SUBSET Nat /\ S # {} /\ IsFiniteSet(S)
    BY <1>0, <1>4, <2>0, FS_Subset
  <2>2. PICK k \in S : \A i \in S : k <= i
    BY <2>1, LeastMember
  <2>3. k # 0
    BY <1>2, <2>2, <1>0 DEF Totals
  <2>4. k - 1 \in 0 .. n /\ ~ (k <= k - 1) /\ k \in 1 .. n
    BY <1>0, <2>2, <2>3
  <2>5. u[k-1] = f[k-1]
    BY <2>2, <2>4
  <2>6. u[k] = u[k-1] + Weight(kept[k])
    BY <1>2, <2>4
  <2>7. f[k] = f[k-1] + Weight(kept[k])
    BY <2>4 DEF Totals, n
  <2> QED BY <2>2, <2>5, <2>6, <2>7
<1> QED BY <1>3, <1>4

LEMMA TotalsExist ==
  ASSUME NEW kept \in Seq(AnalysisType) PROVE \E f : Totals(kept, f)
<1> DEFINE n == Len(kept)
           P(k) == \E f : Totals(SubSeq(kept, 1, k), f)
           S == {k \in 0 .. n : ~P(k)}
<1>1. n \in Nat
  OBVIOUS
<1>2. P(0)
  <2>1. Totals(SubSeq(kept, 1, 0), [k \in {0} |-> 0])
    BY DEF Totals
  <2> QED BY <2>1
<1>3. ASSUME NEW k \in 0 .. n, k < n, P(k) PROVE P(k+1)
  <2>1. PICK f : Totals(SubSeq(kept, 1, k), f)
    BY <1>3
  <2> DEFINE g == [i \in 0 .. (k+1) |->
                     IF i = k+1 THEN f[k] + Weight(kept[k+1]) ELSE f[i]]
  <2>2. /\ Len(SubSeq(kept, 1, k)) = k /\ Len(SubSeq(kept, 1, k+1)) = k+1
        /\ \A i \in 1 .. k : SubSeq(kept, 1, k)[i] = kept[i]
        /\ \A i \in 1 .. k+1 : SubSeq(kept, 1, k+1)[i] = kept[i]
    BY <1>3
  <2>3. Weight(kept[k+1]) \in Nat
    BY <1>3, WeightType
  <2>4. /\ f \in [0 .. k -> Nat] /\ f[0] = 0
        /\ \A i \in 1 .. k : f[i] = f[i-1] + Weight(kept[i])
    BY <2>1, <2>2 DEF Totals
  <2>5. g \in [0 .. (k+1) -> Nat] /\ g[0] = 0
    BY <2>3, <2>4
  <2>6. \A i \in 1 .. k+1 : g[i] = g[i-1] + Weight(kept[i])
    BY <2>4
  <2>7. Totals(SubSeq(kept, 1, k+1), g)
    BY <2>2, <2>5, <2>6 DEF Totals
  <2> QED BY <2>7
<1>4. ASSUME S # {} PROVE FALSE
  <2> HIDE DEF P, n
  <2>0. IsFiniteSet(0 .. n)
    BY <1>1, FS_Interval
  <2>1. S \in SUBSET Nat /\ IsFiniteSet(S)
    BY <1>1, <2>0, FS_Subset
  <2>2. PICK k \in S : \A i \in S : k <= i
    BY <2>1, <1>4, LeastMember
  <2>3. k # 0
    BY <1>2, <2>2
  <2>4. k - 1 \in 0 .. n /\ k - 1 < n /\ ~ (k <= k - 1) /\ k - 1 + 1 = k
    BY <1>1, <2>2, <2>3
  <2>5. P(k-1)
    BY <2>2, <2>4
  <2>6. P(k-1+1)
    BY <2>5, <2>4, <1>3
  <2> QED BY <2>4, <2>6, <2>2
<1>5. P(n)
  BY <1>1, <1>4
<1>6. SubSeq(kept, 1, n) = kept
  OBVIOUS
<1> QED BY <1>5, <1>6

LEMMA BytesAppend ==
  ASSUME NEW kept \in Seq(AnalysisType), NEW a \in AnalysisType
  PROVE  /\ Bytes(kept) \in Nat
         /\ Bytes(Append(kept, a)) = Bytes(kept) + Weight(a)
<1> DEFINE n == Len(kept)
           bs == Append(kept, a)
<1>0. bs \in Seq(AnalysisType)
  OBVIOUS
<1> HIDE DEF bs
<1>1. PICK f : Totals(kept, f)
  BY TotalsExist
<1>2. Bytes(kept) = f[n] /\ f[n] \in Nat
  BY <1>1, BytesIs DEF Totals
<1>3. PICK g : Totals(bs, g)
  BY <1>0, TotalsExist
<1>4. Bytes(bs) = g[n+1] /\ g[n+1] = g[n] + Weight(a)
  <2>1. Bytes(bs) = g[Len(bs)]
    BY <1>0, <1>3, BytesIs
  <2>2. Len(bs) = n + 1 /\ bs[n+1] = a /\ n + 1 \in 1 .. Len(bs)
    BY DEF bs
  <2>3. g[n+1] = g[n] + Weight(a)
    BY <1>3, <2>2 DEF Totals
  <2> QED BY <2>1, <2>2, <2>3
<1>5. g[n] = f[n]
  <2> DEFINE h == [k \in 0 .. n |-> g[k]]
  <2>0. /\ Len(bs) = n + 1 /\ \A k \in 1 .. n : bs[k] = kept[k]
        /\ n \in Nat
    BY DEF bs
  <2>1. h \in [0 .. n -> Nat] /\ h[0] = 0 /\ h[n] = g[n]
    BY <1>3, <2>0 DEF Totals
  <2>2. \A k \in 1 .. n : h[k] = h[k-1] + Weight(kept[k])
    BY <1>3, <2>0 DEF Totals
  <2>3. Totals(kept, h)
    BY <2>1, <2>2 DEF Totals
  <2> QED BY <1>2, <2>1, <2>3, BytesIs
<1> QED BY <1>2, <1>4, <1>5 DEF bs

LEMMA BytesEmpty == Bytes(<<>>) = 0
<1>1. Totals(<<>>, [k \in {0} |-> 0])
  BY DEF Totals
<1> QED BY <1>1, BytesIs

-----------------------------------------------------------------------------
(* What a request knows, from step to step                                 *)

LEMMA BlankType ==
  ASSUME NEW s \in MediaSteps, NEW a \in Answers
  PROVE  LET v == Blank(s, a)
         IN  /\ v \in RequestType /\ v.pc = s /\ v.answer = a
             /\ v.analyses = <<>> /\ v.count = 0 /\ v.total = 0
<1>1. (CHOOSE p \in MediaPolicies : TRUE) \in MediaPolicies
  BY ConfigAssumption
<1>2. Failed("analyzed") \in AnalysisType
  BY DEF Failed, Result, AnalysisType, Statuses, NoContent, NoResult
<1>3. <<>> \in Seq(AnalysisType) /\ Len(<<>>) = 0
  OBVIOUS
<1> QED BY <1>1, <1>2, <1>3 DEF Blank, RequestType, NoEvent

LEMMA BlankSound ==
  ASSUME NEW c \in Configs, NEW s \in {"idle", "done"},
         NEW a \in Answers \ {"ok"}
  PROVE  /\ Blank(s, a) \in RequestType /\ Sound(c, Blank(s, a))
         /\ ~Recorded(Blank(s, a)) /\ Blank(s, a).pc = s
<1> DEFINE v == Blank(s, a)
<1>3. Len(<<>>) = 0
  OBVIOUS
<1>4. s \in MediaSteps /\ a \in Answers
  BY DEF MediaSteps
<1>5. /\ v \in RequestType /\ v.pc = s /\ v.answer = a
      /\ v.analyses = <<>> /\ v.count = 0
  BY <1>4, BlankType
<1>6. Progress(c, v) /\ Drafted(v) /\ Belonging(v) /\ Seen(c, v) /\ Whole(c, v)
  BY <1>3, <1>5, LimitAssumption DEF Progress, Drafted, Belonging, Seen, Whole,
                                     Recorded
<1>7. Budgeted(v)
  BY <1>5, BytesEmpty, LimitAssumption DEF Budgeted
<1> QED BY <1>5, <1>6, <1>7 DEF Sound, Recorded

\* The request v with one more analysis.
Kept(v, a) ==
  LET last == Len(v.analyses) + 1 = v.count IN
  [v EXCEPT !.analyses = Append(@, a), !.draft = Failed("analyzed"),
            !.total = IF last THEN 0 ELSE @,
            !.pc = IF last THEN "decide" ELSE "ingest"]

LEMMA KeptFacts ==
  ASSUME NEW v \in RequestType, NEW a \in AnalysisType
  PROVE  LET w == Kept(v, a)
             last == Len(v.analyses) + 1 = v.count
         IN  /\ w \in RequestType /\ w.analyses = Append(v.analyses, a)
             /\ w.count = v.count /\ w.answer = v.answer /\ w.policy = v.policy
             /\ w.pc = IF last THEN "decide" ELSE "ingest"
             /\ ~last => w.total = v.total
<1>1. Failed("analyzed") \in AnalysisType
  BY DEF Failed, Result, AnalysisType, Statuses, NoContent, NoResult
<1>2. Append(v.analyses, a) \in Seq(AnalysisType)
  BY DEF RequestType
<1> QED BY <1>1, <1>2 DEF Kept, RequestType, MediaSteps

\* An analysis can be added when its image belongs to its first occurrence, was
\* seen where that is needed, and fits into what was counted.
LEMMA KeptSound ==
  ASSUME NEW c \in Configs, NEW v \in RequestType, NEW a \in AnalysisType,
         v.count <= MaxAttachments, Len(v.analyses) < v.count,
         v.answer # "ok", Belonging(v), Seen(c, v),
         a.content # NoContent =>
           /\ \E f \in 1 .. (Len(v.analyses) + 1) :
                BelongsTo(Kept(v, a), Len(v.analyses) + 1, f)
           /\ NeedsImage(c, v) => a.image # NoResult,
         Bytes(v.analyses) + Weight(a) <= MaxTotal,
         Bytes(v.analyses) + Weight(a) <= v.total
  PROVE  Sound(c, Kept(v, a))
<1> DEFINE w == Kept(v, a)
           n == Len(v.analyses)
<1>1. /\ w \in RequestType /\ w.analyses = Append(v.analyses, a)
      /\ w.count = v.count /\ w.answer = v.answer /\ w.policy = v.policy
      /\ w.pc = IF n + 1 = v.count THEN "decide" ELSE "ingest"
      /\ n + 1 # v.count => w.total = v.total
  BY KeptFacts
<1> HIDE DEF w
<1>2. /\ n \in Nat /\ Len(w.analyses) = n + 1 /\ w.analyses[n + 1] = a
      /\ \A k \in 1 .. n : w.analyses[k] = v.analyses[k]
      /\ v.count \in Nat /\ v.analyses \in Seq(AnalysisType)
  BY <1>1 DEF RequestType
<1>3. Progress(c, w) /\ Drafted(w) /\ ~Recorded(w)
  BY <1>1, <1>2 DEF Progress, Drafted, Recorded
<1>4. Belonging(w)
  <2> SUFFICES ASSUME NEW k \in 1 .. n + 1, w.analyses[k].content # NoContent
               PROVE  \E f \in 1 .. k : BelongsTo(w, k, f)
    BY <1>2 DEF Belonging
  <2>1. CASE k = n + 1
    BY <1>2, <2>1 DEF w
  <2>2. CASE k \in 1 .. n
    <3>1. PICK f \in 1 .. k : BelongsTo(v, k, f)
      BY <1>2, <2>2 DEF Belonging
    <3>2. f \in 1 .. n /\ \A i \in 1 .. f - 1 : i \in 1 .. n
      BY <1>2, <2>2
    <3>3. BelongsTo(w, k, f)
      BY <1>2, <2>2, <3>1, <3>2 DEF BelongsTo
    <3> QED BY <3>3
  <2> QED BY <1>2, <2>1, <2>2
<1>5. Seen(c, w)
  <2> SUFFICES ASSUME NeedsImage(c, w), NEW k \in 1 .. n + 1,
                      w.analyses[k].content # NoContent
               PROVE  w.analyses[k].image # NoResult
    BY <1>2 DEF Seen
  <2>1. NeedsImage(c, v)
    BY <1>1 DEF NeedsImage
  <2>2. k = n + 1 \/ k \in 1 .. n
    BY <1>2
  <2> QED BY <1>2, <2>1, <2>2 DEF Seen
<1>6. Budgeted(w)
  <2>1. Bytes(w.analyses) = Bytes(v.analyses) + Weight(a)
    BY <1>1, <1>2, BytesAppend
  <2> QED BY <1>1, <2>1 DEF Budgeted
<1>7. Whole(c, w)
  BY <1>3 DEF Whole
<1> QED BY <1>3, <1>4, <1>5, <1>6, <1>7 DEF Sound, w

\* The results of the image itself ...
LEMMA KeptOwn ==
  ASSUME NEW v \in RequestType, NEW a \in AnalysisType,
         \A k \in 1 .. Len(v.analyses) : v.analyses[k].content # a.content,
         a.ocr \in {NoResult, Len(v.analyses) + 1},
         a.image \in {NoResult, Len(v.analyses) + 1}
  PROVE  BelongsTo(Kept(v, a), Len(v.analyses) + 1, Len(v.analyses) + 1)
<1> DEFINE w == Kept(v, a)
           n == Len(v.analyses)
<1>1. w.analyses = Append(v.analyses, a)
  BY KeptFacts
<1> HIDE DEF w
<1>2. /\ n \in Nat /\ w.analyses[n + 1] = a
      /\ \A k \in 1 .. n : w.analyses[k] = v.analyses[k]
  BY <1>1 DEF RequestType
<1>3. \A k \in 1 .. (n + 1 - 1) : k \in 1 .. n
  BY <1>2
<1> QED BY <1>2, <1>3 DEF BelongsTo, w

\* ... and those of the image it repeats.
LEMMA KeptDuplicate ==
  ASSUME NEW v \in RequestType, Belonging(v), NEW f \in 1 .. Len(v.analyses),
         v.analyses[f].content # NoContent,
         \A i \in 1 .. (f - 1) : v.analyses[i].content # v.analyses[f].content
  PROVE  LET a == [v.analyses[f] EXCEPT !.status = "duplicate"]
         IN  /\ a \in AnalysisType /\ a.content = v.analyses[f].content
             /\ a.image = v.analyses[f].image
             /\ BelongsTo(Kept(v, a), Len(v.analyses) + 1, f)
<1> DEFINE a == [v.analyses[f] EXCEPT !.status = "duplicate"]
           w == Kept(v, a)
           n == Len(v.analyses)
<1>1. v.analyses[f] \in AnalysisType /\ n \in Nat
  BY DEF RequestType
<1>2. /\ a \in AnalysisType /\ a.content = v.analyses[f].content
      /\ a.ocr = v.analyses[f].ocr /\ a.image = v.analyses[f].image
  BY <1>1 DEF AnalysisType, Statuses
<1> HIDE DEF a
<1>3. w.analyses = Append(v.analyses, a)
  BY <1>2, KeptFacts
<1> HIDE DEF w
<1>4. /\ w.analyses[n + 1] = a
      /\ \A k \in 1 .. n : w.analyses[k] = v.analyses[k]
  BY <1>2, <1>3 DEF RequestType
<1>5. PICK g \in 1 .. f : BelongsTo(v, f, g)
  BY <1>1 DEF Belonging
<1>6. g = f
  <2>1. g \in 1 .. (f - 1) \/ g = f
    BY <1>1
  <2> QED BY <1>5, <2>1 DEF BelongsTo
<1>7. f \in 1 .. n /\ \A i \in 1 .. (f - 1) : i \in 1 .. n
  BY <1>1
<1>8. BelongsTo(w, n + 1, f)
  BY <1>2, <1>4, <1>5, <1>6, <1>7 DEF BelongsTo
<1> QED BY <1>2, <1>8 DEF w, a

-----------------------------------------------------------------------------
(* One request goes on                                                     *)

\* It is never done before, and leaves what it was doing behind.
Moves(v, w) ==
  /\ v.pc # "done"
  /\ \/ w.pc = "done"
     \/ Len(w.analyses) > Len(v.analyses)
     \/ /\ Len(w.analyses) = Len(v.analyses)
        /\ v.pc # "image" /\ (v.pc = "ocr" => w.pc = "image")

Goes(r) ==
  /\ config' = config /\ req' \in [Requests -> RequestType]
  /\ Sound(config, req'[r]) /\ Moves(req[r], req'[r])
  /\ \A q \in Requests \ {r} : req'[q] = req[q]

LEMMA BecomeGoes ==
  ASSUME MediaShape, NEW r \in Requests, NEW w \in RequestType, Become(r, w),
         config' = config, Sound(config, w), Moves(req[r], w)
  PROVE  Goes(r) /\ req'[r] = w
BY DEF MediaShape, Become, Goes

LEMMA AbortGoes ==
  ASSUME MediaShape, NEW r \in Requests, NEW a \in Answers \ {"ok"}, Abort(r, a),
         config' = config, req[r].pc # "done"
  PROVE  Goes(r) /\ ~Recorded(req'[r])
<1>1. /\ Blank("done", a) \in RequestType /\ Sound(config, Blank("done", a))
      /\ ~Recorded(Blank("done", a)) /\ Blank("done", a).pc = "done"
  BY BlankSound DEF MediaShape
<1>2. Moves(req[r], Blank("done", a))
  BY <1>1 DEF Moves
<1> QED BY <1>1, <1>2, BecomeGoes DEF Abort

\* An analysis is added to v, which is req[r] but for the total and the draft.
LEMMA KeepGoes ==
  ASSUME MediaShape, NEW r \in Requests, Sound(config, req[r]),
         req[r].pc \in {"ingest", "ocr", "image"},
         NEW v \in RequestType, NEW a \in AnalysisType, Keep(r, v, a),
         v.analyses = req[r].analyses, v.count = req[r].count,
         v.answer = req[r].answer, v.policy = req[r].policy,
         a.content # NoContent =>
           /\ \E f \in 1 .. Place(r) : BelongsTo(Kept(v, a), Place(r), f)
           /\ NeedsImage(config, req[r]) => a.image # NoResult,
         Bytes(v.analyses) + Weight(a) <= MaxTotal,
         Bytes(v.analyses) + Weight(a) <= v.total,
         config' = config
  PROVE  Goes(r) /\ ~Recorded(req'[r])
<1> DEFINE w == Kept(v, a)
<1>1. Become(r, w)
  BY DEF Keep, Kept, Place
<1>2. /\ w \in RequestType /\ w.analyses = Append(v.analyses, a)
      /\ w.answer = v.answer /\ w.pc \in {"decide", "ingest"}
  BY KeptFacts
<1>3. /\ Progress(config, req[r]) /\ Belonging(req[r]) /\ Seen(config, req[r])
      /\ config \in Configs
  BY DEF Sound, MediaShape
<1>4. /\ v.count <= MaxAttachments /\ Len(v.analyses) < v.count
      /\ v.answer # "ok" /\ Belonging(v) /\ Seen(config, v)
      /\ NeedsImage(config, v) <=> NeedsImage(config, req[r])
  BY <1>3 DEF Progress, Belonging, BelongsTo, Seen, NeedsImage
<1>5. Sound(config, w)
  BY <1>3, <1>4, KeptSound DEF Place
<1>6. ~Recorded(w) /\ Moves(req[r], w)
  BY <1>2, <1>4 DEF Recorded, Moves, RequestType
<1> HIDE DEF w
<1> QED BY <1>1, <1>2, <1>5, <1>6, BecomeGoes

LEMMA FailedIs ==
  ASSUME NEW s \in Statuses
  PROVE  /\ Failed(s) \in AnalysisType /\ Failed(s).content = NoContent
         /\ Weight(Failed(s)) = 0
BY DEF Failed, Result, AnalysisType, NoContent, NoResult, Weight

LEMMA SubmitGoes ==
  ASSUME MediaShape, NEW r \in Requests, Sound(config, req[r]), Submit(r)
  PROVE  Goes(r) /\ ~Recorded(req'[r])
<1>1. PICK n \in 1 .. load[r], p \in MediaPolicies :
         \/ n > MaxAttachments /\ Abort(r, "refused")
         \/ Abort(r, "unavailable")
         \/ /\ n <= MaxAttachments
            /\ Become(r, [Blank(IF config.enabled THEN "ingest" ELSE "decide",
                                "none") EXCEPT !.count = n, !.policy = p])
  BY DEF Submit
<1>2. req[r].pc = "idle" /\ config' = config /\ n \in Nat /\ n > 0
  BY DEF Submit
<1>3. CASE Abort(r, "refused") \/ Abort(r, "unavailable")
  BY <1>2, <1>3, AbortGoes DEF Answers
<1>4. CASE /\ n <= MaxAttachments
           /\ Become(r, [Blank(IF config.enabled THEN "ingest" ELSE "decide",
                               "none") EXCEPT !.count = n, !.policy = p])
  <2> DEFINE step == IF config.enabled THEN "ingest" ELSE "decide"
             w == [Blank(step, "none") EXCEPT !.count = n, !.policy = p]
  <2>1. /\ w \in RequestType /\ w.pc = step /\ w.answer = "none"
        /\ w.analyses = <<>> /\ w.count = n /\ w.total = 0
    <3> DEFINE b == Blank(step, "none")
    <3>1. step \in MediaSteps /\ "none" \in Answers
      BY DEF MediaSteps, Answers
    <3>2. w = [b EXCEPT !.count = n, !.policy = p]
      OBVIOUS
    <3> HIDE DEF step
    <3>3. /\ b \in RequestType /\ b.pc = step /\ b.answer = "none"
          /\ b.analyses = <<>> /\ b.total = 0
      BY <3>1, BlankType
    <3> HIDE DEF b, w
    <3> QED BY <1>2, <3>1, <3>2, <3>3 DEF RequestType
  <2>2. step \in {"ingest", "decide"} /\ (config.enabled => step = "ingest")
    OBVIOUS
  <2> HIDE DEF w, step
  <2>3. Len(<<>>) = 0
    OBVIOUS
  <2>4. Progress(config, w) /\ Drafted(w) /\ ~Recorded(w)
    BY <1>2, <1>4, <2>1, <2>2, <2>3 DEF Progress, Drafted, Recorded
  <2>5. Belonging(w) /\ Seen(config, w) /\ Whole(config, w)
    BY <2>1, <2>3, <2>4 DEF Belonging, Seen, Whole
  <2>6. Budgeted(w)
    BY <2>1, <2>2, BytesEmpty, LimitAssumption DEF Budgeted
  <2>7. Sound(config, w)
    BY <2>4, <2>5, <2>6 DEF Sound
  <2>8. Become(r, w)
    BY <1>4 DEF w, step
  <2>9. req[r] \in RequestType /\ Moves(req[r], w)
    BY <1>2, <2>1, <2>2, <2>3 DEF Moves, MediaShape, Sound, Progress
  <2> QED BY <1>2, <2>1, <2>4, <2>7, <2>8, <2>9, BecomeGoes
<1> QED BY <1>1, <1>3, <1>4

LEMMA FetchGoes ==
  ASSUME MediaShape, NEW r \in Requests, Sound(config, req[r]),
         req[r].pc = "ingest", NEW c \in Contents, Fetch(r, c), config' = config
  PROVE  Goes(r) /\ ~Recorded(req'[r])
<1> DEFINE v == [req[r] EXCEPT !.total = Add(r, c)]
<1>1. /\ req[r] \in RequestType /\ config \in Configs
      /\ Progress(config, req[r]) /\ Belonging(req[r]) /\ Seen(config, req[r])
      /\ Budgeted(req[r])
  BY DEF MediaShape, Sound
<1>2. Add(r, c) \in Nat /\ Add(r, c) = req[r].total + Size[c]
      /\ Size[c] \in Nat /\ c # NoContent /\ req[r].total \in Nat
  BY <1>1, ContentsAssumption DEF Add, RequestType
<1>3. /\ v \in RequestType /\ v.analyses = req[r].analyses /\ v.pc = "ingest"
      /\ v.count = req[r].count /\ v.answer = req[r].answer
      /\ v.policy = req[r].policy /\ v.total = Add(r, c)
      /\ v = [req[r] EXCEPT !.total = Add(r, c)]
  BY <1>1, <1>2 DEF RequestType
<1>f. \/ v.total > MaxTotal /\ Keep(r, v, Failed("rejected"))
      \/ v.total <= MaxTotal /\ Originals(r, c) # {} /\ Keep(r, v, Duplicate(r, c))
      \/ /\ v.total <= MaxTotal /\ Originals(r, c) = {}
         /\ Become(r, [v EXCEPT !.pc = "ocr", !.draft = Result("analyzed", c)])
  BY DEF Fetch
<1> HIDE DEF v
<1>4. /\ Bytes(v.analyses) \in Nat /\ Bytes(v.analyses) <= MaxTotal
      /\ Bytes(v.analyses) + Size[c] <= v.total
      /\ Bytes(v.analyses) <= v.total /\ v.analyses \in Seq(AnalysisType)
      /\ Len(v.analyses) \in Nat
  <2>1. v.analyses \in Seq(AnalysisType)
    BY <1>3 DEF RequestType
  <2>2. Bytes(v.analyses) \in Nat
    BY <2>1, <1>2, FailedIs, BytesAppend DEF Statuses
  <2> QED BY <1>1, <1>2, <1>3, <2>1, <2>2 DEF Budgeted
<1>5. CASE v.total > MaxTotal /\ Keep(r, v, Failed("rejected"))
  <2> DEFINE a == Failed("rejected")
  <2>1. a \in AnalysisType /\ a.content = NoContent /\ Weight(a) = 0
    BY FailedIs DEF Statuses
  <2> HIDE DEF a
  <2>2. Keep(r, v, a)
    BY <1>5 DEF a
  <2>3. /\ Bytes(v.analyses) + Weight(a) <= MaxTotal
        /\ Bytes(v.analyses) + Weight(a) <= v.total
    BY <1>4, <2>1
  <2> QED BY <1>3, <2>1, <2>2, <2>3, KeepGoes
<1>6. CASE /\ v.total <= MaxTotal /\ Originals(r, c) # {}
           /\ Keep(r, v, Duplicate(r, c))
  <2> DEFINE S == Originals(r, c)
  <2>1. S \in SUBSET Nat /\ S # {} /\ IsFiniteSet(S)
        /\ S = {k \in 1 .. Len(v.analyses) : v.analyses[k].content = c}
    <3>1. S = {k \in 1 .. Len(v.analyses) : v.analyses[k].content = c}
      BY <1>3, <1>4 DEF Originals
    <3>0. Len(v.analyses) \in Int /\ 1 \in Int
      BY <1>4
    <3>2. IsFiniteSet(1 .. Len(v.analyses))
      BY ONLY <3>0, FS_Interval
    <3>3. S \subseteq 1 .. Len(v.analyses)
      BY <3>1
    <3>4. IsFiniteSet(S)
      BY ONLY <3>2, <3>3, FS_Subset
    <3> QED BY <1>6, <3>1, <3>4
  <2> HIDE DEF S
  <2>2. PICK f \in S : \A i \in S : f <= i
    BY <2>1, LeastMember
  <2>3. Min(S) = f
    BY <2>1, <2>2, MinIs
  <2>4. /\ f \in 1 .. Len(v.analyses) /\ v.analyses[f].content = c
        /\ \A i \in 1 .. (f - 1) : v.analyses[i].content # v.analyses[f].content
    <3>1. f \in 1 .. Len(v.analyses) /\ v.analyses[f].content = c
      BY <2>1, <2>2
    <3>2. ASSUME NEW i \in 1 .. (f - 1), v.analyses[i].content = c PROVE FALSE
      <4>1. i \in 1 .. Len(v.analyses) /\ ~(f <= i)
        BY <1>4, <3>1
      <4>2. i \in S
        BY <2>1, <3>2, <4>1
      <4> QED BY <2>2, <4>1, <4>2
    <3> QED BY <3>1, <3>2
  <2> DEFINE a == [v.analyses[f] EXCEPT !.status = "duplicate"]
  <2>5. a = Duplicate(r, c)
    BY <1>3, <2>3 DEF Duplicate, S
  <2>6. Belonging(v)
    BY <1>1, <1>3 DEF Belonging, BelongsTo
  <2>7. /\ a \in AnalysisType /\ a.content = c
        /\ a.image = v.analyses[f].image
        /\ BelongsTo(Kept(v, a), Len(v.analyses) + 1, f)
    BY <1>2, <1>3, <2>4, <2>6, KeptDuplicate
  <2> HIDE DEF a
  <2>8. Weight(a) = Size[c]
    BY <1>2, <2>7 DEF Weight
  <2>9. NeedsImage(config, req[r]) => a.image # NoResult
    BY <1>1, <1>2, <1>3, <2>4, <2>7 DEF Seen
  <2>10. Place(r) = Len(v.analyses) + 1 /\ f \in 1 .. Place(r)
    BY <1>3, <1>4, <2>4 DEF Place
  <2>11. Keep(r, v, a)
    BY <1>6, <2>5
  <2>12. /\ Bytes(v.analyses) + Weight(a) <= MaxTotal
         /\ Bytes(v.analyses) + Weight(a) <= v.total
    BY <1>2, <1>3, <1>4, <1>6, <2>8, LimitAssumption
  <2>13. \E g \in 1 .. Place(r) : BelongsTo(Kept(v, a), Place(r), g)
    BY <2>7, <2>10
  <2> QED BY <1>3, <2>7, <2>9, <2>11, <2>12, <2>13, KeepGoes
<1>7. CASE /\ v.total <= MaxTotal /\ Originals(r, c) = {}
           /\ Become(r, [v EXCEPT !.pc = "ocr", !.draft = Result("analyzed", c)])
  <2> DEFINE w == [v EXCEPT !.pc = "ocr", !.draft = Result("analyzed", c)]
  <2>0. /\ Result("analyzed", c) \in AnalysisType
        /\ Result("analyzed", c).status = "analyzed"
        /\ Result("analyzed", c).content = c
        /\ Result("analyzed", c).ocr = NoResult
        /\ Result("analyzed", c).image = NoResult
    BY DEF Result, AnalysisType, Statuses, NoResult
  <2>1. /\ w \in RequestType /\ w.pc = "ocr" /\ w.answer = v.answer
        /\ w.analyses = v.analyses /\ w.count = v.count /\ w.total = v.total
        /\ w.policy = v.policy /\ w.draft = Result("analyzed", c)
    BY <1>3, <2>0 DEF RequestType, MediaSteps
  <2> HIDE DEF w
  <2>2. Progress(config, w) /\ ~Recorded(w)
    BY <1>1, <1>3, <2>1 DEF Progress, Recorded
  <2>3. Drafted(w)
    BY <1>3, <1>4, <1>7, <2>0, <2>1 DEF Drafted, Originals
  <2>4. Belonging(w) /\ Seen(config, w)
    BY <1>1, <1>3, <2>1 DEF Belonging, BelongsTo, Seen, NeedsImage
  <2>5. Budgeted(w)
    BY <1>4, <1>7, <2>0, <2>1 DEF Budgeted
  <2>6. Whole(config, w)
    BY <2>2 DEF Whole
  <2>7. Sound(config, w) /\ Moves(req[r], w)
    BY <1>3, <1>4, <2>1, <2>2, <2>3, <2>4, <2>5, <2>6 DEF Sound, Moves
  <2>8. Become(r, w)
    BY <1>7 DEF w
  <2> QED BY <2>1, <2>2, <2>7, <2>8, BecomeGoes
<1> QED BY <1>5, <1>6, <1>7, <1>f

LEMMA IngestGoes ==
  ASSUME MediaShape, NEW r \in Requests, Sound(config, req[r]), Ingest(r)
  PROVE  Goes(r) /\ ~Recorded(req'[r])
<1>1. /\ req[r].pc = "ingest" /\ config' = config
      /\ FetchFails(r) \/ \E c \in Contents : Fetch(r, c)
  BY DEF Ingest
<1>2. CASE \E c \in Contents : Fetch(r, c)
  BY <1>1, <1>2, FetchGoes
<1>3. CASE FetchFails(r)
  <2>1. CASE Abort(r, "error")
    BY <1>1, <2>1, AbortGoes DEF Answers
  <2>2. ASSUME NEW status \in {"rejected", "unavailable"},
               Keep(r, req[r], Failed(status))
        PROVE  Goes(r) /\ ~Recorded(req'[r])
    <3> DEFINE v == req[r]
               a == Failed(status)
    <3>1. a \in AnalysisType /\ a.content = NoContent /\ Weight(a) = 0
      BY FailedIs DEF Statuses
    <3> HIDE DEF a
    <3>2. v \in RequestType /\ Budgeted(v) /\ v.analyses \in Seq(AnalysisType)
      BY DEF Sound, MediaShape, RequestType
    <3>3. Bytes(v.analyses) \in Nat
      BY <3>1, <3>2, BytesAppend
    <3>4. /\ Bytes(v.analyses) + Weight(a) <= MaxTotal
          /\ Bytes(v.analyses) + Weight(a) <= v.total
      BY <1>1, <3>1, <3>2, <3>3 DEF Budgeted
    <3>5. Keep(r, v, a)
      BY <2>2 DEF a
    <3> HIDE DEF v
    <3> QED BY <1>1, <3>1, <3>2, <3>4, <3>5, KeepGoes DEF v
  <2> QED BY <1>3, <2>1, <2>2 DEF FetchFails
<1> QED BY <1>1, <1>2, <1>3

\* A provider's answer, or none, for the image under way.
LEMMA ConcludeGoes ==
  ASSUME MediaShape, NEW r \in Requests, Sound(config, req[r]),
         NEW s \in Stages, req[r].pc = s, NEW res \in {NoResult, Place(r)},
         s = "image" /\ res = NoResult => ~NeedsImage(config, req[r]),
         Conclude(r, s, res), config' = config
  PROVE  Goes(r) /\ ~Recorded(req'[r])
<1> DEFINE v == [req[r] EXCEPT !.draft[s] = res]
           n == Len(req[r].analyses)
<1>1. /\ req[r] \in RequestType /\ config \in Configs
      /\ Progress(config, req[r]) /\ Belonging(req[r]) /\ Seen(config, req[r])
      /\ Budgeted(req[r]) /\ Drafted(req[r])
  BY DEF MediaShape, Sound
<1>2. n \in Nat /\ Place(r) = n + 1 /\ res \in Nat
  BY <1>1 DEF Place, RequestType, NoResult
<1>3. /\ v \in RequestType /\ v.analyses = req[r].analyses
      /\ v.pc = s /\ v.count = req[r].count /\ v.answer = req[r].answer
      /\ v.policy = req[r].policy /\ v.total = req[r].total
      /\ v.draft = [req[r].draft EXCEPT ![s] = res]
  BY <1>1, <1>2 DEF RequestType, AnalysisType, Stages
<1>4. /\ v.draft \in AnalysisType /\ v.draft[s] = res
      /\ v.draft.status = req[r].draft.status
      /\ v.draft.content = req[r].draft.content
      /\ s = "image" => v.draft.image = res /\ v.draft.ocr = req[r].draft.ocr
      /\ s = "ocr" => v.draft.ocr = res /\ v.draft.image = req[r].draft.image
  BY <1>1, <1>2, <1>3 DEF RequestType, AnalysisType, Stages
<1>5. /\ v.draft.content \in Contents /\ v.draft.content # NoContent
      /\ v.draft.status = "analyzed"
      /\ \A k \in 1 .. n : v.analyses[k].content # v.draft.content
      /\ v.draft.ocr \in {NoResult, n + 1} /\ v.draft.image \in {NoResult, n + 1}
      /\ s = "ocr" => v.draft.image = NoResult
  BY <1>1, <1>2, <1>3, <1>4, ContentsAssumption DEF Drafted, Stages
<1>c. \/ s = "ocr" /\ Become(r, [v EXCEPT !.pc = "image"])
      \/ s = "image" /\ Keep(r, v, v.draft)
  BY DEF Conclude
<1> HIDE DEF v
<1>6. CASE s = "ocr" /\ Become(r, [v EXCEPT !.pc = "image"])
  <2> DEFINE w == [v EXCEPT !.pc = "image"]
  <2>1. /\ w \in RequestType /\ w.pc = "image" /\ w.analyses = v.analyses
        /\ w.count = v.count /\ w.answer = v.answer /\ w.policy = v.policy
        /\ w.total = v.total /\ w.draft = v.draft
    BY <1>3 DEF RequestType, MediaSteps
  <2> HIDE DEF w
  <2>2. Progress(config, w) /\ ~Recorded(w)
    BY <1>1, <1>3, <1>6, <2>1 DEF Progress, Recorded
  <2>3. Drafted(w)
    BY <1>3, <1>5, <1>6, <2>1 DEF Drafted
  <2>4. Belonging(w) /\ Seen(config, w)
    BY <1>1, <1>3, <2>1 DEF Belonging, BelongsTo, Seen, NeedsImage
  <2>5. Budgeted(w)
    BY <1>1, <1>3, <1>4, <1>6, <2>1 DEF Budgeted
  <2>6. Whole(config, w)
    BY <2>2 DEF Whole
  <2>7. Sound(config, w) /\ Moves(req[r], w)
    BY <1>2, <1>3, <1>6, <2>1, <2>2, <2>3, <2>4, <2>5, <2>6 DEF Sound, Moves
  <2>8. Become(r, w)
    BY <1>6 DEF w
  <2> QED BY <2>1, <2>2, <2>7, <2>8, BecomeGoes
<1>7. CASE s = "image" /\ Keep(r, v, v.draft)
  <2> DEFINE a == v.draft
  <2>1. a \in AnalysisType /\ Weight(a) = Size[a.content]
    BY <1>4, <1>5 DEF Weight
  <2>2. BelongsTo(Kept(v, a), n + 1, n + 1)
    BY <1>3, <1>4, <1>5, KeptOwn
  <2>3. \E f \in 1 .. Place(r) : BelongsTo(Kept(v, a), Place(r), f)
    BY <1>2, <2>2
  <2>4. NeedsImage(config, req[r]) => a.image # NoResult
    BY <1>4, <1>7
  <2>5. Bytes(v.analyses) \in Nat
    BY <1>1, <1>3, <1>4, BytesAppend DEF RequestType
  <2>6. Size[a.content] \in Nat /\ MaxTotal \in Nat /\ v.total \in Nat
    BY <1>3, <1>5, ContentsAssumption, LimitAssumption DEF RequestType
  <2>7. /\ Bytes(v.analyses) + Weight(a) <= MaxTotal
        /\ Bytes(v.analyses) + Weight(a) <= v.total
    BY <1>1, <1>3, <1>4, <1>7, <2>1, <2>5, <2>6 DEF Budgeted
  <2>8. Keep(r, v, a) /\ req[r].pc = "image"
    BY <1>7
  <2> HIDE DEF a
  <2> QED BY <1>3, <2>1, <2>3, <2>4, <2>7, <2>8, KeepGoes
<1> QED BY <1>6, <1>7, <1>c

LEMMA StageFailsGoes ==
  ASSUME MediaShape, NEW r \in Requests, Sound(config, req[r]),
         NEW s \in Stages, req[r].pc = s, StageFails(r, s), config' = config
  PROVE  Goes(r) /\ ~Recorded(req'[r])
<1>1. CASE Abort(r, "error")
  BY <1>1, AbortGoes DEF Answers, Stages
<1>2. CASE ~req[r].policy[s].required /\ Conclude(r, s, NoResult)
  <2>1. s = "image" => ~NeedsImage(config, req[r])
    BY <1>2 DEF NeedsImage
  <2> QED BY <1>2, <2>1, ConcludeGoes
<1> QED BY <1>1, <1>2 DEF StageFails

LEMMA SkipGoes ==
  ASSUME MediaShape, NEW r \in Requests, Sound(config, req[r]),
         NEW s \in Stages, Skip(r, s)
  PROVE  Goes(r) /\ ~Recorded(req'[r])
<1>1. req[r].pc = s /\ config' = config
  BY DEF Skip, Calling
<1>2. CASE ~Wanted(r, s) /\ Conclude(r, s, NoResult)
  <2>1. s = "image" => ~NeedsImage(config, req[r])
    <3>1. s = "image" => config.provider.image \in {"off", "broken", "ready"}
      BY ConfigAssumption DEF MediaShape, Stages
    <3> QED BY <1>2, <3>1 DEF NeedsImage, Wanted
  <2> QED BY <1>1, <1>2, <2>1, ConcludeGoes
<1>3. CASE StageFails(r, s)
  BY <1>1, <1>3, StageFailsGoes
<1> QED BY <1>2, <1>3 DEF Skip

LEMMA StatementsType ==
  ASSUME NEW r \in Requests, req[r] \in RequestType
  PROVE  Statements(r) \subseteq (1 .. Len(req[r].analyses)) \X Tables
<1>1. DOMAIN req[r].analyses = 1 .. Len(req[r].analyses)
  BY DEF RequestType
<1> QED BY <1>1 DEF Statements, Tables

LEMMA DecideGoes ==
  ASSUME MediaShape, NEW r \in Requests, Sound(config, req[r]), Decide(r),
         event' \in [Messages -> Nat]
  PROVE  /\ Goes(r)
         /\ Recorded(req'[r]) =>
              /\ req'[r].todo = Statements(r)
              /\ req'[r].analyses = req[r].analyses
              /\ req'[r].event = event'[About[r]]
              /\ event' = [Unpurged EXCEPT ![About[r]] = Upserted(About[r])]
<1>1. req[r].pc = "decide" /\ config' = config /\ req[r] \in RequestType
  BY DEF Decide, MediaShape
<1>2. CASE Abort(r, "unavailable")
  BY <1>1, <1>2, AbortGoes DEF Answers
<1>3. CASE /\ ~Lacks(r)
           /\ Become(r, [req[r] EXCEPT !.pc = "save", !.todo = Statements(r),
                                       !.event = event'[About[r]]])
           /\ event' = [Unpurged EXCEPT ![About[r]] = Upserted(About[r])]
  <2> DEFINE e == event'[About[r]]
             w == [req[r] EXCEPT !.pc = "save", !.todo = Statements(r),
                                 !.event = e]
  <2>1. e \in Nat
    BY AboutAssumption
  <2>2. Statements(r) \in SUBSET (Nat \X Tables)
    <3>1. 1 .. Len(req[r].analyses) \subseteq Nat
      BY <1>1 DEF RequestType
    <3> QED BY <1>1, <3>1, StatementsType
  <2> HIDE DEF e
  <2>3. /\ w \in RequestType /\ w.pc = "save" /\ w.todo = Statements(r)
        /\ w.event = e /\ w.analyses = req[r].analyses
        /\ w.count = req[r].count /\ w.answer = req[r].answer
        /\ w.policy = req[r].policy
    BY <1>1, <2>1, <2>2 DEF RequestType, MediaSteps
  <2>4. Become(r, w)
    BY <1>3 DEF e
  <2> HIDE DEF w
  <2>5. Progress(config, w)
    BY <1>1, <2>3 DEF Progress, Sound
  <2>6. Drafted(w) /\ Belonging(w) /\ Seen(config, w)
    BY <2>3, SMTT(30) DEF Sound, Drafted, Belonging, BelongsTo, Seen, NeedsImage
  <2>7. Budgeted(w)
    BY <2>3 DEF Sound, Budgeted
  <2>8. Whole(config, w)
    <3> SUFFICES ASSUME config.required, NEW k \in 1 .. Len(req[r].analyses)
                 PROVE  req[r].analyses[k].status \in {"analyzed", "duplicate"}
      BY <2>3 DEF Whole
    <3>1. ~Lost(req[r].analyses[k])
      BY <1>1, <1>3 DEF Lacks, RequestType
    <3>2. req[r].analyses[k] \in AnalysisType
      BY <1>1 DEF RequestType
    <3> QED BY <3>1, <3>2 DEF Lost, AnalysisType, Statuses
  <2>9. Sound(config, w) /\ Moves(req[r], w)
    BY <1>1, <2>3, <2>5, <2>6, <2>7, <2>8 DEF Sound, Moves, RequestType
  <2>10. Goes(r) /\ req'[r] = w
    BY <1>1, <2>3, <2>4, <2>9, BecomeGoes
  <2> QED BY <1>3, <2>3, <2>10 DEF e
<1> QED BY <1>2, <1>3 DEF Decide

LEMMA StepGoes ==
  ASSUME MediaShape, NEW r \in Requests, Sound(config, req[r]),
         NEW T \in SUBSET req[r].todo, NEW step \in {"save", "done"},
         NEW answer \in {req[r].answer, "ok"},
         answer = "ok" => step = "done" /\ T = {},
         req[r].pc = "save", config' = config,
         Become(r, [req[r] EXCEPT !.pc = step, !.answer = answer, !.todo = T])
  PROVE  /\ Goes(r) /\ req'[r].todo = T /\ req'[r].event = req[r].event
         /\ req'[r].analyses = req[r].analyses
<1> DEFINE w == [req[r] EXCEPT !.pc = step, !.answer = answer, !.todo = T]
<1>1. req[r] \in RequestType
  BY DEF MediaShape
<1>2. /\ w \in RequestType /\ w.pc = step /\ w.answer = answer /\ w.todo = T
      /\ w.event = req[r].event /\ w.analyses = req[r].analyses
      /\ w.count = req[r].count /\ w.policy = req[r].policy
  BY <1>1 DEF RequestType, MediaSteps, Answers
<1> HIDE DEF w
<1>3. Progress(config, w)
  BY <1>2 DEF Progress, Sound
<1>4. Drafted(w) /\ Belonging(w) /\ Seen(config, w)
  BY <1>2 DEF Sound, Drafted, Belonging, BelongsTo, Seen, NeedsImage
<1>5. Budgeted(w) /\ Whole(config, w)
  BY <1>2 DEF Sound, Budgeted, Whole, Recorded
<1>6. Sound(config, w) /\ Moves(req[r], w)
  BY <1>1, <1>2, <1>3, <1>4, <1>5 DEF Sound, Moves, RequestType
<1>7. Become(r, w)
  BY DEF w
<1> QED BY <1>2, <1>6, <1>7, BecomeGoes

LEMMA SaveGoes ==
  ASSUME MediaShape, NEW r \in Requests, Sound(config, req[r]),
         req[r].pc = "save", config' = config, NEW p,
         Become(r, [req[r] EXCEPT !.todo = @ \ {p}])
  PROVE  /\ Goes(r) /\ req'[r].todo = req[r].todo \ {p}
         /\ req'[r].event = req[r].event
         /\ req'[r].analyses = req[r].analyses
<1>1. req[r] \in RequestType /\ Progress(config, req[r])
  BY DEF MediaShape, Sound
<1>2. [req[r] EXCEPT !.todo = @ \ {p}]
        = [req[r] EXCEPT !.pc = "save", !.answer = req[r].answer,
                         !.todo = req[r].todo \ {p}]
  BY <1>1 DEF RequestType
<1>3. req[r].answer # "ok"
  BY <1>1 DEF Progress
<1> QED BY <1>2, <1>3, StepGoes

LEMMA RespondGoes ==
  ASSUME MediaShape, NEW r \in Requests, Sound(config, req[r]), Respond(r)
  PROVE  /\ Goes(r) /\ req'[r].todo = {} /\ req'[r].event = req[r].event
         /\ req'[r].analyses = req[r].analyses
<1>1. req[r] \in RequestType /\ req[r].todo = {} /\ req[r].pc = "save"
      /\ config' = config
  BY DEF MediaShape, Respond
<1>2. [req[r] EXCEPT !.pc = "done", !.answer = "ok"]
        = [req[r] EXCEPT !.pc = "done", !.answer = "ok", !.todo = {}]
  BY <1>1 DEF RequestType
<1>3. {} \in SUBSET req[r].todo
  OBVIOUS
<1>4. Become(r, [req[r] EXCEPT !.pc = "done", !.answer = "ok", !.todo = {}])
  BY <1>2 DEF Respond
<1> QED BY <1>1, <1>3, <1>4, StepGoes

-----------------------------------------------------------------------------
(* The pool and the semaphores                                             *)

LEMMA PastStays ==
  ASSUME NEW v \in RequestType, NEW w \in RequestType, Moves(v, w),
         NEW j \in JobType, Past(v, j)
  PROVE  Past(w, j)
<1>1. Len(v.analyses) \in Nat /\ Len(w.analyses) \in Nat /\ j[2] \in Nat
  BY DEF RequestType, JobType
<1> QED BY <1>1 DEF Moves, Past

\* The job a request waits for is past when it goes on.
LEMMA PastNow ==
  ASSUME NEW v \in RequestType, NEW w \in RequestType, Moves(v, w),
         NEW j, v.pc \in Stages, j[3] = v.pc, j[2] = Len(v.analyses) + 1
  PROVE  Past(w, j)
<1>1. Len(v.analyses) \in Nat /\ Len(w.analyses) \in Nat
  BY DEF RequestType
<1> QED BY <1>1 DEF Moves, Past, Stages

LEMMA JobIs ==
  ASSUME NEW j \in JobType
  PROVE  /\ j = <<j[1], j[2], j[3]>> /\ j[1] \in Requests /\ j[3] \in Stages
         /\ j[2] \in Nat \ {0}
BY DEF JobType

LEMMA BacklogIs ==
  ASSUME SlotShape
  PROVE  /\ ToSet(backlog) = {backlog[i] : i \in 1 .. Len(backlog)}
         /\ DOMAIN backlog = 1 .. Len(backlog) /\ Len(backlog) \in Nat
         /\ \A i \in 1 .. Len(backlog) : backlog[i] \in JobType
BY DEF ToSet, SlotShape

\* Request r goes on, and holds and awaits no permit then.
Leaves(r) ==
  /\ Goes(r) /\ line' = line
  /\ inside' \in [Stages -> SUBSET Requests]
  /\ \A s \in Stages : inside'[s] = inside[s] \ {r}
  /\ \A s \in Stages : \A i \in 1 .. Len(line[s]) : line[s][i] # r

LEMMA LeavesQueued ==
  ASSUME MediaShape, Queued, NEW r \in Requests, Leaves(r)
  PROVE  Queued'
<1>1. \A s \in Stages : \A q \in inside'[s] : q \in Requests \ {r}
  BY DEF Leaves
<1>2. \A s \in Stages : \A i \in 1 .. Len(line[s]) : line[s][i] \in Requests \ {r}
  BY DEF Leaves, MediaShape, SlotShape
<1>3. \A q \in Requests \ {r} : req'[q] = req[q]
  BY DEF Leaves, Goes
<1> QED BY <1>1, <1>2, <1>3 DEF Queued, Leaves

LEMMA LeavesJobs ==
  ASSUME MediaShape, Queued, NEW r \in Requests, Leaves(r), NEW j \in JobType
  PROVE  /\ j[1] # r => (Awaited(j)' <=> Awaited(j))
         /\ Past(req[j[1]], j) => Past(req'[j[1]], j)
         /\ Awaited(j)' => j[1] # r /\ Awaited(j)
         /\ Awaited(j) /\ j[1] = r =>
              /\ req[r].pc = j[3] /\ j = <<r, Place(r), j[3]>>
              /\ Past(req'[j[1]], j)
<1>1. /\ j = <<j[1], j[2], j[3]>> /\ j[1] \in Requests /\ j[3] \in Stages
  BY JobIs
<1>2. req[j[1]] \in RequestType /\ req'[j[1]] \in RequestType
  BY <1>1 DEF MediaShape, Leaves, Goes
<1>3. \A q \in Requests \ {r} : req'[q] = req[q]
  BY DEF Leaves, Goes
<1>4. Moves(req[r], req'[r])
  BY DEF Leaves, Goes
<1>5. j[1] # r => (Awaited(j)' <=> Awaited(j))
  BY <1>1, <1>3 DEF Awaited, Place, Leaves
<1>6. Past(req[j[1]], j) => Past(req'[j[1]], j)
  BY <1>1, <1>2, <1>3, <1>4, PastStays
<1>7. Awaited(j)' => j[1] # r
  BY <1>1 DEF Awaited, Leaves
<1>8. ASSUME Awaited(j), j[1] = r
      PROVE  /\ req[r].pc = j[3] /\ j = <<r, Place(r), j[3]>>
             /\ Past(req'[j[1]], j)
  <2>1. req[r].pc = j[3] /\ j[2] = Place(r)
    BY <1>1, <1>8 DEF Awaited, Queued
  <2>2. Past(req'[r], j)
    BY <1>1, <1>2, <1>4, <1>8, <2>1, PastNow DEF Place
  <2> QED BY <1>1, <1>8, <2>1, <2>2
<1> QED BY <1>5, <1>6, <1>7, <1>8

LEMMA SmallerCount ==
  ASSUME NEW S, NEW T, T \subseteq S, IsFiniteSet(S),
         NEW n \in Nat, NEW m \in Nat, Cardinality(S) <= n, n <= m
  PROVE  Cardinality(T) <= m
<1>1. Cardinality(T) <= Cardinality(S) /\ Cardinality(S) \in Nat
      /\ Cardinality(T) \in Nat
  BY FS_Subset, FS_CardinalityType
<1> QED BY <1>1

Pool == Queued /\ PermitsAccounted /\ Pooled

\* A request that holds and awaits no permit goes on.
LEMMA PoolStays ==
  ASSUME MediaShape, Pool, NEW r \in Requests, Goes(r), UNCHANGED slots,
         \A s \in Stages : r \notin inside[s],
         \A s \in Stages : \A i \in 1 .. Len(line[s]) : line[s][i] # r,
         faults' \in {faults, faults + 1}
  PROVE  Pool'
<1>0. SlotShape /\ Queued /\ PermitsAccounted /\ Pooled
  BY DEF MediaShape, Pool
<1>1. Leaves(r)
  BY <1>0 DEF Leaves, slots, SlotShape
<1>2. inside' = inside /\ line' = line /\ backlog' = backlog /\ threads' = threads
  BY DEF slots
<1>3. \A j \in JobType : /\ Awaited(j)' <=> Awaited(j)
                         /\ Past(req[j[1]], j) => Past(req'[j[1]], j)
  <2> SUFFICES ASSUME NEW j \in JobType
               PROVE  /\ Awaited(j)' <=> Awaited(j)
                      /\ Past(req[j[1]], j) => Past(req'[j[1]], j)
    OBVIOUS
  <2>1. Awaited(j) => j[1] # r
    BY JobIs DEF Awaited
  <2> QED BY <1>0, <1>1, <2>1, LeavesJobs
<1>4. Queued'
  BY <1>0, <1>1, LeavesQueued
<1>5. \A s \in Stages : \A q \in inside'[s] :
         <<q, Place(q)', s>> \in threads' \cup ToSet(backlog')
  <2>1. \A s \in Stages : \A q \in inside[s] : q \in Requests \ {r}
    BY <1>0 DEF SlotShape
  <2>2. \A q \in Requests \ {r} : Place(q)' = Place(q)
    BY DEF Goes, Place
  <2> QED BY <1>0, <1>2, <2>1, <2>2 DEF PermitsAccounted
<1>6. \A k \in DOMAIN backlog' : Awaited(backlog[k])'
  BY <1>0, <1>2, <1>3, BacklogIs DEF PermitsAccounted
<1>7. Cardinality({j \in threads' : ~Awaited(j)'}) <= faults'
  <2> DEFINE S == {j \in threads : ~Awaited(j)}
             T == {j \in threads' : ~Awaited(j)'}
  <2>1. T \subseteq S
    BY <1>0, <1>2, <1>3 DEF SlotShape
  <2>2. IsFiniteSet(S)
    BY <1>0, FS_Subset DEF Pooled
  <2>3. Cardinality(S) <= faults /\ faults \in Nat /\ faults <= faults'
        /\ faults' \in Nat
    BY <1>0 DEF PermitsAccounted, SlotShape
  <2> HIDE DEF S, T
  <2>4. Cardinality(T) <= faults'
    BY <2>1, <2>2, <2>3, SmallerCount
  <2> QED BY <2>4 DEF T
<1>8. PermitsAccounted'
  BY <1>2, <1>5, <1>6, <1>7 DEF PermitsAccounted
<1>9. Pooled'
  BY <1>0, <1>2, <1>3 DEF Pooled, SlotShape
<1> QED BY <1>4, <1>8, <1>9 DEF Pool

LEMMA AppendSet ==
  ASSUME NEW J, NEW q \in Seq(J), NEW j \in J
  PROVE  /\ Append(q, j) \in Seq(J) /\ Len(Append(q, j)) = Len(q) + 1
         /\ \A i \in 1 .. Len(q) : Append(q, j)[i] = q[i]
         /\ Append(q, j)[Len(q) + 1] = j
         /\ \A i \in 1 .. Len(q) + 1 : i \in 1 .. Len(q) \/ i = Len(q) + 1
         /\ ToSet(Append(q, j)) = ToSet(q) \cup {j}
<1>1. /\ Append(q, j) \in Seq(J) /\ Len(Append(q, j)) = Len(q) + 1
      /\ \A i \in 1 .. Len(q) : Append(q, j)[i] = q[i]
      /\ Append(q, j)[Len(q) + 1] = j
      /\ \A i \in 1 .. Len(q) + 1 : i \in 1 .. Len(q) \/ i = Len(q) + 1
  OBVIOUS
<1>2. ToSet(Append(q, j)) = {Append(q, j)[i] : i \in 1 .. Len(q) + 1}
  BY <1>1 DEF ToSet
<1>3. ToSet(q) = {q[i] : i \in 1 .. Len(q)}
  BY DEF ToSet
<1>4. 1 .. Len(q) \subseteq 1 .. Len(q) + 1 /\ Len(q) + 1 \in 1 .. Len(q) + 1
  OBVIOUS
<1> QED BY <1>1, <1>2, <1>3, <1>4

\* A request enters the semaphore, and its job the pool.
LEMMA EnterPool ==
  ASSUME MediaShape, Pool, NEW r \in Requests, NEW s \in Stages,
         req[r].pc = s, r \notin inside[s], Enter(r, s),
         UNCHANGED <<req, faults>>
  PROVE  /\ PermitsAccounted' /\ Pooled'
         /\ inside' \in [Stages -> SUBSET Requests]
         /\ backlog' \in Seq(JobType) /\ threads' \in SUBSET JobType
<1>0. SlotShape /\ Queued /\ PermitsAccounted /\ Pooled
  BY DEF MediaShape, Pool
<1>p. req[r] \in RequestType /\ Place(r) \in Nat \ {0}
  BY DEF MediaShape, RequestType, Place
<1>q. PICK j \in JobType : j = <<r, Place(r), s>>
  BY <1>p DEF JobType
<1>1. j \in JobType /\ req[r] \in RequestType /\ Place(r) \in Nat \ {0}
  BY <1>p, <1>q
<1>2. inside' = [inside EXCEPT ![s] = @ \cup {r}] /\ Run(j)
  BY <1>q DEF Enter
<1>j. j[1] = r /\ j[2] = Place(r) /\ j[3] = s
  BY <1>q
<1>3. ~Awaited(j) /\ ~Past(req[r], j)
  <2>1. Place(r) = Len(req[r].analyses) + 1 /\ Len(req[r].analyses) \in Nat
    BY <1>1 DEF Place, RequestType
  <2> QED BY <1>j, <2>1 DEF Awaited, Past, Stages
<1>4. j \notin threads /\ \A i \in 1 .. Len(backlog) : backlog[i] # j
  BY <1>0, <1>j, <1>3, BacklogIs DEF Pooled, PermitsAccounted
<1>5. inside' \in [Stages -> SUBSET Requests]
  BY <1>0, <1>2 DEF SlotShape
<1>6. \/ threads' = threads \cup {j} /\ backlog' = backlog
      \/ backlog' = Append(backlog, j) /\ threads' = threads
  BY <1>2 DEF Run
<1>a. /\ Append(backlog, j) \in Seq(JobType)
      /\ ToSet(Append(backlog, j)) = ToSet(backlog) \cup {j}
  BY <1>0, <1>1, AppendSet DEF SlotShape
<1>7. backlog' \in Seq(JobType) /\ threads' \in SUBSET JobType
  BY <1>0, <1>1, <1>6, <1>a DEF SlotShape
<1>8. threads' \cup ToSet(backlog') = (threads \cup ToSet(backlog)) \cup {j}
  BY <1>6, <1>a
<1>9. Awaited(j)' /\ \A i \in JobType : i # j => (Awaited(i)' <=> Awaited(i))
  <2>1. Awaited(j)'
    BY <1>0, <1>2, <1>j DEF Awaited, SlotShape, Place
  <2>2. ASSUME NEW i \in JobType, i # j
        PROVE  Awaited(i)' <=> Awaited(i)
    <3>1. /\ i = <<i[1], i[2], i[3]>> /\ i[1] \in Requests /\ i[3] \in Stages
      BY JobIs
    <3>2. ~(i[1] = r /\ i[2] = Place(r) /\ i[3] = s)
      BY <2>2, <3>1, <1>q
    <3>3. Place(i[1])' = Place(i[1])
      BY DEF Place
    <3> QED BY <1>0, <1>2, <3>1, <3>2, <3>3 DEF Awaited, SlotShape
  <2> QED BY <2>1, <2>2
<1>10. \A s2 \in Stages : \A q \in inside'[s2] :
         <<q, Place(q)', s2>> \in threads' \cup ToSet(backlog')
  <2> SUFFICES ASSUME NEW s2 \in Stages, NEW q \in inside'[s2]
               PROVE  <<q, Place(q), s2>> \in threads' \cup ToSet(backlog')
    BY DEF Place
  <2>1. q \in inside[s2] \/ (q = r /\ s2 = s)
    BY <1>0, <1>2 DEF SlotShape
  <2>2. q \in inside[s2] => <<q, Place(q), s2>> \in threads \cup ToSet(backlog)
    BY <1>0 DEF PermitsAccounted
  <2> QED BY <1>8, <1>q, <2>1, <2>2
<1>11. \A k \in DOMAIN backlog' : Awaited(backlog[k])'
  <2>1. \A i \in JobType :
          (\E k \in 1 .. Len(backlog) : i = backlog[k]) => Awaited(i)'
    BY <1>0, <1>4, <1>9, BacklogIs DEF PermitsAccounted
  <2>4. \A k \in 1 .. Len(backlog) : backlog[k] \in JobType
    BY <1>0, BacklogIs
  <2>2. CASE backlog' = backlog
    BY <1>0, <2>1, <2>2, <2>4, BacklogIs
  <2>3. CASE backlog' = Append(backlog, j)
    <3>1. DOMAIN backlog' = 1 .. Len(backlog) + 1
      BY <1>0, <1>1, <1>7, <2>3, AppendSet DEF SlotShape
    <3>2. \A k \in 1 .. Len(backlog) + 1 :
            \/ k \in 1 .. Len(backlog) /\ backlog'[k] = backlog[k]
            \/ backlog'[k] = j
      BY <1>0, <1>1, <2>3, AppendSet DEF SlotShape
    <3> QED BY <1>1, <1>9, <2>1, <2>4, <3>1, <3>2
  <2> QED BY <1>6, <2>2, <2>3
<1>12. Cardinality({i \in threads' : ~Awaited(i)'}) <= faults'
  <2> DEFINE S == {i \in threads : ~Awaited(i)}
             T == {i \in threads' : ~Awaited(i)'}
  <2>1. T \subseteq S
    BY <1>0, <1>6, <1>9 DEF SlotShape
  <2>2. IsFiniteSet(S)
    BY <1>0, FS_Subset DEF Pooled
  <2>3. Cardinality(S) <= faults /\ faults \in Nat
    BY <1>0 DEF PermitsAccounted, SlotShape
  <2> HIDE DEF S, T
  <2>4. Cardinality(T) <= faults
    BY <2>1, <2>2, <2>3, SmallerCount
  <2> QED BY <2>4 DEF T
<1>13. PermitsAccounted'
  BY <1>10, <1>11, <1>12 DEF PermitsAccounted
<1>14. IsFiniteSet(threads')
  BY <1>0, <1>6, FS_AddElement DEF Pooled
<1>15. /\ \A k, i \in 1 .. Len(backlog') : backlog'[k] = backlog'[i] => k = i
       /\ \A i \in 1 .. Len(backlog') : backlog'[i] \notin threads'
  <2>1. CASE threads' = threads \cup {j} /\ backlog' = backlog
    BY <1>0, <1>4, <2>1 DEF Pooled
  <2>2. CASE backlog' = Append(backlog, j) /\ threads' = threads
    <3>1. /\ Len(backlog') = Len(backlog) + 1 /\ backlog'[Len(backlog) + 1] = j
          /\ \A i \in 1 .. Len(backlog) : backlog'[i] = backlog[i]
          /\ \A i \in 1 .. Len(backlog') :
               i \in 1 .. Len(backlog) \/ i = Len(backlog) + 1
      BY <1>0, <1>1, <2>2, AppendSet DEF SlotShape
    <3> QED BY <1>0, <1>4, <2>2, <3>1 DEF Pooled
  <2> QED BY <1>6, <2>1, <2>2
<1>16. \A i \in threads' : Awaited(i)' \/ Past(req'[i[1]], i)
  BY <1>0, <1>6, <1>9 DEF Pooled, SlotShape
<1>17. Pooled'
  BY <1>14, <1>15, <1>16 DEF Pooled
<1> QED BY <1>5, <1>7, <1>13, <1>17

LEMMA CallPool ==
  ASSUME MediaShape, Pool, NEW r \in Requests, NEW s \in Stages, Call(r, s)
  PROVE  Pool' /\ SlotShape'
<1>0. SlotShape /\ Queued /\ PermitsAccounted /\ Pooled
  BY DEF MediaShape, Pool
<1>1. /\ req[r].pc = s /\ r \notin inside[s] /\ req' = req /\ faults' = faults
      /\ \A i \in 1 .. Len(line[s]) : line[s][i] # r
  BY <1>0 DEF Call, Calling, ToSet, SlotShape
<1>2. CASE Enter(r, s) /\ line' = line
  <2>1. /\ PermitsAccounted' /\ Pooled'
        /\ inside' \in [Stages -> SUBSET Requests]
        /\ backlog' \in Seq(JobType) /\ threads' \in SUBSET JobType
    BY <1>1, <1>2, EnterPool
  <2>2. inside' = [inside EXCEPT ![s] = @ \cup {r}]
    BY <1>2 DEF Enter
  <2>3. Queued'
    BY <1>0, <1>1, <1>2, <2>2 DEF Queued, SlotShape
  <2> QED BY <1>0, <1>1, <1>2, <2>1, <2>3 DEF Pool, SlotShape
<1>3. CASE /\ line' = [line EXCEPT ![s] = Append(@, r)]
           /\ UNCHANGED <<inside, backlog, threads>>
  <2>1. \A t \in Stages : line[t] \in Seq(Requests)
    BY <1>0 DEF SlotShape
  <2>2. /\ \A t \in Stages : t # s => line'[t] = line[t]
        /\ line'[s] = Append(line[s], r)
        /\ line' \in [Stages -> Seq(Requests)]
    BY <1>0, <1>3, <2>1 DEF SlotShape
  <2>3. /\ Len(line'[s]) = Len(line[s]) + 1
        /\ \A i \in 1 .. Len(line[s]) : line'[s][i] = line[s][i]
        /\ line'[s][Len(line[s]) + 1] = r
        /\ \A i \in 1 .. Len(line'[s]) :
             i \in 1 .. Len(line[s]) \/ i = Len(line[s]) + 1
    BY <2>1, <2>2, AppendSet
  <2>4. \A t \in Stages : \A q \in inside[t] : req[q].pc = t
    BY <1>0 DEF Queued
  <2>5. \A t \in Stages : \A i \in 1 .. Len(line'[t]) :
          req[line'[t][i]].pc = t /\ line'[t][i] \notin inside[t]
    <3> SUFFICES ASSUME NEW t \in Stages, NEW i \in 1 .. Len(line'[t])
                 PROVE  req[line'[t][i]].pc = t /\ line'[t][i] \notin inside[t]
      OBVIOUS
    <3>1. CASE t = s
      BY <1>0, <1>1, <2>3, <3>1, SMTT(30) DEF Queued
    <3>2. CASE t # s
      BY <1>0, <2>2, <3>2 DEF Queued
    <3> QED BY <3>1, <3>2
  <2>6. \A t \in Stages : \A i, k \in 1 .. Len(line'[t]) :
          line'[t][i] = line'[t][k] => i = k
    <3> SUFFICES ASSUME NEW t \in Stages, NEW i \in 1 .. Len(line'[t]),
                        NEW k \in 1 .. Len(line'[t]), line'[t][i] = line'[t][k]
                 PROVE  i = k
      OBVIOUS
    <3>1. CASE t = s
      BY <1>0, <1>1, <2>3, <3>1 DEF Queued
    <3>2. CASE t # s
      BY <1>0, <2>2, <3>2 DEF Queued
    <3> QED BY <3>1, <3>2
  <2>7. Queued'
    BY <1>1, <1>3, <2>4, <2>5, <2>6 DEF Queued
  <2>8. PermitsAccounted'
    BY <1>0, <1>1, <1>3 DEF PermitsAccounted, Awaited, Place
  <2>9. Pooled'
    BY <1>0, <1>1, <1>3 DEF Pooled, Awaited, Place
  <2> QED BY <1>0, <1>1, <1>3, <2>2, <2>7, <2>8, <2>9 DEF Pool, SlotShape
<1> QED BY <1>2, <1>3 DEF Call

LEMMA AcquirePool ==
  ASSUME MediaShape, Pool, NEW r \in Requests, NEW s \in Stages, Acquire(r, s)
  PROVE  Pool' /\ SlotShape'
<1>0. SlotShape /\ Queued /\ PermitsAccounted /\ Pooled
  BY DEF MediaShape, Pool
<1>1. /\ line[s] \in Seq(Requests) /\ line[s] # <<>> /\ Head(line[s]) = r
      /\ line' = [line EXCEPT ![s] = Tail(@)] /\ Enter(r, s)
      /\ req' = req /\ faults' = faults
  BY <1>0 DEF Acquire, SlotShape
<1>2. 1 \in 1 .. Len(line[s]) /\ line[s][1] = r
  BY <1>1
<1>3. req[r].pc = s /\ r \notin inside[s]
  BY <1>0, <1>2 DEF Queued
<1>4. /\ PermitsAccounted' /\ Pooled'
      /\ inside' \in [Stages -> SUBSET Requests]
      /\ backlog' \in Seq(JobType) /\ threads' \in SUBSET JobType
  BY <1>1, <1>3, EnterPool
<1>5. inside' = [inside EXCEPT ![s] = @ \cup {r}]
  BY <1>1 DEF Enter
<1>6. /\ \A t \in Stages : t # s => line'[t] = line[t]
      /\ line' \in [Stages -> Seq(Requests)]
      /\ line'[s] = Tail(line[s])
  BY <1>0, <1>1 DEF SlotShape
<1>7. \A i \in 1 .. Len(line'[s]) :
        i + 1 \in 1 .. Len(line[s]) /\ line'[s][i] = line[s][i + 1] /\ i + 1 # 1
  BY <1>1, <1>6
<1>8. \A t \in Stages : \A q \in inside'[t] : req[q].pc = t
  BY <1>0, <1>3, <1>5 DEF Queued, SlotShape
<1>9. \A t \in Stages : \A i \in 1 .. Len(line'[t]) :
        req[line'[t][i]].pc = t /\ line'[t][i] \notin inside'[t]
  <2> SUFFICES ASSUME NEW t \in Stages, NEW i \in 1 .. Len(line'[t])
               PROVE  req[line'[t][i]].pc = t /\ line'[t][i] \notin inside'[t]
    OBVIOUS
  <2>1. CASE t = s
    <3>1. line'[t][i] # r
      BY <1>0, <1>2, <1>7, <2>1 DEF Queued
    <3> QED BY <1>0, <1>5, <1>7, <2>1, <3>1, SMTT(30) DEF Queued, SlotShape
  <2>2. CASE t # s
    BY <1>0, <1>5, <1>6, <2>2 DEF Queued, SlotShape
  <2> QED BY <2>1, <2>2
<1>10. \A t \in Stages : \A i, k \in 1 .. Len(line'[t]) :
         line'[t][i] = line'[t][k] => i = k
  <2> SUFFICES ASSUME NEW t \in Stages, NEW i \in 1 .. Len(line'[t]),
                      NEW k \in 1 .. Len(line'[t]), line'[t][i] = line'[t][k]
               PROVE  i = k
    OBVIOUS
  <2>1. CASE t = s
    <3>1. i + 1 = k + 1
      BY <1>0, <1>7, <2>1 DEF Queued
    <3> QED BY <3>1
  <2>2. CASE t # s
    BY <1>0, <1>6, <2>2 DEF Queued
  <2> QED BY <2>1, <2>2
<1>11. Queued'
  BY <1>1, <1>8, <1>9, <1>10 DEF Queued
<1> QED BY <1>0, <1>1, <1>4, <1>6, <1>11 DEF Pool, SlotShape

LEMMA RemoveFirstIs ==
  ASSUME NEW J, NEW q \in Seq(J), NEW m \in 1 .. Len(q),
         \A k \in 1 .. Len(q) : q[k] = q[m] => k = m
  PROVE  RemoveFirst(q, q[m]) = SubSeq(q, 1, m - 1) \o SubSeq(q, m + 1, Len(q))
<1> DEFINE I == {i \in 1 .. Len(q) : q[i] = q[m]}
<1>1. I = {m} /\ m \in Nat
  OBVIOUS
<1>2. Min(I) = m
  BY <1>1, MinIs
<1>3. SelectInSeq(q, LAMBDA v : v = q[m]) = m
  BY <1>1, <1>2 DEF SelectInSeq
<1> QED BY <1>3 DEF RemoveFirst, RemoveAt

\* A withdrawn job is gone, the others stay in their order.
LEMMA WithdrawIs ==
  ASSUME NEW J, NEW q \in Seq(J), NEW j,
         \A i, k \in 1 .. Len(q) : q[i] = q[k] => i = k
  PROVE  LET b == RemoveFirst(q, j)
         IN  /\ b \in Seq(J)
             /\ \A i \in 1 .. Len(b) :
                  b[i] # j /\ \E k \in 1 .. Len(q) : b[i] = q[k]
             /\ \A k \in 1 .. Len(q) :
                  q[k] = j \/ \E i \in 1 .. Len(b) : b[i] = q[k]
             /\ \A i, k \in 1 .. Len(b) : b[i] = b[k] => i = k
<1> DEFINE b == RemoveFirst(q, j)
<1>1. CASE \E i \in 1 .. Len(q) : q[i] = j
  <2>1. PICK m \in 1 .. Len(q) : q[m] = j
    BY <1>1
  <2>2. b = SubSeq(q, 1, m - 1) \o SubSeq(q, m + 1, Len(q))
    BY <2>1, RemoveFirstIs
  <2> HIDE DEF b
  <2>3. /\ b \in Seq(J) /\ Len(b) = Len(q) - 1
        /\ \A i \in 1 .. Len(b) : b[i] = q[IF i < m THEN i ELSE i + 1]
    <3> DEFINE x == SubSeq(q, 1, m - 1)
               y == SubSeq(q, m + 1, Len(q))
    <3>1. /\ x \in Seq(J) /\ Len(x) = m - 1
          /\ \A i \in 1 .. m - 1 : x[i] = q[i]
      OBVIOUS
    <3>2. /\ y \in Seq(J) /\ Len(y) = Len(q) - m
          /\ \A i \in 1 .. Len(q) - m : y[i] = q[m + i]
      OBVIOUS
    <3> HIDE DEF x, y
    <3>3. b = x \o y
      BY <2>2 DEF x, y
    <3>4. b \in Seq(J) /\ Len(b) = Len(q) - 1
      BY <3>1, <3>2, <3>3
    <3>5. ASSUME NEW i \in 1 .. Len(b)
          PROVE  b[i] = q[IF i < m THEN i ELSE i + 1]
      <4>1. CASE i < m
        <5>1. i \in 1 .. m - 1 /\ b[i] = x[i]
          BY <3>1, <3>2, <3>3, <3>4, <4>1
        <5> QED BY <3>1, <4>1, <5>1
      <4>2. CASE ~(i < m)
        <5>1. i - (m - 1) \in 1 .. Len(q) - m /\ b[i] = y[i - (m - 1)]
          BY <3>1, <3>2, <3>3, <3>4, <4>2
        <5>2. m + (i - (m - 1)) = i + 1
          BY <3>4
        <5> QED BY <3>2, <4>2, <5>1, <5>2
      <4> QED BY <4>1, <4>2
    <3> QED BY <3>4, <3>5
  <2>4. \A i \in 1 .. Len(b) : /\ (IF i < m THEN i ELSE i + 1) \in 1 .. Len(q)
                               /\ (IF i < m THEN i ELSE i + 1) # m
    BY <2>3
  <2>5. \A i \in 1 .. Len(b) : b[i] # j /\ \E k \in 1 .. Len(q) : b[i] = q[k]
    BY <2>1, <2>3, <2>4
  <2>6. ASSUME NEW k \in 1 .. Len(q), q[k] # j
        PROVE  \E i \in 1 .. Len(b) : b[i] = q[k]
    <3>1. CASE k < m
      <4>1. k \in 1 .. Len(b) /\ b[k] = q[k]
        BY <2>3, <3>1
      <4> QED BY <4>1
    <3>2. CASE m < k
      <4>1. k - 1 \in 1 .. Len(b) /\ b[k - 1] = q[k]
        BY <2>3, <3>2
      <4> QED BY <4>1
    <3> QED BY <2>1, <2>6, <3>1, <3>2
  <2>7. ASSUME NEW i \in 1 .. Len(b), NEW k \in 1 .. Len(b), b[i] = b[k]
        PROVE  i = k
    <3>1. (IF i < m THEN i ELSE i + 1) = (IF k < m THEN k ELSE k + 1)
      BY <2>3, <2>4, <2>7
    <3> QED BY <3>1
  <2> QED BY <2>3, <2>5, <2>6, <2>7 DEF b
<1>2. CASE ~\E i \in 1 .. Len(q) : q[i] = j
  BY <1>2 DEF RemoveFirst
<1> QED BY <1>1, <1>2

LEMMA EndThreadGoes ==
  ASSUME MediaShape, Queued, \A r \in Requests : Sound(config, req[r]),
         NEW j \in JobType, EndThread(j)
  PROVE  \/ /\ Awaited(j) /\ Goes(j[1]) /\ ~Recorded(req'[j[1]])
            /\ inside' = [inside EXCEPT ![j[3]] = @ \ {j[1]}]
         \/ ~Awaited(j) /\ UNCHANGED <<inside, req>>
<1>0. PICK r \in Requests, s \in Stages : r = j[1] /\ s = j[3]
  BY JobIs
<1>1. CASE /\ Awaited(j) /\ Leave(r, s)
           /\ \/ StageFails(r, s) \/ Conclude(r, s, j[2])
              \/ s = "ocr" /\ Conclude(r, s, NoResult)
  <2>1. r \in Requests /\ s \in Stages /\ j[2] \in Nat \ {0}
    BY JobIs
  <2>2. req[r].pc = s /\ j[2] = Place(r) /\ config' = config
    BY <1>0, <1>1, <2>1 DEF Awaited, Queued, EndThread
  <2>3. j[2] # NoResult
    BY <2>1 DEF NoResult
  <2>7. Goes(r) /\ ~Recorded(req'[r])
    <3>1. CASE StageFails(r, s)
      BY <2>1, <2>2, <3>1, StageFailsGoes
    <3>2. CASE Conclude(r, s, j[2])
      BY <2>1, <2>2, <2>3, <3>2, ConcludeGoes
    <3>3. CASE s = "ocr" /\ Conclude(r, s, NoResult)
      BY <2>1, <2>2, <3>3, ConcludeGoes
    <3> QED BY <1>1, <3>1, <3>2, <3>3
  <2> QED BY <1>0, <1>1, <2>7 DEF Leave
<1>2. CASE ~Awaited(j) /\ UNCHANGED <<inside, req>>
  BY <1>2
<1> QED BY <1>0, <1>1, <1>2 DEF EndThread

LEMMA LeaveLeaves ==
  ASSUME MediaShape, Queued, NEW r \in Requests, NEW s \in Stages,
         r \in inside[s], Goes(r), inside' = [inside EXCEPT ![s] = @ \ {r}],
         line' = line
  PROVE  Leaves(r)
<1>1. SlotShape
  BY DEF MediaShape
<1>2. req[r].pc = s /\ \A t \in Stages : t # s => r \notin inside[t]
  BY DEF Queued
<1>3. inside' \in [Stages -> SUBSET Requests]
  BY <1>1 DEF SlotShape
<1>4. \A t \in Stages : inside'[t] = inside[t] \ {r}
  BY <1>1, <1>2 DEF SlotShape
<1>5. \A t \in Stages : \A i \in 1 .. Len(line[t]) : line[t][i] # r
  BY <1>2 DEF Queued
<1> QED BY <1>3, <1>4, <1>5 DEF Leaves

\* What remains of the pool when a request goes on: jobs of other requests that
\* were awaited still are, and no job of it.
LEMMA PoolShrinks ==
  ASSUME MediaShape, Pool, NEW r \in Requests, Leaves(r), SlotShape',
         \A i \in JobType : i[1] # r /\ i \in threads \cup ToSet(backlog)
                              => i \in threads' \cup ToSet(backlog'),
         \A k \in DOMAIN backlog' : backlog'[k] \in ToSet(backlog),
         \A k \in DOMAIN backlog' : backlog'[k][1] # r,
         Cardinality({i \in threads' : ~Awaited(i)'}) <= faults'
  PROVE  PermitsAccounted'
<1>0. SlotShape /\ Queued /\ PermitsAccounted /\ Pooled
  BY DEF MediaShape, Pool
<1>1. \A s \in Stages : \A q \in inside'[s] :
         <<q, Place(q)', s>> \in threads' \cup ToSet(backlog')
  <2> SUFFICES ASSUME NEW s \in Stages, NEW q \in inside'[s]
               PROVE  <<q, Place(q)', s>> \in threads' \cup ToSet(backlog')
    OBVIOUS
  <2>1. q \in inside[s] /\ q \in Requests /\ q # r
    BY <1>0 DEF Leaves, SlotShape
  <2>2. Place(q)' = Place(q)
    BY <2>1 DEF Leaves, Goes, Place
  <2>3. <<q, Place(q), s>> \in threads \cup ToSet(backlog)
    BY <1>0, <2>1 DEF PermitsAccounted
  <2>4. <<q, Place(q), s>> \in JobType
    BY <1>0, <2>1 DEF JobType, MediaShape, RequestType, Place
  <2> QED BY <2>1, <2>2, <2>3, <2>4
<1>2. \A k \in DOMAIN backlog' : Awaited(backlog[k])'
  <2>1. \A i \in JobType : i \in ToSet(backlog) => Awaited(i)
    BY <1>0, BacklogIs DEF PermitsAccounted
  <2>2. \A i \in JobType : i \in ToSet(backlog) /\ i[1] # r => Awaited(i)'
    BY <1>0, <2>1, LeavesJobs
  <2>3. \A k \in DOMAIN backlog' : backlog'[k] \in JobType
    BY DEF SlotShape
  <2> QED BY <2>2, <2>3
<1> QED BY <1>1, <1>2 DEF PermitsAccounted

LEMMA EndThreadPool ==
  ASSUME MediaShape, Pool, \A r \in Requests : Sound(config, req[r]),
         NEW j \in JobType, EndThread(j)
  PROVE  Pool' /\ SlotShape'
<1>0. SlotShape /\ Queued /\ PermitsAccounted /\ Pooled
  BY DEF MediaShape, Pool
<1>1. /\ j \in threads /\ line' = line /\ faults' = faults
      /\ threads' = (threads \ {j})
                      \cup IF backlog = <<>> THEN {} ELSE {Head(backlog)}
      /\ backlog' = IF backlog = <<>> THEN <<>> ELSE Tail(backlog)
  BY DEF EndThread
<1>2. /\ backlog' \in Seq(JobType) /\ Len(backlog') \in Nat
      /\ \A k \in 1 .. Len(backlog') :
           /\ k + 1 \in 1 .. Len(backlog) /\ backlog'[k] = backlog[k + 1]
           /\ k + 1 # 1
      /\ backlog # <<>> => 1 \in 1 .. Len(backlog) /\ Head(backlog) = backlog[1]
      /\ \A i \in 1 .. Len(backlog) :
           \/ i = 1 /\ backlog # <<>>
           \/ i - 1 \in 1 .. Len(backlog') /\ backlog[i] = backlog'[i - 1]
  <2>1. backlog \in Seq(JobType)
    BY <1>0 DEF SlotShape
  <2>2. CASE backlog = <<>>
    BY <1>1, <2>2
  <2>3. CASE backlog # <<>>
    BY <1>1, <2>1, <2>3
  <2> QED BY <2>2, <2>3
<1>3. /\ ToSet(backlog') = {backlog'[k] : k \in 1 .. Len(backlog')}
      /\ DOMAIN backlog' = 1 .. Len(backlog')
  BY <1>2 DEF ToSet
<1>4. ToSet(backlog) = {backlog[k] : k \in 1 .. Len(backlog)}
      /\ DOMAIN backlog = 1 .. Len(backlog)
      /\ \A k \in 1 .. Len(backlog) : backlog[k] \in JobType
  BY <1>0, BacklogIs
<1>5. threads' \in SUBSET JobType /\ IsFiniteSet(threads')
  <2>1. IsFiniteSet(threads \ {j})
    BY <1>0, FS_RemoveElement DEF Pooled
  <2>2. CASE backlog = <<>>
    BY <1>0, <1>1, <2>1, <2>2 DEF SlotShape
  <2>3. CASE backlog # <<>>
    <3>1. threads' = (threads \ {j}) \cup {backlog[1]} /\ backlog[1] \in JobType
      BY <1>1, <1>2, <1>4, <2>3
    <3> QED BY <1>0, <2>1, <3>1, FS_AddElement DEF SlotShape
  <2> QED BY <2>2, <2>3
<1>6. \A i \in threads' : \/ i \in threads /\ i # j
                          \/ i \in ToSet(backlog) /\ i = backlog[1]
  BY <1>1, <1>2, <1>4
<1>7. \A i : i \in threads \cup ToSet(backlog) /\ i # j
               => i \in threads' \cup ToSet(backlog')
  <2> SUFFICES ASSUME NEW i \in threads \cup ToSet(backlog), i # j
               PROVE  i \in threads' \cup ToSet(backlog')
    OBVIOUS
  <2>1. CASE i \in threads
    BY <1>1, <2>1
  <2>2. CASE i \in ToSet(backlog)
    <3>1. PICK k \in 1 .. Len(backlog) : i = backlog[k]
      BY <1>4, <2>2
    <3>2. CASE k = 1 /\ backlog # <<>>
      BY <1>1, <1>2, <3>1, <3>2
    <3>3. CASE k - 1 \in 1 .. Len(backlog') /\ backlog[k] = backlog'[k - 1]
      BY <1>3, <3>1, <3>3
    <3> QED BY <1>2, <3>2, <3>3
  <2> QED BY <2>1, <2>2
<1>8. \A i \in ToSet(backlog) : Awaited(i) /\ i \in JobType /\ i \notin threads
  BY <1>0, <1>4 DEF PermitsAccounted, Pooled
<1>9. \A k \in 1 .. Len(backlog') :
        /\ backlog'[k] \in ToSet(backlog) /\ backlog'[k] \notin threads'
        /\ \A i \in 1 .. Len(backlog') : backlog'[k] = backlog'[i] => k = i
  <2> SUFFICES ASSUME NEW k \in 1 .. Len(backlog')
               PROVE  /\ backlog'[k] \in ToSet(backlog)
                      /\ backlog'[k] \notin threads'
                      /\ \A i \in 1 .. Len(backlog') :
                           backlog'[k] = backlog'[i] => k = i
    OBVIOUS
  <2>1. backlog'[k] \in ToSet(backlog) /\ k + 1 \in 1 .. Len(backlog)
        /\ backlog'[k] = backlog[k + 1] /\ 1 \in 1 .. Len(backlog)
    BY <1>2, <1>4
  <2>2. backlog'[k] # backlog[1]
    BY <1>0, <1>2, <2>1 DEF Pooled
  <2>3. \A i \in 1 .. Len(backlog') : backlog'[k] = backlog'[i] => k + 1 = i + 1
    BY <1>0, <1>2, <2>1 DEF Pooled
  <2> QED BY <1>6, <1>8, <2>1, <2>2, <2>3
<1>10. CASE ~Awaited(j) /\ UNCHANGED <<inside, req>>
  <2>1. \A i \in JobType : Awaited(i)' <=> Awaited(i)
    BY <1>10 DEF Awaited, Place
  <2>2. SlotShape'
    BY <1>0, <1>1, <1>2, <1>5, <1>10 DEF SlotShape
  <2>3. Queued'
    BY <1>0, <1>1, <1>10 DEF Queued
  <2>4. \A s \in Stages : \A q \in inside'[s] :
          <<q, Place(q)', s>> \in threads' \cup ToSet(backlog')
    <3> SUFFICES ASSUME NEW s \in Stages, NEW q \in inside[s]
                 PROVE  <<q, Place(q), s>> \in threads' \cup ToSet(backlog')
      BY <1>10 DEF Place
    <3>1. <<q, Place(q), s>> # j
      BY <1>10 DEF Awaited
    <3> QED BY <1>0, <1>7, <3>1 DEF PermitsAccounted
  <2>5. \A k \in DOMAIN backlog' : Awaited(backlog[k])'
    <3>1. \A i \in ToSet(backlog) : Awaited(i)'
      BY <1>8, <2>1
    <3> QED BY <1>3, <1>9, <3>1
  <2>6. Cardinality({i \in threads' : ~Awaited(i)'}) <= faults'
    <3> DEFINE S == {i \in threads : ~Awaited(i)}
               T == {i \in threads' : ~Awaited(i)'}
    <3>1. T \subseteq S
      BY <1>5, <1>6, <1>8, <2>1
    <3>2. IsFiniteSet(S)
      BY <1>0, FS_Subset DEF Pooled
    <3>3. Cardinality(S) <= faults /\ faults \in Nat
      BY <1>0 DEF PermitsAccounted, SlotShape
    <3> HIDE DEF S, T
    <3>4. Cardinality(T) <= faults
      BY <3>1, <3>2, <3>3, SmallerCount
    <3> QED BY <1>1, <3>4 DEF T
  <2>7. PermitsAccounted'
    BY <2>4, <2>5, <2>6 DEF PermitsAccounted
  <2>8. \A i \in threads' : Awaited(i)' \/ Past(req'[i[1]], i)
    BY <1>0, <1>5, <1>6, <1>8, <1>10, <2>1 DEF Pooled
  <2>9. Pooled'
    BY <1>5, <1>9, <2>8 DEF Pooled
  <2> QED BY <2>2, <2>3, <2>7, <2>9 DEF Pool
<1>11. CASE /\ Awaited(j) /\ Goes(j[1])
            /\ inside' = [inside EXCEPT ![j[3]] = @ \ {j[1]}]
  <2>0. PICK r \in Requests : r = j[1]
    BY JobIs
  <2>1. Leaves(r)
    BY <1>0, <1>1, <1>11, <2>0, JobIs, LeaveLeaves DEF Awaited
  <2>2. SlotShape'
    BY <1>0, <1>1, <1>2, <1>5, <2>1 DEF SlotShape, Leaves
  <2>3. Queued'
    BY <1>0, <2>1, LeavesQueued
  <2>4. \A i \in JobType : Awaited(i) /\ i[1] = r => i = j
    <3>1. j = <<r, Place(r), j[3]>> /\ req[r].pc = j[3]
      BY <1>0, <1>11, <2>0, <2>1, LeavesJobs
    <3> QED BY <1>0, <2>1, <3>1, LeavesJobs
  <2>5. \A i \in ToSet(backlog) : i[1] # r
    BY <1>1, <1>8, <2>4
  <2>6. \A i \in JobType : Awaited(i) /\ i # j => Awaited(i)'
    BY <1>0, <2>1, <2>4, LeavesJobs
  <2>7. Cardinality({i \in threads' : ~Awaited(i)'}) <= faults'
    <3> DEFINE S == {i \in threads : ~Awaited(i)}
               T == {i \in threads' : ~Awaited(i)'}
    <3>1. T \subseteq S
      BY <1>1, <1>5, <1>6, <1>8, <2>6
    <3>2. IsFiniteSet(S)
      BY <1>0, FS_Subset DEF Pooled
    <3>3. Cardinality(S) <= faults /\ faults \in Nat
      BY <1>0 DEF PermitsAccounted, SlotShape
    <3> HIDE DEF S, T
    <3>4. Cardinality(T) <= faults
      BY <3>1, <3>2, <3>3, SmallerCount
    <3> QED BY <1>1, <3>4 DEF T
  <2>8. PermitsAccounted'
    BY <1>3, <1>7, <1>9, <2>0, <2>1, <2>2, <2>5, <2>7, PoolShrinks
  <2>9. \A i \in threads' : Awaited(i)' \/ Past(req'[i[1]], i)
    <3> SUFFICES ASSUME NEW i \in threads' PROVE Awaited(i)' \/ Past(req'[i[1]], i)
      OBVIOUS
    <3>1. i \in JobType /\ i # j
      BY <1>1, <1>5, <1>6, <1>8
    <3>2. Awaited(i) \/ Past(req[i[1]], i)
      BY <1>0, <1>6, <1>8 DEF Pooled
    <3>3. Past(req[i[1]], i) => Past(req'[i[1]], i)
      BY <1>0, <2>1, <3>1, LeavesJobs
    <3> QED BY <2>6, <3>1, <3>2, <3>3
  <2>10. Pooled'
    BY <1>5, <1>9, <2>9 DEF Pooled
  <2> QED BY <2>2, <2>3, <2>8, <2>10 DEF Pool
<1> QED BY <1>0, <1>10, <1>11, EndThreadGoes

LEMMA TimeOutGoes ==
  ASSUME MediaShape, Queued, NEW r \in Requests, Sound(config, req[r]),
         NEW s \in Stages, TimeOut(r, s)
  PROVE  Goes(r) /\ ~Recorded(req'[r]) /\ req[r].pc = s
<1>1. req[r].pc = s /\ config' = config /\ StageFails(r, s)
  BY DEF TimeOut, Queued
<1> QED BY <1>1, StageFailsGoes

LEMMA TimeOutPool ==
  ASSUME MediaShape, Pool, NEW r \in Requests, Sound(config, req[r]),
         NEW s \in Stages, TimeOut(r, s)
  PROVE  Pool' /\ SlotShape'
<1>0. SlotShape /\ Queued /\ PermitsAccounted /\ Pooled
  BY DEF MediaShape, Pool
<1>p. req[r] \in RequestType /\ Place(r) \in Nat \ {0}
  BY DEF MediaShape, RequestType, Place
<1>1. PICK j \in JobType : j = <<r, Place(r), s>>
  BY <1>p DEF JobType
<1>2. /\ r \in inside[s] /\ inside' = [inside EXCEPT ![s] = @ \ {r}]
      /\ backlog' = RemoveFirst(backlog, j) /\ line' = line
      /\ threads' = threads /\ faults' = faults + 1
  BY <1>1 DEF TimeOut, Fault, Leave, Withdraw
<1>3. Goes(r) /\ req[r].pc = s
  BY <1>0, TimeOutGoes
<1>4. Leaves(r)
  BY <1>0, <1>2, <1>3, LeaveLeaves
<1>5. /\ backlog' \in Seq(JobType)
      /\ \A i \in 1 .. Len(backlog') : backlog'[i] # j
      /\ \A i \in 1 .. Len(backlog') : \E k \in 1 .. Len(backlog) :
           backlog'[i] = backlog[k]
      /\ \A k \in 1 .. Len(backlog) :
           backlog[k] = j \/ \E i \in 1 .. Len(backlog') : backlog'[i] = backlog[k]
      /\ \A i, k \in 1 .. Len(backlog') : backlog'[i] = backlog'[k] => i = k
  <2>1. /\ backlog \in Seq(JobType)
        /\ \A i, k \in 1 .. Len(backlog) : backlog[i] = backlog[k] => i = k
    BY <1>0 DEF SlotShape, Pooled
  <2> DEFINE b == RemoveFirst(backlog, j)
  <2>2. /\ b \in Seq(JobType)
        /\ \A i \in 1 .. Len(b) :
             b[i] # j /\ \E k \in 1 .. Len(backlog) : b[i] = backlog[k]
        /\ \A k \in 1 .. Len(backlog) :
             backlog[k] = j \/ \E i \in 1 .. Len(b) : b[i] = backlog[k]
        /\ \A i, k \in 1 .. Len(b) : b[i] = b[k] => i = k
    BY <2>1, WithdrawIs, SMTT(30)
  <2> HIDE DEF b
  <2>3. backlog' = b
    BY <1>2 DEF b
  <2> QED BY <2>2, <2>3
<1>6. /\ ToSet(backlog) = {backlog[k] : k \in 1 .. Len(backlog)}
      /\ ToSet(backlog') = {backlog'[k] : k \in 1 .. Len(backlog')}
      /\ DOMAIN backlog' = 1 .. Len(backlog')
  <2>1. DOMAIN backlog' = 1 .. Len(backlog')
    BY <1>5
  <2>2. ToSet(backlog') = {backlog'[k] : k \in 1 .. Len(backlog')}
    BY <2>1 DEF ToSet
  <2> QED BY <1>0, <2>1, <2>2, BacklogIs
<1>7. SlotShape'
  BY <1>0, <1>2, <1>4, <1>5 DEF SlotShape, Leaves
<1>8. Queued'
  BY <1>0, <1>4, LeavesQueued
<1>9. \A i \in JobType : Awaited(i) /\ i[1] = r => i = j
  BY <1>0, <1>1, <1>3, <1>4, LeavesJobs
<1>10. \A i \in JobType : Awaited(i) /\ i # j => Awaited(i)'
  BY <1>0, <1>4, <1>9, LeavesJobs
<1>11. \A i \in ToSet(backlog) : i \in JobType /\ Awaited(i) /\ i \notin threads
  BY <1>0, <1>6, BacklogIs DEF PermitsAccounted, Pooled
<1>12. \A k \in 1 .. Len(backlog') : /\ backlog'[k] \in ToSet(backlog)
                                     /\ backlog'[k][1] # r
                                     /\ backlog'[k] \notin threads'
  BY <1>2, <1>5, <1>6, <1>9, <1>11
<1>13. Cardinality({i \in threads' : ~Awaited(i)'}) <= faults'
  <2> DEFINE S == {i \in threads : ~Awaited(i)}
             U == S \cup {j}
             T == {i \in threads' : ~Awaited(i)'}
  <2>1. T \subseteq U
    BY <1>0, <1>2, <1>10 DEF SlotShape
  <2>2. IsFiniteSet(S)
    BY <1>0, FS_Subset DEF Pooled
  <2>3. Cardinality(S) <= faults /\ faults \in Nat
    BY <1>0 DEF PermitsAccounted, SlotShape
  <2> HIDE DEF S, T
  <2>4. IsFiniteSet(U) /\ Cardinality(U) <= faults + 1
    <3>1. /\ IsFiniteSet(S \cup {j}) /\ Cardinality(S) \in Nat
          /\ \/ Cardinality(S \cup {j}) = Cardinality(S)
             \/ Cardinality(S \cup {j}) = Cardinality(S) + 1
      BY <2>2, FS_AddElement, FS_CardinalityType
    <3> QED BY <2>3, <3>1
  <2> HIDE DEF U
  <2>5. Cardinality(T) <= faults + 1
    BY <2>1, <2>3, <2>4, SmallerCount
  <2> QED BY <1>2, <2>5 DEF T
<1>14. PermitsAccounted'
  <2>1. \A i \in JobType : i[1] # r /\ i \in threads \cup ToSet(backlog)
                             => i \in threads' \cup ToSet(backlog')
    <3>1. j[1] = r
      BY <1>1
    <3> QED BY <1>2, <1>5, <1>6, <3>1
  <2> QED BY <1>4, <1>6, <1>7, <1>12, <1>13, <2>1, PoolShrinks
<1>15. \A i \in threads' : Awaited(i)' \/ Past(req'[i[1]], i)
  <2> SUFFICES ASSUME NEW i \in threads PROVE Awaited(i)' \/ Past(req'[i[1]], i)
    BY <1>2
  <2>1. i \in JobType /\ (Awaited(i) \/ Past(req[i[1]], i))
    BY <1>0 DEF Pooled, SlotShape
  <2> QED BY <1>0, <1>4, <2>1, LeavesJobs
<1>16. Pooled'
  BY <1>0, <1>2, <1>5, <1>12, <1>15 DEF Pooled
<1> QED BY <1>7, <1>8, <1>14, <1>16 DEF Pool

LEMMA CrashPool ==
  ASSUME MediaShape, Crash
  PROVE  Pool' /\ SlotShape'
<1>1. /\ line' = [s \in Stages |-> <<>>] /\ inside' = [s \in Stages |-> {}]
      /\ backlog' = <<>> /\ threads' = {} /\ faults' = faults + 1
      /\ faults \in Nat
  BY DEF Crash, Fault, MediaShape, SlotShape
<1>2. SlotShape' /\ Queued'
  BY <1>1 DEF SlotShape, Queued
<1>3. {j \in threads' : ~Awaited(j)'} = {} /\ DOMAIN backlog' = {}
  BY <1>1
<1>4. PermitsAccounted'
  BY <1>1, <1>3, FS_EmptySet DEF PermitsAccounted
<1>5. Pooled'
  BY <1>1, FS_EmptySet DEF Pooled
<1> QED BY <1>2, <1>4, <1>5 DEF Pool

-----------------------------------------------------------------------------
(* The stored rows                                                         *)

Stored == StoreShape /\ EventsKnown /\ StoredSoFar /\ NoOrphanResults

\* What request r records is what it recorded before.
SameRecord(r) ==
  /\ Recorded(req[r]) /\ req'[r].todo = req[r].todo
  /\ req'[r].analyses = req[r].analyses /\ req'[r].event = req[r].event

LEMMA StatementsSame ==
  ASSUME NEW r \in Requests, req'[r].analyses = req[r].analyses
  PROVE  Statements(r)' = Statements(r)
BY DEF Statements

\* No rows change, and no request begins to record.
LEMMA StoreStays ==
  ASSUME Stored, UNCHANGED <<event, events, attachment, result>>,
         \A r \in Requests : Recorded(req'[r]) => SameRecord(r)
  PROVE  Stored'
<1>1. StoreShape' /\ NoOrphanResults'
  BY DEF Stored, StoreShape, NoOrphanResults
<1>2. EventsKnown'
  BY DEF Stored, EventsKnown, SameRecord
<1>3. \A m, p : IsStored(m, p)' <=> IsStored(m, p)
  BY DEF IsStored
<1>4. ASSUME NEW r \in Requests, Recorded(req'[r])
      PROVE  /\ req'[r].todo \subseteq Statements(r)'
             /\ Referenced(r)' => \A p \in Statements(r)' \ req'[r].todo :
                                    IsStored(About[r], p)'
  <2>1. SameRecord(r) /\ Statements(r)' = Statements(r)
    BY <1>4, StatementsSame DEF SameRecord
  <2>2. Referenced(r)' <=> Referenced(r)
    BY <2>1 DEF Referenced, SameRecord
  <2> QED BY <1>3, <2>1, <2>2 DEF Stored, StoredSoFar, SameRecord
<1>5. StoredSoFar'
  BY <1>4 DEF StoredSoFar
<1> QED BY <1>1, <1>2, <1>5 DEF Stored

\* Events past their retention are deleted with their rows, and those created
\* are new; who begins to record has everything still to store.
LEMMA PurgeStore ==
  ASSUME Stored, Purge, event' \in [Messages -> Nat],
         events' \in {events, events + 1},
         \A m \in Messages :
           /\ event'[m] <= events'
           /\ \/ event'[m] = Unpurged[m]
              \/ Unpurged[m] = NoEvent /\ event'[m] = events + 1,
         \A r \in Requests : Recorded(req'[r]) =>
           \/ SameRecord(r)
           \/ /\ req'[r].todo = Statements(r)'
              /\ req'[r].event \in 1 .. events'
  PROVE  Stored'
<1>0. StoreShape /\ EventsKnown /\ StoredSoFar /\ NoOrphanResults
      /\ events \in Nat /\ events' \in Nat
  BY DEF Stored, StoreShape
<1>1. /\ attachment' = [m \in Messages |-> IF m \in due THEN NoRows
                                                       ELSE attachment[m]]
      /\ result' = [m \in Messages |-> IF m \in due THEN NoResults
                                                    ELSE result[m]]
  BY DEF Purge
<1>2. StoreShape'
  <2>1. NoRows \in [Places -> Clients]
        /\ NoResults \in [Places -> [Stages -> Clients]]
    BY DEF NoRows, NoResults, Clients
  <2> QED BY <1>0, <1>1, <2>1 DEF StoreShape
<1>3. NoOrphanResults'
  <2> SUFFICES ASSUME NEW m \in Messages, NEW k \in Places, NEW s \in Stages,
                      result'[m][k][s] # Nobody
               PROVE  attachment'[m][k] # Nobody
    BY DEF NoOrphanResults
  <2>1. m \notin due
    BY <1>1 DEF NoResults
  <2> QED BY <1>0, <1>1, <2>1 DEF NoOrphanResults
<1>4. EventsKnown'
  <2>1. \A r \in Requests : Recorded(req'[r]) => req'[r].event \in 1 .. events'
    BY <1>0 DEF EventsKnown, SameRecord
  <2> QED BY <2>1 DEF EventsKnown
<1>5. ASSUME NEW r \in Requests, Recorded(req'[r])
      PROVE  /\ req'[r].todo \subseteq Statements(r)'
             /\ Referenced(r)' => \A p \in Statements(r)' \ req'[r].todo :
                                    IsStored(About[r], p)'
  <2>1. CASE req'[r].todo = Statements(r)'
    BY <2>1
  <2>2. CASE SameRecord(r)
    <3>1. /\ Statements(r)' = Statements(r) /\ req'[r].todo = req[r].todo
          /\ req[r].todo \subseteq Statements(r) /\ Recorded(req[r])
      BY <1>0, <2>2, StatementsSame DEF SameRecord, StoredSoFar
    <3>2. ASSUME Referenced(r)', NEW p \in Statements(r) \ req[r].todo
          PROVE  IsStored(About[r], p)'
      <4> DEFINE m == About[r]
      <4>1. m \in Messages /\ event'[m] = req[r].event
            /\ req[r].event \in 1 .. events
        BY <1>0, <2>2, <3>1, <3>2, AboutAssumption
           DEF Referenced, SameRecord, EventsKnown
      <4>2. Unpurged[m] = event'[m] /\ event'[m] # NoEvent
        BY <1>0, <4>1 DEF NoEvent
      <4>3. m \notin due /\ event[m] = event'[m]
        BY <4>1, <4>2 DEF Unpurged
      <4>4. IsStored(m, p)
        BY <1>0, <3>1, <3>2, <4>1, <4>3 DEF StoredSoFar, Referenced
      <4>5. attachment'[m] = attachment[m] /\ result'[m] = result[m]
        BY <1>1, <4>1, <4>3
      <4> QED BY <4>4, <4>5 DEF IsStored
    <3> QED BY <3>1, <3>2
  <2> QED BY <1>5, <2>1, <2>2
<1>6. StoredSoFar'
  BY <1>5 DEF StoredSoFar
<1> QED BY <1>2, <1>3, <1>4, <1>6 DEF Stored

\* The event a decision commits.
LEMMA DecideEvent ==
  ASSUME Stored, NEW m \in Messages,
         event' = [Unpurged EXCEPT ![m] = Upserted(m)],
         events' = IF event'[m] > events THEN events + 1 ELSE events
  PROVE  /\ event' \in [Messages -> Nat] /\ events' \in {events, events + 1}
         /\ event'[m] \in 1 .. events'
         /\ \A k \in Messages :
              /\ event'[k] <= events'
              /\ \/ event'[k] = Unpurged[k]
                 \/ Unpurged[k] = NoEvent /\ event'[k] = events + 1
<1>0. /\ event \in [Messages -> Nat] /\ events \in Nat
      /\ \A k \in Messages : event[k] <= events
  BY DEF Stored, StoreShape, EventsKnown
<1>1. /\ Unpurged \in [Messages -> Nat]
      /\ \A k \in Messages : Unpurged[k] <= events
  BY <1>0 DEF Unpurged, NoEvent
<1>2. /\ Upserted(m) \in 1 .. events + 1
      /\ \/ Upserted(m) = Unpurged[m]
         \/ Unpurged[m] = NoEvent /\ Upserted(m) = events + 1
  BY <1>0, <1>1 DEF Upserted, NoEvent
<1> HIDE DEF Unpurged
<1>3. /\ event' \in [Messages -> Nat] /\ event'[m] = Upserted(m)
      /\ \A k \in Messages : k # m => event'[k] = Unpurged[k]
  BY <1>0, <1>1, <1>2
<1>4. \/ Upserted(m) = events + 1 /\ events' = events + 1
      \/ Upserted(m) \in 1 .. events /\ events' = events
  BY <1>0, <1>2, <1>3
<1> QED BY <1>0, <1>1, <1>2, <1>3, <1>4

LEMMA DecideStore ==
  ASSUME MediaShape, Stored, NEW r \in Requests, Sound(config, req[r]), Decide(r)
  PROVE  Stored' /\ Goes(r)
<1>0. About[r] \in Messages
  BY AboutAssumption
<1>1. CASE UNCHANGED store /\ Abort(r, "unavailable")
  <2>1. /\ UNCHANGED <<event, events, attachment, result>>
        /\ event' \in [Messages -> Nat]
    BY <1>1 DEF store, Stored, StoreShape
  <2>2. Goes(r) /\ ~Recorded(req'[r])
    <3>1. req[r].pc = "decide" /\ config' = config
      BY DEF Decide
    <3> QED BY <1>1, <3>1, AbortGoes DEF Answers
  <2>3. \A q \in Requests : Recorded(req'[q]) => SameRecord(q)
    BY <2>2 DEF Goes, SameRecord
  <2> QED BY <2>1, <2>2, <2>3, StoreStays
<1>2. CASE /\ Purge
           /\ event' = [Unpurged EXCEPT ![About[r]] = Upserted(About[r])]
           /\ events' = IF event'[About[r]] > events THEN events + 1 ELSE events
  <2>1. /\ event' \in [Messages -> Nat] /\ events' \in {events, events + 1}
        /\ event'[About[r]] \in 1 .. events'
        /\ \A k \in Messages :
             /\ event'[k] <= events'
             /\ \/ event'[k] = Unpurged[k]
                \/ Unpurged[k] = NoEvent /\ event'[k] = events + 1
    BY <1>0, <1>2, DecideEvent
  <2>2. /\ Goes(r)
        /\ Recorded(req'[r]) =>
             /\ req'[r].todo = Statements(r)
             /\ req'[r].analyses = req[r].analyses
             /\ req'[r].event = event'[About[r]]
    BY <2>1, DecideGoes
  <2>3. \A q \in Requests \ {r} : Recorded(req'[q]) => SameRecord(q)
    BY <2>2 DEF Goes, SameRecord
  <2>4. Recorded(req'[r]) => /\ req'[r].todo = Statements(r)'
                             /\ req'[r].event \in 1 .. events'
    BY <2>1, <2>2, StatementsSame
  <2>5. Stored'
    BY <1>2, <2>1, <2>3, <2>4, PurgeStore
  <2> QED BY <2>2, <2>5
<1> QED BY <1>1, <1>2 DEF Decide

LEMMA TextStore ==
  ASSUME Stored, ModerateText
  PROVE  Stored'
<1>1. /\ Purge /\ event' = Unpurged /\ events' = events /\ req' = req
  BY DEF ModerateText
<1>2. /\ Unpurged \in [Messages -> Nat]
      /\ \A k \in Messages : Unpurged[k] <= events
  BY DEF Unpurged, NoEvent, Stored, StoreShape, EventsKnown
<1>3. \A q \in Requests : Recorded(req'[q]) => SameRecord(q)
  BY <1>1 DEF SameRecord
<1> QED BY <1>1, <1>2, <1>3, PurgeStore

LEMMA StatementsPlaces ==
  ASSUME MediaShape, NEW r \in Requests, Sound(config, req[r])
  PROVE  Statements(r) \subseteq Places \X Tables
<1>1. Len(req[r].analyses) \in Nat /\ Len(req[r].analyses) <= MaxAttachments
      /\ req[r] \in RequestType
  BY LimitAssumption DEF MediaShape, Sound, Progress, RequestType
<1>2. 1 .. Len(req[r].analyses) \subseteq Places
  BY <1>1, LimitAssumption DEF Places
<1> QED BY <1>1, <1>2, StatementsType

LEMMA SaveStore ==
  ASSUME MediaShape, Stored, NEW r \in Requests, Save(r),
         \A q \in Requests : Sound(config, req[q])
  PROVE  Stored' /\ Goes(r)
<1>0. StoreShape /\ EventsKnown /\ StoredSoFar /\ NoOrphanResults
  BY DEF Stored
<1>1. PICK p \in req[r].todo :
         /\ \A q \in req[r].todo : Before(p, q)
         /\ Upsert(About[r], p[1], p[2], r)
         /\ Become(r, [req[r] EXCEPT !.todo = @ \ {p}])
  BY DEF Save
<1>2. /\ req[r].pc = "save" /\ Referenced(r) /\ config' = config
      /\ UNCHANGED <<event, events>> /\ req[r] \in RequestType
  BY DEF Save, Saving, MediaShape
<1>3. /\ Goes(r) /\ req'[r].todo = req[r].todo \ {p}
      /\ req'[r].event = req[r].event /\ req'[r].analyses = req[r].analyses
  BY <1>1, <1>2, SaveGoes
<1> DEFINE m == About[r]
<1>4. m \in Messages /\ r \in Clients /\ r # Nobody
  BY AboutAssumption DEF Clients
<1>5. /\ Recorded(req[r]) /\ req[r].todo \subseteq Statements(r)
      /\ \A q \in Statements(r) \ req[r].todo : IsStored(m, q)
  BY <1>0, <1>2 DEF Recorded, StoredSoFar
<1>6. Statements(r) \subseteq Places \X Tables
  BY StatementsPlaces
<1>7. PICK k \in Places, t \in Tables : p = <<k, t>>
  BY <1>5, <1>6
<1> HIDE DEF m
<1>8. \/ /\ t = "attachment" /\ attachment' = [attachment EXCEPT ![m][k] = r]
         /\ result' = result
      \/ /\ t \in Stages /\ result' = [result EXCEPT ![m][k][t] = r]
         /\ attachment' = attachment
  BY <1>1, <1>7 DEF Upsert, m
<1>a. /\ attachment \in [Messages -> [Places -> Clients]]
      /\ result \in [Messages -> [Places -> [Stages -> Clients]]]
  BY <1>0 DEF StoreShape
<1>b. /\ attachment' \in [Messages -> [Places -> Clients]]
      /\ \A a \in Messages, b \in Places :
           attachment'[a][b] # attachment[a][b] => attachment'[a][b] = r
  <2>1. CASE attachment' = [attachment EXCEPT ![m][k] = r]
    <3>1. attachment[m] \in [Places -> Clients]
      BY <1>4, <1>a
    <3>2. attachment' = [attachment EXCEPT ![m] = [attachment[m] EXCEPT ![k] = r]]
      BY <2>1
    <3> QED BY <1>4, <1>7, <1>a, <3>1, <3>2
  <2> QED BY <1>8, <1>a, <2>1
<1>c. /\ result' \in [Messages -> [Places -> [Stages -> Clients]]]
      /\ \A a \in Messages, b \in Places, c \in Stages :
           result'[a][b][c] # result[a][b][c] => result'[a][b][c] = r
  <2>1. CASE t \in Stages /\ result' = [result EXCEPT ![m][k][t] = r]
    <3> DEFINE x == [result[m][k] EXCEPT ![t] = r]
               y == [result[m] EXCEPT ![k] = x]
    <3>1. result[m] \in [Places -> [Stages -> Clients]]
          /\ result[m][k] \in [Stages -> Clients]
      BY <1>4, <1>7, <1>a
    <3>2. result' = [result EXCEPT ![m] = y]
      BY <2>1
    <3>3. x \in [Stages -> Clients]
          /\ \A c \in Stages : x[c] = r \/ x[c] = result[m][k][c]
      BY <1>4, <2>1, <3>1
    <3> HIDE DEF x
    <3>4. y \in [Places -> [Stages -> Clients]]
          /\ \A b \in Places, c \in Stages :
               y[b][c] = r \/ y[b][c] = result[m][b][c]
      BY <1>7, <3>1, <3>3
    <3> HIDE DEF y
    <3> QED BY <1>4, <1>a, <3>2, <3>4
  <2> QED BY <1>8, <1>a, <2>1
<1>9. StoreShape'
  BY <1>0, <1>2, <1>b, <1>c DEF StoreShape
<1>10. IsStored(m, p)'
  <2>1. CASE t = "attachment" /\ attachment' = [attachment EXCEPT ![m][k] = r]
    BY <1>0, <1>4, <1>7, <2>1 DEF StoreShape, IsStored
  <2>2. CASE t \in Stages /\ result' = [result EXCEPT ![m][k][t] = r]
    BY <1>0, <1>4, <1>7, <2>2 DEF StoreShape, IsStored, Stages
  <2> QED BY <1>8, <2>1, <2>2
<1>11. \A a \in Messages, b \in Places :
         attachment[a][b] # Nobody => attachment'[a][b] # Nobody
  BY <1>4, <1>b
<1>12. \A a \in Messages, b \in Places, c \in Stages :
         result[a][b][c] # Nobody => result'[a][b][c] # Nobody
  BY <1>4, <1>c
<1>13. NoOrphanResults'
  <2> SUFFICES ASSUME NEW a \in Messages, NEW b \in Places, NEW c \in Stages,
                      result'[a][b][c] # Nobody
               PROVE  attachment'[a][b] # Nobody
    BY DEF NoOrphanResults
  <2>1. CASE result[a][b][c] # Nobody
    BY <1>0, <1>11, <2>1 DEF NoOrphanResults
  <2>2. CASE result[a][b][c] = Nobody
    <3>1. a = m /\ b = k /\ c = t /\ t \in Stages
      BY <1>0, <1>4, <1>7, <1>8, <2>2 DEF StoreShape
    <3> DEFINE q == <<k, "attachment">>
    <3>2. q \in Statements(r)
      BY <1>5, <1>7 DEF Statements
    <3>3. ~Before(p, q)
      BY <1>7, <3>1 DEF Before, Stages, Places
    <3>4. IsStored(m, q)
      BY <1>1, <1>5, <3>2, <3>3
    <3>5. attachment[m][k] # Nobody
      BY <3>4 DEF IsStored
    <3> QED BY <1>4, <1>7, <1>11, <3>1, <3>5
  <2> QED BY <2>1, <2>2
<1>14. ASSUME NEW q \in Requests, Recorded(req'[q])
       PROVE  /\ Recorded(req[q]) /\ req'[q].event = req[q].event
              /\ Statements(q)' = Statements(q)
              /\ req'[q].todo = req[q].todo \ {p} \/ req'[q].todo = req[q].todo
              /\ req'[q].todo # req[q].todo => q = r
  <2>1. CASE q = r
    BY <1>3, <1>5, <2>1, StatementsSame
  <2>2. CASE q # r
    <3>1. req'[q] = req[q]
      BY <1>3, <2>2 DEF Goes
    <3> QED BY <1>14, <3>1, StatementsSame
  <2> QED BY <2>1, <2>2
<1>15. EventsKnown'
  BY <1>0, <1>2, <1>14 DEF EventsKnown
<1>16. ASSUME NEW q \in Requests, Recorded(req'[q])
       PROVE  /\ req'[q].todo \subseteq Statements(q)'
              /\ Referenced(q)' => \A x \in Statements(q)' \ req'[q].todo :
                                     IsStored(About[q], x)'
  <2>1. /\ req[q].todo \subseteq Statements(q)
        /\ Referenced(q) => \A x \in Statements(q) \ req[q].todo :
                              IsStored(About[q], x)
    BY <1>0, <1>14, <1>16 DEF StoredSoFar
  <2>2. Referenced(q)' <=> Referenced(q)
    BY <1>2, <1>14, <1>16 DEF Referenced
  <2>3. ASSUME Referenced(q), NEW x \in Statements(q) \ req'[q].todo
        PROVE  IsStored(About[q], x)'
    <3>1. CASE x \in req[q].todo
      <4>1. x = p /\ q = r
        BY <1>14, <1>16, <2>3, <3>1
      <4> QED BY <1>10, <4>1 DEF m
    <3>2. CASE x \notin req[q].todo
      <4>1. IsStored(About[q], x) /\ About[q] \in Messages
        BY <2>1, <2>3, <3>2, AboutAssumption
      <4>2. x \in Places \X Tables
        BY StatementsPlaces
      <4>3. x[1] \in Places /\ x[2] \in Stages \cup {"attachment"}
        BY <4>2 DEF Tables
      <4> QED BY <1>11, <1>12, <4>1, <4>3 DEF IsStored
    <3> QED BY <3>1, <3>2
  <2> QED BY <1>14, <1>16, <2>1, <2>2, <2>3
<1>17. StoredSoFar'
  BY <1>16 DEF StoredSoFar
<1> QED BY <1>3, <1>9, <1>13, <1>15, <1>17 DEF Stored

-----------------------------------------------------------------------------
(* MediaIInv is inductive                                                  *)

LEMMA InvariantParts ==
  MediaIInv <=> /\ config \in Configs /\ req \in [Requests -> RequestType]
                /\ \A r \in Requests : Sound(config, req[r])
                /\ SlotShape /\ Pool /\ Stored
BY DEF MediaIInv, MediaShape, Pool, Stored

LEMMA PartsNext ==
  ASSUME config' \in Configs, req' \in [Requests -> RequestType],
         \A r \in Requests : Sound(config', req'[r]),
         SlotShape', Pool', Stored'
  PROVE  MediaIInv'
BY DEF MediaIInv, MediaShape, Pool, Stored

LEMMA GoesSound ==
  ASSUME MediaIInv, NEW r \in Requests, Goes(r)
  PROVE  /\ config' \in Configs /\ req' \in [Requests -> RequestType]
         /\ \A q \in Requests : Sound(config', req'[q])
<1>1. config' = config /\ config \in Configs
      /\ \A q \in Requests : Sound(config, req[q])
  BY InvariantParts DEF Goes
<1>2. \A q \in Requests : Sound(config, req'[q])
  <2> SUFFICES ASSUME NEW q \in Requests PROVE Sound(config, req'[q])
    OBVIOUS
  <2>1. q = r \/ req'[q] = req[q]
    BY DEF Goes
  <2> QED BY <1>1, <2>1 DEF Goes
<1> QED BY <1>1, <1>2 DEF Goes

LEMMA GoesStore ==
  ASSUME Stored, NEW r \in Requests, Goes(r), Recorded(req'[r]) => SameRecord(r),
         UNCHANGED store
  PROVE  Stored'
<1>1. \A q \in Requests : Recorded(req'[q]) => SameRecord(q)
  BY DEF Goes, SameRecord
<1> QED BY <1>1, StoreStays DEF store

\* A step of a request that neither holds nor awaits a permit.
LEMMA QuietStep ==
  ASSUME MediaIInv, NEW r \in Requests, Goes(r), UNCHANGED slots,
         faults' \in {faults, faults + 1}, Stored',
         req[r].pc \notin Stages \/ \E s \in Stages : Calling(r, s)
  PROVE  MediaIInv'
<1>1. MediaShape /\ SlotShape /\ Pool /\ Queued
  BY DEF MediaIInv, MediaShape, Pool
<1>2. \A s \in Stages :
        r \notin inside[s] /\ \A i \in 1 .. Len(line[s]) : line[s][i] # r
  <2>1. CASE req[r].pc \notin Stages
    BY <1>1, <2>1 DEF Queued
  <2>2. CASE \E s \in Stages : Calling(r, s)
    <3>1. PICK s \in Stages : Calling(r, s)
      BY <2>2
    <3>2. /\ req[r].pc = s /\ r \notin inside[s]
          /\ \A i \in 1 .. Len(line[s]) : line[s][i] # r
      BY <1>1, <3>1 DEF Calling, ToSet, SlotShape
    <3> QED BY <1>1, <3>2 DEF Queued
  <2> QED BY <2>1, <2>2
<1>3. Pool'
  BY <1>1, <1>2, PoolStays
<1>4. SlotShape'
  BY <1>1 DEF SlotShape, slots
<1> QED BY <1>3, <1>4, GoesSound, PartsNext

LEMMA RequestStep ==
  ASSUME MediaIInv, NEW r \in Requests,
         Submit(r) \/ Ingest(r) \/ Provide(r) \/ Finish(r)
           \/ \E s \in Stages : TimeOut(r, s)
  PROVE  MediaIInv'
<1>0. /\ MediaShape /\ SlotShape /\ Pool /\ Queued /\ Stored
      /\ \A q \in Requests : Sound(config, req[q])
  BY DEF MediaIInv, MediaShape, Pool, Stored
<1>1. CASE Submit(r)
  <2>1. Goes(r) /\ ~Recorded(req'[r])
    BY <1>0, <1>1, SubmitGoes
  <2>2. /\ req[r].pc \notin Stages /\ UNCHANGED slots /\ UNCHANGED store
        /\ faults' = faults
    BY <1>1 DEF Submit, Stages
  <2> QED BY <1>0, <2>1, <2>2, GoesStore, QuietStep
<1>2. CASE Ingest(r)
  <2>1. Goes(r) /\ ~Recorded(req'[r])
    BY <1>0, <1>2, IngestGoes
  <2>2. /\ req[r].pc \notin Stages /\ UNCHANGED slots /\ UNCHANGED store
        /\ faults' = faults
    BY <1>2 DEF Ingest, Stages
  <2> QED BY <1>0, <2>1, <2>2, GoesStore, QuietStep
<1>3. ASSUME NEW s \in Stages, Skip(r, s) PROVE MediaIInv'
  <2>1. Goes(r) /\ ~Recorded(req'[r])
    BY <1>0, <1>3, SkipGoes
  <2>2. /\ Calling(r, s) /\ UNCHANGED slots /\ UNCHANGED store
        /\ faults' = faults
    BY <1>3 DEF Skip
  <2> QED BY <1>0, <2>1, <2>2, GoesStore, QuietStep
<1>4. ASSUME NEW s \in Stages, Call(r, s) \/ Acquire(r, s) PROVE MediaIInv'
  <2>1. Pool' /\ SlotShape'
    BY <1>0, <1>4, CallPool, AcquirePool
  <2>2. config' = config /\ req' = req /\ UNCHANGED store
    BY <1>4 DEF Call, Acquire
  <2>3. \A q \in Requests : Recorded(req'[q]) => SameRecord(q)
    BY <2>2 DEF SameRecord
  <2>4. Stored'
    BY <1>0, <2>2, <2>3, StoreStays DEF store
  <2>5. /\ config' \in Configs /\ req' \in [Requests -> RequestType]
        /\ \A q \in Requests : Sound(config', req'[q])
    BY <1>0, <2>2 DEF MediaShape
  <2> QED BY <2>1, <2>4, <2>5, PartsNext
<1>5. CASE Decide(r)
  <2>1. Stored' /\ Goes(r)
    BY <1>0, <1>5, DecideStore
  <2>2. req[r].pc \notin Stages /\ UNCHANGED slots /\ faults' = faults
    BY <1>5 DEF Decide, Stages
  <2> QED BY <2>1, <2>2, QuietStep
<1>6. CASE Save(r)
  <2>1. Stored' /\ Goes(r)
    BY <1>0, <1>6, SaveStore
  <2>2. req[r].pc \notin Stages /\ UNCHANGED slots /\ faults' = faults
    BY <1>6 DEF Save, Saving, Stages
  <2> QED BY <2>1, <2>2, QuietStep
<1>7. CASE SaveFails(r)
  <2>1. /\ req[r].pc = "save" /\ config' = config /\ Abort(r, "unavailable")
        /\ UNCHANGED slots /\ UNCHANGED store
        /\ faults' \in {faults, faults + 1}
    BY <1>7 DEF SaveFails, Saving, Fault
  <2>2. Goes(r) /\ ~Recorded(req'[r])
    BY <1>0, <2>1, AbortGoes DEF Answers
  <2>3. req[r].pc \notin Stages
    BY <2>1 DEF Stages
  <2> QED BY <1>0, <2>1, <2>2, <2>3, GoesStore, QuietStep
<1>8. CASE Respond(r)
  <2>1. /\ Goes(r) /\ req'[r].todo = {} /\ req'[r].event = req[r].event
        /\ req'[r].analyses = req[r].analyses
    BY <1>0, <1>8, RespondGoes
  <2>2. /\ req[r].pc = "save" /\ req[r].todo = {} /\ UNCHANGED slots
        /\ UNCHANGED store /\ faults' = faults
    BY <1>8 DEF Respond
  <2>3. req[r].pc \notin Stages /\ SameRecord(r)
    BY <2>1, <2>2 DEF Stages, SameRecord, Recorded
  <2> QED BY <1>0, <2>1, <2>2, <2>3, GoesStore, QuietStep
<1>9. ASSUME NEW s \in Stages, TimeOut(r, s) PROVE MediaIInv'
  <2>1. Pool' /\ SlotShape'
    BY <1>0, <1>9, TimeOutPool
  <2>2. Goes(r) /\ ~Recorded(req'[r])
    BY <1>0, <1>9, TimeOutGoes
  <2>3. UNCHANGED store
    BY <1>9 DEF TimeOut
  <2>4. Stored'
    BY <1>0, <2>2, <2>3, GoesStore
  <2> QED BY <2>1, <2>2, <2>4, GoesSound, PartsNext
<1> QED BY <1>1, <1>2, <1>3, <1>4, <1>5, <1>6, <1>7, <1>8, <1>9
        DEF Provide, Finish

LEMMA ThreadStep ==
  ASSUME MediaIInv, NEW j \in JobType, EndThread(j)
  PROVE  MediaIInv'
<1>0. /\ MediaShape /\ SlotShape /\ Pool /\ Queued /\ Stored
      /\ \A q \in Requests : Sound(config, req[q])
  BY DEF MediaIInv, MediaShape, Pool, Stored
<1>1. Pool' /\ SlotShape'
  BY <1>0, EndThreadPool
<1>2. UNCHANGED store /\ config' = config
  BY DEF EndThread
<1>3. CASE Awaited(j) /\ Goes(j[1]) /\ ~Recorded(req'[j[1]])
  <2>1. PICK r \in Requests : r = j[1]
    BY JobIs
  <2>2. Goes(r) /\ ~Recorded(req'[r])
    BY <1>3, <2>1
  <2>3. Stored'
    BY <1>0, <1>2, <2>2, GoesStore
  <2> QED BY <1>1, <2>2, <2>3, GoesSound, PartsNext
<1>4. CASE req' = req
  <2>1. \A q \in Requests : Recorded(req'[q]) => SameRecord(q)
    BY <1>4 DEF SameRecord
  <2>2. Stored'
    BY <1>0, <1>2, <2>1, StoreStays DEF store
  <2>3. /\ config' \in Configs /\ req' \in [Requests -> RequestType]
        /\ \A q \in Requests : Sound(config', req'[q])
    BY <1>0, <1>2, <1>4 DEF MediaShape
  <2> QED BY <1>1, <2>2, <2>3, PartsNext
<1> QED BY <1>0, <1>3, <1>4, EndThreadGoes

LEMMA CrashStep ==
  ASSUME MediaIInv, Crash
  PROVE  MediaIInv'
<1>0. MediaShape /\ Stored /\ \A q \in Requests : Sound(config, req[q])
  BY DEF MediaIInv, Stored, MediaShape
<1>1. Pool' /\ SlotShape'
  BY <1>0, CrashPool
<1>2. /\ UNCHANGED store /\ config' = config
      /\ req' = [r \in Requests |-> IF req[r].pc \in {"idle", "done"} THEN req[r]
                                    ELSE Blank("done", "lost")]
  BY DEF Crash
<1>3. /\ Blank("done", "lost") \in RequestType
      /\ Sound(config, Blank("done", "lost"))
      /\ ~Recorded(Blank("done", "lost"))
  BY <1>0, BlankSound DEF MediaShape, Answers
<1>4. req' \in [Requests -> RequestType]
  BY <1>0, <1>2, <1>3 DEF MediaShape
<1>5. \A q \in Requests : Sound(config', req'[q])
  BY <1>0, <1>2, <1>3
<1>6. \A q \in Requests : Recorded(req'[q]) => SameRecord(q)
  <2>1. \A q \in Requests : Recorded(req'[q]) => req'[q] = req[q]
    BY <1>2, <1>3
  <2> QED BY <2>1 DEF SameRecord
<1>7. Stored'
  BY <1>0, <1>2, <1>6, StoreStays DEF store
<1> QED BY <1>0, <1>1, <1>2, <1>4, <1>5, <1>7, PartsNext DEF MediaShape

\* Time passes, or another request's transaction deletes what is due.
LEMMA TimeStep ==
  ASSUME MediaIInv,
         \/ \E m \in Messages : EventDue(m) \/ \E k \in Places : Lapse(m, k)
         \/ ModerateText
         \/ UNCHANGED mediaVars
  PROVE  MediaIInv'
<1>0. /\ MediaShape /\ SlotShape /\ Pool /\ Stored
      /\ \A q \in Requests : Sound(config, req[q])
  BY DEF MediaIInv, MediaShape, Pool, Stored
<1>1. /\ config' = config /\ req' = req /\ UNCHANGED slots
      /\ faults' \in {faults, faults + 1}
  BY DEF EventDue, Lapse, ModerateText, Fault, mediaVars
<1>2. Stored'
  <2>1. CASE ModerateText
    BY <1>0, <2>1, TextStore
  <2>2. CASE UNCHANGED <<event, events, attachment, result>>
    <3>1. \A q \in Requests : Recorded(req'[q]) => SameRecord(q)
      BY <1>1 DEF SameRecord
    <3> QED BY <1>0, <2>2, <3>1, StoreStays
  <2> QED BY <2>1, <2>2 DEF EventDue, Lapse, mediaVars, store
<1>3. SlotShape'
  BY <1>0, <1>1 DEF SlotShape, slots
<1>4. Pool'
  <2>0. SlotShape /\ Queued /\ PermitsAccounted /\ Pooled
    BY <1>0 DEF Pool
  <2>1. Queued' /\ Pooled'
    BY <1>1, <2>0 DEF slots, Queued, Pooled, Awaited, Place
  <2>2. /\ \A s \in Stages : \A r \in inside'[s] :
             <<r, Place(r)', s>> \in threads' \cup ToSet(backlog')
        /\ \A k \in DOMAIN backlog' : Awaited(backlog[k])'
    BY <1>1, <2>0 DEF slots, PermitsAccounted, Awaited, Place
  <2>3. Cardinality({j \in threads' : ~Awaited(j)'}) <= faults'
    <3> DEFINE S == {j \in threads : ~Awaited(j)}
               T == {j \in threads' : ~Awaited(j)'}
    <3>1. T \subseteq S
      BY <1>1 DEF slots, Awaited, Place
    <3>2. IsFiniteSet(S)
      BY <2>0, FS_Subset DEF Pooled
    <3>3. Cardinality(S) <= faults /\ faults \in Nat /\ faults' \in Nat
          /\ faults <= faults'
      BY <1>1, <2>0 DEF PermitsAccounted, SlotShape
    <3> HIDE DEF S, T
    <3>4. Cardinality(T) <= faults'
      BY <3>1, <3>2, <3>3, SmallerCount
    <3> QED BY <3>4 DEF T
  <2> QED BY <2>1, <2>2, <2>3 DEF Pool, PermitsAccounted
<1> QED BY <1>0, <1>1, <1>2, <1>3, <1>4, PartsNext DEF MediaShape

LEMMA MediaInitInv == MediaInit => MediaIInv
<1> SUFFICES ASSUME MediaInit PROVE MediaIInv
  OBVIOUS
<1>1. /\ Blank("idle", "none") \in RequestType
      /\ Sound(config, Blank("idle", "none"))
      /\ ~Recorded(Blank("idle", "none"))
  BY BlankSound DEF MediaInit, Answers
<1>2. /\ req \in [Requests -> RequestType]
      /\ \A r \in Requests : Sound(config, req[r]) /\ ~Recorded(req[r])
  BY <1>1 DEF MediaInit
<1>3. SlotShape /\ Queued
  BY DEF MediaInit, SlotShape, Queued
<1>4. PermitsAccounted
  <2>1. {j \in threads : ~Awaited(j)} = {} /\ DOMAIN backlog = {}
    BY DEF MediaInit
  <2> QED BY <2>1, FS_EmptySet DEF MediaInit, PermitsAccounted
<1>5. Pooled
  BY FS_EmptySet DEF MediaInit, Pooled
<1>6. StoreShape /\ NoOrphanResults
  BY DEF MediaInit, StoreShape, NoOrphanResults, NoEvent, Clients
<1>7. EventsKnown /\ StoredSoFar
  BY <1>2 DEF MediaInit, EventsKnown, StoredSoFar, NoEvent
<1> QED BY <1>2, <1>3, <1>4, <1>5, <1>6, <1>7 DEF MediaInit, MediaIInv, MediaShape

\* In every reachable state of the moderation of media, MediaIInv holds.
THEOREM MediaInvariance == MediaSpec => []MediaIInv
<1>1. ASSUME MediaIInv, [MediaNext]_mediaVars
      PROVE  MediaIInv'
  <2>1. CASE \E r \in Requests :
               \/ Submit(r) \/ Ingest(r) \/ Provide(r) \/ Finish(r)
               \/ \E s \in Stages : TimeOut(r, s)
    BY <1>1, <2>1, RequestStep
  <2>2. CASE \E j \in Jobs : EndThread(j)
    <3>1. Jobs \subseteq JobType
      BY DEF Jobs, JobType, Places
    <3> QED BY <1>1, <2>2, <3>1, ThreadStep
  <2>3. CASE \/ \E m \in Messages : EventDue(m) \/ \E k \in Places : Lapse(m, k)
             \/ ModerateText
             \/ UNCHANGED mediaVars
    BY <1>1, <2>3, TimeStep
  <2>4. CASE Crash
    BY <1>1, <2>4, CrashStep
  <2> QED BY <1>1, <2>1, <2>2, <2>3, <2>4 DEF MediaNext
<1> QED BY <1>1, MediaInitInv, PTL DEF MediaSpec

-----------------------------------------------------------------------------
(* What the invariant says of the properties                               *)

\* The images a request keeps fit into its byte budget.
THEOREM MediaWithinBudget == MediaSpec => []WithinBudget
<1>1. MediaIInv => WithinBudget
  BY DEF MediaIInv, WithinBudget, Sound, Budgeted, Analyses
<1> QED BY <1>1, MediaInvariance, PTL

\* A result belongs to the image it stands beside, and all occurrences of an
\* image share the results of the first.
THEOREM MediaResultsBelong == MediaSpec => []ResultsBelong
<1>1. ASSUME MediaIInv, NEW r \in Requests, NEW k \in Hashed(r)
      PROVE  LET first == Min({i \in Hashed(r) :
                                 Analyses(r)[i].content = Analyses(r)[k].content})
             IN  \A s \in Stages :
                   /\ Analyses(r)[k][s] \in {NoResult, first}
                   /\ Analyses(r)[k][s] = Analyses(r)[first][s]
  <2> DEFINE S == {i \in Hashed(r) :
                     Analyses(r)[i].content = Analyses(r)[k].content}
             v == req[r]
  <2>1. v \in RequestType /\ Belonging(v) /\ Analyses(r) = v.analyses
    BY <1>1 DEF MediaIInv, MediaShape, Sound, Analyses
  <2> HIDE DEF v
  <2>2. Hashed(r) = {i \in 1 .. Len(v.analyses) :
                       v.analyses[i].content # NoContent}
    BY <2>1 DEF Hashed, RequestType
  <2>3. /\ k \in 1 .. Len(v.analyses) /\ v.analyses[k].content # NoContent
        /\ Len(v.analyses) \in Nat
    BY <1>1, <2>1, <2>2 DEF RequestType
  <2>4. PICK f \in 1 .. k : BelongsTo(v, k, f)
    BY <2>1, <2>3 DEF Belonging
  <2>5. f \in S
    BY <2>1, <2>2, <2>3, <2>4 DEF BelongsTo
  <2>6. ASSUME NEW i \in S PROVE f <= i
    <3>1. /\ i \in 1 .. Len(v.analyses)
          /\ v.analyses[i].content = v.analyses[k].content
      BY <2>1, <2>2
    <3>2. i \notin 1 .. (f - 1)
      BY <2>4, <3>1 DEF BelongsTo
    <3> QED BY <2>3, <3>1, <3>2
  <2>7. S \in SUBSET Nat
    BY <2>2
  <2>8. Min(S) = f
    BY <2>5, <2>6, <2>7, MinIs
  <2> HIDE DEF S
  <2>9. \A s \in Stages : /\ v.analyses[k][s] \in {NoResult, f}
                          /\ v.analyses[k][s] = v.analyses[f][s]
    BY <2>4 DEF BelongsTo, Stages
  <2> QED BY <2>1, <2>8, <2>9 DEF S
<1>2. MediaIInv => ResultsBelong
  BY <1>1 DEF ResultsBelong
<1> QED BY <1>2, MediaInvariance, PTL

\* Where media is required, no request succeeds with an attachment that was not
\* analysed; where the policy requires YOLO, with one YOLO has not seen.
THEOREM MediaRequiredIsComplete == MediaSpec => []RequiredIsComplete
<1>1. ASSUME MediaIInv, NEW r \in Requests, req[r].answer = "ok"
      PROVE  /\ config.required =>
                  /\ Len(Analyses(r)) = req[r].count
                  /\ \A k \in DOMAIN Analyses(r) :
                       Analyses(r)[k].status \in {"analyzed", "duplicate"}
             /\ req[r].policy.image.required /\ req[r].policy.image.enabled
                  /\ config.provider.image # "off"
                => \A k \in Hashed(r) : Analyses(r)[k].image # NoResult
  <2>1. /\ Progress(config, req[r]) /\ Seen(config, req[r])
        /\ Whole(config, req[r]) /\ config \in Configs
        /\ req[r] \in RequestType
    BY <1>1 DEF MediaIInv, MediaShape, Sound
  <2>2. DOMAIN Analyses(r) = 1 .. Len(req[r].analyses)
        /\ Analyses(r) = req[r].analyses
    BY <2>1 DEF Analyses, RequestType
  <2>3. config.required => config.enabled
    BY <2>1, ConfigAssumption
  <2>4. config.required =>
          /\ Len(Analyses(r)) = req[r].count
          /\ \A k \in DOMAIN Analyses(r) :
               Analyses(r)[k].status \in {"analyzed", "duplicate"}
    BY <1>1, <2>1, <2>2, <2>3 DEF Progress, Whole, Recorded
  <2>5. NeedsImage(config, req[r]) =>
          \A k \in Hashed(r) : Analyses(r)[k].image # NoResult
    BY <2>1, <2>2 DEF Seen, Hashed
  <2> QED BY <2>4, <2>5 DEF NeedsImage
<1>2. MediaIInv => RequiredIsComplete
  BY <1>1 DEF RequiredIsComplete
<1> QED BY <1>2, MediaInvariance, PTL

\* A successful answer was given after everything it tells was stored, and no
\* result is stored without its attachment.
THEOREM MediaRecordsWhole == MediaSpec => []RecordsWhole
<1>1. ASSUME MediaIInv, NEW r \in Requests, req[r].answer = "ok", Referenced(r),
             NEW k \in DOMAIN Analyses(r)
      PROVE  /\ attachment[About[r]][k] # Nobody
             /\ \A s \in Stages : Analyses(r)[k][s] # NoResult
                                    => result[About[r]][k][s] # Nobody
  <2>1. req[r].todo = {} /\ Recorded(req[r])
    BY <1>1 DEF MediaIInv, Sound, Progress, Recorded
  <2>2. \A p \in Statements(r) : IsStored(About[r], p)
    BY <1>1, <2>1 DEF MediaIInv, StoredSoFar
  <2>3. <<k, "attachment">> \in Statements(r)
    BY <1>1 DEF Statements, Analyses
  <2>4. attachment[About[r]][k] # Nobody
    BY <2>2, <2>3 DEF IsStored
  <2>5. ASSUME NEW s \in Stages, Analyses(r)[k][s] # NoResult
        PROVE  result[About[r]][k][s] # Nobody
    <3>1. <<k, s>> \in Statements(r)
      BY <1>1, <2>5 DEF Statements, Analyses
    <3>2. IsStored(About[r], <<k, s>>) /\ s # "attachment"
      BY <2>2, <3>1 DEF Stages
    <3> QED BY <3>2 DEF IsStored
  <2> QED BY <2>4, <2>5
<1>2. MediaIInv => RecordsWhole
  BY <1>1 DEF RecordsWhole, StoredBeforeAnswer, MediaIInv
<1> QED BY <1>2, MediaInvariance, PTL

\* A permit is held by a caller whose job is in the pool, every job the pool
\* has still to begin is awaited, and at most one thread a fault runs for
\* nobody.
THEOREM MediaPermitsAccounted == MediaSpec => []PermitsAccounted
<1>1. MediaIInv => PermitsAccounted
  BY DEF MediaIInv
<1> QED BY <1>1, MediaInvariance, PTL
=============================================================================
