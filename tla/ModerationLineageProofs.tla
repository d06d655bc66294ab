---------------------- MODULE ModerationLineageProofs ----------------------
(***************************************************************************)
(* TLAPS proofs about ModerationLineage, for every set of messages and     *)
(* requests, every number of failures and every order of the transactions. *)
(***************************************************************************)
EXTENDS ModerationLineage, TLAPS

\* What the types say of one request and of one message.
LEMMA Types ==
  ASSUME TypeOK
  PROVE  /\ events \in Nat /\ now \in Nat
         /\ \A x \in Messages : event[x] \in 0..events
         /\ \A c \in Requests : seen[c] \in Holdings /\ About[c] \in Messages
  BY AboutAssumption DEF TypeOK

LEMMA Disjoint ==
  /\ \A m \in Moderations : m \in Requests /\ m \notin Callers
  /\ \A c \in Callers : c \in Requests /\ c \notin Moderations
  /\ \A c \in Reporters : c \in Callers /\ c \notin Executors
  BY RequestsAssumption DEF Requests, Callers

LEMMA InitIInv == Init => IInv
<1> SUFFICES ASSUME Init PROVE IInv
  OBVIOUS
<1> USE DEF Init, Nothing, None
<1>1. TypeOK
  BY LimitAssumption, Disjoint DEF TypeOK, Holdings
<1>2. OwnEvents /\ HeldEvents /\ LineageSound
  BY DEF OwnEvents, HeldEvents, LineageSound, Stored
<1>3. HeldDecisions /\ DecisionsMade /\ StoredBacked
  BY Disjoint DEF HeldDecisions, DecisionsMade, StoredBacked
<1>4. OneFeedbackPerKey /\ SavedKept /\ FeedbackFound
  BY Disjoint DEF OneFeedbackPerKey, SavedKept, FeedbackFound
<1>5. QED
  BY <1>1, <1>2, <1>3, <1>4 DEF IInv

-----------------------------------------------------------------------------
(* Steps that leave the tables alone                                       *)

\* Nothing that is said of the tables alone changes with them unchanged.
LEMMA TablesUnmoved ==
  ASSUME IInv, UNCHANGED tables
  PROVE  /\ OwnEvents' /\ LineageSound' /\ OneFeedbackPerKey'
         /\ \A id : Stored(id)' <=> Stored(id)
  BY DEF IInv, tables, OwnEvents, LineageSound, OneFeedbackPerKey, Stored

\* Nor what is said of a request that has not moved.
LEMMA RequestUnmoved ==
  ASSUME IInv, UNCHANGED tables, NEW c \in Requests,
         seen'[c] = seen[c], pc'[c] = pc[c]
  PROVE  /\ seen'[c].event <= events'
         /\ Stored(seen[c].event)' => event'[About[c]] = seen'[c].event
         /\ c \in Callers /\ pc'[c] \in {"saving", "saved"}
              /\ Stored(seen[c].event)'
              => DecidedAt(seen[c].event, seen[c].at, seen[c].quoted)'
         /\ c \in Reporters /\ Stored(seen[c].event)'
              /\ pc'[c] \in {"saved", "accepted", "duplicate"} => KeptFor(c)'
  BY TablesUnmoved
  DEF IInv, tables, HeldEvents, HeldDecisions, SavedKept, DecidedAt, KeptFor

LEMMA ExpireStep ==
  ASSUME IInv, NEW x \in Messages, Expire(x)
  PROVE  IInv'
<1> USE DEF Expire, tables
<1>1. TypeOK'
  BY DEF IInv, TypeOK
<1>2. OwnEvents' /\ LineageSound' /\ OneFeedbackPerKey'
  BY TablesUnmoved DEF IInv
<1>3. HeldEvents' /\ HeldDecisions' /\ SavedKept'
  BY TablesUnmoved DEF IInv, HeldEvents, HeldDecisions, SavedKept, DecidedAt,
                       KeptFor
<1>4. DecisionsMade' /\ StoredBacked' /\ FeedbackFound'
  BY DEF IInv, DecisionsMade, StoredBacked, StoredDecision, FeedbackFound
<1>5. QED
  BY <1>1, <1>2, <1>3, <1>4 DEF IInv

LEMMA DecideStep ==
  ASSUME IInv, NEW m \in Moderations, Decide(m)
  PROVE  IInv'
<1> USE Disjoint DEF Decide, Goto
<1>a. UNCHANGED tables
  OBVIOUS
<1>b. PICK a \in Actions :
        seen' = [seen EXCEPT ![m] = [Nothing EXCEPT !.action = a,
                                                    !.at = now']]
  OBVIOUS
<1>c. /\ seen'[m] = [event |-> None, action |-> a, at |-> now + 1,
                     quoted |-> NoAction]
      /\ pc'[m] = "decided"
      /\ \A c \in Requests \ {m} : seen'[c] = seen[c] /\ pc'[c] = pc[c]
  BY <1>b DEF IInv, TypeOK, Nothing
<1>d. now + 1 \in Nat /\ events \in Nat
  BY DEF IInv, TypeOK
<1>1. TypeOK'
  <2>1. seen' \in [Requests -> Holdings]
    <3>1. seen'[m] \in Holdings
      <4>1. a \in Actions /\ None \in Nat
        BY <1>b DEF None
      <4>2. QED
        BY ONLY <4>1, <1>c, <1>d DEF Holdings
    <3>2. QED
      BY <1>b, <3>1 DEF IInv, TypeOK
  <2>2. decisions' \subseteq [event : 1..events, action : Actions,
                              at : 1..now']
    BY <1>a DEF IInv, TypeOK, tables
  <2>3. feedback' \subseteq [event : 1..events, at : 1..now',
                             quoted : Actions \cup {NoAction},
                             by : Reporters, copy : 1..MaxAttempts]
    BY <1>a DEF IInv, TypeOK, tables
  <2>4. QED
    BY <1>a, <2>1, <2>2, <2>3 DEF IInv, TypeOK, tables
<1>2. OwnEvents' /\ LineageSound' /\ OneFeedbackPerKey'
  BY <1>a, TablesUnmoved
<1>3. HeldEvents'
  <2> SUFFICES ASSUME NEW c \in Requests
               PROVE  /\ seen'[c].event <= events'
                      /\ Stored(seen[c].event)'
                           => event'[About[c]] = seen'[c].event
    BY DEF HeldEvents
  <2>1. CASE c = m
    <3>1. seen'[m].event = None /\ events' = events
      BY ONLY <1>a, <1>c DEF tables
    <3>2. QED
      BY ONLY <2>1, <3>1, <1>d DEF Stored, None
  <2>2. CASE c # m
    BY <2>2, <1>a, <1>c, RequestUnmoved
  <2>3. QED
    BY <2>1, <2>2
<1>4. HeldDecisions' /\ SavedKept'
  BY <1>a, <1>c, RequestUnmoved DEF HeldDecisions, SavedKept
<1>5. DecisionsMade'
  BY <1>c, Types DEF IInv, DecisionsMade
<1>6. StoredBacked'
  BY <1>a, <1>c DEF IInv, StoredBacked, StoredDecision, tables
<1>7. FeedbackFound'
  BY <1>c DEF IInv, FeedbackFound
<1>8. QED
  BY <1>1, <1>2, <1>3, <1>4, <1>5, <1>6, <1>7 DEF IInv

LEMMA FailStep ==
  ASSUME IInv, NEW m \in Moderations, Fail(m)
  PROVE  IInv'
<1> USE Disjoint DEF Fail, Goto, Fault
<1>a. UNCHANGED tables /\ seen' = seen
  OBVIOUS
<1>b. /\ pc'[m] \in {"idle", "failed"}
      /\ \A c \in Requests \ {m} : pc'[c] = pc[c]
  BY DEF IInv, TypeOK
<1>1. TypeOK'
  BY <1>a, LimitAssumption DEF IInv, TypeOK, tables
<1>2. OwnEvents' /\ LineageSound' /\ OneFeedbackPerKey'
  BY <1>a, TablesUnmoved
<1>3. HeldEvents'
  BY <1>a, TablesUnmoved DEF IInv, HeldEvents, tables
<1>4. HeldDecisions' /\ SavedKept'
  BY <1>a, <1>b, RequestUnmoved DEF HeldDecisions, SavedKept
<1>5. DecisionsMade' /\ StoredBacked' /\ FeedbackFound'
  BY <1>a, <1>b DEF IInv, DecisionsMade, StoredBacked, StoredDecision,
                    FeedbackFound, tables
<1>6. QED
  BY <1>1, <1>2, <1>3, <1>4, <1>5 DEF IInv

LEMMA RespondStep ==
  ASSUME IInv, NEW m \in Moderations, Respond(m)
  PROVE  IInv'
<1> USE Disjoint DEF Respond, Goto
<1>a. UNCHANGED tables /\ seen' = seen
  OBVIOUS
<1>b. /\ pc[m] = "stored" /\ pc'[m] = "answered"
      /\ \A c \in Requests \ {m} : pc'[c] = pc[c]
  BY DEF IInv, TypeOK
<1>1. TypeOK'
  BY <1>a DEF IInv, TypeOK, tables
<1>2. OwnEvents' /\ LineageSound' /\ OneFeedbackPerKey'
  BY <1>a, TablesUnmoved
<1>3. HeldEvents'
  BY <1>a, TablesUnmoved DEF IInv, HeldEvents, tables
<1>4. HeldDecisions' /\ SavedKept'
  BY <1>a, <1>b, RequestUnmoved DEF HeldDecisions, SavedKept
<1>5. DecisionsMade' /\ StoredBacked' /\ FeedbackFound'
  BY <1>a, <1>b DEF IInv, DecisionsMade, StoredBacked, StoredDecision,
                    FeedbackFound, tables
<1>6. QED
  BY <1>1, <1>2, <1>3, <1>4, <1>5 DEF IInv
-----------------------------------------------------------------------------
(* The transaction                                                         *)

\* An event known before is stored afterwards just when it was before and is
\* not purged, and then by the same message.
LEMMA PersistMoves ==
  ASSUME IInv, NEW m \in Moderations, Persist(m)
  PROVE  /\ events' \in Nat /\ events <= events'
         /\ event' \in [Messages -> 0..events']
         /\ seen'[m] = [seen[m] EXCEPT !.event = event'[About[m]]]
         /\ seen' = [seen EXCEPT ![m] = [seen[m] EXCEPT
                                           !.event = event'[About[m]]]]
         /\ pc'[m] = "stored"
         /\ event'[About[m]] \in 1..events'
         /\ \A c \in Requests \ {m} : seen'[c] = seen[c] /\ pc'[c] = pc[c]
         /\ \A i \in 0..events : Stored(i)' <=> Stored(i) /\ i \notin Purged
         /\ \A x \in Messages : event[x] # None /\ event[x] \notin Purged
                                  => event'[x] = event[x]
         /\ OwnEvents'
         /\ decisions' = {r \in decisions : r.event \notin Purged}
                           \cup {StoredDecision(m)'}
         /\ feedback' = {r \in feedback : r.event \notin Purged}
         /\ results' = {r \in results : r.event \notin Purged}
<1> USE Disjoint DEF None
<1> DEFINE y == About[m]
           id == Upserted(y)
<1>1. /\ events \in Nat /\ y \in Messages
      /\ \A x \in Messages : event[x] \in 0..events
  BY Types DEF IInv
<1>2. /\ event' = [x \in Messages |-> IF x = y THEN id
                                      ELSE IF event[x] \in Purged THEN None
                                      ELSE event[x]]
      /\ events' = IF id > events THEN id ELSE events
      /\ seen' = [seen EXCEPT ![m].event = id]
      /\ pc' = [pc EXCEPT ![m] = "stored"]
  BY DEF Persist, Goto
<1>3. /\ id \in Nat /\ id # 0
      /\ id = events + 1 \/ (id = event[y] /\ id \notin Purged)
  BY <1>1 DEF Upserted
<1> HIDE DEF id
<1>4. /\ events' \in Nat /\ events <= events'
      /\ id \in 1..events' /\ event'[y] = id
  BY <1>1, <1>2, <1>3
<1>5. event' \in [Messages -> 0..events']
  BY <1>1, <1>2, <1>4
<1>6. /\ seen'[m] = [seen[m] EXCEPT !.event = event'[y]]
      /\ seen' = [seen EXCEPT ![m] = [seen[m] EXCEPT !.event = event'[y]]]
      /\ pc'[m] = "stored"
      /\ \A c \in Requests \ {m} : seen'[c] = seen[c] /\ pc'[c] = pc[c]
  BY <1>2, <1>4 DEF IInv, TypeOK
<1>7. \A x \in Messages : event[x] # None /\ event[x] \notin Purged
                            => event'[x] = event[x]
  <2> SUFFICES ASSUME NEW x \in Messages, event[x] # None,
                      event[x] \notin Purged
               PROVE  event'[x] = event[x]
    OBVIOUS
  <2>1. CASE x = y
    BY <2>1, <1>2 DEF id, Upserted
  <2>2. CASE x # y
    BY <2>2, <1>2
  <2>3. QED
    BY <2>1, <2>2
<1>8. \A i \in 0..events : Stored(i)' <=> Stored(i) /\ i \notin Purged
  <2> SUFFICES ASSUME NEW i \in 0..events
               PROVE  Stored(i)' <=> Stored(i) /\ i \notin Purged
    OBVIOUS
  <2>1. Stored(i) /\ i \notin Purged => Stored(i)'
    BY <1>7 DEF Stored
  <2>2. ASSUME Stored(i)'
        PROVE  Stored(i) /\ i \notin Purged
    <3>1. PICK x \in Messages : i # 0 /\ event'[x] = i
      BY <2>2 DEF Stored
    <3>2. CASE x = y
      BY <3>1, <3>2, <1>1, <1>3, <1>4 DEF Stored
    <3>3. CASE x # y
      BY <3>1, <3>3, <1>2 DEF Stored
    <3>4. QED
      BY <3>2, <3>3
  <2>3. QED
    BY <2>1, <2>2
<1>9. OwnEvents'
  <2> SUFFICES ASSUME NEW x \in Messages, NEW z \in Messages,
                      event'[x] # 0, event'[x] = event'[z]
               PROVE  x = z
    BY DEF OwnEvents
  <2>1. \A u, v \in Messages : u = y /\ event'[u] = event'[v]
                                 /\ event'[u] # 0 => u = v
    BY <1>1, <1>2, <1>3 DEF IInv, OwnEvents
  <2>2. CASE x # y /\ z # y
    BY <2>2, <1>2 DEF IInv, OwnEvents
  <2>3. QED
    BY <2>1, <2>2
<1>10. StoredDecision(m)' = [event |-> id, action |-> seen[m].action,
                             at |-> seen[m].at]
  BY <1>4, <1>6, Types DEF StoredDecision, IInv, Holdings
<1>11. /\ decisions' = {r \in decisions : r.event \notin Purged}
                          \cup {StoredDecision(m)'}
       /\ feedback' = {r \in feedback : r.event \notin Purged}
       /\ results' = {r \in results : r.event \notin Purged}
  BY <1>10 DEF Persist, id
<1>12. QED
  BY <1>4, <1>5, <1>6, <1>7, <1>8, <1>9, <1>11

LEMMA PersistStep ==
  ASSUME IInv, NEW m \in Moderations, Persist(m)
  PROVE  IInv'
<1> USE Disjoint DEF None
<1>n. /\ events' \in Nat /\ events <= events'
      /\ event' \in [Messages -> 0..events']
      /\ event'[About[m]] \in 1..events'
  BY PersistMoves
<1>o. /\ seen'[m] = [seen[m] EXCEPT !.event = event'[About[m]]]
      /\ pc'[m] = "stored"
      /\ \A c \in Requests \ {m} : seen'[c] = seen[c] /\ pc'[c] = pc[c]
  BY PersistMoves
<1>s. /\ \A i \in 0..events : Stored(i)' <=> Stored(i) /\ i \notin Purged
      /\ \A x \in Messages : event[x] # None /\ event[x] \notin Purged
                               => event'[x] = event[x]
  BY PersistMoves
<1>t. /\ decisions' = {r \in decisions : r.event \notin Purged}
                        \cup {StoredDecision(m)'}
      /\ feedback' = {r \in feedback : r.event \notin Purged}
      /\ results' = {r \in results : r.event \notin Purged}
  BY PersistMoves
<1>a. /\ pc[m] = "decided" /\ expired' = expired /\ now' = now
      /\ UNCHANGED <<tries, created, faults>>
  BY DEF Persist
<1>b. /\ events \in Nat
      /\ \A x \in Messages : event[x] \in 0..events
      /\ \A c \in Requests : /\ seen[c].event \in 0..events
                             /\ About[c] \in Messages
  BY Types DEF IInv, HeldEvents, Holdings
<1>c. \A c \in Requests \ {m} :
        Stored(seen[c].event)'
          => /\ Stored(seen[c].event) /\ seen[c].event \notin Purged
             /\ event'[About[c]] = seen[c].event
  <2> SUFFICES ASSUME NEW c \in Requests \ {m}, Stored(seen[c].event)'
               PROVE  /\ Stored(seen[c].event) /\ seen[c].event \notin Purged
                      /\ event'[About[c]] = seen[c].event
    OBVIOUS
  <2>1. PICK x \in Messages : seen[c].event # 0 /\ event'[x] = seen[c].event
    BY <1>o DEF Stored
  <2>2. Stored(seen[c].event) /\ seen[c].event \notin Purged
    BY <2>1, <1>b, <1>s DEF Stored
  <2>3. event[About[c]] = seen[c].event
    BY <2>2 DEF IInv, HeldEvents
  <2>4. QED
    BY <2>1, <2>2, <2>3, <1>b, <1>s
<1>d. /\ decisions \subseteq [event : 1..events, action : Actions, at : 1..now]
      /\ feedback \subseteq [event : 1..events, at : 1..now,
                             quoted : Actions \cup {NoAction},
                             by : Reporters, copy : 1..MaxAttempts]
      /\ results \subseteq [event : 1..events, by : Executors,
                            copy : 1..MaxAttempts]
  BY DEF IInv, TypeOK
<1>1. TypeOK'
  <2>1. 1..events \subseteq 1..events'
    BY <1>b, <1>n, <1>o, <1>s, <1>t
  <2>2. /\ seen[m].action \in Actions /\ seen[m].at \in 1..now
        /\ seen[m] \in Holdings
    BY <1>a, Types DEF IInv, DecisionsMade
  <2>3. StoredDecision(m)' \in [event : 1..events', action : Actions,
                                at : 1..now']
    BY <2>2, <1>a, <1>n, <1>o, <1>s, <1>t DEF StoredDecision, Holdings
  <2>4. decisions' \subseteq [event : 1..events', action : Actions,
                              at : 1..now']
    BY <2>1, <2>3, <1>a, <1>d, <1>n, <1>o, <1>s, <1>t
  <2>5. /\ feedback' \subseteq [event : 1..events', at : 1..now',
                                quoted : Actions \cup {NoAction},
                                by : Reporters, copy : 1..MaxAttempts]
        /\ results' \subseteq [event : 1..events', by : Executors,
                               copy : 1..MaxAttempts]
    BY <2>1, <1>a, <1>d, <1>n, <1>o, <1>s, <1>t
  <2>6. seen' \in [Requests -> Holdings]
    <3>1. [seen[m] EXCEPT !.event = event'[About[m]]] \in Holdings
      BY <2>2, <1>n DEF Holdings
    <3>2. seen' = [seen EXCEPT ![m] = [seen[m] EXCEPT
                                         !.event = event'[About[m]]]]
      BY PersistMoves
    <3>3. QED
      BY <3>1, <3>2 DEF IInv, TypeOK
  <2>7. pc' = [pc EXCEPT ![m] = "stored"]
    BY DEF Persist, Goto
  <2>8. QED
    BY <2>4, <2>5, <2>6, <2>7, <1>a, <1>n, <1>o, <1>s, <1>t DEF IInv, TypeOK
<1>2. OwnEvents'
  BY PersistMoves
<1>3. HeldEvents'
  <2> SUFFICES ASSUME NEW c \in Requests
               PROVE  /\ seen'[c].event <= events'
                      /\ Stored(seen[c].event)'
                           => event'[About[c]] = seen'[c].event
    BY DEF HeldEvents
  <2>1. CASE c = m
    BY <2>1, <1>n, <1>o, <1>s, <1>t, Types DEF IInv, Holdings
  <2>2. CASE c # m
    BY <2>2, <1>b, <1>c, <1>n, <1>o, <1>s, <1>t
  <2>3. QED
    BY <2>1, <2>2
<1>4. LineageSound'
  <2>1. ASSUME NEW r \in decisions' \cup results'
        PROVE  Stored(r.event)'
    <3>1. CASE r = StoredDecision(m)'
      BY <3>1, <1>b, <1>n, <1>o, <1>s, <1>t DEF Stored, StoredDecision, IInv, TypeOK,
                                      Holdings
    <3>2. CASE r # StoredDecision(m)'
      <4>1. r \in decisions \cup results /\ r.event \notin Purged
        BY <2>1, <3>2, <1>n, <1>o, <1>s, <1>t
      <4>2. r.event \in 0..events /\ Stored(r.event)
        BY <4>1, <1>d DEF IInv, LineageSound
      <4>3. QED
        BY <4>1, <4>2, <1>n, <1>o, <1>s, <1>t
    <3>3. QED
      BY <3>1, <3>2
  <2>2. ASSUME NEW f \in feedback'
        PROVE  /\ event'[About[f.by]] = f.event
               /\ \E d \in decisions' : /\ d.event = f.event /\ d.at = f.at
                                        /\ f.quoted \in {NoAction, d.action}
    <3>1. f \in feedback /\ f.event \notin Purged
      BY <2>2, <1>n, <1>o, <1>s, <1>t
    <3>2. f.event \in 1..events /\ f.by \in Reporters
      BY <3>1, <1>d
    <3>3. event[About[f.by]] = f.event /\ About[f.by] \in Messages
      BY <3>1, <3>2, <1>b DEF IInv, LineageSound
    <3>4. PICK d \in decisions : /\ d.event = f.event /\ d.at = f.at
                                 /\ f.quoted \in {NoAction, d.action}
      BY <3>1 DEF IInv, LineageSound
    <3>5. d \in decisions'
      BY <3>1, <3>4, <1>n, <1>o, <1>s, <1>t
    <3>6. event'[About[f.by]] = f.event
      BY <3>1, <3>2, <3>3, <1>n, <1>o, <1>s, <1>t
    <3>7. QED
      BY <3>4, <3>5, <3>6
  <2>3. QED
    BY <2>1, <2>2 DEF LineageSound
<1>5. HeldDecisions'
  <2> SUFFICES ASSUME NEW c \in Callers, pc'[c] \in {"saving", "saved"},
                      Stored(seen[c].event)'
               PROVE  DecidedAt(seen[c].event, seen[c].at, seen[c].quoted)'
    BY DEF HeldDecisions
  <2>1. c \in Requests \ {m} /\ seen'[c] = seen[c] /\ pc'[c] = pc[c]
    BY PersistMoves
  <2>2. Stored(seen[c].event) /\ seen[c].event \notin Purged
    BY <2>1, <1>c
  <2>3. PICK d \in decisions : /\ d.event = seen[c].event
                               /\ d.at = seen[c].at
                               /\ seen[c].quoted \in {NoAction, d.action}
    BY <2>1, <2>2 DEF IInv, HeldDecisions, DecidedAt
  <2>4. d \in decisions'
    BY <2>2, <2>3, <1>n, <1>o, <1>s, <1>t
  <2>5. QED
    BY <2>1, <2>3, <2>4 DEF DecidedAt
<1>6. DecisionsMade'
  BY <1>a, <1>n, <1>o, <1>s, <1>t DEF IInv, DecisionsMade
<1>7. StoredBacked'
  <2> SUFFICES ASSUME NEW n \in Moderations, About[n] \notin expired,
                      pc'[n] \in {"stored", "answered"}
               PROVE  /\ event'[About[n]] = seen'[n].event
                      /\ seen'[n].event # None
                      /\ StoredDecision(n)' \in decisions'
    BY <1>a DEF StoredBacked
  <2>1. CASE n = m
    BY <2>1, <1>n, <1>o, <1>s, <1>t, Types DEF IInv, Holdings
  <2>2. CASE n # m
    <3>1. seen'[n] = seen[n] /\ pc'[n] = pc[n]
      BY <2>2, <1>n, <1>o, <1>s, <1>t
    <3>2. /\ event[About[n]] = seen[n].event /\ seen[n].event # None
          /\ StoredDecision(n) \in decisions
      BY <3>1 DEF IInv, StoredBacked
    <3>3. seen[n].event \notin Purged
      BY <3>2, <1>b DEF Purged, IInv, OwnEvents, TypeOK
    <3>4. StoredDecision(n)' = StoredDecision(n)
          /\ StoredDecision(n).event = seen[n].event
      BY <3>1 DEF StoredDecision
    <3>5. StoredDecision(n) \in decisions'
      BY <3>2, <3>3, <3>4, <1>n, <1>o, <1>s, <1>t
    <3>6. QED
      BY <3>1, <3>2, <3>3, <3>4, <3>5, <1>b, <1>n, <1>o, <1>s, <1>t
  <2>3. QED
    BY <2>1, <2>2
<1>8. OneFeedbackPerKey'
  BY <1>n, <1>o, <1>s, <1>t DEF IInv, OneFeedbackPerKey
<1>9. SavedKept'
  <2> SUFFICES ASSUME NEW c \in Reporters, Stored(seen[c].event)',
                      pc'[c] \in {"saved", "accepted", "duplicate"}
               PROVE  KeptFor(c)'
    BY DEF SavedKept
  <2>1. c \in Requests \ {m} /\ seen'[c] = seen[c] /\ pc'[c] = pc[c]
    BY PersistMoves
  <2>2. Stored(seen[c].event) /\ seen[c].event \notin Purged
    BY <2>1, <1>c
  <2>3. KeptFor(c)
    BY <2>1, <2>2 DEF IInv, SavedKept
  <2>4. QED
    BY <2>1, <2>2, <2>3, <1>n, <1>o, <1>s, <1>t DEF KeptFor
<1>10. FeedbackFound'
  BY <1>a, <1>n, <1>o, <1>s, <1>t DEF IInv, FeedbackFound
<1>11. QED
  BY <1>1, <1>2, <1>3, <1>4, <1>5, <1>6, <1>7, <1>8, <1>9, <1>10 DEF IInv

-----------------------------------------------------------------------------
(* Feedback and action results                                             *)

\* A caller that goes on with what it holds, the tables unchanged.
LEMMA CallerMoved ==
  ASSUME IInv, NEW c \in Callers, TypeOK',
         UNCHANGED <<tables, expired, now, seen>>,
         \A q \in Requests \ {c} : pc'[q] = pc[q],
         pc'[c] \in {"saving", "saved"} => pc[c] \in {"saving", "saved"},
         c \in Reporters /\ Stored(seen[c].event)
           /\ pc'[c] \in {"saved", "accepted", "duplicate"} => KeptFor(c),
         pc'[c] # "notfound"
  PROVE  IInv'
<1> USE Disjoint
<1>a. UNCHANGED tables
  BY DEF tables
<1>1. OwnEvents' /\ LineageSound' /\ OneFeedbackPerKey'
  BY <1>a, TablesUnmoved
<1>2. HeldEvents'
  BY <1>a, TablesUnmoved DEF IInv, HeldEvents, tables
<1>3. HeldDecisions'
  BY <1>a, TablesUnmoved DEF IInv, HeldDecisions, DecidedAt, tables
<1>4. SavedKept'
  BY <1>a, TablesUnmoved DEF IInv, SavedKept, KeptFor, tables
<1>5. DecisionsMade' /\ StoredBacked' /\ FeedbackFound'
  BY <1>a DEF IInv, DecisionsMade, StoredBacked, StoredDecision,
              FeedbackFound, tables
<1>6. QED
  BY <1>1, <1>2, <1>3, <1>4, <1>5 DEF IInv

LEMMA WrongGuildStep ==
  ASSUME IInv, NEW c \in Callers, WrongGuild(c)
  PROVE  IInv'
<1> USE Disjoint DEF WrongGuild, Goto
<1>1. TypeOK'
  BY DEF IInv, TypeOK, tables
<1>2. pc'[c] = "foreign" /\ \A q \in Requests \ {c} : pc'[q] = pc[q]
  BY DEF IInv, TypeOK
<1>3. QED
  BY <1>1, <1>2, CallerMoved

LEMMA DisconnectStep ==
  ASSUME IInv, NEW c \in Callers, Disconnect(c)
  PROVE  IInv'
<1> USE Disjoint DEF Disconnect, Goto, Fault, MayRepeat, RepeatedFrom
<1>1. TypeOK'
  <2>1. tries[c] \in 1..MaxAttempts /\ MaxAttempts \in Nat
    BY LimitAssumption DEF IInv, TypeOK
  <2>2. /\ tries' \in [Requests -> Nat]
        /\ \A q \in Callers : tries'[q] \in 1..MaxAttempts
        /\ \A m \in Moderations : tries'[m] \in 1..MaxRuns
    BY <2>1 DEF IInv, TypeOK
  <2>3. faults' \in 0..MaxFaults
    BY LimitAssumption DEF IInv, TypeOK
  <2>4. QED
    BY <2>2, <2>3 DEF IInv, TypeOK, tables
<1>2. /\ pc'[c] = "unavailable"
           \/ (pc'[c] = "saving" /\ pc[c] \in {"saving", "saved"})
      /\ \A q \in Requests \ {c} : pc'[q] = pc[q]
  BY DEF IInv, TypeOK
<1>3. QED
  BY <1>1, <1>2, CallerMoved

LEMMA AcknowledgeStep ==
  ASSUME IInv, NEW c \in Callers, Acknowledge(c)
  PROVE  IInv'
<1> USE Disjoint DEF Acknowledge, Goto
<1>1. TypeOK'
  BY DEF IInv, TypeOK, tables
<1>2. /\ pc[c] = "saved" /\ pc'[c] \in {"accepted", "duplicate"}
      /\ \A q \in Requests \ {c} : pc'[q] = pc[q]
  BY DEF IInv, TypeOK
<1>3. QED
  BY <1>1, <1>2, CallerMoved DEF IInv, SavedKept

\* What a caller finds is stored and is its message's own event; a reporter
\* whose message is retained finds it under either name.
LEMMA FoundOwn ==
  ASSUME IInv, NEW c \in Callers, NEW m \in Moderations, RespondedTo(c, m),
         NEW id \in {seen[m].event, ByMessage(c)}
  PROVE  /\ Stored(id) => id \in 1..events /\ event[About[c]] = id
         /\ c \in Reporters /\ About[c] \notin expired => Stored(id)
<1> USE Disjoint DEF RespondedTo, ByMessage
<1>1. /\ events \in Nat /\ About[c] \in Messages
      /\ \A x \in Messages : event[x] \in 0..events
  BY Types DEF IInv
<1>2. Stored(id) => event[About[c]] = id
  BY DEF IInv, HeldEvents, Stored, None
<1>3. Stored(id) => id \in 1..events
  BY <1>1, <1>2 DEF Stored, None
<1>4. ASSUME c \in Reporters, About[c] \notin expired
      PROVE  Stored(id)
  <2>1. event[About[c]] = seen[m].event /\ seen[m].event # None
    BY <1>4 DEF IInv, StoredBacked
  <2>2. QED
    BY <1>1, <1>4, <2>1 DEF Stored
<1>5. QED
  BY <1>2, <1>3, <1>4

LEMMA FindStep ==
  ASSUME IInv, NEW c \in Callers, Find(c)
  PROVE  IInv'
<1> USE Disjoint
<1>1. PICK m \in Moderations : RespondedTo(c, m) /\
        \E id \in {seen[m].event, ByMessage(c)},
           quote \in {NoAction, seen[m].action} :
          \/ /\ ~Stored(id)
             /\ Goto(c, "notfound")
             /\ UNCHANGED seen
          \/ /\ Stored(id)
             /\ \E d \in decisions : IsLatest(d, id) /\
                \/ /\ Agrees(c, quote, d)
                   /\ seen' = [seen EXCEPT ![c] =
                        [event |-> id, action |-> d.action, at |-> d.at,
                         quoted |-> quote]]
                   /\ Goto(c, "saving")
                \/ /\ ~Agrees(c, quote, d)
                   /\ Goto(c, "conflict")
                   /\ UNCHANGED seen
  BY DEF Find
<1>2. PICK id \in {seen[m].event, ByMessage(c)},
           quote \in {NoAction, seen[m].action} :
        \/ /\ ~Stored(id)
           /\ Goto(c, "notfound")
           /\ UNCHANGED seen
        \/ /\ Stored(id)
           /\ \E d \in decisions : IsLatest(d, id) /\
              \/ /\ Agrees(c, quote, d)
                 /\ seen' = [seen EXCEPT ![c] =
                      [event |-> id, action |-> d.action, at |-> d.at,
                       quoted |-> quote]]
                 /\ Goto(c, "saving")
              \/ /\ ~Agrees(c, quote, d)
                 /\ Goto(c, "conflict")
                 /\ UNCHANGED seen
  BY <1>1
<1>3. UNCHANGED <<tables, expired, now, tries, created, faults>>
  BY DEF Find
<1>a. UNCHANGED tables
  BY <1>3
<1>4. /\ Stored(id) => id \in 1..events /\ event[About[c]] = id
      /\ c \in Reporters /\ About[c] \notin expired => Stored(id)
  BY <1>1, FoundOwn
<1>5. quote \in Actions \cup {NoAction}
  <2>1. seen[m].action \in Actions \cup {NoAction}
    BY Types DEF IInv, Holdings
  <2>2. QED
    BY <1>2, <2>1
<1>6. CASE ~Stored(id) /\ Goto(c, "notfound") /\ UNCHANGED seen
  <2> USE <1>6 DEF Goto
  <2>1. TypeOK'
    BY <1>3 DEF IInv, TypeOK, tables
  <2>2. pc'[c] = "notfound" /\ \A q \in Requests \ {c} : pc'[q] = pc[q]
    BY DEF IInv, TypeOK
  <2>3. OwnEvents' /\ LineageSound' /\ OneFeedbackPerKey'
    BY <1>a, TablesUnmoved
  <2>4. HeldEvents'
    BY <1>a, TablesUnmoved DEF IInv, HeldEvents, tables
  <2>5. HeldDecisions' /\ SavedKept'
    BY <1>a, <2>2, RequestUnmoved DEF HeldDecisions, SavedKept
  <2>6. DecisionsMade' /\ StoredBacked'
    BY <1>3, <2>2 DEF IInv, DecisionsMade, StoredBacked, StoredDecision,
                      tables
  <2>7. FeedbackFound'
    BY <1>3, <1>4, <2>2 DEF IInv, FeedbackFound
  <2>8. QED
    BY <2>1, <2>3, <2>4, <2>5, <2>6, <2>7 DEF IInv
<1>7. CASE Goto(c, "conflict") /\ UNCHANGED seen
  <2> USE <1>7 DEF Goto
  <2>1. TypeOK'
    BY <1>3 DEF IInv, TypeOK, tables
  <2>2. pc'[c] = "conflict" /\ \A q \in Requests \ {c} : pc'[q] = pc[q]
    BY DEF IInv, TypeOK
  <2>3. QED
    BY <1>3, <2>1, <2>2, CallerMoved
<1>8. ASSUME Stored(id), NEW d \in decisions, IsLatest(d, id),
             Agrees(c, quote, d), Goto(c, "saving"),
             seen' = [seen EXCEPT ![c] =
               [event |-> id, action |-> d.action, at |-> d.at,
                quoted |-> quote]]
      PROVE  IInv'
  <2> USE <1>8 DEF Goto
  <2>1. /\ d.event = id /\ d.at \in 1..now /\ d.action \in Actions
        /\ events \in Nat /\ now \in Nat
    BY DEF IInv, TypeOK, IsLatest
  <2>2. /\ seen'[c] = [event |-> id, action |-> d.action, at |-> d.at,
                       quoted |-> quote]
        /\ pc'[c] = "saving"
        /\ \A q \in Requests \ {c} : seen'[q] = seen[q] /\ pc'[q] = pc[q]
    BY DEF IInv, TypeOK
  <2>3. TypeOK'
    <3>1. id \in Nat /\ d.at \in Nat
      BY <1>4, <2>1
    <3>2. [event |-> id, action |-> d.action, at |-> d.at, quoted |-> quote]
            \in Holdings
      BY <1>5, <2>1, <3>1 DEF Holdings
    <3>3. seen' \in [Requests -> Holdings]
      BY <3>2 DEF IInv, TypeOK
    <3>4. QED
      BY <1>3, <3>3 DEF IInv, TypeOK, tables
  <2>4. OwnEvents' /\ LineageSound' /\ OneFeedbackPerKey'
    BY <1>a, TablesUnmoved
  <2>5. HeldEvents'
    <3> SUFFICES ASSUME NEW q \in Requests
                 PROVE  /\ seen'[q].event <= events'
                        /\ Stored(seen[q].event)'
                             => event'[About[q]] = seen'[q].event
      BY DEF HeldEvents
    <3>1. CASE q = c
      <4>1. seen'[q].event = id /\ events' = events /\ event' = event
        BY <3>1, <1>a, <2>2 DEF tables
      <4>2. id <= events /\ event[About[q]] = id
        BY <3>1, <1>4, <2>1
      <4>3. QED
        BY <4>1, <4>2
    <3>2. CASE q # c
      BY <3>2, <1>a, <2>2, RequestUnmoved
    <3>3. QED
      BY <3>1, <3>2
  <2>6. HeldDecisions'
    <3>1. DecidedAt(seen[c].event, seen[c].at, seen[c].quoted)'
      BY <1>a, <2>1, <2>2 DEF DecidedAt, Agrees, tables
    <3>2. \A q \in Callers \ {c} :
            pc'[q] \in {"saving", "saved"} /\ Stored(seen[q].event)'
              => DecidedAt(seen[q].event, seen[q].at, seen[q].quoted)'
      BY <1>a, <2>2, RequestUnmoved
    <3>3. QED
      BY <3>1, <3>2 DEF HeldDecisions
  <2>7. SavedKept'
    BY <1>a, <2>2, RequestUnmoved DEF SavedKept
  <2>8. DecisionsMade' /\ StoredBacked' /\ FeedbackFound'
    BY <1>3, <2>2 DEF IInv, DecisionsMade, StoredBacked, StoredDecision,
                      FeedbackFound, tables
  <2>9. QED
    BY <2>3, <2>4, <2>5, <2>6, <2>7, <2>8 DEF IInv
<1>9. QED
  BY <1>2, <1>6, <1>7, <1>8

\* An INSERT of feedback attaches it where it was looked up.
LEMMA FeedbackInserted ==
  ASSUME IInv, NEW c \in Reporters, pc[c] = "saving", ~Taken(c),
         Stored(seen[c].event), TypeOK',
         UNCHANGED <<event, events, decisions, results, expired, now, seen>>,
         feedback' = feedback \cup
           {[event |-> seen[c].event, at |-> seen[c].at,
             quoted |-> seen[c].quoted, by |-> c, copy |-> tries[c]]},
         pc'[c] = "saved", \A q \in Requests \ {c} : pc'[q] = pc[q]
  PROVE  IInv'
<1> USE Disjoint
<1> DEFINE new == [event |-> seen[c].event, at |-> seen[c].at,
                   quoted |-> seen[c].quoted, by |-> c, copy |-> tries[c]]
<1>1. /\ new.event = seen[c].event /\ new.at = seen[c].at
      /\ new.quoted = seen[c].quoted /\ new.by = c
      /\ feedback' = feedback \cup {new}
  OBVIOUS
<1> HIDE DEF new
<1>2. DecidedAt(new.event, new.at, new.quoted)
  BY <1>1 DEF IInv, HeldDecisions
<1>3. event[About[new.by]] = new.event
  BY <1>1 DEF IInv, HeldEvents
<1>4. OwnEvents' /\ HeldEvents'
  BY DEF IInv, OwnEvents, HeldEvents, Stored
<1>5. LineageSound'
  BY <1>1, <1>2, <1>3 DEF IInv, LineageSound, Stored, DecidedAt
<1>6. HeldDecisions' /\ DecisionsMade' /\ StoredBacked' /\ FeedbackFound'
  BY DEF IInv, HeldDecisions, DecidedAt, DecisionsMade, StoredBacked,
         StoredDecision, FeedbackFound, Stored
<1>7. OneFeedbackPerKey'
  BY <1>1 DEF IInv, OneFeedbackPerKey, Taken
<1>8. SavedKept'
  <2>1. KeptFor(c)'
    BY <1>1 DEF KeptFor
  <2>2. \A q \in Reporters \ {c} : KeptFor(q) => KeptFor(q)'
    BY <1>1 DEF KeptFor
  <2>3. QED
    BY <2>1, <2>2 DEF IInv, SavedKept, Stored
<1>9. QED
  BY <1>4, <1>5, <1>6, <1>7, <1>8 DEF IInv

LEMMA SaveStep ==
  ASSUME IInv, NEW c \in Callers, Save(c)
  PROVE  IInv'
<1> USE Disjoint DEF Goto
<1>a. /\ pc[c] = "saving"
      /\ UNCHANGED <<event, events, decisions, expired, now, tries, seen,
                     faults>>
  BY DEF Save
<1>b. ASSUME pc' = [pc EXCEPT ![c] = "saved"]
      PROVE  pc'[c] = "saved" /\ \A q \in Requests \ {c} : pc'[q] = pc[q]
  BY <1>b DEF IInv, TypeOK
<1>1. CASE /\ Taken(c) /\ created' = [created EXCEPT ![c] = FALSE]
           /\ Goto(c, "saved") /\ UNCHANGED <<feedback, results>>
  <2>1. TypeOK'
    BY <1>a, <1>1 DEF IInv, TypeOK
  <2>2. ASSUME c \in Reporters, Stored(seen[c].event)
        PROVE  KeptFor(c)
    <3>1. PICK f \in feedback : Key[f.by] = Key[c] /\ Key[c] # NoKey
      BY <1>1 DEF Taken
    <3>2. f.by \in Reporters /\ event[About[f.by]] = f.event
      BY <3>1 DEF IInv, TypeOK, LineageSound
    <3>3. About[f.by] = About[c]
      BY <2>2, <3>1, <3>2, KeyAssumption
    <3>4. event[About[c]] = seen[c].event
      BY <2>2 DEF IInv, HeldEvents
    <3>5. QED
      BY <3>1, <3>2, <3>3, <3>4 DEF KeptFor
  <2>3. QED
    BY <1>a, <1>b, <1>1, <2>1, <2>2, CallerMoved DEF tables
<1>2. CASE /\ Goto(c, "unavailable")
           /\ UNCHANGED <<feedback, results, created>>
  <2>1. TypeOK'
    BY <1>a, <1>2 DEF IInv, TypeOK
  <2>2. pc'[c] = "unavailable" /\ \A q \in Requests \ {c} : pc'[q] = pc[q]
    BY <1>2 DEF IInv, TypeOK
  <2>3. QED
    BY <1>a, <1>2, <2>1, <2>2, CallerMoved DEF tables
<1>3. ASSUME ~Taken(c), Stored(seen[c].event), Goto(c, "saved"),
             created' = [created EXCEPT ![c] = TRUE]
      PROVE  /\ pc' \in [Requests -> {"idle", "decided", "stored",
                          "answered", "failed", "saving", "saved",
                          "accepted", "duplicate", "conflict", "notfound",
                          "foreign", "unavailable"}]
             /\ created' \in [Callers -> BOOLEAN]
             /\ seen[c].event \in 1..events
             /\ tries[c] \in 1..MaxAttempts
             /\ seen[c].at \in 1..now
             /\ seen[c].quoted \in Actions \cup {NoAction}
  <2>1. /\ events \in Nat /\ seen[c] \in Holdings
        /\ \A x \in Messages : event[x] \in 0..events
    BY Types DEF IInv
  <2>2. seen[c].event \in 1..events
    BY <1>3, <2>1 DEF Stored, None
  <2>3. seen[c].at \in 1..now
    BY <1>a, <1>3 DEF IInv, TypeOK, HeldDecisions, DecidedAt
  <2>4. QED
    BY <1>3, <2>1, <2>2, <2>3 DEF IInv, TypeOK, Holdings
<1>4. CASE /\ ~Taken(c) /\ Stored(seen[c].event) /\ Goto(c, "saved")
           /\ created' = [created EXCEPT ![c] = TRUE]
           /\ c \in Reporters /\ UNCHANGED results
           /\ feedback' = feedback \cup
                {[event |-> seen[c].event, at |-> seen[c].at,
                  quoted |-> seen[c].quoted, by |-> c, copy |-> tries[c]]}
  <2>1. TypeOK'
    BY <1>a, <1>3, <1>4 DEF IInv, TypeOK
  <2>2. QED
    BY <1>a, <1>b, <1>4, <2>1, FeedbackInserted
<1>5. CASE /\ ~Taken(c) /\ Stored(seen[c].event) /\ Goto(c, "saved")
           /\ created' = [created EXCEPT ![c] = TRUE]
           /\ c \in Executors /\ UNCHANGED feedback
           /\ results' = results \cup
                {[event |-> seen[c].event, by |-> c, copy |-> tries[c]]}
  <2>1. TypeOK'
    BY <1>a, <1>3, <1>5 DEF IInv, TypeOK
  <2>2. LineageSound'
    BY <1>a, <1>5 DEF IInv, LineageSound, Stored
  <2>3. OwnEvents' /\ HeldEvents' /\ OneFeedbackPerKey'
    BY <1>a, <1>5 DEF IInv, OwnEvents, HeldEvents, OneFeedbackPerKey, Stored
  <2>4. HeldDecisions' /\ DecisionsMade' /\ StoredBacked' /\ FeedbackFound'
    BY <1>a, <1>b, <1>5
    DEF IInv, HeldDecisions, DecidedAt, DecisionsMade, StoredBacked,
        StoredDecision, FeedbackFound, Stored
  <2>5. SavedKept'
    BY <1>a, <1>b, <1>5 DEF IInv, SavedKept, KeptFor, Stored
  <2>6. QED
    BY <2>1, <2>2, <2>3, <2>4, <2>5 DEF IInv
<1>6. QED
  BY <1>1, <1>2, <1>4, <1>5 DEF Save, Callers

-----------------------------------------------------------------------------
(* The theorems                                                            *)

\* Every step keeps the inductive invariant.
THEOREM Invariance == Spec => []IInv
<1>1. IInv /\ [Next]_vars => IInv'
  <2> SUFFICES ASSUME IInv, [Next]_vars
               PROVE  IInv'
    OBVIOUS
  <2>1. ASSUME NEW x \in Messages, Expire(x)
        PROVE  IInv'
    BY <2>1, ExpireStep
  <2>2. ASSUME NEW m \in Moderations,
               Decide(m) \/ Fail(m) \/ Persist(m) \/ Respond(m)
        PROVE  IInv'
    BY <2>2, DecideStep, FailStep, PersistStep, RespondStep
  <2>3. ASSUME NEW c \in Callers,
               \/ Find(c) \/ WrongGuild(c) \/ Save(c)
               \/ Disconnect(c) \/ Acknowledge(c)
        PROVE  IInv'
    BY <2>3, FindStep, WrongGuildStep, SaveStep, DisconnectStep,
       AcknowledgeStep
  <2>4. ASSUME UNCHANGED vars
        PROVE  IInv'
    BY <2>4
    DEF vars, tables, IInv, TypeOK, OwnEvents, HeldEvents, LineageSound,
        HeldDecisions, DecidedAt, DecisionsMade, StoredBacked,
        StoredDecision, OneFeedbackPerKey, SavedKept, KeptFor,
        FeedbackFound, Stored
  <2>5. QED
    BY <2>1, <2>2, <2>3, <2>4 DEF Next
<1>2. QED
  BY <1>1, InitIInv, PTL DEF Spec

\* The state of the requests and of the tables keeps its types, and no run or
\* attempt goes beyond its bound.
THEOREM TypeCorrect == Spec => []TypeOK
<1>1. IInv => TypeOK
  BY DEF IInv
<1>2. QED
  BY <1>1, Invariance, PTL

\* Neither a late transaction, nor a purge, nor a repeated INSERT leaves a row
\* that hangs on nothing, or feedback on the decision of another message.
THEOREM Lineage == Spec => []LineageSound
<1>1. IInv => LineageSound
  BY DEF IInv
<1>2. QED
  BY <1>1, Invariance, PTL

\* A key is stored once, for any number of senders and repetitions.
THEOREM KeyOnce == Spec => []OneFeedbackPerKey
<1>1. IInv => OneFeedbackPerKey
  BY DEF IInv
<1>2. QED
  BY <1>1, Invariance, PTL

\* No acknowledgement of feedback is given for a row that is not there.
THEOREM Kept == Spec => []AcknowledgedKept
<1>1. IInv => AcknowledgedKept
  BY DEF IInv, SavedKept, KeptFor, AcknowledgedKept
<1>2. QED
  BY <1>1, Invariance, PTL

\* A response is backed by its stored decision for as long as its message is
\* retained, whatever is moderated, repeated or purged meanwhile.
THEOREM Backed == Spec => []ResponseBacked
<1>1. IInv => ResponseBacked
  BY DEF IInv, StoredBacked, StoredDecision, ResponseBacked
<1>2. QED
  BY <1>1, Invariance, PTL

\* Feedback on a response to a retained message is never turned away as not
\* found.
THEOREM Found == Spec => []FeedbackFound
<1>1. IInv => FeedbackFound
  BY DEF IInv
<1>2. QED
  BY <1>1, Invariance, PTL

\* Feedback is found and kept: the four theorems above together.
THEOREM FeedbackSafe == Spec => []FeedbackKept
<1>1. OneFeedbackPerKey /\ AcknowledgedKept /\ ResponseBacked /\ FeedbackFound => FeedbackKept
  BY DEF FeedbackKept
<1>2. QED
  BY <1>1, KeyOnce, Kept, Backed, Found, PTL
=============================================================================
