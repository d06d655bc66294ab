-------------------------- MODULE ModerationLineage --------------------------
(***************************************************************************)
(* The lineage of a moderated message: the event, its decisions, and the   *)
(* feedback and action results that later requests attach to them          *)
(* (src/src/application/api_moderation_service.py and the two PostgreSQL   *)
(* repositories behind it).                                                *)
(*                                                                         *)
(* A moderation decides first and stores the event and the decision in one *)
(* transaction afterwards, so that decisions may be stored in another      *)
(* order than they were made; every such transaction also purges the       *)
(* events whose retention has passed, with all that hangs on them.  The    *)
(* transaction is not repeated by the database layer, but the request      *)
(* queue runs a failed moderation again from the start.  Feedback and      *)
(* action results look the event up, let go of the database, and insert in *)
(* a second statement, which is executed again when its reply was lost.    *)
(*                                                                         *)
(* Decisions are named by the time they were made; two in the same         *)
(* microsecond are left out.  Text, features, labels and policies are      *)
(* abstracted to the action chosen.  A simulation stores nothing and is    *)
(* left out.                                                               *)
(***************************************************************************)
EXTENDS Naturals

CONSTANTS Messages,     \* (guild, message) pairs
          Moderations,  \* requests to moderate a message
          Reporters,    \* feedback requests
          Executors,    \* action-result requests
          About,        \* the message of each request
          Key,          \* the idempotency key of each feedback
          NoKey,        \* the absent key
          Actions,      \* ModerationAction
          NoAction,     \* the absent original_action
          MaxRuns,      \* the queue's max_attempts
          MaxAttempts,  \* reconnect_attempts of the database layer
          MaxFaults     \* bound: failures of the database or of a policy

Callers == Reporters \cup Executors
Requests == Moderations \cup Callers

ASSUME RequestsAssumption ==
  /\ Moderations \cap Callers = {} /\ Reporters \cap Executors = {}
ASSUME AboutAssumption == About \in [Requests -> Messages]
ASSUME ActionsAssumption == NoAction \notin Actions
ASSUME LimitAssumption ==
  MaxRuns \in Nat \ {0} /\ MaxAttempts \in Nat \ {0} /\ MaxFaults \in Nat
\* An adapter uses a key for one message only.
ASSUME KeyAssumption ==
  \A q, r \in Reporters : Key[q] = Key[r] /\ Key[q] # NoKey
                            => About[q] = About[r]

None == 0  \* events are numbered from 1

VARIABLES
  event,      \* the stored event of each message, or None
  events,     \* events created so far
  expired,    \* messages whose retention has passed
  now,        \* the time of the latest decision
  decisions,  \* stored decisions: [event, action, at]
  feedback,   \* stored feedback: [event, at, quoted, by, copy]
  results,    \* stored action results: [event, by, copy]
  pc,         \* where each request is
  tries,      \* runs of a moderation, attempts of an INSERT
  seen,       \* what a request holds: [event, action, at, quoted]
  created,    \* whether its INSERT was not stopped by a key
  faults

tables == <<event, events, decisions, feedback, results>>
vars == <<tables, expired, now, pc, tries, seen, created, faults>>

Nothing == [event |-> None, action |-> NoAction, at |-> 0,
            quoted |-> NoAction]

Init ==
  /\ event = [x \in Messages |-> None] /\ events = 0
  /\ expired = {} /\ now = 0
  /\ decisions = {} /\ feedback = {} /\ results = {}
  /\ pc = [c \in Requests |-> "idle"]
  /\ tries = [c \in Requests |-> 1]
  /\ seen = [c \in Requests |-> Nothing]
  /\ created = [c \in Callers |-> FALSE]
  /\ faults = 0

-----------------------------------------------------------------------------
Goto(c, step) == pc' = [pc EXCEPT ![c] = step]
Fault == faults < MaxFaults /\ faults' = faults + 1
Stored(id) == \E x \in Messages : id # None /\ event[x] = id

\* The retention of a message counts from its creation, not from its event.
Expire(x) ==
  /\ x \notin expired
  /\ expired' = expired \cup {x}
  /\ UNCHANGED <<tables, now, pc, tries, seen, created, faults>>

-----------------------------------------------------------------------------
(* moderate()                                                              *)

Decide(m) ==
  /\ pc[m] = "idle"
  /\ now' = now + 1
  /\ \E a \in Actions :
       seen' = [seen EXCEPT ![m] = [Nothing EXCEPT !.action = a, !.at = now']]
  /\ Goto(m, "decided")
  /\ UNCHANGED <<tables, expired, tries, created, faults>>

\* A policy, the transaction or its commit fails, the last with or without
\* effect: the queue starts again or gives the request up.
Fail(m) ==
  /\ pc[m] \in {"idle", "decided", "stored"}
  /\ Fault
  /\ \/ /\ tries[m] < MaxRuns
        /\ tries' = [tries EXCEPT ![m] = @ + 1]
        /\ Goto(m, "idle")
     \/ /\ tries[m] = MaxRuns
        /\ Goto(m, "failed")
        /\ UNCHANGED tries
  /\ UNCHANGED <<tables, expired, now, seen, created>>

Purged == {event[x] : x \in expired} \ {None}

\* The event of message x, unless the same transaction has just purged it.
Upserted(x) == IF event[x] \in Purged \cup {None} THEN events + 1
                                                  ELSE event[x]

\* The purge, with its cascades, the event and the decision: one transaction.
Persist(m) ==
  LET id == Upserted(About[m])
      Kept(rows) == {r \in rows : r.event \notin Purged}
  IN
  /\ pc[m] = "decided"
  /\ event' = [x \in Messages |-> IF x = About[m] THEN id
                                  ELSE IF event[x] \in Purged THEN None
                                  ELSE event[x]]
  /\ events' = IF id > events THEN id ELSE events
  /\ decisions' = Kept(decisions) \cup
       {[event |-> id, action |-> seen[m].action, at |-> seen[m].at]}
  /\ feedback' = Kept(feedback)
  /\ results' = Kept(results)
  /\ seen' = [seen EXCEPT ![m].event = id]
  /\ Goto(m, "stored")
  /\ UNCHANGED <<expired, now, tries, created, faults>>

Respond(m) ==
  /\ pc[m] = "stored"
  /\ Goto(m, "answered")
  /\ UNCHANGED <<tables, expired, now, tries, seen, created, faults>>

-----------------------------------------------------------------------------
(* submit_feedback() and submit_action_result()                            *)

\* The response that caller c reports on.
RespondedTo(c, m) ==
  About[m] = About[c] /\ pc[m] = "answered"

\* An action result has no guild: looked up by its message it matches none.
ByMessage(c) == IF c \in Reporters THEN event[About[c]] ELSE None

IsLatest(d, id) ==
  d.event = id /\ \A e \in decisions : e.event = id => e.at <= d.at

\* Mutant: the quoted action is not compared.
AgreesAlways(c, quote, d) == TRUE

Agrees(c, quote, d) == quote \in {NoAction, d.action}

\* The event is named by the id of a response or by its message; feedback may
\* quote the action of that response.  Any action may be reported as executed.
Find(c) ==
  /\ pc[c] = "idle"
  /\ \E m \in Moderations : RespondedTo(c, m) /\
     \E id \in {seen[m].event, ByMessage(c)},
        quote \in {NoAction, seen[m].action} :
       /\ c \in Executors => quote = NoAction
       /\ \/ /\ ~Stored(id)
             /\ Goto(c, "notfound")
             /\ UNCHANGED seen
          \/ /\ Stored(id)
             /\ \E d \in decisions : IsLatest(d, id) /\
                \/ /\ Agrees(c, quote, d)
                   /\ seen' = [seen EXCEPT ![c] =
                        [event |-> id, action |-> d.action, at |-> d.at,
                         quoted |-> quote]]
                   /\ Goto(c, "saving")
                \/ /\ ~Agrees(c, quote, d)
                   /\ Goto(c, "conflict")
                   /\ UNCHANGED seen
  /\ UNCHANGED <<tables, expired, now, tries, created, faults>>

\* Feedback that names an event of another guild is not found.
WrongGuild(c) ==
  /\ c \in Reporters
  /\ pc[c] = "idle"
  /\ Goto(c, "foreign")
  /\ UNCHANGED <<tables, expired, now, tries, seen, created, faults>>

Taken(c) == /\ c \in Reporters /\ Key[c] # NoKey
            /\ \E f \in feedback : Key[f.by] = Key[c]

\* The key is tested first, then the reference to the event.
Save(c) ==
  /\ pc[c] = "saving"
  /\ \/ /\ Taken(c)
        /\ created' = [created EXCEPT ![c] = FALSE]
        /\ Goto(c, "saved")
        /\ UNCHANGED <<feedback, results>>
     \/ /\ ~Taken(c) /\ ~Stored(seen[c].event)
        /\ Goto(c, "unavailable")
        /\ UNCHANGED <<feedback, results, created>>
     \/ /\ ~Taken(c) /\ Stored(seen[c].event)
        /\ created' = [created EXCEPT ![c] = TRUE]
        /\ IF c \in Reporters
           THEN /\ feedback' = feedback \cup
                     {[event |-> seen[c].event, at |-> seen[c].at,
                       quoted |-> seen[c].quoted, by |-> c,
                       copy |-> tries[c]]}
                /\ UNCHANGED results
           ELSE /\ results' = results \cup
                     {[event |-> seen[c].event, by |-> c, copy |-> tries[c]]}
                /\ UNCHANGED feedback
        /\ Goto(c, "saved")
  /\ UNCHANGED <<event, events, decisions, expired, now, tries, seen, faults>>

MayRepeat(c) == tries[c] < MaxAttempts

\* Mutant: a statement without a reply is taken to have been executed.
RepeatedFromSaved(c) == "saved"

RepeatedFrom(c) == "saving"

\* The connection breaks, before or after the INSERT took effect.  (A failed
\* SELECT is repeated without a trace, until the attempts are used up.)
Disconnect(c) ==
  /\ pc[c] \in {"idle", "saving", "saved"}
  /\ Fault
  /\ \/ /\ pc[c] # "idle" /\ MayRepeat(c)
        /\ tries' = [tries EXCEPT ![c] = @ + 1]
        /\ Goto(c, RepeatedFrom(c))
     \/ /\ pc[c] = "idle" \/ ~MayRepeat(c)
        /\ Goto(c, "unavailable")
        /\ UNCHANGED tries
  /\ UNCHANGED <<tables, expired, now, seen, created>>

Acknowledge(c) ==
  /\ pc[c] = "saved"
  /\ Goto(c, IF created[c] THEN "accepted" ELSE "duplicate")
  /\ UNCHANGED <<tables, expired, now, tries, seen, created, faults>>

Next ==
  \/ \E x \in Messages : Expire(x)
  \/ \E m \in Moderations : Decide(m) \/ Fail(m) \/ Persist(m) \/ Respond(m)
  \/ \E c \in Callers : \/ Find(c) \/ WrongGuild(c) \/ Save(c)
                        \/ Disconnect(c) \/ Acknowledge(c)

Spec == Init /\ [][Next]_vars

-----------------------------------------------------------------------------
Holdings == [event : Nat, action : Actions \cup {NoAction}, at : Nat,
             quoted : Actions \cup {NoAction}]

\* The types, and the bounds on runs and attempts.
TypeOK ==
  /\ event \in [Messages -> 0..events] /\ events \in Nat
  /\ expired \subseteq Messages /\ now \in Nat
  /\ decisions \subseteq [event : 1..events, action : Actions, at : 1..now]
  /\ feedback \subseteq [event : 1..events, at : 1..now,
                         quoted : Actions \cup {NoAction}, by : Reporters,
                         copy : 1..MaxAttempts]
  /\ results \subseteq [event : 1..events, by : Executors,
                        copy : 1..MaxAttempts]
  /\ pc \in [Requests -> {"idle", "decided", "stored", "answered", "failed",
                          "saving", "saved", "accepted", "duplicate",
                          "conflict", "notfound", "foreign", "unavailable"}]
  /\ tries \in [Requests -> Nat]
  /\ \A c \in Callers : tries[c] \in 1..MaxAttempts
  /\ \A m \in Moderations : tries[m] \in 1..MaxRuns
  /\ seen \in [Requests -> Holdings]
  /\ created \in [Callers -> BOOLEAN]
  /\ faults \in 0..MaxFaults

\* Whatever is stored hangs on a stored event, and feedback on a decision of
\* the event of its own message which chose the action the feedback quoted.
LineageSound ==
  /\ \A r \in decisions \cup results : Stored(r.event)
  /\ \A f \in feedback :
       /\ event[About[f.by]] = f.event
       /\ \E d \in decisions : /\ d.event = f.event /\ d.at = f.at
                               /\ f.quoted \in {NoAction, d.action}

\* A key is stored once, however often its feedback is sent or repeated.
OneFeedbackPerKey ==
  \A f, g \in feedback :
    Key[f.by] = Key[g.by] /\ Key[f.by] # NoKey => f = g

\* Feedback that is acknowledged, as accepted or as a duplicate, is stored for
\* as long as the event it was given on.
AcknowledgedKept ==
  \A c \in Reporters :
    pc[c] \in {"accepted", "duplicate"} /\ Stored(seen[c].event) =>
      \E f \in feedback :
        /\ f.event = seen[c].event
        /\ f.by = c \/ (Key[c] # NoKey /\ Key[f.by] = Key[c])

\* "The decision is persisted [...] before the response is returned", and stays
\* under the event id of that response until the message's retention passes.
ResponseBacked ==
  \A m \in Moderations :
    pc[m] = "answered" /\ About[m] \notin expired =>
      /\ event[About[m]] = seen[m].event
      /\ [event |-> seen[m].event, action |-> seen[m].action,
          at |-> seen[m].at] \in decisions

\* Feedback on a response is turned away as not found only when the retention
\* of the message has passed.
FeedbackFound ==
  \A c \in Reporters : pc[c] = "notfound" => About[c] \in expired

\* Feedback is found, kept once under its key, kept as long as it was promised,
\* and what it is given on is kept with it.
FeedbackKept == /\ OneFeedbackPerKey /\ AcknowledgedKept
                /\ ResponseBacked /\ FeedbackFound
-----------------------------------------------------------------------------
(* The inductive invariant of the proofs                                   *)

\* Two messages never share an event.
OwnEvents ==
  \A x, y \in Messages : event[x] # None /\ event[x] = event[y] => x = y

\* The event a request holds was created, and is its message's while stored.
HeldEvents ==
  \A c \in Requests :
    /\ seen[c].event <= events
    /\ Stored(seen[c].event) => event[About[c]] = seen[c].event

DecidedAt(id, at, quoted) ==
  \E d \in decisions : /\ d.event = id /\ d.at = at
                       /\ quoted \in {NoAction, d.action}

\* Feedback about to be inserted is attached like feedback inserted.
HeldDecisions ==
  \A c \in Callers :
    pc[c] \in {"saving", "saved"} /\ Stored(seen[c].event)
      => DecidedAt(seen[c].event, seen[c].at, seen[c].quoted)

\* A decision made carries an action and a time.
DecisionsMade ==
  \A m \in Moderations :
    pc[m] = "decided" => seen[m].action \in Actions /\ seen[m].at \in 1..now

StoredDecision(m) ==
  [event |-> seen[m].event, action |-> seen[m].action, at |-> seen[m].at]

\* What is answered was already true when it was stored.
StoredBacked ==
  \A m \in Moderations :
    pc[m] \in {"stored", "answered"} /\ About[m] \notin expired =>
      /\ event[About[m]] = seen[m].event /\ seen[m].event # None
      /\ StoredDecision(m) \in decisions

KeptFor(c) ==
  \E f \in feedback : /\ f.event = seen[c].event
                      /\ f.by = c \/ (Key[c] # NoKey /\ Key[f.by] = Key[c])

\* What is acknowledged was already true when it was inserted.
SavedKept ==
  \A c \in Reporters :
    pc[c] \in {"saved", "accepted", "duplicate"} /\ Stored(seen[c].event)
      => KeptFor(c)

IInv == /\ TypeOK /\ OwnEvents /\ HeldEvents /\ LineageSound
        /\ HeldDecisions /\ DecisionsMade /\ StoredBacked
        /\ OneFeedbackPerKey /\ SavedKept /\ FeedbackFound
=============================================================================
