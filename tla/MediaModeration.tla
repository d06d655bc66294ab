--------------------------- MODULE MediaModeration ---------------------------
(***************************************************************************)
(* Moderation of a message with images                                     *)
(* (src/src/application/media_moderation_service.py) with the OCR and YOLO *)
(* providers it awaits (paddle_ocr_provider.py,                            *)
(* onnx_yolo_detection_provider.py) and the rows it stores.                *)
(*                                                                         *)
(* A request fetches its attachments one after the other, runs each        *)
(* distinct image through two providers, has one decision made for text    *)
(* and images together, which commits the event of the message, and then   *)
(* stores the analyses of the attachments statement by statement.          *)
(*                                                                         *)
(* A provider runs its model on a thread of the pool that the whole        *)
(* process shares, behind a semaphore of its own.  A caller that stops     *)
(* waiting leaves the semaphore; its job leaves the pool only if no thread *)
(* has taken it up yet.  The pool also serves the name lookup, decoding    *)
(* and hashing of every download.                                          *)
(*                                                                         *)
(* An image is abstracted to its content, a result to the attachment whose *)
(* inference produced it; what the models see is in MediaRules.            *)
(***************************************************************************)
EXTENDS Naturals, Sequences, FiniteSets, SequencesExt

CONSTANTS Requests, Nobody,  \* requests to /moderation/media
          Messages, About,   \* the message of each request
          Contents,          \* distinct images
          Size,              \* bytes of each
          MaxAttachments, MaxTotal,  \* max_attachments, max_total_size_bytes
          Configs,           \* runtime configurations, fixed at start
          MediaPolicies,          \* effective media policies of the guild
          Permits,           \* inference_concurrency of each provider
          Loads,             \* bound: most attachments of each request
          MaxFaults          \* bound: timeouts, failed writes, crashes, and
                             \* attachments that outlive their retention

Stages == {"ocr", "image"}
NoContent == 0  \* hashes is None; contents are numbered from 1
NoResult == 0   \* attachments are numbered from 1
NoEvent == 0
Places == 1 .. MaxAttachments

ASSUME ContentsAssumption ==
  /\ Contents \subseteq Nat \ {NoContent}
  /\ Size \in [Contents -> Nat \ {0}]
ASSUME LimitAssumption ==
  /\ MaxAttachments \in Nat \ {0} /\ MaxTotal \in Nat
  /\ Loads \subseteq [Requests -> Nat] /\ MaxFaults \in Nat
  /\ Permits \in [Stages -> Nat \ {0}]
ASSUME AboutAssumption ==
  About \in [Requests -> Messages] /\ Nobody \notin Requests
\* Settings refuse required without enabled; a provider is off, or enabled and
\* its model loaded (ready) or not (broken); pool is the size of the default
\* executor, which depends on the machine.
ASSUME ConfigAssumption ==
  /\ Configs \subseteq [enabled : BOOLEAN, required : BOOLEAN,
                        pool : Nat \ {0},
                        provider : [Stages -> {"off", "broken", "ready"}]]
  /\ \A c \in Configs : c.required => c.enabled
  /\ MediaPolicies # {}
  /\ MediaPolicies \subseteq [Stages -> [enabled : BOOLEAN,
                                        required : BOOLEAN]]

VARIABLES
  config,
  load,      \* a load of Loads
  req,       \* what each request knows and has been answered: see Blank
  line,      \* requests waiting for the semaphore of each stage
  inside,    \* those that hold it
  backlog,   \* jobs the pool has not begun: <<request, attachment, stage>>
  threads,   \* jobs that occupy a thread
  event,     \* the stored event of each message, or NoEvent
  events,    \* events created so far
  attachment,  \* who stored the attachment at a place of a message
  result,    \* who stored the analysis of a stage of it
  due,       \* messages whose event is past its retention
  lapsed,    \* attachments past their own retention_until
  faults

slots == <<line, inside, backlog, threads>>
store == <<event, events, attachment, result, due, lapsed>>
mediaVars == <<config, load, req, slots, store, faults>>

Result(status, content) == [status |-> status, content |-> content,
                            ocr |-> NoResult, image |-> NoResult]

\* _failed_analysis: neither hashes nor results.
Failed(status) == Result(status, NoContent)

\* What a request remembers; analyses are those of the attachments done with,
\* draft the one under way, todo the statements still to execute.
Blank(step, a) ==
  [pc |-> step, answer |-> a, policy |-> CHOOSE p \in MediaPolicies : TRUE,
   count |-> 0, analyses |-> <<>>, draft |-> Failed("analyzed"), total |-> 0,
   todo |-> {}, event |-> NoEvent]

MediaInit ==
  /\ config \in Configs /\ load \in Loads
  /\ req = [r \in Requests |-> Blank("idle", "none")]
  /\ line = [s \in Stages |-> <<>>] /\ inside = [s \in Stages |-> {}]
  /\ backlog = <<>> /\ threads = {}
  /\ event = [m \in Messages |-> NoEvent] /\ events = 0
  /\ attachment = [m \in Messages |-> [k \in Places |-> Nobody]]
  /\ result = [m \in Messages |-> [k \in Places |-> [s \in Stages |-> Nobody]]]
  /\ due = {} /\ lapsed = {}
  /\ faults = 0

-----------------------------------------------------------------------------
Fault == faults < MaxFaults /\ faults' = faults + 1

Become(r, v) == req' = [req EXCEPT ![r] = v]

\* An error ends the request: what it knew is gone with it.
Abort(r, a) == Become(r, Blank("done", a))

\* The attachment a request works on.
Place(r) == Len(req[r].analyses) + 1

\* Append an analysis to those of v and turn to the next attachment, or to the
\* decision.
Keep(r, v, a) ==
  LET last == Place(r) = v.count IN
  Become(r, [v EXCEPT !.analyses = Append(@, a), !.draft = Failed("analyzed"),
                      !.total = IF last THEN 0 ELSE @,
                      !.pc = IF last THEN "decide" ELSE "ingest"])

-----------------------------------------------------------------------------
(* Admission                                                               *)

\* Too many attachments, or a media policy that cannot be had, end the request
\* at once; with media switched off only the text is moderated.
Submit(r) ==
  /\ req[r].pc = "idle"
  /\ \E n \in 1 .. load[r], p \in MediaPolicies :
       \/ n > MaxAttachments /\ Abort(r, "refused")
       \/ Abort(r, "unavailable")
       \/ /\ n <= MaxAttachments
          /\ Become(r, [Blank(IF config.enabled THEN "ingest" ELSE "decide",
                              "none") EXCEPT !.count = n, !.policy = p])
  /\ UNCHANGED <<config, load, slots, store, faults>>

-----------------------------------------------------------------------------
(* _ingest_attachment and the byte budget                                  *)

\* Mutant: only the bytes of attachments that are analysed count.
AddDistinct(r, c) ==
  req[r].total + IF \E a \in ToSet(req[r].analyses) : a.content = c
                 THEN 0 ELSE Size[c]

\* Downloaded bytes count whether the attachment is kept or not.
Add(r, c) == req[r].total + Size[c]

Originals(r, c) == {k \in DOMAIN req[r].analyses :
                      req[r].analyses[k].content = c}

\* A duplicate gets the results of the image it repeats.
Duplicate(r, c) == [req[r].analyses[Min(Originals(r, c))]
                      EXCEPT !.status = "duplicate"]

\* The hint, the download, the validator and the hasher; what is too large for
\* the request is rejected.
Fetch(r, c) ==
  LET v == [req[r] EXCEPT !.total = Add(r, c)] IN
  \/ v.total > MaxTotal /\ Keep(r, v, Failed("rejected"))
  \/ v.total <= MaxTotal /\ Originals(r, c) # {} /\ Keep(r, v, Duplicate(r, c))
  \/ /\ v.total <= MaxTotal /\ Originals(r, c) = {}
     /\ Become(r, [v EXCEPT !.pc = "ocr", !.draft = Result("analyzed", c)])

\* A MediaError is contained in its attachment; any other exception, of a name
\* lookup say, is not.
FetchFails(r) ==
  \/ \E status \in {"rejected", "unavailable"} : Keep(r, req[r], Failed(status))
  \/ Abort(r, "error")

\* A thread of the pool must be free for the name lookup and the decoding.
Ingest(r) ==
  /\ req[r].pc = "ingest"
  /\ Cardinality(threads) < config.pool
  /\ FetchFails(r) \/ \E c \in Contents : Fetch(r, c)
  /\ UNCHANGED <<config, load, slots, store, faults>>

-----------------------------------------------------------------------------
(* _run_providers: OCR first, then YOLO                                    *)

\* A policy can only narrow what the installation offers.  OCR is left out when
\* its model is not loaded; YOLO is called all the same, and fails.
Wanted(r, s) ==
  /\ req[r].policy[s].enabled
  /\ config.provider[s] \in IF s = "ocr" THEN {"ready"} ELSE {"ready", "broken"}

Calling(r, s) ==
  req[r].pc = s /\ r \notin inside[s] /\ r \notin ToSet(line[s])

Conclude(r, s, res) ==
  LET v == [req[r] EXCEPT !.draft[s] = res] IN
  \/ s = "ocr" /\ Become(r, [v EXCEPT !.pc = "image"])
  \/ s = "image" /\ Keep(r, v, v.draft)

\* A failure that the policy does not tolerate gives an analysis without
\* hashes, whose hash is read next: the whole request fails.
StageFails(r, s) ==
  \/ req[r].policy[s].required /\ Abort(r, "error")
  \/ ~req[r].policy[s].required /\ Conclude(r, s, NoResult)

Skip(r, s) ==
  /\ Calling(r, s)
  /\ \/ ~Wanted(r, s) /\ Conclude(r, s, NoResult)
     \/ Wanted(r, s) /\ config.provider[s] = "broken" /\ StageFails(r, s)
  /\ UNCHANGED <<config, load, slots, store, faults>>

\* A free thread takes a job at once.
Run(j) ==
  \/ /\ Cardinality(threads) < config.pool
     /\ threads' = threads \cup {j} /\ UNCHANGED backlog
  \/ /\ Cardinality(threads) = config.pool
     /\ backlog' = Append(backlog, j) /\ UNCHANGED threads

Enter(r, s) ==
  /\ inside' = [inside EXCEPT ![s] = @ \cup {r}]
  /\ Run(<<r, Place(r), s>>)

Free(s) == Cardinality(inside[s]) < Permits[s]

Call(r, s) ==
  /\ Calling(r, s) /\ Wanted(r, s) /\ config.provider[s] = "ready"
  /\ \/ /\ Free(s) /\ line[s] = <<>>
        /\ Enter(r, s) /\ UNCHANGED line
     \/ /\ ~(Free(s) /\ line[s] = <<>>)
        /\ line' = [line EXCEPT ![s] = Append(@, r)]
        /\ UNCHANGED <<inside, backlog, threads>>
  /\ UNCHANGED <<config, load, req, store, faults>>

\* The first waiter, woken by a release.
Acquire(r, s) ==
  /\ line[s] # <<>> /\ Head(line[s]) = r /\ Free(s)
  /\ line' = [line EXCEPT ![s] = Tail(@)]
  /\ Enter(r, s)
  /\ UNCHANGED <<config, load, req, store, faults>>

\* Mutant: the permit is not returned when a call fails.
LeaveHolding(r, s) == UNCHANGED inside

Leave(r, s) == inside' = [inside EXCEPT ![s] = @ \ {r}]

\* Mutant: a late result is taken for that of the call under way.
AwaitedByAnyone(j) == j[1] \in inside[j[3]]

Awaited(j) == j[1] \in inside[j[3]] /\ Place(j[1]) = j[2]

\* The OCR policy may discard what was read.
EndThread(j) ==
  /\ j \in threads
  /\ threads' = (threads \ {j})
                  \cup IF backlog = <<>> THEN {} ELSE {Head(backlog)}
  /\ backlog' = IF backlog = <<>> THEN <<>> ELSE Tail(backlog)
  /\ \/ /\ Awaited(j)
        /\ Leave(j[1], j[3])
        /\ \/ StageFails(j[1], j[3])
           \/ Conclude(j[1], j[3], j[2])
           \/ j[3] = "ocr" /\ Conclude(j[1], j[3], NoResult)
     \/ ~Awaited(j) /\ UNCHANGED <<inside, req>>
  /\ UNCHANGED <<config, load, line, store, faults>>

\* Mutant: a job that was given up stays in the backlog.
WithdrawNothing(j) == backlog

\* Only a job that no thread has begun can be withdrawn.
Withdraw(j) == RemoveFirst(backlog, j)

TimeOut(r, s) ==
  /\ r \in inside[s] /\ Fault
  /\ Leave(r, s)
  /\ backlog' = Withdraw(<<r, Place(r), s>>)
  /\ StageFails(r, s)
  /\ UNCHANGED <<config, load, line, threads, store>>

-----------------------------------------------------------------------------
(* moderate_media: one decision, and the event of the message              *)

\* Mutant: an attachment that was rejected is not missed.
LostUnavailable(a) == a.status = "unavailable"

Lost(a) == a.status \in {"rejected", "unavailable"}

Lacks(r) ==
  config.required /\ \E k \in DOMAIN req[r].analyses : Lost(req[r].analyses[k])

\* _persist_analyses: a statement for each attachment and for each result.
Statements(r) ==
  LET done == req[r].analyses
  IN  ((DOMAIN done) \X {"attachment"})
        \cup {p \in (DOMAIN done) \X Stages : done[p[1]][p[2]] # NoResult}

NoRows == [k \in Places |-> Nobody]
NoResults == [k \in Places |-> [s \in Stages |-> Nobody]]

\* Every transaction that stores an event first deletes those past their
\* retention, with all that hangs on them.
Purge ==
  /\ attachment' = [m \in Messages |-> IF m \in due THEN NoRows
                                                     ELSE attachment[m]]
  /\ result' = [m \in Messages |-> IF m \in due THEN NoResults ELSE result[m]]
  /\ lapsed' = {p \in lapsed : p[1] \notin due}
  /\ due' = {}

Unpurged == [m \in Messages |-> IF m \in due THEN NoEvent ELSE event[m]]

\* The event of a message, created unless it is there already.
Upserted(m) == IF Unpurged[m] = NoEvent THEN events + 1 ELSE Unpurged[m]

\* A required analysis is missing, or a policy or the database is not to be
\* had; the last may hide a commit.
Decide(r) ==
  /\ req[r].pc = "decide"
  /\ \/ Abort(r, "unavailable") /\ UNCHANGED store
     \/ /\ ~Lacks(r)
        /\ Purge
        /\ event' = [Unpurged EXCEPT ![About[r]] = Upserted(About[r])]
        /\ events' = IF event'[About[r]] > events THEN events + 1 ELSE events
        /\ \/ Become(r, [req[r] EXCEPT !.pc = "save", !.todo = Statements(r),
                                       !.event = event'[About[r]]])
           \/ Abort(r, "unavailable")
  /\ UNCHANGED <<config, load, slots, faults>>

-----------------------------------------------------------------------------
(* _persist_analyses: one statement after the other                        *)

Upsert(m, k, table, by) ==
  \/ /\ table = "attachment"
     /\ attachment' = [attachment EXCEPT ![m][k] = by]
     /\ lapsed' = lapsed \ {<<m, k>>}
     /\ UNCHANGED result
  \/ /\ table \in Stages
     /\ result' = [result EXCEPT ![m][k][table] = by]
     /\ UNCHANGED <<attachment, lapsed>>

\* Mutant: OCR results are stored before the attachment they belong to.
OcrFirst(p, q) ==
  LET turn == [ocr |-> 1, attachment |-> 2, image |-> 3]
  IN  p[1] < q[1] \/ (p[1] = q[1] /\ turn[p[2]] <= turn[q[2]])

\* One attachment after the other, each before its results.
Before(p, q) ==
  LET turn == [attachment |-> 1, ocr |-> 2, image |-> 3]
  IN  p[1] < q[1] \/ (p[1] = q[1] /\ turn[p[2]] <= turn[q[2]])

Saving(r) == req[r].pc = "save" /\ req[r].todo # {}
Referenced(r) == event[About[r]] = req[r].event

Save(r) ==
  /\ Saving(r) /\ Referenced(r)
  /\ \E p \in req[r].todo :
       /\ \A q \in req[r].todo : Before(p, q)
       /\ Upsert(About[r], p[1], p[2], r)
       /\ Become(r, [req[r] EXCEPT !.todo = @ \ {p}])
  /\ UNCHANGED <<config, load, slots, event, events, due, faults>>

\* The event is gone, or the database fails.
SaveFails(r) ==
  /\ Saving(r)
  /\ \/ ~Referenced(r) /\ UNCHANGED faults
     \/ Referenced(r) /\ Fault
  /\ Abort(r, "unavailable")
  /\ UNCHANGED <<config, load, slots, store>>

Respond(r) ==
  /\ req[r].pc = "save" /\ req[r].todo = {}
  /\ Become(r, [req[r] EXCEPT !.pc = "done", !.answer = "ok"])
  /\ UNCHANGED <<config, load, slots, store, faults>>

-----------------------------------------------------------------------------
(* Time, other requests and the process                                    *)

EventDue(m) ==
  /\ event[m] # NoEvent /\ m \notin due
  /\ due' = due \cup {m}
  /\ UNCHANGED <<config, load, req, slots, event, events, attachment, result,
                 lapsed, faults>>

Lapse(m, k) ==
  /\ attachment[m][k] # Nobody /\ <<m, k>> \notin lapsed
  /\ Fault
  /\ lapsed' = lapsed \cup {<<m, k>>}
  /\ UNCHANGED <<config, load, req, slots, event, events, attachment, result,
                 due>>

\* A text message is moderated: its transaction purges too.
ModerateText ==
  /\ due # {}
  /\ Purge /\ event' = Unpurged
  /\ UNCHANGED <<config, load, req, slots, events, faults>>

Crash ==
  /\ Fault
  /\ req' = [r \in Requests |-> IF req[r].pc \in {"idle", "done"} THEN req[r]
                                ELSE Blank("done", "lost")]
  /\ line' = [s \in Stages |-> <<>>] /\ inside' = [s \in Stages |-> {}]
  /\ backlog' = <<>> /\ threads' = {}
  /\ UNCHANGED <<config, load, store>>

-----------------------------------------------------------------------------
Provide(r) == \E s \in Stages : Skip(r, s) \/ Call(r, s) \/ Acquire(r, s)
Finish(r) == Decide(r) \/ Save(r) \/ SaveFails(r) \/ Respond(r)
Jobs == Requests \X Places \X Stages

MediaNext ==
  \/ \E r \in Requests : \/ Submit(r) \/ Ingest(r) \/ Provide(r) \/ Finish(r)
                         \/ \E s \in Stages : TimeOut(r, s)
  \/ \E j \in Jobs : EndThread(j)
  \/ \E m \in Messages : EventDue(m) \/ \E k \in Places : Lapse(m, k)
  \/ ModerateText
  \/ Crash

MediaSpec == MediaInit /\ [][MediaNext]_mediaVars

\* Every await of a request ends: the network, the database and the threads
\* answer or fail, and a semaphore wakes its waiters in order.
FairMediaSpec ==
  /\ MediaSpec
  /\ \A r \in Requests : WF_mediaVars(Ingest(r) \/ Provide(r) \/ Finish(r))
  /\ \A j \in Jobs : WF_mediaVars(EndThread(j))

-----------------------------------------------------------------------------
Analyses(r) == req[r].analyses
Hashed(r) == {k \in DOMAIN Analyses(r) : Analyses(r)[k].content # NoContent}

Weight(a) == IF a.content = NoContent THEN 0 ELSE Size[a.content]
Bytes(kept) ==
  LET upto[k \in 0 .. Len(kept)] ==
        IF k = 0 THEN 0 ELSE upto[k - 1] + Weight(kept[k])
  IN  upto[Len(kept)]

\* The images a request keeps fit into its byte budget, whatever was
\* downloaded and thrown away between them.
WithinBudget == \A r \in Requests : Bytes(Analyses(r)) <= MaxTotal

\* A result belongs to the image it stands beside: it comes from the inference
\* of that image's first occurrence, never from an inference that was given up
\* and ended late; all occurrences share it.
ResultsBelong ==
  \A r \in Requests : \A k \in Hashed(r) :
    LET first == Min({i \in Hashed(r) :
                        Analyses(r)[i].content = Analyses(r)[k].content})
    IN  \A s \in Stages : /\ Analyses(r)[k][s] \in {NoResult, first}
                          /\ Analyses(r)[k][s] = Analyses(r)[first][s]

\* Where media is required, no request succeeds with an attachment that was
\* not analysed; where the policy requires YOLO, with one YOLO has not seen.
RequiredIsComplete ==
  \A r \in Requests : req[r].answer = "ok" =>
    /\ config.required =>
         /\ Len(Analyses(r)) = req[r].count
         /\ \A k \in DOMAIN Analyses(r) :
              Analyses(r)[k].status \in {"analyzed", "duplicate"}
    /\ req[r].policy.image.required /\ req[r].policy.image.enabled
         /\ config.provider.image # "off"
       => \A k \in Hashed(r) : Analyses(r)[k].image # NoResult

\* A successful answer was given after everything it tells was stored: as long
\* as its event is there, so are its attachments and their results, through
\* other requests for the same message, crashes and purges.
StoredBeforeAnswer ==
  \A r \in Requests : req[r].answer = "ok" /\ Referenced(r) =>
    \A k \in DOMAIN Analyses(r) :
      /\ attachment[About[r]][k] # Nobody
      /\ \A s \in Stages : Analyses(r)[k][s] # NoResult
                             => result[About[r]][k][s] # Nobody

\* No result is stored without its attachment, wherever the storing stopped.
NoOrphanResults ==
  \A m \in Messages, k \in Places, s \in Stages :
    result[m][k][s] # Nobody => attachment[m][k] # Nobody

\* The records of media are whole, from the answer's side and from their own.
RecordsWhole == StoredBeforeAnswer /\ NoOrphanResults

\* A permit is held by a caller whose job is in the pool, and the pool begins
\* no job whose caller has gone: only threads begun before a timeout run on.
PermitsAccounted ==
  /\ \A s \in Stages : \A r \in inside[s] :
       <<r, Place(r), s>> \in threads \cup ToSet(backlog)
  /\ \A k \in DOMAIN backlog : Awaited(backlog[k])
  /\ Cardinality({j \in threads : ~Awaited(j)}) <= faults

\* Every request is answered, or lost with the process.
EveryRequestEnds == \A r \in Requests : req[r].pc # "idle" ~> req[r].pc = "done"

\* "redacted OCR material follows the configured retention period"
\* (docs/ARCHITECTURE.md:69): the transaction that purges leaves no attachment
\* past it.  The code deletes by the retention of the event alone.
OcrMaterialExpires ==
  [][(\E r \in Requests : req[r].pc = "decide" /\ req'[r].pc = "save")
       => lapsed' = {}]_mediaVars
=============================================================================
