---------------------------- MODULE MediaPolicy ----------------------------
(***************************************************************************)
(* The media policy of one guild: administrators read the effective        *)
(* policy, and save or reset it quoting the revision they read.  The       *)
(* repository does each write and its audit record in one conditional      *)
(* statement (postgresql_media_policy_repository.py); every process has a  *)
(* resolver that caches what it read by revision                           *)
(* (effective_media_policy_resolver.py).                                   *)
(*                                                                         *)
(* The database layer executes a statement again when its reply was lost.  *)
(* A repeated read is only a later read and is left out; a repeated write  *)
(* is modelled.  Versions and timestamps are part of the policy's value.   *)
(***************************************************************************)
EXTENDS Naturals, Sequences

CONSTANTS Callers,      \* requests, each of which reads and may then write
          Processes,    \* processes, each with a resolver
          Where,        \* the process that serves each caller
          Policies,     \* policies that can be saved
          Default,      \* the YAML default
          MaxAttempts,  \* attempts of one statement
          MaxLost       \* bound: replies lost

ASSUME WhereAssumption == Where \in [Callers -> Processes]
ASSUME DefaultAssumption == Default \notin Policies
ASSUME BoundAssumption == MaxAttempts \in Nat \ {0} /\ MaxLost \in Nat

VARIABLES
  row,       \* the guild's row: [revision, active, content]; revision 0: none
  audit,     \* the audit table, in the order of insertion
  cache,     \* per process: the snapshots its resolver holds
  pc,        \* where each caller is
  op,        \* what it writes
  content,   \* the policy it saves
  read,      \* the snapshot its last query returned
  response,  \* the effective policy it was last shown
  changed,   \* whether its last write matched the row
  attempt,   \* attempts of its write
  began,     \* history: the revision its resolution must not be older than
  lost       \* replies lost so far

vars == <<row, audit, cache, pc, op, content, read, response, changed,
          attempt, began, lost>>

Snapshot(revision, policy) == [revision |-> revision, content |-> policy]
Snapshots == [revision : Nat, content : Policies \cup {Default}]

\* What GET shows: the active row, or the default under revision 0.
Effective(r) == IF r.active THEN Snapshot(r.revision, r.content)
                            ELSE Snapshot(0, Default)

Init ==
  /\ row = [revision |-> 0, active |-> FALSE, content |-> Default]
  /\ audit = <<>>
  /\ cache = [p \in Processes |-> {}]
  /\ pc = [c \in Callers |-> "idle"]
  /\ op = [c \in Callers |-> "read"]
  /\ content = [c \in Callers |-> Default]
  /\ read = [c \in Callers |-> Snapshot(0, Default)]
  /\ response = [c \in Callers |-> Snapshot(0, Default)]
  /\ changed = [c \in Callers |-> FALSE]
  /\ attempt = [c \in Callers |-> 0]
  /\ began = [c \in Callers |-> 0]
  /\ lost = 0

Goto(c, step) == pc' = [pc EXCEPT ![c] = step]
request == <<op, content, changed, attempt>>

-----------------------------------------------------------------------------
(* resolve(): the query, then the cache                                    *)

Get(c) ==
  /\ pc[c] = "idle"
  /\ began' = [began EXCEPT ![c] = row.revision]
  /\ Goto(c, "reading")
  /\ UNCHANGED <<row, audit, cache, request, read, response, lost>>

GetActive(c) ==
  /\ pc[c] \in {"reading", "rereading"}
  /\ read' = [read EXCEPT ![c] = Effective(row)]
  /\ Goto(c, IF pc[c] = "reading" THEN "resolving" ELSE "reresolving")
  /\ UNCHANGED <<row, audit, cache, request, response, began, lost>>

\* Mutant: the cache key has no revision.
CachedByGuild(c) == cache[Where[c]]

Cached(c) == {s \in cache[Where[c]] : s.revision = read[c].revision}

Resolve(c) ==
  /\ pc[c] \in {"resolving", "reresolving"}
  /\ \/ /\ read[c].revision = 0
        /\ response' = [response EXCEPT ![c] = read[c]]
        /\ UNCHANGED cache
     \/ /\ read[c].revision > 0
        /\ \E s \in IF Cached(c) # {} THEN Cached(c) ELSE {read[c]} :
             /\ response' = [response EXCEPT ![c] = s]
             /\ cache' = [cache EXCEPT ![Where[c]] = @ \cup {s}]
  /\ Goto(c, IF pc[c] = "resolving" THEN "shown" ELSE "done")
  /\ UNCHANGED <<row, audit, request, read, began, lost>>

-----------------------------------------------------------------------------
(* save() and reset(), with the revision of the policy shown               *)

Expected(c) == response[c].revision

Edit(c) ==
  /\ pc[c] = "shown"
  /\ \/ /\ op' = [op EXCEPT ![c] = "save"]
        /\ \E p \in Policies : content' = [content EXCEPT ![c] = p]
     \/ /\ Expected(c) >= 1
        /\ op' = [op EXCEPT ![c] = "reset"]
        /\ UNCHANGED content
  /\ attempt' = [attempt EXCEPT ![c] = 1]
  /\ Goto(c, "writing")
  /\ UNCHANGED <<row, audit, cache, read, response, changed, began, lost>>

\* Mutant: revision 0 matches an active row as well.
SaveMatchesAlways(c) ==
  \/ row.revision = 0
  \/ row.revision = Expected(c)
  \/ Expected(c) = 0

\* Without a row the INSERT succeeds whatever revision was expected.
SaveMatches(c) ==
  \/ row.revision = 0
  \/ row.revision = Expected(c)
  \/ ~row.active /\ Expected(c) = 0

ResetMatches(c) == row.active /\ row.revision = Expected(c)

Matches(c) == IF op[c] = "save" THEN SaveMatches(c) ELSE ResetMatches(c)

\* Mutant: a reset keeps the revision.
WrittenKeepsRevision(c) ==
  [revision |-> IF op[c] = "save" THEN row.revision + 1 ELSE row.revision,
   active |-> op[c] = "save",
   content |-> IF op[c] = "save" THEN content[c] ELSE row.content]

\* A reset only deactivates the row.
Written(c) ==
  [revision |-> row.revision + 1,
   active |-> op[c] = "save",
   content |-> IF op[c] = "save" THEN content[c] ELSE row.content]

SaveEntry(c, r) ==
  [op |-> "save", revision |-> r.revision, content |-> r.content, by |-> c]

\* The record of a reset names no policy.
ResetEntry(c, r) == [op |-> "reset", revision |-> r.revision, by |-> c]

Entry(c, r) == IF op[c] = "save" THEN SaveEntry(c, r) ELSE ResetEntry(c, r)

\* The row and its audit record change in one statement, or neither does.
Write(c) ==
  /\ pc[c] = "writing"
  /\ changed' = [changed EXCEPT ![c] = Matches(c)]
  /\ \/ /\ Matches(c)
        /\ row' = Written(c)
        /\ audit' = Append(audit, Entry(c, row'))
        /\ began' = [began EXCEPT ![c] = row'.revision]
     \/ /\ ~Matches(c)
        /\ UNCHANGED <<row, audit, began>>
  /\ Goto(c, "written")
  /\ UNCHANGED <<cache, op, content, read, response, attempt, lost>>

MayRetry(c) == attempt[c] < MaxAttempts

\* The connection broke before the reply: the statement is executed again, or
\* the attempts are used up and the request fails.
ReplyLost(c) ==
  /\ pc[c] = "written" /\ lost < MaxLost
  /\ lost' = lost + 1
  /\ \/ /\ MayRetry(c)
        /\ attempt' = [attempt EXCEPT ![c] = @ + 1]
        /\ Goto(c, "writing")
     \/ /\ ~MayRetry(c)
        /\ Goto(c, "failed")
        /\ UNCHANGED attempt
  /\ UNCHANGED <<row, audit, cache, op, content, read, response, changed,
                 began>>

\* A conflict, or the cache is emptied and the policy resolved again.
Answer(c) ==
  /\ pc[c] = "written"
  /\ \/ /\ changed[c]
        /\ cache' = [cache EXCEPT ![Where[c]] = {}]
        /\ Goto(c, "rereading")
     \/ /\ ~changed[c]
        /\ Goto(c, "conflict")
        /\ UNCHANGED cache
  /\ UNCHANGED <<row, audit, request, read, response, began, lost>>

Next == \E c \in Callers :
          \/ Get(c) \/ GetActive(c) \/ Resolve(c)
          \/ Edit(c) \/ Write(c) \/ ReplyLost(c) \/ Answer(c)

Spec == Init /\ [][Next]_vars

-----------------------------------------------------------------------------
Steps == {"idle", "reading", "resolving", "shown", "writing", "written",
          "rereading", "reresolving", "done", "conflict", "failed"}

Entries ==
  [op : {"save"}, revision : Nat, content : Policies \cup {Default},
   by : Callers]
    \cup [op : {"reset"}, revision : Nat, by : Callers]

\* The types, and the bound on attempts.
TypeOK ==
  /\ row \in [revision : Nat, active : BOOLEAN,
              content : Policies \cup {Default}]
  /\ audit \in Seq(Entries)
  /\ cache \in [Processes -> SUBSET Snapshots]
  /\ pc \in [Callers -> Steps]
  /\ op \in [Callers -> {"read", "save", "reset"}]
  /\ content \in [Callers -> Policies \cup {Default}]
  /\ read \in [Callers -> Snapshots]
  /\ response \in [Callers -> Snapshots]
  /\ changed \in [Callers -> BOOLEAN]
  /\ attempt \in [Callers -> 0..MaxAttempts]
  /\ began \in [Callers -> Nat]
  /\ lost \in 0..MaxLost

\* The audit holds one record for each revision, and the newest agrees with
\* the row: no change escapes it and none is recorded twice.  The record of a
\* reset has no policy, but the one before it is of the save that was reset,
\* and the last of a save holds the policy of the row, active or not.
AuditComplete ==
  /\ Len(audit) = row.revision
  /\ \A i \in DOMAIN audit : audit[i].revision = i
  /\ row.revision = 0 => ~row.active
  /\ \A i \in DOMAIN audit :
       audit[i].op = "reset" => i > 1 /\ audit[i - 1].op = "save"
  /\ audit # <<>> =>
       LET saved == IF row.active THEN Len(audit) ELSE Len(audit) - 1 IN
       /\ row.active = (audit[Len(audit)].op = "save")
       /\ audit[saved].op = "save" /\ audit[saved].content = row.content

DefaultAt(i) == i = 0 \/ audit[i].op = "reset"

\* The policy was in force at some moment since c's request began.
Fresh(c, policy) ==
  IF policy.revision > 0
  THEN /\ policy.revision \in began[c]..row.revision
       /\ audit[policy.revision].op = "save"
       /\ audit[policy.revision].content = policy.content
  ELSE \E i \in began[c]..row.revision : DefaultAt(i)

\* Whatever is shown was in force at some moment after the request began (for
\* a save or reset: after its own write), also when another process wrote.
FreshResponse ==
  \A c \in Callers : pc[c] \in {"shown", "done"} => Fresh(c, response[c])

\* No update is lost: a write replaces exactly the policy its author was shown.
NoLostUpdate ==
  [][row' # row => \E c \in Callers : /\ pc[c] = "writing"
                                      /\ pc'[c] = "written"
                                      /\ Effective(row) = response[c]]_vars
-----------------------------------------------------------------------------
(* The inductive invariant of the proofs                                   *)

\* A snapshot that the audit vouches for.
Genuine(s) ==
  IF s.revision = 0
  THEN s.content = Default
  ELSE /\ s.revision <= Len(audit)
       /\ audit[s.revision].op = "save"
       /\ audit[s.revision].content = s.content

\* Nothing else is read, cached or shown.
AllGenuine ==
  /\ \A c \in Callers : Genuine(read[c]) /\ Genuine(response[c])
  /\ \A p \in Processes : \A s \in cache[p] : s.revision > 0 /\ Genuine(s)

\* What was read since the request began is fresh.
FreshRead ==
  \A c \in Callers :
    /\ began[c] <= row.revision
    /\ pc[c] \in {"resolving", "reresolving"} => Fresh(c, read[c])

\* Whoever writes has chosen what.
WritersChose ==
  \A c \in Callers : pc[c] \in {"writing", "written"} => op[c] # "read"

IInv == /\ TypeOK /\ AuditComplete /\ WritersChose
        /\ AllGenuine /\ FreshRead /\ FreshResponse
=============================================================================
