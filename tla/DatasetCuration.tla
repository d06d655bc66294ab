--------------------------- MODULE DatasetCuration ---------------------------
(***************************************************************************)
(* The tools that rebuild the moderation dataset in place.  "curate"       *)
(* (curate_sensitive_topics.py) relabels the dataset, gathers and relabels *)
(* rows of external sources and merges them in; "complete"                 *)
(* (complete_dataset_gaps.py) adds rows for the labels that are rare.      *)
(* The merge (deduplicating_dataset_merger.py) works on copies, backs the  *)
(* two active files up and replaces them one after the other; the audit    *)
(* comes after that, and a run may die, or fail, at any step.              *)
(*                                                                         *)
(* A file is a set of rows; a text stands for the texts that normalize     *)
(* alike, so a file may hold it twice.  Which split an external row goes   *)
(* to depends on a hash of a seed and the text: any, but one per run of    *)
(* curate, whose sources share a seed.                                     *)
(***************************************************************************)
EXTENDS SensitiveTopics

CONSTANTS Texts,
          Content,          \* what the patterns find in each text
          InviteTexts,      \* the texts with an invite placeholder
          FamilyTemplates,  \* of the family threat builder
          OwnRows,          \* rows the dataset may hold at first
          LocalRows,        \* rows of the local profanity file
          Required,         \* minimum_invite_train, ..._validation and
                            \* minimum_family_threat_validation
          MaxOwn,           \* bound: own rows at first, by split
          MaxRuns, MaxOffers \* bounds: runs, and external rows in all

ASSUME CurationAssumption ==
  /\ IsFiniteSet(Texts) /\ IsFiniteSet(OwnRows)
  /\ InviteTexts \subseteq Texts /\ FamilyTemplates \subseteq Texts
  /\ \A r \in OwnRows \cup LocalRows : r.text \in Texts /\ r.severity \in Int

VARIABLES
  active,   \* train.jsonl and validation.jsonl
  backup,   \* the newest backup of both
  tool,     \* the tool that runs, or ran last
  phase,    \* its next step, or how it ended
  own,      \* the relabelled copy of the active files
  external, \* the rows of external sources, by split
  merged,   \* the files to be put in place
  runs, offers

staging == <<own, external, merged>>
vars == <<active, backup, tool, phase, staging, runs, offers>>

Splits == {"train", "validation"}
Empty == [split \in Splits |-> {}]
Other(split) == IF split = "train" THEN "validation" ELSE "train"
TextsOf(rows) == {r.text : r \in rows}
Rows(files) == files.train \cup files.validation
NoteOf(t) == Annotation(Content[t])

-----------------------------------------------------------------------------
(* ModerationDatasetSchema and SensitiveTopicRelabeler                     *)

Safe == {"SAFE"}
ExclusiveSafe(labels) == IF labels \ Safe = {} THEN Safe ELSE labels \ Safe

\* normalize_row
Normal(row, added, severity) ==
  LET labels == ExclusiveSafe(row.labels \cup added) IN
  [text |-> row.text, labels |-> labels,
   severity |-> IF labels = Safe THEN 0 ELSE Max({row.severity, severity})]

Row(t, labels, severity) ==
  Normal([text |-> t, labels |-> labels, severity |-> severity], {}, 0)

\* relabel_file, of both files
Relabelled(files) ==
  [split \in Splits |->
     {Normal(r, NoteOf(r.text).labels, NoteOf(r.text).severity) :
        r \in files[split]}]

-----------------------------------------------------------------------------
(* The external sources                                                    *)

\* By the mean scores of a comment aimed at a race or gender.
MeasuringRows ==
  {Row(t, Safe, 0) : t \in Texts}
  \cup {Row(t, {"HATE", "TOXIC"}, 4) : t \in Texts}
  \cup {Row(t, {"HATE", "TOXIC", "THREAT"}, 5) : t \in Texts}

\* _labels_for_row: high is the set of scores at or over their thresholds.
CivilRow(t, high) ==
  LET topics == NoteOf(t).topics
      group == topics \cap GroupTopics # {}
      findings ==
        Found("threat" \in high, {"THREAT", "TOXIC"}, 5)
        \cup Found("sexual" \in high,
                   {"NSFW"} \cup IF "family" \in topics THEN {"TOXIC"} ELSE {},
                   4)
        \cup Found("identity" \in high /\ group, {"HATE", "TOXIC"}, 4)
        \cup Found("toxic" \in high, {"TOXIC"}, 3)
        \cup Found("obscene" \in high, {"PROFANITY"}, 1) IN
  Row(t, UNION {f.labels : f \in findings},
      Max({0} \cup {f.severity : f \in findings}))
CivilRows ==
  {CivilRow(t, high) :
     t \in {x \in Texts : NoteOf(x).topics # {}},
     high \in SUBSET {"threat", "sexual", "identity", "toxic", "obscene"}}

ProfanityRows == {Normal(r, {}, 0) : r \in LocalRows}

DiscordRows == {Row(t, {"INVITE", "URL"}, 1) : t \in InviteTexts}
               \cup {Row(t, {"INVITE", "URL", "SCAM"}, 4) : t \in InviteTexts}
InviteRows == {Row(t, {"INVITE", "URL"}, 1) : t \in InviteTexts}

\* Positive rows of the source, where the matcher sees the family attacked.
AnnotatedRow(t) == Row(t, NoteOf(t).labels, NoteOf(t).severity)
RussianFamilyRows ==
  {AnnotatedRow(t) :
     t \in {x \in Texts : /\ "family" \in NoteOf(x).topics
                          /\ NoteOf(x).labels \cap {"TOXIC", "THREAT"} # {}}}

\* The builder raises on a template the matcher does not see as it should.
TemplatesHold ==
  \A t \in FamilyTemplates :
    /\ "family" \in NoteOf(t).topics
    /\ {"THREAT", "TOXIC"} \subseteq NoteOf(t).labels
    /\ "HATE" \notin NoteOf(t).labels
FamilyThreatRows == {AnnotatedRow(t) : t \in FamilyTemplates}

OfferedBy(t) ==
  IF t = "curate" THEN MeasuringRows \cup CivilRows \cup ProfanityRows
  ELSE DiscordRows \cup InviteRows \cup RussianFamilyRows \cup FamilyThreatRows

-----------------------------------------------------------------------------
(* DeduplicatingDatasetMerger                                              *)

\* Mutant: the row of the first source wins.
FirstRecord(t, rows) == CHOOSE r \in rows : r.text = t

\* The upsert of _load_file: labels together, the highest severity.
Record(t, rows) ==
  LET same == {r \in rows : r.text = t} IN
  Row(t, UNION {r.labels : r \in same}, Max({r.severity : r \in same}))

\* Mutant: train has precedence.
WrittenTrainFirst(files) ==
  [train |-> {Record(t, Rows(files)) : t \in TextsOf(files.train)},
   validation |-> {Record(t, Rows(files)) :
                     t \in TextsOf(files.validation) \ TextsOf(files.train)}]

\* _write_split: a text that any source holds out is held out.
Written(files) ==
  [train |-> {Record(t, Rows(files)) :
                t \in TextsOf(files.train) \ TextsOf(files.validation)},
   validation |-> {Record(t, Rows(files)) : t \in TextsOf(files.validation)}]

-----------------------------------------------------------------------------
(* ModerationDatasetAuditor and the assertions on its report               *)

\* The relabelling the rules are sure of was done ...
Missed(row) == NoteOf(row.text).labels \ row.labels # {}

Clean ==
  /\ TextsOf(active.train) \cap TextsOf(active.validation) = {}
  /\ \A split \in Splits :
       /\ Cardinality(TextsOf(active[split])) = Cardinality(active[split])
       /\ \A r \in active[split] : ~Missed(r) /\ r = Normal(r, {}, 0)

\* ... and _assert_gap_targets.
With(rows, label) == Cardinality({r \in rows : label \in r.labels})
GapsClosed ==
  LET family == {r \in active.validation : "family" \in NoteOf(r.text).topics}
  IN /\ With(active.train, "INVITE") >= Required.invite_train
     /\ With(active.validation, "INVITE") >= Required.invite_validation
     /\ With(family, "THREAT") >= Required.family_threat

-----------------------------------------------------------------------------
Init ==
  /\ active \in [Splits -> SUBSET OwnRows]
  /\ \A split \in Splits : Cardinality(active[split]) <= MaxOwn[split]
  /\ backup = Empty
  /\ tool = "curate" /\ phase = "idle"
  /\ own = Empty /\ external = Empty /\ merged = Empty
  /\ runs = 0 /\ offers = 0

Step(from, to) == phase = from /\ phase' = to
Discard == own' = Empty /\ external' = Empty /\ merged' = Empty

Start ==
  /\ phase \in {"idle", "accepted", "refused"} /\ runs < MaxRuns
  /\ tool' \in {"curate", "complete"}
  /\ phase' = "relabel" /\ runs' = runs + 1
  /\ UNCHANGED <<active, backup, staging, offers>>

Relabel ==
  /\ Step("relabel", "gather")
  /\ own' = Relabelled(active)
  /\ UNCHANGED <<active, backup, tool, external, merged, runs, offers>>

\* A source writes one row.
Adapt ==
  /\ phase = "gather" /\ offers < MaxOffers
  /\ \E row \in OfferedBy(tool), split \in Splits :
       /\ tool = "curate" => row.text \notin TextsOf(external[Other(split)])
       /\ row \notin external[split]
       /\ external' = [external EXCEPT ![split] = @ \cup {row}]
  /\ offers' = offers + 1
  /\ UNCHANGED <<active, backup, tool, phase, own, merged, runs>>

\* Mutant: the external rows are merged as they came.
GatheredRaw ==
  /\ Step("gather", "merge")
  /\ tool = "complete" => TemplatesHold
  /\ UNCHANGED <<active, backup, tool, own, external, merged, runs, offers>>

\* All sources are read; curate relabels what they gave.
Gathered ==
  /\ Step("gather", "merge")
  /\ tool = "complete" => TemplatesHold
  /\ external' = IF tool = "curate" THEN Relabelled(external) ELSE external
  /\ UNCHANGED <<active, backup, tool, own, merged, runs, offers>>

\* Mutant: what is there now is not copied.
MergeUnsaved ==
  /\ Step("merge", "replace_train")
  /\ merged' = Written([s \in Splits |-> own[s] \cup external[s]])
  /\ own' = Empty /\ external' = Empty
  /\ UNCHANGED <<active, backup, tool, runs, offers>>

\* Both splits are written and checked beside the active files.
Merge ==
  /\ Step("merge", "backup")
  /\ merged' = Written([s \in Splits |-> own[s] \cup external[s]])
  /\ own' = Empty /\ external' = Empty
  /\ UNCHANGED <<active, backup, tool, runs, offers>>

Backup ==
  /\ Step("backup", "replace_train")
  /\ backup' = active
  /\ UNCHANGED <<active, tool, staging, runs, offers>>

ReplaceTrain ==
  /\ Step("replace_train", "replace_validation")
  /\ active' = [active EXCEPT !.train = merged.train]
  /\ UNCHANGED <<backup, tool, staging, runs, offers>>

ReplaceValidation ==
  /\ Step("replace_validation", "audit")
  /\ active' = [active EXCEPT !.validation = merged.validation]
  /\ Discard
  /\ UNCHANGED <<backup, tool, runs, offers>>

Audit ==
  /\ phase = "audit"
  /\ phase' = IF Clean /\ (tool = "complete" => GapsClosed)
              THEN "accepted" ELSE "refused"
  /\ UNCHANGED <<active, backup, tool, staging, runs, offers>>

\* A source cannot be read, a disk is full, the process dies: what was staged
\* is never read again.
Crash ==
  /\ phase \notin {"idle", "accepted", "refused"}
  /\ phase' = "idle" /\ Discard
  /\ UNCHANGED <<active, backup, tool, runs, offers>>

Next == \/ Start \/ Relabel \/ Adapt \/ Gathered \/ Merge \/ Backup
        \/ ReplaceTrain \/ ReplaceValidation \/ Audit \/ Crash

Spec == Init /\ [][Next]_vars

-----------------------------------------------------------------------------
(* Properties                                                              *)

Covers(r, q) ==  \* r says of the text what q said, or worse
  /\ r.text = q.text
  /\ ExclusiveSafe(q.labels) \ Safe \subseteq r.labels
  /\ ExclusiveSafe(q.labels) # Safe => r.severity >= q.severity

IsRow(r) == r.text \in Texts /\ r.severity \in Int
AreFiles(files) ==
  /\ files = [split \in Splits |-> files[split]]
  /\ \A split \in Splits :
       IsFiniteSet(files[split]) /\ \A r \in files[split] : IsRow(r)

\* Files hold finitely many rows of known texts, whatever the sources give.
TypeOK ==
  /\ phase \in {"idle", "relabel", "gather", "merge", "backup",
                "replace_train", "replace_validation", "audit", "accepted",
                "refused"}
  /\ tool \in {"curate", "complete"}
  /\ AreFiles(active) /\ AreFiles(backup)
  /\ AreFiles(own) /\ AreFiles(external) /\ AreFiles(merged)

\* A text that is held out for validation stays held out, and no step, and no
\* crash between the two replacements, makes a text of one file a text of
\* both: whoever trains on the files as they stand is not measured on texts it
\* was trained on, except those that were in both at first (the precedence of
\* validation, and the order of the replacements in merge_into).
HeldOutStaysOut ==
  [][/\ TextsOf(active.validation) \subseteq TextsOf(active.validation')
     /\ TextsOf(active'.train) \cap TextsOf(active'.validation)
          \subseteq TextsOf(active.train) \cap TextsOf(active.validation)
    ]_active

\* When both files are in place every row of the old ones is there: its text,
\* in validation if it was there, with its labels and at least its severity
\* (the upsert of _load_file over relabelled rows).
MergeKeeps ==
  phase \in {"audit", "accepted", "refused"} =>
    /\ \A q \in Rows(backup) : \E r \in Rows(active) : Covers(r, q)
    /\ TextsOf(backup.validation) \subseteq TextsOf(active.validation)

\* No step of a run, and no crash, loses a row: it is still in the active files,
\* or in the backup (merge_into backs up before it replaces).
NothingLost ==
  [][Rows(active) \subseteq Rows(active') \cup Rows(backup')]_<<active, backup>>

\* curate leaves nothing for its audit to refuse, whatever the sources gave and
\* whatever state an earlier run of either tool left the files in: the audit
\* comes when the files are already replaced.
CurateIsAccepted == phase = "refused" => tool = "complete"
=============================================================================
