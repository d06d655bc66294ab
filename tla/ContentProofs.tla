---------------------------- MODULE ContentProofs ----------------------------
(***************************************************************************)
(* Proofs about DatasetCuration, for every finite set of texts, whatever   *)
(* the patterns find in them, any rows of the sources, and any number of   *)
(* runs and crashes: the safety properties of the files, by an invariant   *)
(* that follows the rows from step to step of a run.                       *)
(*                                                                         *)
(* And about ContentRules, whatever the inputs, the limits and the number  *)
(* of requests: what the accepted rules and the annotations come to, the   *)
(* policy of a message, by the order of its scopes and the ranks of the    *)
(* stored rows in it, the requests that are let in, by an invariant that   *)
(* relates the history the limiter keeps to all that came before, and the  *)
(* words a reader sees in a message, followed through each step by which   *)
(* it is read.                                                             *)
(***************************************************************************)
EXTENDS DatasetCuration, ContentRules, FiniteSetTheorems,
        SequenceTheorems, TLAPS

-----------------------------------------------------------------------------
(* The greatest of finitely many numbers                                   *)

\* A finite set of numbers has a greatest element: the least of the sets of
\* what is not less than a member, ordered by inclusion, is that of it.
LEMMA MaxFacts ==
  ASSUME NEW S \in SUBSET Int, IsFiniteSet(S), S # {}
  PROVE  Max(S) \in S /\ \A i \in S : Max(S) >= i
<1> DEFINE Above(k) == {i \in S : i >= k}
           T == {Above(k) : k \in S}
<1>1. T \subseteq FiniteSubsetsOf(S) /\ T # {}
  <2>1. T \subseteq SUBSET S /\ T # {}
    OBVIOUS
  <2>2. FiniteSubsetsOf(S) = SUBSET S
    BY FS_FiniteSubsetsOfFinite
  <2> QED BY <2>1, <2>2
<1>2. PICK t \in T : \A u \in T : <<u, t>> \notin StrictSubsetOrdering(S)
  <2> HIDE DEF T
  <2> QED BY ONLY <1>1, FS_StrictSubsetOrderingWellFounded, WFMin
<1>3. PICK k \in S : t = Above(k)
  BY <1>2
<1>4. ASSUME NEW j \in S, k < j
      PROVE  FALSE
  <2>1. Above(j) \in T
    BY <1>4
  <2>2. Above(j) \subseteq Above(k)
    <3>1. \A i \in S : i >= j => i >= k
      BY <1>4
    <3> QED BY <3>1
  <2>3. k \in Above(k) /\ k \notin Above(j)
    BY <1>4
  <2>4. <<Above(j), t>> \in StrictSubsetOrdering(S)
    BY <2>2, <2>3, <1>3 DEF StrictSubsetOrdering
  <2> QED BY <1>2, <2>1, <2>4
<1>5. \A i \in S : k >= i
  BY <1>4
<1> QED BY <1>5 DEF Max

LEMMA MaxOfTwo ==
  ASSUME NEW a \in Int, NEW b \in Int
  PROVE  /\ Max({a, b}) \in Int
         /\ Max({a, b}) >= a /\ Max({a, b}) >= b
         /\ Max({a, b}) \in {a, b}
<1>1. IsFiniteSet({a} \cup {b})
  BY FS_Singleton, FS_AddElement
<1>2. {a, b} = {a} \cup {b}
  OBVIOUS
<1> QED BY <1>1, <1>2, MaxFacts

\* Severities are small numbers: a subset of them has a maximum.
LEMMA MaxSeverity ==
  ASSUME NEW S \in SUBSET (0..5)
  PROVE  Max({0} \cup S) \in Int
<1>1. IsFiniteSet(S)
  <2>1. 0 \in Int /\ 5 \in Int
    OBVIOUS
  <2>2. IsFiniteSet(0..5)
    BY <2>1, FS_Interval
  <2> QED BY <2>2, FS_Subset
<1>2. IsFiniteSet(S \cup {0})
  BY <1>1, FS_AddElement
<1>3. /\ {0} \cup S = S \cup {0}
      /\ {0} \cup S \in SUBSET Int /\ {0} \cup S # {}
  OBVIOUS
<1> QED BY <1>2, <1>3, MaxFacts

\* What a function makes of a finite set is finite.
LEMMA ImageFinite ==
  ASSUME NEW S, IsFiniteSet(S), NEW f, f = [x \in S |-> f[x]]
  PROVE  IsFiniteSet({f[x] : x \in S})
<1>1. f \in Surjection(S, {f[x] : x \in S})
  BY DEF Surjection
<1> QED BY <1>1, FS_Surjection

-----------------------------------------------------------------------------
(* Rows                                                                    *)

\* What normalize_row returns: the text, labels that are exclusive, and no
\* less severity, except that of a safe row.
LEMMA NormalFacts ==
  ASSUME NEW r, r.severity \in Int, NEW added, NEW s \in Int
  PROVE  /\ Normal(r, added, s).text = r.text
         /\ Normal(r, added, s).severity \in Int
         /\ Normal(r, added, s).labels = ExclusiveSafe(r.labels \cup added)
         /\ Normal(r, added, s).labels # Safe =>
              /\ Normal(r, added, s).severity >= r.severity
              /\ Normal(r, added, s).severity >= s
<1>1. /\ Max({r.severity, s}) \in Int
      /\ Max({r.severity, s}) >= r.severity /\ Max({r.severity, s}) >= s
  BY MaxOfTwo
<1> QED BY <1>1 DEF Normal

\* A normal row is left as it is, when its severity was not negative.
LEMMA ExclusiveTwice ==
  ASSUME NEW labels
  PROVE  /\ ExclusiveSafe(ExclusiveSafe(labels)) = ExclusiveSafe(labels)
         /\ ExclusiveSafe(ExclusiveSafe(labels) \cup {}) = ExclusiveSafe(labels)
  BY DEF ExclusiveSafe, Safe

LEMMA RowFacts ==
  ASSUME NEW t \in Texts, NEW labels, NEW s \in Int
  PROVE  /\ IsRow(Row(t, labels, s))
         /\ Row(t, labels, s).text = t
         /\ Row(t, labels, s).labels = ExclusiveSafe(labels)
         /\ Row(t, labels, s).labels # Safe => Row(t, labels, s).severity >= s
<1> DEFINE r == [text |-> t, labels |-> labels, severity |-> s]
<1>1. r.severity = s /\ r.text = t /\ r.labels = labels
  OBVIOUS
<1>2. Row(t, labels, s) = Normal(r, {}, 0)
  BY DEF Row
<1>3. labels \cup {} = labels
  OBVIOUS
<1> HIDE DEF r
<1> QED BY <1>1, <1>2, <1>3, NormalFacts DEF IsRow

\* Annotations never say SAFE, and their severity is a number.
LEMMA NoteFacts ==
  ASSUME NEW t
  PROVE  /\ NoteOf(t).severity \in Int
         /\ "SAFE" \notin NoteOf(t).labels
<1> DEFINE text == Content[t]
           findings == IF text.counter THEN {}
                       ELSE UNION {Findings(text, topic) : topic \in Topics}
<1>1. \A f \in findings : f.severity \in 0..5 /\ "SAFE" \notin f.labels
  BY DEF Findings, Found
<1>2. Max({0} \cup {f.severity : f \in findings}) \in Int
  <2>1. {f.severity : f \in findings} \in SUBSET (0..5)
    BY <1>1
  <2> HIDE DEF findings
  <2> QED BY <2>1, MaxSeverity
<1>3. "SAFE" \notin UNION {f.labels : f \in findings}
  BY <1>1
<1>4. /\ NoteOf(t).severity = Max({0} \cup {f.severity : f \in findings})
      /\ NoteOf(t).labels = UNION {f.labels : f \in findings}
  BY DEF NoteOf, Annotation
<1> HIDE DEF findings
<1> QED BY <1>2, <1>3, <1>4

\* A normal row is normal again.
LEMMA NormalTwice ==
  ASSUME NEW r, r.severity \in Int
  PROVE  Normal(Normal(r, {}, 0), {}, 0) = Normal(r, {}, 0)
<1> DEFINE n == Normal(r, {}, 0)
<1>1. /\ n.text = r.text /\ n.labels = ExclusiveSafe(r.labels \cup {})
      /\ n.severity = IF n.labels = Safe THEN 0 ELSE Max({r.severity, 0})
  BY DEF Normal
<1>2. ExclusiveSafe(n.labels \cup {}) = n.labels
  BY <1>1, ExclusiveTwice
<1>0. 0 \in Int
  OBVIOUS
<1>3. Max({r.severity, 0}) \in Int /\ Max({r.severity, 0}) >= 0
  BY ONLY <1>0, r.severity \in Int, MaxOfTwo
<1>4. Max({Max({r.severity, 0}), 0}) = Max({r.severity, 0})
  <2> DEFINE m == Max({r.severity, 0})
  <2>1. Max({m, 0}) \in {m, 0} /\ Max({m, 0}) >= m
    BY ONLY <1>0, <1>3, MaxOfTwo DEF m
  <2> HIDE DEF m
  <2>2. m \in Int /\ m >= 0
    BY <1>3 DEF m
  <2>3. Max({m, 0}) = m
    BY <2>1, <2>2
  <2> QED BY <2>3 DEF m
<1>5. n = [text |-> n.text, labels |-> n.labels, severity |-> n.severity]
  BY DEF Normal
<1>6. Normal(n, {}, 0) =
        [text |-> n.text, labels |-> n.labels,
         severity |-> IF n.labels = Safe THEN 0 ELSE Max({n.severity, 0})]
  BY <1>2 DEF Normal
<1>7. (IF n.labels = Safe THEN 0 ELSE Max({n.severity, 0})) = n.severity
  BY <1>1, <1>4
<1> HIDE DEF n
<1>8. Normal(n, {}, 0) = n
  BY <1>5, <1>6, <1>7
<1> QED BY <1>8 DEF n

\* A row made of labels that contain those of another covers it.
LEMMA CoverFacts ==
  ASSUME NEW r, NEW q, NEW labels,
         r.text = q.text, q.labels \subseteq labels,
         r.labels = ExclusiveSafe(labels),
         r.labels # Safe => r.severity >= q.severity
  PROVE  Covers(r, q)
  BY DEF Covers, ExclusiveSafe, Safe

-----------------------------------------------------------------------------
(* Files                                                                   *)

\* Relabelling keeps the texts of each split, covers every row and misses
\* nothing the matcher is sure of.
LEMMA RelabelledFacts ==
  ASSUME NEW files, AreFiles(files)
  PROVE  /\ AreFiles(Relabelled(files))
         /\ \A split \in Splits :
              /\ TextsOf(Relabelled(files)[split]) = TextsOf(files[split])
              /\ \A q \in files[split] :
                   \E r \in Relabelled(files)[split] : Covers(r, q)
              /\ \A r \in Relabelled(files)[split] : ~Missed(r)
<1> DEFINE f(r) == Normal(r, NoteOf(r.text).labels, NoteOf(r.text).severity)
           F == Relabelled(files)
<1>1. ASSUME NEW r, IsRow(r)
      PROVE  /\ IsRow(f(r)) /\ f(r).text = r.text
             /\ Covers(f(r), r) /\ ~Missed(f(r))
  <2>1. NoteOf(r.text).severity \in Int /\ "SAFE" \notin NoteOf(r.text).labels
    BY NoteFacts
  <2>2. r.text \in Texts /\ r.severity \in Int
    BY <1>1 DEF IsRow
  <2>3. /\ f(r).text = r.text /\ f(r).severity \in Int
        /\ f(r).labels = ExclusiveSafe(r.labels \cup NoteOf(r.text).labels)
        /\ f(r).labels # Safe => f(r).severity >= r.severity
    BY <2>1, <2>2, NormalFacts
  <2> HIDE DEF f
  <2>4. Covers(f(r), r)
    BY <2>3, CoverFacts
  <2>5. NoteOf(f(r).text).labels \ f(r).labels = {}
    BY <2>1, <2>3 DEF ExclusiveSafe, Safe
  <2> QED BY <2>2, <2>3, <2>4, <2>5 DEF IsRow, Missed
<1>2. F = [split \in Splits |-> {f(r) : r \in files[split]}]
  BY DEF Relabelled
<1> HIDE DEF F, f
<1>3. ASSUME NEW split \in Splits
      PROVE  /\ F[split] = {f(r) : r \in files[split]}
             /\ IsFiniteSet(files[split])
             /\ \A r \in files[split] : IsRow(r)
  BY <1>2 DEF AreFiles
<1>4. ASSUME NEW split \in Splits
      PROVE  IsFiniteSet(F[split])
  <2> DEFINE g == [r \in files[split] |-> f(r)]
  <2>1. IsFiniteSet({g[r] : r \in files[split]})
    <3>1. g = [r \in files[split] |-> g[r]] /\ IsFiniteSet(files[split])
      BY <1>3
    <3> HIDE DEF g
    <3> QED BY <3>1, ImageFinite
  <2>2. {g[r] : r \in files[split]} = {f(r) : r \in files[split]}
    OBVIOUS
  <2> QED BY <2>1, <2>2, <1>3
<1>5. AreFiles(F)
  <2>1. F = [split \in Splits |-> F[split]]
    BY <1>2
  <2>2. \A split \in Splits : \A r \in F[split] : IsRow(r)
    BY <1>1, <1>3
  <2> QED BY <1>4, <2>1, <2>2 DEF AreFiles
<1>6. ASSUME NEW split \in Splits
      PROVE  /\ TextsOf(F[split]) = TextsOf(files[split])
             /\ \A q \in files[split] : \E r \in F[split] : Covers(r, q)
             /\ \A r \in F[split] : ~Missed(r)
  <2>1. \A q \in files[split] : Covers(f(q), q) /\ f(q).text = q.text
                                /\ f(q) \in F[split] /\ ~Missed(f(q))
    BY <1>1, <1>3
  <2>2. TextsOf(F[split]) = TextsOf(files[split])
    BY <2>1, <1>3 DEF TextsOf
  <2> QED BY <2>1, <2>2, <1>3
<1> QED BY <1>5, <1>6 DEF F

\* The row written for a text covers each row of it, is normal, and misses
\* nothing that none of them misses.
LEMMA RecordFacts ==
  ASSUME NEW rows, IsFiniteSet(rows), \A r \in rows : IsRow(r),
         NEW t \in TextsOf(rows)
  PROVE  /\ IsRow(Record(t, rows)) /\ Record(t, rows).text = t
         /\ Record(t, rows) = Normal(Record(t, rows), {}, 0)
         /\ \A q \in rows : q.text = t => Covers(Record(t, rows), q)
         /\ (\A r \in rows : ~Missed(r)) => ~Missed(Record(t, rows))
<1> DEFINE same == {r \in rows : r.text = t}
           labels == UNION {r.labels : r \in same}
           top == Max({r.severity : r \in same})
           R == Record(t, rows)
<1>1. t \in Texts /\ same # {} /\ \A r \in same : r.severity \in Int
  BY DEF TextsOf, IsRow
<1>2. top \in Int /\ \A r \in same : top >= r.severity
  <2> DEFINE g == [r \in same |-> r.severity]
  <2>1. IsFiniteSet(same)
    BY FS_Subset
  <2>2. IsFiniteSet({g[r] : r \in same})
    <3>1. g = [r \in same |-> g[r]]
      OBVIOUS
    <3> HIDE DEF g
    <3> QED BY <2>1, <3>1, ImageFinite
  <2>3. {g[r] : r \in same} = {r.severity : r \in same}
    OBVIOUS
  <2>4. IsFiniteSet({r.severity : r \in same})
    BY <2>2, <2>3
  <2> HIDE DEF same, g
  <2>5. /\ {r.severity : r \in same} \in SUBSET Int
        /\ {r.severity : r \in same} # {}
    BY <1>1
  <2>6. /\ top \in {r.severity : r \in same}
        /\ \A i \in {r.severity : r \in same} : top >= i
    BY <2>4, <2>5, MaxFacts
  <2> QED BY <2>5, <2>6
<1>3. R = Row(t, labels, top)
  BY DEF Record
<1>4. \A q \in rows : q.text = t => q \in same /\ q.labels \subseteq labels
  OBVIOUS
<1>5. "SAFE" \notin NoteOf(t).labels
  BY NoteFacts
<1>6. ASSUME \A r \in rows : ~Missed(r)
      PROVE  NoteOf(t).labels \subseteq labels
  <2>1. PICK r \in same : TRUE
    BY <1>1
  <2>2. NoteOf(t).labels \subseteq r.labels
    BY <1>6, <2>1 DEF Missed
  <2> QED BY <2>1, <2>2
<1> HIDE DEF labels, top, R, same
<1>7. /\ IsRow(R) /\ R.text = t /\ R.labels = ExclusiveSafe(labels)
      /\ R.labels # Safe => R.severity >= top
  BY <1>1, <1>2, <1>3, RowFacts
<1>8. R = Normal(R, {}, 0)
  <2> DEFINE x == [text |-> t, labels |-> labels, severity |-> top]
  <2>1. x.severity \in Int
    BY <1>2
  <2>2. R = Normal(x, {}, 0)
    BY <1>3 DEF Row
  <2> HIDE DEF x
  <2> QED BY <2>1, <2>2, NormalTwice
<1>9. ASSUME NEW q \in rows, q.text = t
      PROVE  Covers(R, q)
  <2>1. top >= q.severity /\ q.severity \in Int /\ q.labels \subseteq labels
    BY <1>1, <1>2, <1>4, <1>9
  <2>2. R.labels # Safe => R.severity >= q.severity
    BY <2>1, <1>2, <1>7 DEF IsRow
  <2> QED BY <2>1, <2>2, <1>7, <1>9, CoverFacts
<1>10. NoteOf(t).labels \subseteq labels => ~Missed(R)
  BY <1>5, <1>7 DEF Missed, ExclusiveSafe, Safe
<1> QED BY <1>6, <1>7, <1>8, <1>9, <1>10 DEF R

\* Covering is transitive.
LEMMA CoversTransitive ==
  ASSUME NEW r, NEW p, NEW q, IsRow(r), IsRow(p), IsRow(q),
         Covers(r, p), Covers(p, q)
  PROVE  Covers(r, q)
<1>1. /\ q.labels \ Safe \subseteq p.labels \ Safe
      /\ p.labels \ Safe \subseteq r.labels
  BY DEF Covers, ExclusiveSafe, Safe
<1>2. ASSUME ExclusiveSafe(q.labels) # Safe
      PROVE  r.severity >= q.severity
  <2>1. ExclusiveSafe(p.labels) # Safe
    BY <1>1, <1>2 DEF ExclusiveSafe, Safe
  <2>2. r.severity >= p.severity /\ p.severity >= q.severity
    BY <1>2, <2>1 DEF Covers
  <2> QED BY <2>2 DEF IsRow
<1>3. ExclusiveSafe(q.labels) \ Safe \subseteq r.labels
  BY <1>1 DEF ExclusiveSafe, Safe
<1> QED BY <1>2, <1>3 DEF Covers

\* What the audit asks of files, but for the rules it applies again.
Sound(files) ==
  /\ TextsOf(files.train) \cap TextsOf(files.validation) = {}
  /\ \A split \in Splits :
       /\ \A r \in files[split] : r = Normal(r, {}, 0)
       /\ \A r, q \in files[split] : r.text = q.text => r = q
NothingMissed(files) == \A split \in Splits : \A r \in files[split] : ~Missed(r)

Keeps(new, old) ==
  /\ \A q \in Rows(old) : \E r \in Rows(new) : Covers(r, q)
  /\ TextsOf(old.validation) \subseteq TextsOf(new.validation)

\* The files that are written: sound, and with all there was.
LEMMA WrittenFacts ==
  ASSUME NEW files, AreFiles(files)
  PROVE  /\ AreFiles(Written(files)) /\ Sound(Written(files))
         /\ Keeps(Written(files), files)
         /\ NothingMissed(files) => NothingMissed(Written(files))
<1> DEFINE all == Rows(files)
           rec(t) == Record(t, all)
           W == Written(files)
           held == TextsOf(files.validation)
           rest == TextsOf(files.train) \ held
<1>1. /\ IsFiniteSet(files.train) /\ IsFiniteSet(files.validation)
      /\ \A r \in files.train : IsRow(r)
      /\ \A r \in files.validation : IsRow(r)
  BY DEF AreFiles, Splits
<1>2. IsFiniteSet(all) /\ (\A r \in all : IsRow(r))
  BY <1>1, FS_Union DEF Rows
<1>3. held \subseteq TextsOf(all) /\ rest \subseteq TextsOf(all)
      /\ TextsOf(all) = held \cup rest /\ TextsOf(all) \subseteq Texts
      /\ held \cap rest = {}
  BY <1>2 DEF TextsOf, Rows, IsRow
<1>4. W.train = {rec(t) : t \in rest} /\ W.validation = {rec(t) : t \in held}
      /\ W = [train |-> {rec(t) : t \in rest},
              validation |-> {rec(t) : t \in held}]
  BY DEF Written
<1>5. ASSUME NEW t \in TextsOf(all)
      PROVE  /\ IsRow(rec(t)) /\ rec(t).text = t
             /\ rec(t) = Normal(rec(t), {}, 0)
             /\ \A q \in all : q.text = t => Covers(rec(t), q)
             /\ (\A r \in all : ~Missed(r)) => ~Missed(rec(t))
  BY <1>2, RecordFacts
<1> HIDE DEF W, rec, all, held, rest
<1>6. ASSUME NEW S, S \subseteq TextsOf(all)
      PROVE  IsFiniteSet({rec(t) : t \in S})
  <2> DEFINE g == [t \in S |-> rec(t)]
  <2>1. IsFiniteSet(S)
    BY <1>3, <1>6, CurationAssumption, FS_Subset
  <2>2. IsFiniteSet({g[t] : t \in S})
    <3>1. g = [t \in S |-> g[t]]
      OBVIOUS
    <3> HIDE DEF g
    <3> QED BY <2>1, <3>1, ImageFinite
  <2>3. {g[t] : t \in S} = {rec(t) : t \in S}
    OBVIOUS
  <2> QED BY <2>2, <2>3
<1>7. /\ \A r \in W.train : IsRow(r) /\ r.text \in rest /\ r = rec(r.text)
      /\ \A r \in W.validation : IsRow(r) /\ r.text \in held /\ r = rec(r.text)
  BY <1>3, <1>4, <1>5
<1>8. AreFiles(W)
  <2>1. IsFiniteSet(W.train) /\ IsFiniteSet(W.validation)
    BY <1>3, <1>4, <1>6
  <2>2. W = [split \in Splits |-> W[split]]
    BY <1>4 DEF Splits
  <2> QED BY <1>7, <2>1, <2>2 DEF AreFiles, Splits
<1>9. TextsOf(W.validation) = held
  <2>1. \A t \in held : rec(t) \in W.validation /\ rec(t).text = t
    BY <1>3, <1>4, <1>5
  <2> QED BY <1>7, <2>1 DEF TextsOf
<1>10. Sound(W)
  <2>1. TextsOf(W.train) \subseteq rest
    BY <1>7 DEF TextsOf
  <2>2. \A r \in W.train \cup W.validation : r = Normal(r, {}, 0)
    BY <1>3, <1>5, <1>7
  <2>3. \A split \in Splits : \A r, q \in W[split] : r.text = q.text => r = q
    BY <1>7 DEF Splits
  <2> QED BY <1>3, <1>9, <2>1, <2>2, <2>3 DEF Sound, Splits
<1>11. Keeps(W, files)
  <2>1. ASSUME NEW q \in all
        PROVE  \E r \in Rows(W) : Covers(r, q)
    <3>1. q.text \in held \cup rest
      BY <1>3 DEF TextsOf
    <3>2. rec(q.text) \in Rows(W)
      BY <1>4, <3>1 DEF Rows
    <3>3. Covers(rec(q.text), q)
      BY <1>3, <1>5, <3>1
    <3> QED BY <3>2, <3>3
  <2> QED BY <1>9, <2>1 DEF Keeps, all, held
<1>12. NothingMissed(files) => NothingMissed(W)
  <2>1. NothingMissed(files) => \A r \in all : ~Missed(r)
    BY DEF NothingMissed, all, Rows, Splits
  <2>2. (\A r \in all : ~Missed(r))
          => \A r \in W.train \cup W.validation : ~Missed(r)
    BY <1>3, <1>5, <1>7
  <2> QED BY <2>1, <2>2 DEF NothingMissed, Splits
<1> QED BY <1>8, <1>10, <1>11, <1>12 DEF W

\* A file with one row for each of its texts has as many rows as texts.
LEMMA OneEach ==
  ASSUME NEW rows, IsFiniteSet(rows),
         \A r, q \in rows : r.text = q.text => r = q
  PROVE  Cardinality(TextsOf(rows)) = Cardinality(rows)
<1> DEFINE f == [r \in rows |-> r.text]
<1>1. f \in Surjection(rows, TextsOf(rows))
  BY DEF Surjection, TextsOf
<1>2. f \in Injection(rows, TextsOf(rows))
  BY DEF Injection, IsInjective, TextsOf
<1> HIDE DEF f
<1> QED BY <1>1, <1>2, FS_Surjection

\* Sound files in place, with nothing missed, pass the audit.
LEMMA SoundIsClean ==
  ASSUME AreFiles(active), Sound(active), NothingMissed(active)
  PROVE  Clean
<1>1. ASSUME NEW split \in Splits
      PROVE  Cardinality(TextsOf(active[split])) = Cardinality(active[split])
  BY OneEach DEF AreFiles, Sound
<1> QED BY <1>1 DEF Clean, Sound, NothingMissed

\* Sources offer rows of known texts.
LEMMA OfferedRows ==
  ASSUME NEW row \in OfferedBy(tool)
  PROVE  IsRow(row)
<1>1. \A t \in Texts : IsRow(AnnotatedRow(t))
  BY NoteFacts, RowFacts DEF AnnotatedRow
<1>2. \A t \in Texts : \A high : IsRow(CivilRow(t, high))
  <2> SUFFICES ASSUME NEW t \in Texts, NEW high
               PROVE  IsRow(CivilRow(t, high))
    OBVIOUS
  <2> DEFINE topics == NoteOf(t).topics
             findings ==
               Found("threat" \in high, {"THREAT", "TOXIC"}, 5)
               \cup Found("sexual" \in high,
                          {"NSFW"}
                            \cup IF "family" \in topics THEN {"TOXIC"} ELSE {},
                          4)
               \cup Found("identity" \in high /\ topics \cap GroupTopics # {},
                          {"HATE", "TOXIC"}, 4)
               \cup Found("toxic" \in high, {"TOXIC"}, 3)
               \cup Found("obscene" \in high, {"PROFANITY"}, 1)
             top == Max({0} \cup {f.severity : f \in findings})
  <2>1. {f.severity : f \in findings} \in SUBSET (0..5)
    BY DEF Found
  <2>2. CivilRow(t, high) = Row(t, UNION {f.labels : f \in findings}, top)
    BY DEF CivilRow
  <2> HIDE DEF findings
  <2>3. top \in Int
    BY <2>1, MaxSeverity
  <2> HIDE DEF top
  <2> QED BY <2>2, <2>3, RowFacts
<1>3. \A r \in LocalRows : IsRow(Normal(r, {}, 0))
  <2> SUFFICES ASSUME NEW r \in LocalRows PROVE IsRow(Normal(r, {}, 0))
    OBVIOUS
  <2>1. r.text \in Texts /\ r.severity \in Int /\ 0 \in Int
    BY CurationAssumption
  <2>2. /\ Normal(r, {}, 0).text = r.text
        /\ Normal(r, {}, 0).severity \in Int
    BY <2>1, NormalFacts
  <2> QED BY <2>1, <2>2 DEF IsRow
<1>4. \A t \in Texts : \A labels :
        \A s \in 0..5 : IsRow(Row(t, labels, s))
  BY RowFacts
<1>5. InviteTexts \subseteq Texts /\ FamilyTemplates \subseteq Texts
  BY CurationAssumption
<1>6. CASE row \in MeasuringRows
  BY <1>4, <1>6 DEF MeasuringRows
<1>7. CASE row \in CivilRows
  BY <1>2, <1>7 DEF CivilRows
<1>8. CASE row \in ProfanityRows
  BY <1>3, <1>8 DEF ProfanityRows
<1>9. CASE row \in DiscordRows \cup InviteRows
  BY <1>4, <1>5, <1>9 DEF DiscordRows, InviteRows
<1>10. CASE row \in RussianFamilyRows \cup FamilyThreatRows
  BY <1>1, <1>5, <1>10 DEF RussianFamilyRows, FamilyThreatRows
<1> QED BY <1>6, <1>7, <1>8, <1>9, <1>10 DEF OfferedBy

-----------------------------------------------------------------------------
(* The invariant                                                           *)

\* The relabelled copy has all the active files have, and misses nothing.
OwnKept ==
  phase \in {"gather", "merge"} => Keeps(own, active) /\ NothingMissed(own)

ExternalNoted ==
  phase = "merge" /\ tool = "curate" => NothingMissed(external)

MergedSound ==
  phase \in {"backup", "replace_train", "replace_validation"} =>
    Sound(merged) /\ (tool = "curate" => NothingMissed(merged))

MergedKeeps ==
  /\ phase = "backup" => Keeps(merged, active)
  /\ phase \in {"replace_train", "replace_validation"} => Keeps(merged, backup)

\* How far the replacement is.
BackedUp ==
  /\ phase = "replace_train" => backup = active
  /\ phase = "replace_validation" =>
       active.train = merged.train /\ active.validation = backup.validation

Audited ==
  phase = "audit" =>
    Sound(active) /\ (tool = "curate" => NothingMissed(active))

IInv == /\ TypeOK /\ OwnKept /\ ExternalNoted /\ MergedSound /\ MergedKeeps
        /\ BackedUp /\ Audited /\ MergeKeeps /\ CurateIsAccepted

LEMMA EmptyFiles == AreFiles(Empty)
<1>1. IsFiniteSet({})
  BY FS_EmptySet
<1> QED BY <1>1 DEF AreFiles, Empty

LEMMA Initially == Init => IInv
<1> SUFFICES ASSUME Init PROVE IInv
  OBVIOUS
<1>1. AreFiles(active)
  <2>1. \A split \in Splits : active[split] \subseteq OwnRows
    BY DEF Init
  <2>2. \A split \in Splits : IsFiniteSet(active[split])
    BY <2>1, CurationAssumption, FS_Subset
  <2>3. active = [split \in Splits |-> active[split]]
    BY DEF Init
  <2> QED BY <2>1, <2>2, <2>3, CurationAssumption DEF AreFiles, IsRow
<1>2. TypeOK
  BY <1>1, EmptyFiles DEF Init, TypeOK
<1> QED BY <1>2 DEF Init, IInv, OwnKept, ExternalNoted, MergedSound,
                    MergedKeeps, BackedUp, Audited, MergeKeeps,
                    CurateIsAccepted

\* What a merge puts together.
LEMMA Together ==
  ASSUME NEW a, NEW b, AreFiles(a), AreFiles(b)
  PROVE  LET both == [s \in Splits |-> a[s] \cup b[s]] IN
         /\ AreFiles(both) /\ Keeps(both, a)
         /\ NothingMissed(a) /\ NothingMissed(b) => NothingMissed(both)
<1> DEFINE both == [s \in Splits |-> a[s] \cup b[s]]
<1>1. \A s \in Splits : IsFiniteSet(both[s])
  BY FS_Union DEF AreFiles
<1>2. AreFiles(both)
  BY <1>1 DEF AreFiles
<1>3. \A q : Covers(q, q) \/ q.severity \notin Int
  BY DEF Covers, ExclusiveSafe, Safe
<1>4. Keeps(both, a)
  <2>1. ASSUME NEW q \in Rows(a)
        PROVE  q \in Rows(both) /\ Covers(q, q)
    BY <1>3 DEF AreFiles, IsRow, Rows, Splits
  <2>2. TextsOf(a.validation) \subseteq TextsOf(both.validation)
    BY DEF TextsOf, Splits
  <2> QED BY <2>1, <2>2 DEF Keeps
<1>5. NothingMissed(a) /\ NothingMissed(b) => NothingMissed(both)
  BY DEF NothingMissed
<1> QED BY <1>2, <1>4, <1>5

LEMMA KeepsTransitive ==
  ASSUME NEW new, NEW mid, NEW old, AreFiles(new), AreFiles(mid), AreFiles(old),
         Keeps(new, mid), Keeps(mid, old)
  PROVE  Keeps(new, old)
<1>1. \A files : AreFiles(files) => \A r \in Rows(files) : IsRow(r)
  BY DEF AreFiles, Rows, Splits
<1>2. ASSUME NEW q \in Rows(old)
      PROVE  \E r \in Rows(new) : Covers(r, q)
  <2>1. PICK p \in Rows(mid) : Covers(p, q)
    BY DEF Keeps
  <2>2. PICK r \in Rows(new) : Covers(r, p)
    BY <2>1 DEF Keeps
  <2>3. IsRow(r) /\ IsRow(p) /\ IsRow(q)
    BY <1>1, <1>2, <2>1, <2>2
  <2> QED BY <2>1, <2>2, <2>3, CoversTransitive
<1> QED BY <1>2 DEF Keeps

-----------------------------------------------------------------------------
(* Each step keeps it                                                      *)

LEMMA RelabelKeeps ==
  ASSUME IInv, Relabel
  PROVE  IInv'
<1>1. /\ AreFiles(own')
      /\ \A split \in Splits :
           /\ TextsOf(own'[split]) = TextsOf(active[split])
           /\ \A q \in active[split] : \E r \in own'[split] : Covers(r, q)
           /\ \A r \in own'[split] : ~Missed(r)
  BY RelabelledFacts DEF IInv, TypeOK, Relabel
<1>2. Keeps(own', active)
  BY <1>1 DEF Keeps, Rows, Splits
<1>3. NothingMissed(own')
  BY <1>1 DEF NothingMissed
<1>4. OwnKept'
  BY <1>2, <1>3 DEF OwnKept, Relabel
<1> QED BY <1>1, <1>4
        DEF IInv, TypeOK, ExternalNoted, MergedSound, MergedKeeps, BackedUp,
            Audited, MergeKeeps, CurateIsAccepted, Relabel, Step

LEMMA AdaptKeeps ==
  ASSUME IInv, Adapt
  PROVE  IInv'
<1>1. PICK row \in OfferedBy(tool), split \in Splits :
        external' = [external EXCEPT ![split] = @ \cup {row}]
  BY DEF Adapt
<1>2. IsRow(row) /\ AreFiles(external)
  BY OfferedRows DEF IInv, TypeOK
<1>3. AreFiles(external')
  <2>1. \A s \in Splits : external'[s] = external[s]
                          \/ external'[s] = external[s] \cup {row}
    BY <1>1, <1>2 DEF AreFiles
  <2>2. ASSUME NEW s \in Splits
        PROVE  IsFiniteSet(external'[s])
    <3>1. IsFiniteSet(external[s])
      BY <1>2 DEF AreFiles
    <3>2. IsFiniteSet(external[s] \cup {row})
      BY <3>1, FS_AddElement
    <3> QED BY <2>1, <3>1, <3>2
  <2>3. external' = [s \in Splits |-> external'[s]]
    BY <1>1, <1>2 DEF AreFiles
  <2> QED BY <1>2, <2>1, <2>2, <2>3 DEF AreFiles
<1> QED BY <1>3 DEF IInv, TypeOK, OwnKept, ExternalNoted, MergedSound,
                    MergedKeeps, BackedUp, Audited, MergeKeeps,
                    CurateIsAccepted, Adapt

LEMMA GatheredKeeps ==
  ASSUME IInv, Gathered
  PROVE  IInv'
<1>1. /\ AreFiles(Relabelled(external))
      /\ NothingMissed(Relabelled(external))
  BY RelabelledFacts DEF IInv, TypeOK, NothingMissed
<1>2. AreFiles(external') /\ ExternalNoted'
  BY <1>1 DEF IInv, TypeOK, ExternalNoted, Gathered
<1> QED BY <1>2 DEF IInv, TypeOK, OwnKept, MergedSound, MergedKeeps, BackedUp,
                    Audited, MergeKeeps, CurateIsAccepted, Gathered, Step

LEMMA MergeKeepsIt ==
  ASSUME IInv, Merge
  PROVE  IInv'
<1> DEFINE both == [s \in Splits |-> own[s] \cup external[s]]
<1>1. /\ AreFiles(both) /\ Keeps(both, own)
      /\ NothingMissed(own) /\ NothingMissed(external) => NothingMissed(both)
  BY Together DEF IInv, TypeOK
<1>2. merged' = Written(both)
  BY DEF Merge
<1> HIDE DEF both
<1>3. /\ AreFiles(merged') /\ Sound(merged') /\ Keeps(merged', both)
      /\ NothingMissed(both) => NothingMissed(merged')
  BY <1>1, <1>2, WrittenFacts
<1>4. Keeps(own, active) /\ NothingMissed(own)
  BY DEF IInv, OwnKept, Merge, Step
<1>5. Keeps(merged', active)
  <2>1. AreFiles(own) /\ AreFiles(active)
    BY DEF IInv, TypeOK
  <2>2. Keeps(merged', own)
    BY <1>1, <1>3, <2>1, KeepsTransitive
  <2> QED BY <1>3, <1>4, <2>1, <2>2, KeepsTransitive
<1>6. tool = "curate" => NothingMissed(merged')
  BY <1>1, <1>3, <1>4 DEF IInv, ExternalNoted, Merge, Step
<1>7. TypeOK'
  BY <1>3, EmptyFiles DEF IInv, TypeOK, Merge, Step
<1> QED BY <1>3, <1>5, <1>6, <1>7
        DEF IInv, OwnKept, ExternalNoted, MergedSound, MergedKeeps, BackedUp,
            Audited, MergeKeeps, CurateIsAccepted, Merge, Step

LEMMA BackupKeeps ==
  ASSUME IInv, Backup
  PROVE  IInv'
  BY DEF IInv, TypeOK, OwnKept, ExternalNoted, MergedSound, MergedKeeps,
         BackedUp, Audited, MergeKeeps, CurateIsAccepted, Backup, Step, staging

\* The active files, one or both replaced by those that were merged.
LEMMA ReplaceTrainKeeps ==
  ASSUME IInv, ReplaceTrain
  PROVE  IInv'
<1>1. /\ active' = [active EXCEPT !.train = merged.train]
      /\ AreFiles(active) /\ AreFiles(merged)
      /\ backup' = backup /\ merged' = merged
  BY DEF IInv, TypeOK, ReplaceTrain, staging
<1>2. /\ active'.train = merged.train
      /\ active'.validation = active.validation
      /\ active' = [split \in Splits |-> active'[split]]
  BY <1>1 DEF AreFiles, Splits
<1>3. AreFiles(active')
  BY <1>1, <1>2 DEF AreFiles, Splits
<1>4. BackedUp'
  BY <1>1, <1>2 DEF IInv, BackedUp, ReplaceTrain, Step
<1> QED BY <1>3, <1>4
        DEF IInv, TypeOK, OwnKept, ExternalNoted, MergedSound, MergedKeeps,
            Audited, MergeKeeps, CurateIsAccepted, ReplaceTrain, Step, staging

LEMMA ReplaceValidationKeeps ==
  ASSUME IInv, ReplaceValidation
  PROVE  IInv' /\ active' = merged
<1>1. /\ active' = [active EXCEPT !.validation = merged.validation]
      /\ AreFiles(active) /\ AreFiles(merged) /\ backup' = backup
      /\ active.train = merged.train
  BY DEF IInv, TypeOK, ReplaceValidation, Step, BackedUp
<1>2. active' = merged
  <2>1. active' = [split \in Splits |-> active'[split]]
    BY <1>1 DEF AreFiles
  <2>2. \A split \in Splits : active'[split] = merged[split]
    BY <1>1 DEF AreFiles, Splits
  <2> QED BY <1>1, <2>1, <2>2 DEF AreFiles
<1>3. Keeps(merged, backup) /\ Sound(merged)
      /\ (tool = "curate" => NothingMissed(merged))
  BY DEF IInv, MergedKeeps, MergedSound, ReplaceValidation, Step
<1>4. MergeKeeps'
  BY <1>1, <1>2, <1>3 DEF MergeKeeps, Keeps
<1>5. TypeOK'
  BY <1>1, <1>2, EmptyFiles
     DEF IInv, TypeOK, ReplaceValidation, Step, Discard
<1>6. Audited'
  BY <1>2, <1>3 DEF Audited, ReplaceValidation
<1> QED BY <1>2, <1>4, <1>5, <1>6
        DEF IInv, OwnKept, ExternalNoted, MergedSound, MergedKeeps, BackedUp,
            CurateIsAccepted, ReplaceValidation, Step

LEMMA AuditKeeps ==
  ASSUME IInv, Audit
  PROVE  IInv'
<1>1. tool = "curate" => Clean
  BY SoundIsClean DEF IInv, TypeOK, Audited, Audit
<1> QED BY <1>1
        DEF IInv, TypeOK, OwnKept, ExternalNoted, MergedSound, MergedKeeps,
            BackedUp, Audited, MergeKeeps, CurateIsAccepted, Audit, staging

LEMMA StartKeeps ==
  ASSUME IInv, Start
  PROVE  IInv'
  BY DEF IInv, TypeOK, OwnKept, ExternalNoted, MergedSound, MergedKeeps,
         BackedUp, Audited, MergeKeeps, CurateIsAccepted, Start, staging

LEMMA CrashKeeps ==
  ASSUME IInv, Crash
  PROVE  IInv'
  BY EmptyFiles
     DEF IInv, TypeOK, OwnKept, ExternalNoted, MergedSound, MergedKeeps,
         BackedUp, Audited, MergeKeeps, CurateIsAccepted, Crash, Discard

LEMMA Inductive == IInv /\ [Next]_vars => IInv'
<1> SUFFICES ASSUME IInv, [Next]_vars PROVE IInv'
  OBVIOUS
<1>1. CASE Next
  BY <1>1, StartKeeps, RelabelKeeps, AdaptKeeps, GatheredKeeps, MergeKeepsIt,
     BackupKeeps, ReplaceTrainKeeps, ReplaceValidationKeeps, AuditKeeps,
     CrashKeeps DEF Next
<1>2. CASE UNCHANGED vars
  BY <1>2 DEF vars, staging, IInv, TypeOK, OwnKept, ExternalNoted,
              MergedSound, MergedKeeps, BackedUp, Audited, MergeKeeps,
              CurateIsAccepted
<1> QED BY <1>1, <1>2

LEMMA Invariance == Spec => []IInv
<1>1. Init => IInv
  BY Initially
<1>2. IInv /\ [Next]_vars => IInv'
  BY Inductive
<1> QED BY <1>1, <1>2, PTL DEF Spec

-----------------------------------------------------------------------------
(* The theorems                                                            *)

\* Files hold finitely many rows of known texts at every step (TypeOK).
THEOREM TypeCorrect == Spec => []TypeOK
<1>1. IInv => TypeOK
  BY DEF IInv
<1> QED BY <1>1, Invariance, PTL

\* When both files are in place, every row of the old ones is there, with its
\* labels and its severity, and what was held out still is (MergeKeeps): the
\* upsert of _load_file for any rows of any sources.
THEOREM MergesKeep == Spec => []MergeKeeps
<1>1. IInv => MergeKeeps
  BY DEF IInv
<1> QED BY <1>1, Invariance, PTL

\* The audit, which comes when the files are already replaced, never refuses
\* what curate made (CurateIsAccepted), whatever the sources gave and whatever
\* a run that died left behind.
THEOREM CurateAccepted == Spec => []CurateIsAccepted
<1>1. IInv => CurateIsAccepted
  BY DEF IInv
<1> QED BY <1>1, Invariance, PTL

\* A step that changes the active files is one of the two replacements.
LEMMA ActiveChanges ==
  ASSUME [Next]_vars, active' # active
  PROVE  ReplaceTrain \/ ReplaceValidation
  BY DEF Next, vars, Start, Relabel, Adapt, Gathered, Merge, Backup, Audit,
         Crash

\* A text held out for validation stays held out, and no replacement, nor a
\* crash between the two, makes a text of one file a text of both
\* (HeldOutStaysOut).
THEOREM HeldOut == Spec => HeldOutStaysOut
<1> DEFINE A ==
             /\ TextsOf(active.validation) \subseteq TextsOf(active.validation')
             /\ TextsOf(active'.train) \cap TextsOf(active'.validation)
                  \subseteq TextsOf(active.train)
                             \cap TextsOf(active.validation)
<1>1. IInv /\ [Next]_vars => [A]_active
  <2> SUFFICES ASSUME IInv, [Next]_vars, active' # active PROVE A
    OBVIOUS
  <2>1. CASE ReplaceTrain
    <3>1. /\ active'.train = merged.train
          /\ active'.validation = active.validation
      BY <2>1 DEF IInv, TypeOK, AreFiles, Splits, ReplaceTrain
    <3>2. TextsOf(merged.train) \cap TextsOf(merged.validation) = {}
      BY <2>1 DEF IInv, MergedSound, Sound, ReplaceTrain, Step
    <3>3. TextsOf(active.validation) \subseteq TextsOf(merged.validation)
      BY <2>1 DEF IInv, MergedKeeps, BackedUp, Keeps, ReplaceTrain, Step
    <3> QED BY <3>1, <3>2, <3>3
  <2>2. CASE ReplaceValidation
    <3>1. active' = merged
      BY <2>2, ReplaceValidationKeeps
    <3>2. TextsOf(merged.train) \cap TextsOf(merged.validation) = {}
      BY <2>2 DEF IInv, MergedSound, Sound, ReplaceValidation, Step
    <3>3. TextsOf(active.validation) \subseteq TextsOf(merged.validation)
      BY <2>2 DEF IInv, MergedKeeps, BackedUp, Keeps, ReplaceValidation, Step
    <3> QED BY <3>1, <3>2, <3>3
  <2> QED BY <2>1, <2>2, ActiveChanges
<1>2. (Spec => [][A]_active) <=> (Spec => HeldOutStaysOut)
  BY DEF HeldOutStaysOut
<1> HIDE DEF A
<1>3. Spec => [][A]_active
  BY <1>1, Invariance, PTL DEF Spec
<1> QED BY <1>2, <1>3

\* No step of a run, and no crash, loses a row: it is in the active files or
\* in the backup (NothingLost).
THEOREM NothingIsLost == Spec => NothingLost
<1> DEFINE B == Rows(active) \subseteq Rows(active') \cup Rows(backup')
<1>1. IInv /\ [Next]_vars => [B]_<<active, backup>>
  <2> SUFFICES ASSUME IInv, [Next]_vars PROVE B
    OBVIOUS
  <2>1. CASE ReplaceTrain
    <3>1. backup' = active
      BY <2>1 DEF IInv, BackedUp, ReplaceTrain, Step
    <3> QED BY <3>1
  <2>2. CASE ReplaceValidation
    <3>1. active' = merged
      BY <2>2, ReplaceValidationKeeps
    <3>2. /\ active.train = merged.train
          /\ active.validation = backup.validation /\ backup' = backup
      BY <2>2 DEF IInv, BackedUp, ReplaceValidation, Step
    <3> QED BY <3>1, <3>2 DEF Rows
  <2>3. CASE active' = active
    BY <2>3
  <2> QED BY <2>1, <2>2, <2>3, ActiveChanges
<1>2. (Spec => [][B]_<<active, backup>>) <=> (Spec => NothingLost)
  BY DEF NothingLost
<1> HIDE DEF B
<1>3. Spec => [][B]_<<active, backup>>
  BY <1>1, Invariance, PTL DEF Spec
<1> QED BY <1>2, <1>3

-----------------------------------------------------------------------------
(* ContentRules: the first and the last of some places in a list            *)

\* Some places in a list have a last one,
LEMMA GreatestBelow ==
  ASSUME NEW n \in Nat, NEW S \in SUBSET (1..n), S # {}
  PROVE  \E k \in S : \A i \in S : i <= k
<1>1. IsFiniteSet(S) /\ S \in SUBSET Int
  <2>1. IsFiniteSet(1..n)
    BY FS_Interval
  <2>2. S \subseteq 1..n /\ S \in SUBSET Int
    OBVIOUS
  <2>3. IsFiniteSet(S)
    BY ONLY <2>1, <2>2, FS_Subset
  <2> QED BY <2>2, <2>3
<1>2. Max(S) \in S /\ \A i \in S : Max(S) >= i
  BY <1>1, MaxFacts
<1> QED BY <1>1, <1>2

\* ... and, counted from the other end, a first one.
LEMMA LeastBelow ==
  ASSUME NEW n \in Nat, NEW S \in SUBSET (1..n), S # {}
  PROVE  \E k \in S : \A i \in S : k <= i
<1> DEFINE T == {m \in 1..n : n + 1 - m \in S}
<1>1. T \in SUBSET (1..n)
  OBVIOUS
<1>2. \A i \in S : n + 1 - i \in T
  BY Z3
<1>3. T # {}
  BY <1>2
<1>4. PICK m \in T : \A i \in T : i <= m
  <2> HIDE DEF T
  <2> QED BY <1>1, <1>3, GreatestBelow
<1>5. n + 1 - m \in S /\ \A i \in S : n + 1 - i <= m
  BY <1>2, <1>4
<1>6. \A i \in S : n + 1 - m <= i
  BY <1>4, <1>5
<1> QED BY <1>5, <1>6

-----------------------------------------------------------------------------
(* ContentRules: what a message, a text and a lookup come to              *)
\* The rules a message is judged by were accepted with its policy, and only
\* those that are on match.
AcceptedRules ==
  /\ stage \in {"loaded", "processed", "matched"} =>
       Compatible(settings, input.policy)
  /\ stage = "matched" => \A id \in result : On(id)

Annotated == stage = "annotated" => result = Annotation(input)

\* A lookup comes to the rows that are found, the foremost of them, or the
\* files.
LookedUp ==
  /\ stage \in {"asked", "queried", "resolved", "unavailable"} =>
       input \in Lookups
  /\ stage = "queried" => result = Policies!Found(input.store, input.context)
  /\ (stage = "resolved" /\ result # FromFiles) =>
       result.row \in Policies!Foremost(
                        Policies!Found(input.store, input.context),
                        input.context)

JudgedIInv == AcceptedRules /\ Annotated /\ LookedUp

\* A rule that is off matches nothing.
LEMMA OnlyOnMatch ==
  ASSUME NEW c, NEW s
  PROVE  \A id \in Matched(c, s) : s.rule[id].enabled
<1>1. \A conditions, id : id \in Matching(conditions, s) => s.rule[id].enabled
  BY DEF Matching
<1> QED BY <1>1 DEF Matched

\* Each stage computes from what the one before it left.
LEMMA JudgedNext ==
  ASSUME JudgedIInv, ContentNext
  PROVE  JudgedIInv'
<1> USE DEF JudgedIInv, AcceptedRules, Annotated, LookedUp, Yield
<1>1. ASSUME NEW key \in Keys, NEW wait \in Waits, Arrive(key, wait)
      PROVE  JudgedIInv'
  BY <1>1 DEF Arrive
<1>2. CASE Query
  BY <1>2 DEF Query
<1>3. CASE QueryFails
  BY <1>3 DEF QueryFails
<1>4. CASE Resolve
  <2>1. CASE NothingFound
    BY <2>1 DEF NothingFound
  <2>2. ASSUME stage = "queried",
               NEW row \in Policies!Foremost(result, input.context),
               Unusable(row) \/ Chosen(row)
        PROVE  JudgedIInv'
    BY <2>2 DEF Unusable, Chosen
  <2> QED BY <1>4, <2>1, <2>2 DEF Resolve
<1>5. CASE Load
  BY <1>5 DEF Load
<1>6. CASE Refuse
  BY <1>6 DEF Refuse
<1>7. CASE Process
  BY <1>7 DEF Process
<1>8. CASE Match
  <2>1. \A id \in Matched(result, settings) : settings.rule[id].enabled
    BY OnlyOnMatch
  <2> QED BY <1>8, <2>1 DEF Match, On
<1>9. CASE Infer \/ ApplyPolicy \/ Signal
  BY <1>9 DEF Infer, ApplyPolicy, Signal
<1>10. CASE Annotate
  BY <1>10 DEF Annotate
<1> QED
  BY <1>1, <1>2, <1>3, <1>4, <1>5, <1>6, <1>7, <1>8, <1>9, <1>10
     DEF ContentNext

\* In every behaviour, what a message is judged by was accepted with its policy,
\* an annotation is that of its text, and a lookup is answered by the store.
THEOREM JudgedInvariance == ContentSpec => []JudgedIInv
<1>1. ContentInit => JudgedIInv
  BY DEF ContentInit, JudgedIInv, AcceptedRules, Annotated, LookedUp
<1>2. JudgedIInv /\ [ContentNext]_contentVars => JudgedIInv'
  <2>1. JudgedIInv /\ UNCHANGED contentVars => JudgedIInv'
    BY DEF contentVars, JudgedIInv, AcceptedRules, Annotated, LookedUp, On
  <2> QED BY <2>1, JudgedNext
<1> QED BY <1>1, <1>2, PTL DEF ContentSpec

\* No signal of a rule that the check at start-up let pass falls below what the
\* rule engine requires under the same policy, whatever the file and the policy.
THEOREM EvidenceKept == ContentSpec => []EvidenceSurvives
<1>1. JudgedIInv => EvidenceSurvives
  <2> SUFFICES ASSUME JudgedIInv, stage = "matched",
                      NEW id \in result \cap Checked,
                      NEW label \in settings.rule[id].labels
               PROVE  settings.rule[id].confidence
                      >= EngineMinimum(input.policy.minimum, label)
    BY DEF EvidenceSurvives
  <2>1. CompatibleRule(settings.rule[id], input.policy)
    BY DEF JudgedIInv, AcceptedRules, Compatible, On
  <2>2. settings.rule[id].confidence >= MinimumFor(input.policy, label)
    BY <2>1 DEF CompatibleRule
  <2> QED BY <2>2 DEF MinimumFor, EngineMinimum
<1> QED BY <1>1, JudgedInvariance, PTL

\* What the labels of an annotation rest on.
LEMMA TopicsOf ==
  ASSUME NEW text
  PROVE  LET a == Annotation(text) IN
         /\ "HATE" \in a.labels => a.topics \cap GroupTopics # {}
         /\ a.labels # {} =>
              \E topic \in a.topics, harm \in Harms :
                Attacked(text, topic, harm)
         /\ text.counter => a.labels = {}
<1> DEFINE findings == IF text.counter THEN {}
                       ELSE UNION {Findings(text, topic) : topic \in Topics}
           labels == UNION {f.labels : f \in findings}
           topics == Mentioned(text)
<1>1. Annotation(text).labels = labels /\ Annotation(text).topics = topics
  BY DEF Annotation
<1>2. \A topic, harm : Attacked(text, topic, harm) => text.topics[topic] # {}
  BY DEF Attacked, Near
<1>3. ASSUME NEW topic \in Topics, NEW f \in Findings(text, topic)
      PROVE  /\ \E harm \in Harms : Attacked(text, topic, harm)
             /\ "HATE" \in f.labels => topic \in GroupTopics
  BY <1>3 DEF Findings, Found, Harms, Degraded, Hated, HateThreat
<1>4. ASSUME NEW f \in findings
      PROVE  \E topic \in Topics : f \in Findings(text, topic)
  BY <1>4
<1>5. ASSUME NEW topic \in Topics, NEW harm, Attacked(text, topic, harm)
      PROVE  topic \in topics
  BY <1>2, <1>5 DEF Mentioned
<1>6. text.counter => labels = {}
  OBVIOUS
<1>7. ASSUME NEW label \in labels
      PROVE  \E f \in findings : label \in f.labels
  BY <1>7
<1> HIDE DEF findings, labels, topics
<1>8. "HATE" \in labels => topics \cap GroupTopics # {}
  BY <1>3, <1>4, <1>5, <1>7
<1>9. labels # {} =>
        \E topic \in topics, harm \in Harms : Attacked(text, topic, harm)
  BY <1>3, <1>4, <1>5, <1>7
<1> QED BY <1>1, <1>6, <1>8, <1>9

\* HATE is only said of protected groups, and a label only of a topic that some
\* harm is near, in every text.
THEOREM TopicsAsJudged == ContentSpec => []TopicsJudged
<1>1. JudgedIInv => TopicsJudged
  BY TopicsOf DEF JudgedIInv, Annotated, TopicsJudged
<1> QED BY <1>1, JudgedInvariance, PTL

-----------------------------------------------------------------------------
(* ContentRules: the policy of a message                                   *)
Ids(c) == {Policies!Nothing, c.user, c.channel, c.guild, c.chat, c.platform}
          \cup Range(c.roles)
Scopes(c) == [kind : ScopeKinds, id : Ids(c)]

\* A list of scopes from narrow to wide, of which only roles are many.
Layered(S, s, low, high) ==
  /\ s \in Seq(S)
  /\ \A i \in 1..Len(s) : /\ s[i].kind \in ScopeKinds
                          /\ low <= Breadth[s[i].kind]
                          /\ Breadth[s[i].kind] <= high
  /\ \A i, j \in 1..Len(s) :
       i < j => \/ Breadth[s[i].kind] < Breadth[s[j].kind]
                \/ s[i].kind = "ROLE" /\ s[j].kind = "ROLE"

\* There are six breadths of scopes.
LEMMA BreadthType == \A k \in ScopeKinds : Breadth[k] \in 1..6
  BY DEF ScopeKinds, Breadth

\* Wider scopes are put after narrower ones.
LEMMA LayeredConcat ==
  ASSUME NEW S, NEW s, NEW t, NEW a \in Int, NEW b \in Int, NEW c \in Int,
         Layered(S, s, a, b), Layered(S, t, b + 1, c), a <= b, b < c
  PROVE  Layered(S, s \o t, a, c)
<1> DEFINE u == s \o t
           m == Len(s)
           n == Len(t)
<1>1. /\ s \in Seq(S) /\ t \in Seq(S) /\ m \in Nat /\ n \in Nat
      /\ u \in Seq(S) /\ Len(u) = m + n
  BY DEF Layered
<1>2. ASSUME NEW i \in 1..Len(u)
      PROVE  \/ i \in 1..m /\ u[i] = s[i]
             \/ i - m \in 1..n /\ i > m /\ u[i] = t[i - m]
  BY <1>1
<1> HIDE DEF u, m, n
<1>3. \A i \in 1..m : /\ s[i].kind \in ScopeKinds /\ a <= Breadth[s[i].kind]
                      /\ Breadth[s[i].kind] <= b
  BY DEF Layered, m
<1>4. \A i \in 1..n : /\ t[i].kind \in ScopeKinds
                      /\ b + 1 <= Breadth[t[i].kind]
                      /\ Breadth[t[i].kind] <= c
  BY DEF Layered, n
<1>5. ASSUME NEW i \in 1..Len(u)
      PROVE  /\ u[i].kind \in ScopeKinds /\ a <= Breadth[u[i].kind]
             /\ Breadth[u[i].kind] <= c
  <2>1. CASE i \in 1..m /\ u[i] = s[i]
    BY <1>3, <2>1, BreadthType
  <2>2. CASE i - m \in 1..n /\ u[i] = t[i - m]
    <3> DEFINE k == t[i - m].kind
    <3>1. k \in ScopeKinds /\ b + 1 <= Breadth[k] /\ Breadth[k] <= c
      BY <1>4, <2>2
    <3>2. Breadth[k] \in Int
      BY <3>1, BreadthType
    <3>3. u[i].kind = k
      BY <2>2
    <3> HIDE DEF k
    <3>4. a <= Breadth[k]
      BY <3>1, <3>2
    <3> QED BY <3>1, <3>3, <3>4
  <2> QED BY <1>2, <2>1, <2>2
<1>6. ASSUME NEW i \in 1..Len(u), NEW j \in 1..Len(u), i < j
      PROVE  \/ Breadth[u[i].kind] < Breadth[u[j].kind]
             \/ u[i].kind = "ROLE" /\ u[j].kind = "ROLE"
  <2>1. CASE j \in 1..m /\ u[j] = s[j]
    <3>1. i \in 1..m /\ u[i] = s[i]
      BY <1>1, <1>2, <1>6, <2>1
    <3> QED BY <1>6, <2>1, <3>1 DEF Layered, m
  <2>2. CASE i \in 1..m /\ u[i] = s[i] /\ j - m \in 1..n /\ u[j] = t[j - m]
    <3>1. u[i].kind \in ScopeKinds /\ Breadth[u[i].kind] <= b
      BY <1>3, <2>2
    <3>2. u[j].kind \in ScopeKinds /\ b + 1 <= Breadth[u[j].kind]
      BY <1>4, <2>2
    <3> DEFINE p == Breadth[u[i].kind]
               q == Breadth[u[j].kind]
    <3> HIDE DEF u
    <3>3. p \in Int /\ q \in Int /\ p <= b /\ b + 1 <= q
      BY <3>1, <3>2, BreadthType
    <3> HIDE DEF p, q
    <3>4. p < q
      BY <3>3
    <3> QED BY <3>4 DEF p, q
  <2>3. CASE /\ i - m \in 1..n /\ u[i] = t[i - m]
             /\ j - m \in 1..n /\ u[j] = t[j - m]
    <3> DEFINE x == i - m
               y == j - m
    <3>1. x \in 1..n /\ y \in 1..n /\ x < y
      <4>1. i \in Int /\ j \in Int /\ m \in Int /\ i < j
        BY <1>1, <1>6
      <4>2. i - m < j - m
        BY ONLY <4>1
      <4> QED BY <2>3, <4>2
    <3>2. u[i] = t[x] /\ u[j] = t[y]
      BY <2>3
    <3> HIDE DEF x, y
    <3> QED BY <3>1, <3>2 DEF Layered, n
  <2> QED BY <1>1, <1>2, <1>6, <2>1, <2>2, <2>3
<1>7. Layered(S, u, a, c)
  BY <1>1, <1>5, <1>6 DEF Layered
<1> QED BY <1>7 DEF u

\* An identifier that is known gives one scope, else there is none.
LEMMA GivenFacts ==
  ASSUME NEW S, NEW k \in ScopeKinds, NEW id, Policies!Scope(k, id) \in S
  PROVE  /\ Layered(S, Policies!Given(k, id), Breadth[k], Breadth[k])
         /\ Range(Policies!Given(k, id))
              = IF id = Policies!Nothing THEN {} ELSE {Policies!Scope(k, id)}
<1>1. CASE id = Policies!Nothing
  BY <1>1 DEF Policies!Given, Layered, Range
<1>2. CASE id # Policies!Nothing
  <2> DEFINE x == Policies!Scope(k, id)
  <2>1. x.kind = k
    BY DEF Policies!Scope
  <2>2. Policies!Given(k, id) = <<x>>
    BY <1>2 DEF Policies!Given
  <2> HIDE DEF x
  <2>3. <<x>> \in Seq(S) /\ Len(<<x>>) = 1 /\ <<x>>[1] = x
    BY DEF x
  <2>4. Range(<<x>>) = {x}
    BY DEF Range
  <2>5. Layered(S, <<x>>, Breadth[k], Breadth[k])
    BY <2>1, <2>3, BreadthType DEF Layered
  <2> QED BY <1>2, <2>2, <2>4, <2>5 DEF x
<1> QED BY <1>1, <1>2

\* The scopes of a context, one by one.
InChain(c, scope) ==
  \/ c.user # Policies!Nothing /\ scope = Policies!Scope("USER", c.user)
  \/ \E id \in Range(c.roles) : scope = Policies!Scope("ROLE", id)
  \/ /\ c.channel # Policies!Nothing
     /\ scope = Policies!Scope("CHANNEL", c.channel)
  \/ c.guild # Policies!Nothing /\ scope = Policies!Scope("GUILD", c.guild)
  \/ /\ c.guild = Policies!Nothing /\ c.chat # Policies!Nothing
     /\ scope = Policies!Scope("CHAT", c.chat)
  \/ /\ c.platform # Policies!Nothing
     /\ scope = Policies!Scope("PLATFORM", c.platform)
  \/ scope = Policies!Scope("GLOBAL", Policies!Nothing)

\* The scopes of a context, from narrow to wide: these and no others.
LEMMA ChainFacts ==
  ASSUME NEW c, c.roles \in Seq(Range(c.roles))
  PROVE  /\ Layered(Scopes(c), Policies!ScopeChain(c), 1, 6)
         /\ \A scope :
              scope \in Range(Policies!ScopeChain(c)) <=> InChain(c, scope)
<1> DEFINE S == Scopes(c)
           user == Policies!Given("USER", c.user)
           roles == [i \in DOMAIN c.roles |->
                       Policies!Scope("ROLE", c.roles[i])]
           channel == Policies!Given("CHANNEL", c.channel)
           group == IF c.guild # Policies!Nothing
                    THEN Policies!Given("GUILD", c.guild)
                    ELSE Policies!Given("CHAT", c.chat)
           platform == Policies!Given("PLATFORM", c.platform)
           world == <<Policies!Scope("GLOBAL", Policies!Nothing)>>
           s2 == user \o roles
           s3 == s2 \o channel
           s4 == s3 \o group
           s5 == s4 \o platform
           s6 == s5 \o world
<1>0. ASSUME NEW k \in ScopeKinds, NEW id \in Ids(c)
      PROVE  Policies!Scope(k, id) \in S
  BY DEF Scopes, Policies!Scope
<1>b. /\ Breadth["USER"] = 1 /\ Breadth["ROLE"] = 2 /\ Breadth["CHANNEL"] = 3
      /\ Breadth["GUILD"] = 4 /\ Breadth["CHAT"] = 4 /\ Breadth["PLATFORM"] = 5
      /\ Breadth["GLOBAL"] = 6
  BY DEF Breadth
<1>k. {"USER", "ROLE", "CHANNEL", "GUILD", "CHAT", "PLATFORM", "GLOBAL"}
        \subseteq ScopeKinds
  BY DEF ScopeKinds
<1>i. {c.user, c.channel, c.guild, c.chat, c.platform, Policies!Nothing}
        \cup Range(c.roles) \subseteq Ids(c)
  BY DEF Ids
<1>1. /\ Layered(S, user, 1, 1)
      /\ Range(user) = IF c.user = Policies!Nothing THEN {}
                       ELSE {Policies!Scope("USER", c.user)}
  <2>1. Policies!Scope("USER", c.user) \in S /\ "USER" \in ScopeKinds
    BY <1>0, <1>k, <1>i
  <2> HIDE DEF S, user
  <2>2. LET g == Policies!Given("USER", c.user) IN
        /\ Layered(S, g, Breadth["USER"], Breadth["USER"])
        /\ Range(g) = IF c.user = Policies!Nothing THEN {}
                      ELSE {Policies!Scope("USER", c.user)}
    BY ONLY <2>1, GivenFacts
  <2> QED BY <2>2, <1>b DEF user
<1>2. /\ Layered(S, roles, 2, 2)
      /\ \A x : x \in Range(roles)
                  <=> \E id \in Range(c.roles) : x = Policies!Scope("ROLE", id)
  <2>1. \A i \in DOMAIN c.roles : c.roles[i] \in Range(c.roles)
    BY DEF Range
  <2>2. \A i \in DOMAIN c.roles : Policies!Scope("ROLE", c.roles[i]) \in S
    BY <1>0, <1>k, <1>i, <2>1
  <2>3. DOMAIN c.roles = 1..Len(c.roles) /\ Len(c.roles) \in Nat
    OBVIOUS
  <2>4. \A i \in 1..Len(c.roles) : roles[i] \in S /\ roles[i].kind = "ROLE"
    BY <2>2, <2>3 DEF Policies!Scope
  <2>5. DOMAIN roles = 1..Len(c.roles)
    BY <2>3
  <2>6. Range(roles) = {roles[i] : i \in DOMAIN c.roles}
    BY <2>3 DEF Range
  <2>7. \A x : x \in Range(roles)
                 <=> \E i \in DOMAIN c.roles :
                       x = Policies!Scope("ROLE", c.roles[i])
    BY <2>6
  <2>9. roles \in Seq(S)
    <3> HIDE DEF S
    <3>1. roles \in [1..Len(c.roles) -> S]
      BY <2>3, <2>4
    <3> HIDE DEF roles
    <3> QED BY <2>3, <3>1
  <2> HIDE DEF roles, S
  <2>8. Len(roles) = Len(c.roles)
    BY <2>3, <2>5, <2>9
  <2>10. Layered(S, roles, 2, 2)
    BY <2>4, <2>8, <2>9, <1>b, <1>k DEF Layered
  <2>11. Range(c.roles) = {c.roles[i] : i \in DOMAIN c.roles}
    BY DEF Range
  <2> QED BY <2>7, <2>10, <2>11
<1>3. /\ Layered(S, channel, 3, 3)
      /\ Range(channel) = IF c.channel = Policies!Nothing THEN {}
                          ELSE {Policies!Scope("CHANNEL", c.channel)}
  <2>1. Policies!Scope("CHANNEL", c.channel) \in S /\ "CHANNEL" \in ScopeKinds
    BY <1>0, <1>k, <1>i
  <2> HIDE DEF S, channel
  <2>2. LET g == Policies!Given("CHANNEL", c.channel) IN
        /\ Layered(S, g, Breadth["CHANNEL"], Breadth["CHANNEL"])
        /\ Range(g) = IF c.channel = Policies!Nothing THEN {}
                      ELSE {Policies!Scope("CHANNEL", c.channel)}
    BY ONLY <2>1, GivenFacts
  <2> QED BY <2>2, <1>b DEF channel
<1>4. /\ Layered(S, group, 4, 4)
      /\ Range(group) = IF c.guild # Policies!Nothing
                        THEN {Policies!Scope("GUILD", c.guild)}
                        ELSE IF c.chat # Policies!Nothing
                        THEN {Policies!Scope("CHAT", c.chat)} ELSE {}
  <2>1. Policies!Scope("GUILD", c.guild) \in S /\ "GUILD" \in ScopeKinds
    BY <1>0, <1>k, <1>i
  <2>2. Policies!Scope("CHAT", c.chat) \in S /\ "CHAT" \in ScopeKinds
    BY <1>0, <1>k, <1>i
  <2> HIDE DEF S
  <2>3. LET g == Policies!Given("GUILD", c.guild) IN
        /\ Layered(S, g, Breadth["GUILD"], Breadth["GUILD"])
        /\ Range(g) = IF c.guild = Policies!Nothing THEN {}
                      ELSE {Policies!Scope("GUILD", c.guild)}
    BY ONLY <2>1, GivenFacts
  <2>4. LET g == Policies!Given("CHAT", c.chat) IN
        /\ Layered(S, g, Breadth["CHAT"], Breadth["CHAT"])
        /\ Range(g) = IF c.chat = Policies!Nothing THEN {}
                      ELSE {Policies!Scope("CHAT", c.chat)}
    BY ONLY <2>2, GivenFacts
  <2>5. CASE c.guild # Policies!Nothing
    BY <2>3, <2>5, <1>b
  <2>6. CASE c.guild = Policies!Nothing
    BY <2>4, <2>6, <1>b
  <2> QED BY <2>5, <2>6
<1>5. /\ Layered(S, platform, 5, 5)
      /\ Range(platform) = IF c.platform = Policies!Nothing THEN {}
                           ELSE {Policies!Scope("PLATFORM", c.platform)}
  <2>1. /\ Policies!Scope("PLATFORM", c.platform) \in S
        /\ "PLATFORM" \in ScopeKinds
    BY <1>0, <1>k, <1>i
  <2> HIDE DEF S, platform
  <2>2. LET g == Policies!Given("PLATFORM", c.platform) IN
        /\ Layered(S, g, Breadth["PLATFORM"], Breadth["PLATFORM"])
        /\ Range(g) = IF c.platform = Policies!Nothing THEN {}
                      ELSE {Policies!Scope("PLATFORM", c.platform)}
    BY ONLY <2>1, GivenFacts
  <2> QED BY <2>2, <1>b DEF platform
<1>6. /\ Layered(S, world, 6, 6)
      /\ Range(world) = {Policies!Scope("GLOBAL", Policies!Nothing)}
  <2> DEFINE x == Policies!Scope("GLOBAL", Policies!Nothing)
  <2>1. x \in S
    BY <1>0, <1>k, <1>i
  <2>2. x.kind = "GLOBAL"
    BY DEF Policies!Scope
  <2> HIDE DEF x, S
  <2>3. <<x>> \in Seq(S) /\ Len(<<x>>) = 1 /\ <<x>>[1] = x
    BY <2>1
  <2>4. Layered(S, <<x>>, 6, 6)
    BY <2>2, <2>3, <1>b, <1>k DEF Layered
  <2>5. Range(<<x>>) = {x}
    BY DEF Range
  <2> QED BY <2>4, <2>5 DEF x
<1>s. Policies!ScopeChain(c) = s6
  BY DEF Policies!ScopeChain
<1> HIDE DEF S, user, roles, channel, group, platform, world
<1>q. /\ user \in Seq(S) /\ roles \in Seq(S) /\ channel \in Seq(S)
      /\ group \in Seq(S) /\ platform \in Seq(S) /\ world \in Seq(S)
  BY <1>1, <1>2, <1>3, <1>4, <1>5, <1>6 DEF Layered
<1>7. Layered(S, s2, 1, 2) /\ Range(s2) = Range(user) \cup Range(roles)
  <2>1. Layered(S, roles, 1 + 1, 2)
    BY <1>2
  <2> QED BY <1>1, <2>1, <1>q, LayeredConcat, RangeConcatenation
<1> HIDE DEF s2
<1>8. Layered(S, s3, 1, 3) /\ Range(s3) = Range(s2) \cup Range(channel)
  <2>1. Layered(S, channel, 2 + 1, 3)
    BY <1>3
  <2>2. s2 \in Seq(S)
    BY <1>7 DEF Layered
  <2> QED BY <1>7, <2>1, <2>2, <1>q, LayeredConcat, RangeConcatenation
<1> HIDE DEF s3
<1>9. Layered(S, s4, 1, 4) /\ Range(s4) = Range(s3) \cup Range(group)
  <2>1. Layered(S, group, 3 + 1, 4)
    BY <1>4
  <2>2. s3 \in Seq(S)
    BY <1>8 DEF Layered
  <2> QED BY <1>8, <2>1, <2>2, <1>q, LayeredConcat, RangeConcatenation
<1> HIDE DEF s4
<1>10. Layered(S, s5, 1, 5) /\ Range(s5) = Range(s4) \cup Range(platform)
  <2>1. Layered(S, platform, 4 + 1, 5)
    BY <1>5
  <2>2. s4 \in Seq(S)
    BY <1>9 DEF Layered
  <2> QED BY <1>9, <2>1, <2>2, <1>q, LayeredConcat, RangeConcatenation
<1> HIDE DEF s5
<1>11. Layered(S, s6, 1, 6) /\ Range(s6) = Range(s5) \cup Range(world)
  <2>1. Layered(S, world, 5 + 1, 6)
    BY <1>6
  <2>2. s5 \in Seq(S)
    BY <1>10 DEF Layered
  <2> QED BY <1>10, <2>1, <2>2, <1>q, LayeredConcat, RangeConcatenation
<1> HIDE DEF s6
<1>12. \A x : x \in Range(s6) <=>
         \/ x \in Range(user) \/ x \in Range(roles) \/ x \in Range(channel)
         \/ x \in Range(group) \/ x \in Range(platform) \/ x \in Range(world)
  BY <1>7, <1>8, <1>9, <1>10, <1>11
<1>13. \A x : x \in Range(s6) <=> InChain(c, x)
  BY <1>12, <1>1, <1>2, <1>3, <1>4, <1>5, <1>6, Zenon DEF InChain
<1> QED BY <1>s, <1>11, <1>13 DEF S

\* The rank of a row that some scope matches is the first such scope.
LEMMA RankIs ==
  ASSUME NEW S, NEW chain \in Seq(S), NEW row,
         \E scope \in Range(chain) : Policies!Matches(scope, row)
  PROVE  /\ Policies!Rank(row, chain) \in 1..Len(chain)
         /\ Policies!Matches(chain[Policies!Rank(row, chain)], row)
         /\ \A j \in 1..Len(chain) : Policies!Matches(chain[j], row) =>
              Policies!Rank(row, chain) <= j
<1> DEFINE T == {i \in 1..Len(chain) : Policies!Matches(chain[i], row)}
           First(i) == /\ Policies!Matches(chain[i], row)
                       /\ \A j \in 1..i - 1 : ~Policies!Matches(chain[j], row)
<1>1. T \in SUBSET (1..Len(chain)) /\ Len(chain) \in Nat
  OBVIOUS
<1>2. T # {}
  <2>1. PICK scope \in Range(chain) : Policies!Matches(scope, row)
    OBVIOUS
  <2>2. PICK i \in 1..Len(chain) : scope = chain[i]
    BY <2>1, RangeEquality
  <2> QED BY <2>1, <2>2
<1>3. PICK k \in T : \A i \in T : k <= i
  <2> HIDE DEF T
  <2> QED BY <1>1, <1>2, LeastBelow
<1>4. First(k)
  BY <1>3
<1>5. \E i \in DOMAIN chain : First(i)
  BY <1>1, <1>4
<1>6. Policies!Rank(row, chain) = CHOOSE i \in DOMAIN chain : First(i)
  BY DEF Policies!Rank
<1> DEFINE r == Policies!Rank(row, chain)
<1>7. r \in DOMAIN chain /\ First(r)
  <2> HIDE DEF First
  <2> QED BY <1>5, <1>6
<1>8. DOMAIN chain = 1..Len(chain)
  OBVIOUS
<1>9. ASSUME NEW j \in 1..Len(chain), Policies!Matches(chain[j], row)
      PROVE  r <= j
  <2> HIDE DEF r
  <2> QED BY <1>7, <1>8, <1>9
<1> QED BY <1>7, <1>8, <1>9

\* Of two rows, the one of the narrower kind ranks first; two of one kind and
\* one owner rank alike, and so do two of a kind that has one scope.
LEMMA RankCompares ==
  ASSUME NEW S, NEW chain, Layered(S, chain, 1, 6), NEW r, NEW o,
         \E scope \in Range(chain) : Policies!Matches(scope, r),
         \E scope \in Range(chain) : Policies!Matches(scope, o)
  PROVE  LET a == Policies!Rank(r, chain)
             b == Policies!Rank(o, chain) IN
         /\ a \in Int /\ b \in Int
         /\ a <= b => Breadth[r.kind] <= Breadth[o.kind]
         /\ a < b => \/ Breadth[r.kind] < Breadth[o.kind]
                     \/ r.kind = "ROLE" /\ o.kind = "ROLE"
         /\ a = b => r.kind = o.kind
         /\ (/\ r.kind = o.kind /\ r.id = o.id
             /\ r.kind = "PLATFORM" => r.platform = o.platform) => a = b
<1> DEFINE a == Policies!Rank(r, chain)
           b == Policies!Rank(o, chain)
<1>0. chain \in Seq(S) /\ Len(chain) \in Nat
  BY DEF Layered
<1>1. /\ a \in 1..Len(chain) /\ Policies!Matches(chain[a], r)
      /\ \A j \in 1..Len(chain) : Policies!Matches(chain[j], r) => a <= j
  BY <1>0, RankIs
<1>2. /\ b \in 1..Len(chain) /\ Policies!Matches(chain[b], o)
      /\ \A j \in 1..Len(chain) : Policies!Matches(chain[j], o) => b <= j
  BY <1>0, RankIs
<1> HIDE DEF a, b
<1>3. r.kind = chain[a].kind /\ o.kind = chain[b].kind
  BY <1>1, <1>2 DEF Policies!Matches
<1>4. chain[a].kind \in ScopeKinds /\ chain[b].kind \in ScopeKinds
  BY <1>1, <1>2 DEF Layered
<1>5. a < b => \/ Breadth[r.kind] < Breadth[o.kind]
               \/ r.kind = "ROLE" /\ o.kind = "ROLE"
  BY <1>1, <1>2, <1>3 DEF Layered
<1>6. a = b => r.kind = o.kind
  BY <1>3
<1>7. a \in Int /\ b \in Int
  BY <1>0, <1>1, <1>2
<1>8. a <= b => Breadth[r.kind] <= Breadth[o.kind]
  BY <1>3, <1>4, <1>5, <1>6, <1>7, BreadthType
<1>9. ASSUME r.kind = o.kind, r.id = o.id,
             r.kind = "PLATFORM" => r.platform = o.platform
      PROVE  a = b
  <2>1. \A i : Policies!Matches(chain[i], r) <=> Policies!Matches(chain[i], o)
    BY <1>9 DEF Policies!Matches
  <2>2. a <= b /\ b <= a
    BY <1>1, <1>2, <2>1
  <2> QED BY <1>7, <2>2
<1> QED BY <1>5, <1>6, <1>7, <1>8, <1>9 DEF a, b

\* Which rows a context matches.
LEMMA MatchedBy ==
  ASSUME NEW c, c.roles \in Seq(Range(c.roles)), NEW row
  PROVE  (\E scope \in Range(Policies!ScopeChain(c)) :
            Policies!Matches(scope, row))
         <=> \/ /\ row.kind = "USER" /\ c.user # Policies!Nothing
                /\ row.id = c.user
             \/ row.kind = "ROLE" /\ row.id \in Range(c.roles)
             \/ /\ row.kind = "CHANNEL" /\ c.channel # Policies!Nothing
                /\ row.id = c.channel
             \/ /\ row.kind = "GUILD" /\ c.guild # Policies!Nothing
                /\ row.id = c.guild
             \/ /\ row.kind = "CHAT" /\ c.guild = Policies!Nothing
                /\ c.chat # Policies!Nothing /\ row.id = c.chat
             \/ /\ row.kind = "PLATFORM" /\ c.platform # Policies!Nothing
                /\ row.platform = c.platform
             \/ row.kind = "GLOBAL"
<1>1. (\E scope \in Range(Policies!ScopeChain(c)) :
         Policies!Matches(scope, row))
      <=> \E scope : InChain(c, scope) /\ Policies!Matches(scope, row)
  BY ChainFacts
<1>2. ASSUME NEW k, NEW id
      PROVE  Policies!Matches(Policies!Scope(k, id), row)
             <=> /\ row.kind = k
                 /\ row.kind = "PLATFORM" => row.platform = id
                 /\ row.kind \notin {"PLATFORM", "GLOBAL"} => row.id = id
  BY DEF Policies!Matches, Policies!Scope
<1> DEFINE is(k, id) == Policies!Matches(Policies!Scope(k, id), row)
<1>3. (\E scope : InChain(c, scope) /\ Policies!Matches(scope, row))
      <=> \/ c.user # Policies!Nothing /\ is("USER", c.user)
          \/ \E id \in Range(c.roles) : is("ROLE", id)
          \/ c.channel # Policies!Nothing /\ is("CHANNEL", c.channel)
          \/ c.guild # Policies!Nothing /\ is("GUILD", c.guild)
          \/ /\ c.guild = Policies!Nothing /\ c.chat # Policies!Nothing
             /\ is("CHAT", c.chat)
          \/ c.platform # Policies!Nothing /\ is("PLATFORM", c.platform)
          \/ is("GLOBAL", Policies!Nothing)
  BY Zenon DEF InChain
<1>4. /\ \A id : is("USER", id) <=> row.kind = "USER" /\ row.id = id
      /\ \A id : is("ROLE", id) <=> row.kind = "ROLE" /\ row.id = id
      /\ \A id : is("CHANNEL", id) <=> row.kind = "CHANNEL" /\ row.id = id
      /\ \A id : is("GUILD", id) <=> row.kind = "GUILD" /\ row.id = id
      /\ \A id : is("CHAT", id) <=> row.kind = "CHAT" /\ row.id = id
      /\ \A id : is("PLATFORM", id)
                   <=> row.kind = "PLATFORM" /\ row.platform = id
      /\ \A id : is("GLOBAL", id) <=> row.kind = "GLOBAL"
  BY <1>2
<1> HIDE DEF is
<1> QED BY <1>1, <1>3, <1>4

\* The query finds the rows that are meant for the message.
LEMMA FoundIsMeant ==
  ASSUME input \in Lookups
  PROVE  Policies!Found(input.store, input.context) = MeantFor(input.context)
<1> DEFINE c == input.context
<1>1. c.roles \in Seq(Range(c.roles))
  BY LookupsAssumption
<1> DEFINE InScope(row) ==
             \E scope \in Range(Policies!ScopeChain(c)) :
               Policies!Matches(scope, row)
           Fits(row) ==
             /\ row.kind # "GLOBAL" =>
                  row.platform \in {Policies!Nothing, c.platform}
             /\ CASE row.kind = "USER"     -> row.id = c.user
                  [] row.kind = "ROLE"     -> row.id \in Range(c.roles)
                  [] row.kind = "CHANNEL"  -> row.id = c.channel
                  [] row.kind = "GUILD"    -> row.id = c.guild
                  [] row.kind = "PLATFORM" -> row.platform # Policies!Nothing
                  [] row.kind = "CHAT"     -> /\ c.guild = Policies!Nothing
                                              /\ row.id = c.chat
                  [] OTHER                 -> row.kind = "GLOBAL"
<1>2. ASSUME NEW row \in input.store
      PROVE  (/\ InScope(row)
              /\ row.kind \notin {"PLATFORM", "GLOBAL"} =>
                   row.platform \in {Policies!Nothing, c.platform})
             <=> Fits(row)
  <2>1. /\ row.kind \in ScopeKinds
        /\ row.kind \notin {"PLATFORM", "GLOBAL"} => row.id # Policies!Nothing
    BY LookupsAssumption
  <2>2. InScope(row)
         <=> \/ /\ row.kind = "USER" /\ c.user # Policies!Nothing
                /\ row.id = c.user
             \/ row.kind = "ROLE" /\ row.id \in Range(c.roles)
             \/ /\ row.kind = "CHANNEL" /\ c.channel # Policies!Nothing
                /\ row.id = c.channel
             \/ /\ row.kind = "GUILD" /\ c.guild # Policies!Nothing
                /\ row.id = c.guild
             \/ /\ row.kind = "CHAT" /\ c.guild = Policies!Nothing
                /\ c.chat # Policies!Nothing /\ row.id = c.chat
             \/ /\ row.kind = "PLATFORM" /\ c.platform # Policies!Nothing
                /\ row.platform = c.platform
             \/ row.kind = "GLOBAL"
    BY <1>1, MatchedBy
  <2> HIDE DEF InScope, c
  <2>3. CASE row.kind = "USER"
    BY <2>1, <2>2, <2>3
  <2>4. CASE row.kind = "ROLE"
    BY <2>1, <2>2, <2>4
  <2>5. CASE row.kind = "CHANNEL"
    BY <2>1, <2>2, <2>5
  <2>6. CASE row.kind = "GUILD"
    BY <2>1, <2>2, <2>6
  <2>7. CASE row.kind = "CHAT"
    BY <2>1, <2>2, <2>7
  <2>8. CASE row.kind = "PLATFORM"
    BY <2>1, <2>2, <2>8
  <2>9. CASE row.kind = "GLOBAL"
    BY <2>1, <2>2, <2>9
  <2> QED BY <2>1, <2>3, <2>4, <2>5, <2>6, <2>7, <2>8, <2>9 DEF ScopeKinds
<1>3. \A row : row \in Policies!Found(input.store, c)
        <=> /\ row \in input.store
            /\ row.enabled
            /\ InScope(row)
            /\ row.kind \notin {"PLATFORM", "GLOBAL"} =>
                 row.platform \in {Policies!Nothing, c.platform}
  BY DEF Policies!Found, Policies!Range, Range
<1>4. \A row : row \in MeantFor(c)
        <=> row \in input.store /\ row.enabled /\ Fits(row)
  BY DEF MeantFor
<1> HIDE DEF InScope, Fits, c
<1>5. Policies!Found(input.store, c) = MeantFor(c)
  <2>1. \A row : row \in Policies!Found(input.store, c) <=> row \in MeantFor(c)
    BY <1>2, <1>3, <1>4
  <2> HIDE DEF MeantFor
  <2> QED BY <2>1
<1> QED BY <1>5 DEF c

\* The kinds of a scope that a context has one of, and that the API shows.
Plain == ScopeKinds \ Unshown

\* Of the rows a lookup finds, the foremost precede the others or are beside
\* them in kind and owner.
LEMMA ForemostIs ==
  ASSUME input \in Lookups, NEW r, NEW o,
         r \in Policies!Foremost(MeantFor(input.context), input.context),
         o \in MeantFor(input.context)
  PROVE  /\ r \in MeantFor(input.context)
         /\ Breadth[r.kind] <= Breadth[o.kind]
         /\ r.kind = o.kind /\ r.id = o.id => o.priority <= r.priority
<1> DEFINE c == input.context
           chain == Policies!ScopeChain(c)
           a == Policies!Rank(r, chain)
           b == Policies!Rank(o, chain)
<1>0. c.roles \in Seq(Range(c.roles))
  BY LookupsAssumption
<1>1. r \in MeantFor(c) /\ ~Policies!Precedes(o, r, chain)
  BY DEF Policies!Foremost
<1>2. r \in input.store /\ o \in input.store
  BY <1>1 DEF MeantFor
<1>3. r.priority \in Int /\ o.priority \in Int
  BY <1>2, LookupsAssumption
<1>4. Layered(Scopes(c), chain, 1, 6)
  BY <1>0, ChainFacts
<1>5. \A row \in MeantFor(c) :
        \E scope \in Range(chain) : Policies!Matches(scope, row)
  BY FoundIsMeant DEF Policies!Found, Policies!Range, Range
<1>6. r.kind = "PLATFORM" /\ o.kind = "PLATFORM" => r.platform = o.platform
  BY <1>1 DEF MeantFor
<1>7. ~(b < a) /\ (b = a => ~(o.priority > r.priority))
  BY <1>1 DEF Policies!Precedes
<1> HIDE DEF c, chain
<1>8. /\ a \in Int /\ b \in Int
      /\ a <= b => Breadth[r.kind] <= Breadth[o.kind]
      /\ (/\ r.kind = o.kind /\ r.id = o.id
          /\ r.kind = "PLATFORM" => r.platform = o.platform) => a = b
  BY <1>1, <1>4, <1>5, RankCompares DEF c
<1> HIDE DEF a, b
<1>9. a <= b
  BY <1>7, <1>8
<1> QED BY <1>1, <1>3, <1>6, <1>7, <1>8, <1>9 DEF c

\* Rows of plain kinds are ordered in every list of scopes by their breadth.
LEMMA PlainOrder ==
  ASSUME NEW S, NEW chain, Layered(S, chain, 1, 6), NEW r, NEW o,
         \E scope \in Range(chain) : Policies!Matches(scope, r),
         \E scope \in Range(chain) : Policies!Matches(scope, o),
         r.kind \in Plain, o.kind \in Plain
  PROVE  LET a == Policies!Rank(r, chain)
             b == Policies!Rank(o, chain) IN
         /\ a < b <=> Breadth[r.kind] < Breadth[o.kind]
         /\ a = b <=> Breadth[r.kind] = Breadth[o.kind]
<1> DEFINE a == Policies!Rank(r, chain)
           b == Policies!Rank(o, chain)
<1>1. /\ a \in Int /\ b \in Int
      /\ a < b => Breadth[r.kind] < Breadth[o.kind]
      /\ a = b => r.kind = o.kind
  BY RankCompares DEF Plain, Unshown
<1>2. b < a => Breadth[o.kind] < Breadth[r.kind]
  BY RankCompares DEF Plain, Unshown
<1>3. Breadth[r.kind] \in Int /\ Breadth[o.kind] \in Int
  BY BreadthType DEF Plain
<1> HIDE DEF a, b
<1>4. /\ a < b <=> Breadth[r.kind] < Breadth[o.kind]
      /\ a = b <=> Breadth[r.kind] = Breadth[o.kind]
  BY <1>1, <1>2, <1>3
<1> QED BY <1>4 DEF a, b

\* What the API shows holds for a context without policies of its own.
LEMMA ShownHolds ==
  ASSUME input \in Lookups,
         \A row \in MeantFor(input.context) : row.kind \notin Unshown
  PROVE  LET c == input.context
             d == Policies!ShownFor(c) IN
         Policies!Foremost(Policies!Found(input.store, d), d)
           = Policies!Foremost(Policies!Found(input.store, c), c)
<1> DEFINE c == input.context
           d == Policies!ShownFor(c)
           rows == Policies!Found(input.store, c)
           chain == Policies!ScopeChain(c)
           short == Policies!ScopeChain(d)
<1>1. c.roles \in Seq(Range(c.roles)) /\ d.roles \in Seq(Range(d.roles))
  BY LookupsAssumption DEF Policies!ShownFor, Range
<1>2. /\ d.user = Policies!Nothing /\ Range(d.roles) = {}
      /\ d.chat = Policies!Nothing /\ d.channel = c.channel
      /\ d.guild = c.guild /\ d.platform = c.platform
  BY DEF Policies!ShownFor, Range
<1>3. Layered(Scopes(c), chain, 1, 6) /\ Layered(Scopes(d), short, 1, 6)
  BY <1>1, ChainFacts
<1>4. \A row \in rows :
        /\ row \in input.store /\ row.enabled
        /\ \E scope \in Range(chain) : Policies!Matches(scope, row)
        /\ row.kind \notin {"PLATFORM", "GLOBAL"} =>
             row.platform \in {Policies!Nothing, c.platform}
        /\ row.kind \in Plain
  <2>1. rows = MeantFor(c)
    BY FoundIsMeant
  <2>2. \A row \in MeantFor(c) : row \in input.store /\ row.kind \in Plain
    BY LookupsAssumption DEF MeantFor, Plain
  <2> HIDE DEF c
  <2> QED BY <2>1, <2>2 DEF Policies!Found, Policies!Range, Range
<1>5. ASSUME NEW row \in rows
      PROVE  \E scope \in Range(short) : Policies!Matches(scope, row)
  <2>1. \E scope \in Range(chain) : Policies!Matches(scope, row)
    BY <1>4
  <2>2. row.kind \notin {"USER", "ROLE", "CHAT"}
    BY <1>4 DEF Plain, Unshown
  <2> HIDE DEF c, d
  <2> QED BY <2>1, <2>2, <1>1, <1>2, MatchedBy
<1>6. ASSUME NEW row, \E scope \in Range(short) : Policies!Matches(scope, row)
      PROVE  \E scope \in Range(chain) : Policies!Matches(scope, row)
  <2> HIDE DEF c, d
  <2> QED BY <1>6, <1>1, <1>2, MatchedBy
<1>7. Policies!Found(input.store, d) = rows
  <2>1. \A row : row \in Policies!Found(input.store, d)
          <=> /\ row \in input.store
              /\ row.enabled
              /\ \E scope \in Range(short) : Policies!Matches(scope, row)
              /\ row.kind \notin {"PLATFORM", "GLOBAL"} =>
                   row.platform \in {Policies!Nothing, d.platform}
    BY DEF Policies!Found, Policies!Range, Range
  <2>2. \A row : row \in Policies!Found(input.store, c)
          <=> /\ row \in input.store
              /\ row.enabled
              /\ \E scope \in Range(chain) : Policies!Matches(scope, row)
              /\ row.kind \notin {"PLATFORM", "GLOBAL"} =>
                   row.platform \in {Policies!Nothing, c.platform}
    BY DEF Policies!Found, Policies!Range, Range
  <2> HIDE DEF c, d, chain, short
  <2>3. \A row : row \in Policies!Found(input.store, d) <=> row \in rows
    BY <2>1, <2>2, <1>2, <1>4, <1>5, <1>6
  <2> HIDE DEF rows
  <2> QED BY <2>3
<1>8. ASSUME NEW r \in rows, NEW o \in rows
      PROVE  Policies!Precedes(o, r, short) <=> Policies!Precedes(o, r, chain)
  <2> DEFINE a == Policies!Rank(o, chain)
             b == Policies!Rank(r, chain)
             x == Policies!Rank(o, short)
             y == Policies!Rank(r, short)
  <2> HIDE DEF c, d, chain, short, rows
  <2>1. /\ a < b <=> Breadth[o.kind] < Breadth[r.kind]
        /\ a = b <=> Breadth[o.kind] = Breadth[r.kind]
    BY <1>3, <1>4, PlainOrder
  <2>2. /\ x < y <=> Breadth[o.kind] < Breadth[r.kind]
        /\ x = y <=> Breadth[o.kind] = Breadth[r.kind]
    BY <1>3, <1>4, <1>5, PlainOrder
  <2> QED BY <2>1, <2>2 DEF Policies!Precedes
<1> HIDE DEF rows, chain, short
<1>9. /\ Policies!Foremost(rows, d)
           = {r \in rows : \A o \in rows : ~Policies!Precedes(o, r, short)}
      /\ Policies!Foremost(rows, c)
           = {r \in rows : \A o \in rows : ~Policies!Precedes(o, r, chain)}
  BY DEF Policies!Foremost, chain, short
<1>10. Policies!Foremost(rows, d) = Policies!Foremost(rows, c)
  BY <1>8, <1>9
<1> QED BY <1>7, <1>10 DEF rows

\* So every policy that is used is meant for the message.
LEMMA LookedUpFits == LookedUp => PolicyFits
<1> SUFFICES ASSUME LookedUp, stage \in {"queried", "resolved", "unavailable"}
             PROVE  PolicyFits
  BY DEF PolicyFits
<1> DEFINE c == input.context
           meant == MeantFor(c)
<1>1. input \in Lookups
  BY DEF LookedUp
<1>2. Policies!Found(input.store, c) = meant
  BY <1>1, FoundIsMeant
<1>3. ASSUME stage = "resolved", result # FromFiles
      PROVE  /\ result.row \in meant
             /\ \A row \in meant :
                  /\ Breadth[result.row.kind] <= Breadth[row.kind]
                  /\ (row.kind = result.row.kind /\ row.id = result.row.id) =>
                       row.priority <= result.row.priority
  <2>1. result.row \in Policies!Foremost(meant, c)
    BY <1>2, <1>3 DEF LookedUp
  <2>2. result.row \in meant
    BY <2>1 DEF Policies!Foremost
  <2> QED BY <1>1, <2>1, <2>2, ForemostIs
<1>4. stage = "queried" => (result = {} <=> meant = {})
  BY <1>2 DEF LookedUp
<1>5. (\A row \in meant : row.kind \notin Unshown) =>
        Policies!Foremost(Policies!Found(input.store, Policies!ShownFor(c)),
                          Policies!ShownFor(c))
          = Policies!Foremost(Policies!Found(input.store, c), c)
  BY <1>1, ShownHolds
<1> QED BY <1>3, <1>4, <1>5 DEF PolicyFits

\* A message gets the policy of the narrowest scope it is in, whatever is
\* stored and however the contexts are nested.
THEOREM PoliciesFit == ContentSpec => []PolicyFits
<1>1. JudgedIInv => PolicyFits
  BY LookedUpFits DEF JudgedIInv
<1> QED BY <1>1, JudgedInvariance, PTL

-----------------------------------------------------------------------------
(* ContentRules: the times within the window                               *)
\* What holds at zero and from each number to the next holds up to n: S is
\* where it fails.
LEMMA NoneFails ==
  ASSUME NEW n \in Nat, NEW S \in SUBSET (0..n), 0 \notin S,
         \A k \in 0..n : k < n /\ k \notin S => k + 1 \notin S
  PROVE  S = {}
<1> SUFFICES ASSUME S # {} PROVE FALSE
  OBVIOUS
<1>1. S \in SUBSET (1..n)
  OBVIOUS
<1>2. PICK k \in S : \A i \in S : k <= i
  BY <1>1, LeastBelow
<1>3. /\ k \in 1..n /\ k - 1 \in 0..n /\ k - 1 < n /\ ~(k <= k - 1)
      /\ (k - 1) + 1 = k
  BY <1>1
<1>4. k - 1 \notin S
  BY <1>2, <1>3
<1> QED BY <1>3, <1>4

-----------------------------------------------------------------------------
\* The places of the times within the window.
Lately(times, now) == {i \in 1..Len(times) : now - times[i] < RateWindow}

\* They are finitely many.
LEMMA LatelyFinite ==
  ASSUME NEW times \in Seq(Int), NEW now \in Int
  PROVE  /\ IsFiniteSet(Lately(times, now))
         /\ Cardinality(Lately(times, now)) \in Nat
<1>1. Lately(times, now) \subseteq 1..Len(times)
  BY DEF Lately
<1>2. IsFiniteSet(1..Len(times))
  BY FS_Interval
<1> QED BY ONLY <1>1, <1>2, FS_Subset, FS_CardinalityType

\* One more time counts once, if it is within the window.
LEMMA LatelyAppend ==
  ASSUME NEW times \in Seq(Int), NEW t \in Int, NEW now \in Int
  PROVE  Cardinality(Lately(Append(times, t), now))
           = Cardinality(Lately(times, now))
             + (IF now - t < RateWindow THEN 1 ELSE 0)
<1> DEFINE longer == Append(times, t)
           n == Len(times)
           W == Lately(times, now)
           V == Lately(longer, now)
<1>1. /\ longer \in Seq(Int) /\ Len(longer) = n + 1 /\ n \in Nat
      /\ longer[n + 1] = t /\ \A i \in 1..n : longer[i] = times[i]
  OBVIOUS
<1>2. IsFiniteSet(W) /\ Cardinality(W) \in Nat
  BY LatelyFinite
<1>3. n + 1 \notin W /\ W \subseteq 1..n
  BY <1>1 DEF Lately
<1>4. CASE now - t < RateWindow
  <2>1. V = W \cup {n + 1}
    BY <1>1, <1>4 DEF Lately
  <2> HIDE DEF V, W, n
  <2>2. Cardinality(W \cup {n + 1}) = Cardinality(W) + 1
    BY <1>2, <1>3, FS_AddElement
  <2> QED BY <1>4, <2>1, <2>2 DEF V, W
<1>5. CASE ~(now - t < RateWindow)
  <2>1. V = W
    BY <1>1, <1>5 DEF Lately
  <2> QED BY <1>2, <1>5, <2>1
<1> QED BY <1>4, <1>5

\* The function that selects recent times up to each place.
Selecting(times, now, f) ==
  /\ f[0] = <<>>
  /\ \A i \in 1..Len(times) :
       f[i] = IF now - times[i] < RateWindow THEN Append(f[i - 1], times[i])
              ELSE f[i - 1]

\* Recent is the last value of that function,
LEMMA RecentIs ==
  ASSUME NEW times \in Seq(Int), NEW now \in Int, NEW f,
         f = [i \in 0..Len(times) |-> f[i]], Selecting(times, now, f)
  PROVE  Rates!Recent(times, now) = f[Len(times)]
<1> DEFINE n == Len(times)
           Body(g) == [i \in 0..n |->
                         IF i = 0 THEN <<>>
                         ELSE IF now - times[i] < RateWindow
                              THEN Append(g[i - 1], times[i])
                              ELSE g[i - 1]]
           kept == CHOOSE g : g = Body(g)
<1>0. n \in Nat
  OBVIOUS
<1>1. f = Body(f)
  <2>1. ASSUME NEW i \in 0..n
        PROVE  f[i] = IF i = 0 THEN <<>>
                      ELSE IF now - times[i] < RateWindow
                           THEN Append(f[i - 1], times[i])
                           ELSE f[i - 1]
    <3>1. CASE i = 0
      BY <3>1 DEF Selecting
    <3>2. CASE i # 0
      <4>1. i \in 1..n
        BY <1>0, <3>2
      <4> QED BY <3>2, <4>1 DEF Selecting
    <3> QED BY <3>1, <3>2
  <2> QED BY <2>1
<1>2. kept = Body(kept)
  BY <1>1
<1> HIDE DEF kept
<1> DEFINE D == {i \in 0..n : kept[i] # f[i]}
<1>3. 0 \notin D
  <2>1. kept[0] = <<>>
    BY <1>0, <1>2
  <2> QED BY <2>1 DEF Selecting
<1>4. ASSUME NEW k \in 0..n, k < n, k \notin D PROVE k + 1 \notin D
  <2> DEFINE m == k + 1
  <2>1. m \in 1..n /\ m \in 0..n /\ m # 0 /\ m - 1 = k
    BY <1>0, <1>4
  <2> HIDE DEF m
  <2>2. kept[m] = IF now - times[m] < RateWindow
                  THEN Append(kept[m - 1], times[m]) ELSE kept[m - 1]
    BY <1>2, <2>1
  <2>3. f[m] = IF now - times[m] < RateWindow
               THEN Append(f[m - 1], times[m]) ELSE f[m - 1]
    BY <2>1 DEF Selecting
  <2>4. m \notin D
    BY <1>4, <2>1, <2>2, <2>3
  <2> QED BY <2>4 DEF m
<1>5. D = {}
  <2> HIDE DEF D
  <2>1. D \in SUBSET (0..n)
    BY DEF D
  <2> HIDE DEF n
  <2> QED BY <1>0, <1>3, <1>4, <2>1, NoneFails
<1>6. kept[n] = f[n]
  <2>1. n \in 0..n
    BY <1>0
  <2> HIDE DEF n
  <2> QED BY <1>5, <2>1
<1> QED BY <1>6 DEF Rates!Recent, kept

\* ... which there is for all times.
LEMMA SelectingExists ==
  ASSUME NEW times \in Seq(Int), NEW now \in Int
  PROVE  \E f \in [0..Len(times) -> Seq(Int)] : Selecting(times, now, f)
<1> DEFINE n == Len(times)
           Upto(k) == SubSeq(times, 1, k)
           P(k) == \E f \in [0..k -> Seq(Int)] : Selecting(Upto(k), now, f)
           D == {k \in 0..n : ~P(k)}
<1>0. n \in Nat /\ Upto(n) = times
  OBVIOUS
<1>1. \A k \in 0..n : Len(Upto(k)) = k /\ \A i \in 1..k : Upto(k)[i] = times[i]
  OBVIOUS
<1>2. P(0)
  <2>1. <<>> \in Seq(Int) /\ Len(Upto(0)) = 0
    BY <1>0, <1>1
  <2>2. [i \in 0..0 |-> <<>>] \in [0..0 -> Seq(Int)]
    BY <2>1
  <2>3. Selecting(Upto(0), now, [i \in 0..0 |-> <<>>])
    BY <2>1 DEF Selecting
  <2> QED BY <2>2, <2>3
<1>3. ASSUME NEW k \in 0..n, k < n, P(k) PROVE P(k + 1)
  <2>1. PICK f \in [0..k -> Seq(Int)] : Selecting(Upto(k), now, f)
    BY <1>3
  <2>2. /\ k \in Nat /\ k + 1 \in 1..n /\ k + 1 \in 0..n /\ times[k + 1] \in Int
        /\ k \in 0..k
    BY <1>0, <1>3
  <2> DEFINE step == IF now - times[k + 1] < RateWindow
                     THEN Append(f[k], times[k + 1]) ELSE f[k]
             g == [i \in 0..(k + 1) |-> IF i = k + 1 THEN step ELSE f[i]]
  <2>3. step \in Seq(Int)
    BY <2>2
  <2> HIDE DEF step
  <2>4. g \in [0..(k + 1) -> Seq(Int)]
    BY <2>2, <2>3
  <2>5. f[0] = <<>> /\ \A i \in 1..k :
          f[i] = IF now - times[i] < RateWindow
                 THEN Append(f[i - 1], times[i]) ELSE f[i - 1]
    BY <1>1, <2>1 DEF Selecting
  <2>6. g[0] = <<>>
    BY <2>2, <2>5
  <2>7. ASSUME NEW i \in 1..(k + 1)
        PROVE  g[i] = IF now - times[i] < RateWindow
                      THEN Append(g[i - 1], times[i]) ELSE g[i - 1]
    <3>1. CASE i = k + 1
      <4>1. g[i] = step /\ g[i - 1] = f[k]
        BY <2>2, <3>1
      <4> HIDE DEF g
      <4> QED BY <3>1, <4>1 DEF step
    <3>2. CASE i # k + 1
      <4>1. /\ i \in 1..k /\ i \in 0..(k + 1)
            /\ i - 1 \in 0..(k + 1) /\ i - 1 # k + 1
        BY <2>2, <3>2
      <4>2. g[i] = f[i] /\ g[i - 1] = f[i - 1]
        BY <3>2, <4>1
      <4> HIDE DEF g
      <4> QED BY <2>5, <4>1, <4>2
    <3> QED BY <3>1, <3>2
  <2>8. Selecting(Upto(k + 1), now, g)
    <3>1. /\ Len(Upto(k + 1)) = k + 1
          /\ \A i \in 1..(k + 1) : Upto(k + 1)[i] = times[i]
      BY <1>1, <2>2
    <3> HIDE DEF g, Upto
    <3> QED BY <2>6, <2>7, <3>1 DEF Selecting
  <2> QED BY <2>4, <2>8
<1>4. D = {}
  <2> HIDE DEF P
  <2>1. D \in SUBSET (0..n) /\ 0 \notin D
    BY <1>2
  <2>2. ASSUME NEW k \in 0..n, k < n, k \notin D PROVE k + 1 \notin D
    BY <1>3, <2>2
  <2> HIDE DEF D, n
  <2> QED BY <1>0, <2>1, <2>2, NoneFails
<1>5. P(n)
  <2> HIDE DEF P
  <2> QED BY <1>0, <1>4
<1> QED BY <1>0, <1>5

\* Forgetting the times that are out of the window now changes no later count.
LEMMA RecentCounts ==
  ASSUME NEW times \in Seq(Int), NEW now \in Int
  PROVE  /\ Rates!Recent(times, now) \in Seq(Int)
         /\ Len(Rates!Recent(times, now)) = Cardinality(Lately(times, now))
         /\ \A later \in Int : later >= now =>
              Cardinality(Lately(Rates!Recent(times, now), later))
                = Cardinality(Lately(times, later))
<1> DEFINE n == Len(times)
           Upto(k) == SubSeq(times, 1, k)
<1>1. PICK f \in [0..n -> Seq(Int)] : Selecting(times, now, f)
  BY SelectingExists
<1>2. Rates!Recent(times, now) = f[n]
  <2>1. f = [i \in 0..Len(times) |-> f[i]]
    OBVIOUS
  <2> QED BY <1>1, <2>1, RecentIs
<1>3. n \in Nat /\ Upto(n) = times /\ RateWindow \in Int
  BY RateAssumption
<1>4. \A k \in 0..n : Upto(k) \in Seq(Int) /\ Len(Upto(k)) = k
  OBVIOUS
<1> DEFINE Good(k) ==
             /\ \A i \in 1..Len(f[k]) : now - f[k][i] < RateWindow
             /\ \A later \in Int : later >= now =>
                  Cardinality(Lately(f[k], later))
                    = Cardinality(Lately(Upto(k), later))
           D == {k \in 0..n : ~Good(k)}
<1>5. 0 \notin D
  <2>1. f[0] = <<>> /\ Upto(0) = <<>>
    BY <1>1, <1>3, <1>4 DEF Selecting
  <2>2. Good(0)
    BY <2>1
  <2> QED BY <2>2
<1>6. ASSUME NEW k \in 0..n, k < n, k \notin D PROVE k + 1 \notin D
  <2> DEFINE m == k + 1
             t == times[m]
  <2>1. m \in 1..n /\ m \in 0..n /\ m - 1 = k /\ t \in Int /\ f[k] \in Seq(Int)
        /\ Upto(k) \in Seq(Int) /\ Good(k)
    <3>1. Good(k)
      <4> HIDE DEF Good
      <4> QED BY <1>6
    <3>2. m \in 1..n /\ m \in 0..n /\ m - 1 = k /\ t \in Int
      BY <1>3, <1>6
    <3> QED BY <1>4, <3>1, <3>2
  <2>2. Upto(m) = Append(Upto(k), t)
    <3>1. m \in 1..Len(times) /\ 1 \in 1..Len(times) /\ m \in 1..m
      BY <2>1
    <3> HIDE DEF m
    <3>2. SubSeq(times, 1, m) = SubSeq(times, 1, m - 1) \o <<times[m]>>
      BY <3>1, SubSeqRecursiveSecond
    <3>3. SubSeq(times, 1, m) = SubSeq(times, 1, k) \o <<times[m]>>
      BY <2>1, <3>2
    <3> HIDE DEF Upto
    <3>4. Append(Upto(k), t) = Upto(k) \o <<t>>
      BY <2>1, AppendIsConcat
    <3> QED BY <3>3, <3>4 DEF Upto, t
  <2> HIDE DEF m, t
  <2>3. f[m] = IF now - t < RateWindow THEN Append(f[k], t) ELSE f[k]
    BY <1>1, <2>1 DEF Selecting, t
  <2>4. ASSUME NEW i \in 1..Len(f[m])
        PROVE  now - f[m][i] < RateWindow
    <3>1. CASE now - t < RateWindow
      <4>1. \/ i \in 1..Len(f[k]) /\ f[m][i] = f[k][i]
            \/ f[m][i] = t
        BY <2>1, <2>3, <3>1
      <4> HIDE DEF D
      <4> QED BY <2>1, <3>1, <4>1
    <3>2. CASE ~(now - t < RateWindow)
      BY <2>1, <2>3, <3>2
    <3> QED BY <3>1, <3>2
  <2>5. ASSUME NEW later \in Int, later >= now
        PROVE  Cardinality(Lately(f[m], later))
                 = Cardinality(Lately(Upto(m), later))
    <3> HIDE DEF D, Upto
    <3>1. Cardinality(Lately(f[k], later)) = Cardinality(Lately(Upto(k), later))
      BY <2>1, <2>5
    <3>2. Cardinality(Lately(Append(Upto(k), t), later))
            = Cardinality(Lately(Upto(k), later))
              + (IF later - t < RateWindow THEN 1 ELSE 0)
      BY <2>1, LatelyAppend
    <3>3. Cardinality(Lately(Append(f[k], t), later))
            = Cardinality(Lately(f[k], later))
              + (IF later - t < RateWindow THEN 1 ELSE 0)
      BY <2>1, LatelyAppend
    <3>4. Cardinality(Lately(Upto(k), later)) \in Nat
      BY <2>1, LatelyFinite
    <3>5. CASE now - t < RateWindow
      BY <2>2, <2>3, <3>1, <3>2, <3>3, <3>5
    <3>6. CASE ~(now - t < RateWindow)
      <4>1. ~(later - t < RateWindow)
        BY <1>3, <2>1, <2>5, <3>6
      <4> QED BY <2>2, <2>3, <3>1, <3>2, <3>4, <3>6, <4>1
    <3> QED BY <3>5, <3>6
  <2>6. Good(m)
    BY <2>4, <2>5
  <2> QED BY <2>6 DEF m
<1>7. D = {}
  <2> HIDE DEF Good
  <2>1. D \in SUBSET (0..n)
    OBVIOUS
  <2> HIDE DEF D, n
  <2> QED BY <1>3, <1>5, <1>6, <2>1, NoneFails
<1>8. Good(n) /\ f[n] \in Seq(Int)
  <2> HIDE DEF Good
  <2> QED BY <1>3, <1>7
<1>9. Lately(f[n], now) = 1..Len(f[n])
  BY <1>8 DEF Lately
<1>10. Cardinality(1..Len(f[n])) = Len(f[n])
  <2>1. Len(f[n]) \in Nat
    BY <1>8
  <2> DEFINE l == Len(f[n])
  <2>2. l \in Int /\ 1 \in Int
    BY <2>1
  <2> HIDE DEF l
  <2>3. Cardinality(1..l) = IF 1 > l THEN 0 ELSE l - 1 + 1
    BY <2>2, FS_Interval
  <2> QED BY <2>1, <2>3 DEF l
<1> HIDE DEF Upto, n
<1> QED BY <1>2, <1>3, <1>8, <1>9, <1>10 DEF n

-----------------------------------------------------------------------------
(* ContentRules: the keys that are remembered                              *)
EntryType == [key : Keys, times : Seq(Int)]
KeyOnce(h) == \A i, j \in 1..Len(h) : h[i].key = h[j].key => i = j
KeysAfter(h, i) == {h[j].key : j \in i + 1..Len(h)}

\* The place of a key that is remembered.
LEMMA PlaceIs ==
  ASSUME NEW h \in Seq(EntryType), KeyOnce(h), NEW i \in 1..Len(h)
  PROVE  /\ Rates!Places(h, h[i].key) # {}
         /\ Rates!Place(h, h[i].key) = i
<1>1. DOMAIN h = 1..Len(h)
  OBVIOUS
<1>2. Rates!Places(h, h[i].key) = {i}
  BY <1>1 DEF Rates!Places, KeyOnce
<1> QED BY <1>2 DEF Rates!Place

\* What is left when an entry is taken out of its place.
LEMMA RemovedIs ==
  ASSUME NEW A, NEW h \in Seq(A), NEW j \in 1..Len(h)
  PROVE  LET o == Rates!RemoveAt(h, j) IN
         /\ o \in Seq(A) /\ Len(o) = Len(h) - 1
         /\ \A p \in 1..j - 1 : o[p] = h[p]
         /\ \A p \in j + 1..Len(h) : o[p - 1] = h[p]
<1> DEFINE x == SubSeq(h, 1, j - 1)
           y == SubSeq(h, j + 1, Len(h))
           o == x \o y
<1>0. Rates!RemoveAt(h, j) = o
  BY DEF Rates!RemoveAt
<1>1. x \in Seq(A) /\ Len(x) = j - 1 /\ \A p \in 1..j - 1 : x[p] = h[p]
  OBVIOUS
<1>2. /\ y \in Seq(A) /\ Len(y) = Len(h) - j
      /\ \A p \in 1..Len(h) - j : y[p] = h[j + p]
  OBVIOUS
<1> HIDE DEF x, y
<1>3. o \in Seq(A) /\ Len(o) = Len(h) - 1
  BY <1>1, <1>2
<1>4. \A p \in 1..j - 1 : o[p] = h[p]
  BY <1>1, <1>2, <1>3
<1>5. ASSUME NEW p \in j + 1..Len(h) PROVE o[p - 1] = h[p]
  <2> DEFINE q == p - j
  <2>1. q \in 1..Len(h) - j /\ j + q = p /\ p - 1 = (j - 1) + q
    OBVIOUS
  <2> HIDE DEF q
  <2>2. o[(j - 1) + q] = y[q]
    BY <1>1, <1>2, <2>1
  <2> QED BY <1>2, <2>1, <2>2
<1> QED BY <1>0, <1>3, <1>4, <1>5

\* What is remembered afterwards: the entry last, and before it others that were
\* remembered, each followed by the keys that followed it and the new one; and
\* an entry is only left out when as many keys as may be come after it.
Follows(b, h, e) ==
  /\ b \in Seq(EntryType) /\ Len(b) <= MaxKeys /\ KeyOnce(b)
  /\ MaxKeys > 0 => Len(b) > 0
  /\ Len(b) > 0 => b[Len(b)] = e
  /\ \A p \in 1..Len(b) - 1 :
       \E i \in 1..Len(h) : /\ b[p] = h[i] /\ h[i].key # e.key
                            /\ KeysAfter(b, p) = KeysAfter(h, i) \cup {e.key}
  /\ \A i \in 1..Len(h) : h[i].key # e.key =>
       \/ \E p \in 1..Len(b) : b[p].key = h[i].key
       \/ Len(b) = MaxKeys /\ KeysAfter(h, i) \cup {e.key} = KeysAfter(b, 0)

\* A key that is remembered moves to the end;
LEMMA RememberAgain ==
  ASSUME NEW h \in Seq(EntryType), KeyOnce(h), Len(h) <= MaxKeys,
         NEW e \in EntryType, NEW j \in 1..Len(h), h[j].key = e.key
  PROVE  Follows(Rates!Remember(h, e), h, e)
<1> DEFINE o == Rates!RemoveAt(h, j)
           b == Append(o, e)
           n == Len(h)
<1>1. /\ o \in Seq(EntryType) /\ Len(o) = n - 1
      /\ \A p \in 1..j - 1 : o[p] = h[p]
      /\ \A p \in j + 1..n : o[p - 1] = h[p]
  BY RemovedIs
<1>2. Rates!Others(h, e.key) = o
  BY PlaceIs DEF Rates!Others
<1>3. n \in Nat /\ MaxKeys \in Nat
  BY RateAssumption
<1> HIDE DEF o
<1>4. /\ b \in Seq(EntryType) /\ Len(b) = n /\ b[n] = e
      /\ \A p \in 1..n - 1 : b[p] = o[p]
  BY <1>1
<1>5. Rates!Remember(h, e) = b
  <2>1. Rates!Remember(h, e)
          = SubSeq(b, IF Len(b) > MaxKeys THEN Len(b) - MaxKeys + 1 ELSE 1,
                   Len(b))
    BY <1>2 DEF Rates!Remember
  <2>2. ~(Len(b) > MaxKeys)
    BY <1>3, <1>4
  <2> HIDE DEF b
  <2>3. SubSeq(b, 1, Len(b)) = b
    BY <1>4, SubSeqFull
  <2> QED BY <2>1, <2>2, <2>3
<1> HIDE DEF b
<1>6. \A p \in 1..j - 1 : b[p] = h[p]
  BY <1>1, <1>4
<1>7. ASSUME NEW p \in j..n - 1 PROVE b[p] = h[p + 1] /\ p + 1 \in j + 1..n
  <2> DEFINE q == p + 1
  <2>1. q \in j + 1..n /\ q - 1 = p /\ p \in 1..n - 1
    BY <1>3
  <2> HIDE DEF q
  <2>2. o[q - 1] = h[q]
    BY <1>1, <2>1
  <2> QED BY <1>4, <2>1, <2>2 DEF q
<1>8. ASSUME NEW i \in 1..n, i # j
      PROVE  /\ h[i].key # e.key
             /\ \/ i < j /\ b[i] = h[i]
                \/ i > j /\ i - 1 \in j..n - 1 /\ b[i - 1] = h[i]
  <2>1. h[i].key # e.key
    BY <1>8 DEF KeyOnce
  <2>2. CASE i < j
    BY <1>6, <2>1, <2>2
  <2>3. CASE i > j
    <3> DEFINE p == i - 1
    <3>1. p \in j..n - 1 /\ p + 1 = i
      BY <1>3, <2>3
    <3> HIDE DEF p
    <3>2. b[p] = h[i]
      BY <1>7, <3>1
    <3> QED BY <2>1, <2>3, <3>1, <3>2 DEF p
  <2> QED BY <1>3, <1>8, <2>2, <2>3
<1>9. ASSUME NEW p \in 1..n - 1
      PROVE  \E i \in 1..n : /\ i # j /\ b[p] = h[i]
                             /\ i = IF p < j THEN p ELSE p + 1
  BY <1>3, <1>6, <1>7
<1>10. KeyOnce(b)
  <2> SUFFICES ASSUME NEW p \in 1..n, NEW q \in 1..n, b[p].key = b[q].key
               PROVE  p = q
    BY <1>4 DEF KeyOnce
  <2>1. CASE p = n \/ q = n
    <3>1. \A x \in 1..n - 1 : b[x].key # e.key
      BY <1>8, <1>9
    <3> QED BY <1>3, <1>4, <2>1, <3>1
  <2>2. CASE p # n /\ q # n
    <3>1. p \in 1..n - 1 /\ q \in 1..n - 1
      BY <1>3, <2>2
    <3>2. PICK x \in 1..n : b[p] = h[x] /\ x = IF p < j THEN p ELSE p + 1
      BY <1>9, <3>1
    <3>3. PICK y \in 1..n : b[q] = h[y] /\ y = IF q < j THEN q ELSE q + 1
      BY <1>9, <3>1
    <3>4. x = y
      BY <3>2, <3>3 DEF KeyOnce
    <3> QED BY <3>2, <3>3, <3>4
  <2> QED BY <2>1, <2>2
<1>11. ASSUME NEW p \in 1..n - 1
       PROVE  \E i \in 1..n : /\ b[p] = h[i] /\ h[i].key # e.key
                              /\ KeysAfter(b, p) = KeysAfter(h, i) \cup {e.key}
  <2>1. PICK i \in 1..n : /\ i # j /\ b[p] = h[i]
                          /\ i = IF p < j THEN p ELSE p + 1
    BY <1>9
  <2>2. ASSUME NEW k \in KeysAfter(b, p)
        PROVE  k \in KeysAfter(h, i) \cup {e.key}
    <3>1. PICK q \in p + 1..n : k = b[q].key
      BY <1>4 DEF KeysAfter
    <3>2. CASE q = n
      BY <1>4, <3>1, <3>2
    <3>3. CASE q # n
      <4>1. q \in 1..n - 1
        BY <1>3, <3>3
      <4>2. PICK x \in 1..n : b[q] = h[x] /\ x = IF q < j THEN q ELSE q + 1
        BY <1>9, <4>1
      <4>3. x \in i + 1..n
        BY <2>1, <3>1, <4>2
      <4> QED BY <3>1, <4>2, <4>3 DEF KeysAfter
    <3> QED BY <3>2, <3>3
  <2>3. ASSUME NEW k \in KeysAfter(h, i) PROVE k \in KeysAfter(b, p)
    <3>1. PICK x \in i + 1..n : k = h[x].key
      BY DEF KeysAfter
    <3>2. CASE x = j
      <4>1. k = b[n].key /\ n \in p + 1..n
        BY <1>3, <1>4, <3>1, <3>2
      <4> QED BY <1>4, <4>1 DEF KeysAfter
    <3>3. CASE x # j
      <4>1. x \in 1..n
        BY <2>1
      <4>2. \/ x < j /\ b[x] = h[x]
            \/ x > j /\ x - 1 \in j..n - 1 /\ b[x - 1] = h[x]
        BY <1>8, <3>3, <4>1
      <4>3. CASE x < j /\ b[x] = h[x]
        <5>1. x \in p + 1..n
          BY <2>1, <3>1, <4>3
        <5> QED BY <1>4, <3>1, <4>3, <5>1 DEF KeysAfter
      <4>4. CASE x > j /\ x - 1 \in j..n - 1 /\ b[x - 1] = h[x]
        <5> DEFINE q == x - 1
        <5>1. q \in p + 1..n /\ b[q] = h[x]
          BY <2>1, <3>1, <4>4
        <5> HIDE DEF q
        <5> QED BY <1>4, <3>1, <5>1 DEF KeysAfter
      <4> QED BY <4>2, <4>3, <4>4
    <3> QED BY <3>2, <3>3
  <2>4. e.key \in KeysAfter(b, p)
    <3>1. n \in p + 1..n
      BY <1>3
    <3> QED BY <1>4, <3>1 DEF KeysAfter
  <2>5. KeysAfter(b, p) = KeysAfter(h, i) \cup {e.key}
    BY <2>2, <2>3, <2>4
  <2>6. h[i].key # e.key
    BY <1>8, <2>1
  <2> QED BY <2>1, <2>5, <2>6
<1>12. ASSUME NEW i \in 1..n, h[i].key # e.key
       PROVE  \E p \in 1..n : b[p].key = h[i].key
  <2>1. i # j
    BY <1>12
  <2>2. \/ i < j /\ b[i] = h[i]
        \/ i > j /\ i - 1 \in j..n - 1 /\ b[i - 1] = h[i]
    BY <1>8, <2>1
  <2>3. i - 1 \in j..n - 1 => i - 1 \in 1..n
    BY <1>3
  <2> QED BY <2>2, <2>3
<1>13. Follows(b, h, e)
  BY <1>3, <1>4, <1>10, <1>11, <1>12 DEF Follows
<1> QED BY <1>5, <1>13

\* a new one comes to the end while there is room,
LEMMA RememberNew ==
  ASSUME NEW h \in Seq(EntryType), KeyOnce(h), Len(h) < MaxKeys,
         NEW e \in EntryType, \A i \in 1..Len(h) : h[i].key # e.key
  PROVE  Follows(Rates!Remember(h, e), h, e)
<1> DEFINE b == Append(h, e)
           n == Len(h)
<1>1. /\ b \in Seq(EntryType) /\ Len(b) = n + 1 /\ b[n + 1] = e /\ n \in Nat
      /\ \A p \in 1..n : b[p] = h[p]
  OBVIOUS
<1>2. MaxKeys \in Nat
  BY RateAssumption
<1>3. Rates!Others(h, e.key) = h
  BY DEF Rates!Others, Rates!Places
<1>4. Rates!Remember(h, e) = b
  <2>1. Rates!Remember(h, e)
          = SubSeq(b, IF Len(b) > MaxKeys THEN Len(b) - MaxKeys + 1 ELSE 1,
                   Len(b))
    BY <1>3 DEF Rates!Remember
  <2>2. ~(Len(b) > MaxKeys)
    BY <1>1, <1>2
  <2> HIDE DEF b
  <2>3. SubSeq(b, 1, Len(b)) = b
    BY <1>1, SubSeqFull
  <2> QED BY <2>1, <2>2, <2>3
<1> HIDE DEF b
<1>5. KeyOnce(b)
  <2> SUFFICES ASSUME NEW p \in 1..n + 1, NEW q \in 1..n + 1,
                      b[p].key = b[q].key
               PROVE  p = q
    BY <1>1 DEF KeyOnce
  <2>1. p \in 1..n \/ p = n + 1
    BY <1>1
  <2>2. q \in 1..n \/ q = n + 1
    BY <1>1
  <2> QED BY <1>1, <2>1, <2>2 DEF KeyOnce
<1>6. ASSUME NEW p \in 1..n
      PROVE  KeysAfter(b, p) = KeysAfter(h, p) \cup {e.key}
  <2>1. p + 1..n + 1 = (p + 1..n) \cup {n + 1}
    BY <1>1
  <2>2. KeysAfter(b, p) = {b[q].key : q \in (p + 1..n) \cup {n + 1}}
    BY <1>1, <2>1 DEF KeysAfter
  <2>3. \A q \in p + 1..n : b[q] = h[q]
    BY <1>1
  <2> QED BY <1>1, <2>2, <2>3 DEF KeysAfter
<1>7. Len(b) - 1 = n
  BY <1>1
<1>8. Follows(b, h, e)
  <2>1. Len(b) <= MaxKeys /\ Len(b) > 0 /\ b[Len(b)] = e
    BY <1>1, <1>2
  <2>2. \A p \in 1..Len(b) - 1 :
          \E i \in 1..Len(h) : /\ b[p] = h[i] /\ h[i].key # e.key
                               /\ KeysAfter(b, p) = KeysAfter(h, i) \cup {e.key}
    BY <1>1, <1>6, <1>7
  <2>3. \A i \in 1..Len(h) : \E p \in 1..Len(b) : b[p].key = h[i].key
    BY <1>1
  <2> QED BY <1>1, <1>5, <2>1, <2>2, <2>3 DEF Follows
<1> QED BY <1>4, <1>8

\* ... and takes the place of the one used longest ago when there is none.
LEMMA RememberFull ==
  ASSUME NEW h \in Seq(EntryType), KeyOnce(h), Len(h) = MaxKeys,
         NEW e \in EntryType, \A i \in 1..Len(h) : h[i].key # e.key
  PROVE  Follows(Rates!Remember(h, e), h, e)
<1> DEFINE all == Append(h, e)
           n == Len(h)
           b == SubSeq(all, 2, n + 1)
<1>1. /\ all \in Seq(EntryType) /\ Len(all) = n + 1 /\ all[n + 1] = e
      /\ n \in Nat /\ n = MaxKeys
      /\ \A p \in 1..n : all[p] = h[p]
  OBVIOUS
<1>2. Rates!Others(h, e.key) = h
  BY DEF Rates!Others, Rates!Places
<1>3. Rates!Remember(h, e) = b
  <2>1. Rates!Remember(h, e)
          = SubSeq(all,
                   IF Len(all) > MaxKeys THEN Len(all) - MaxKeys + 1 ELSE 1,
                   Len(all))
    BY <1>2 DEF Rates!Remember
  <2>2. Len(all) > MaxKeys /\ Len(all) - MaxKeys + 1 = 2
    BY <1>1
  <2> HIDE DEF all
  <2> QED BY <1>1, <2>1, <2>2
<1> HIDE DEF all
<1>4. b \in Seq(EntryType) /\ Len(b) = n
  BY <1>1
<1>5. ASSUME NEW p \in 1..n PROVE b[p] = all[p + 1]
  BY <1>1
<1> HIDE DEF b
<1>6. \A p \in 1..n - 1 : b[p] = h[p + 1] /\ p + 1 \in 1..n
  BY <1>1, <1>5
<1>7. n > 0 => b[n] = e
  BY <1>1, <1>5
<1>8. KeyOnce(b)
  <2> SUFFICES ASSUME NEW p \in 1..n, NEW q \in 1..n, b[p].key = b[q].key
               PROVE  p = q
    BY <1>4 DEF KeyOnce
  <2>1. \/ p \in 1..n - 1 /\ b[p] = h[p + 1] /\ p + 1 \in 1..n
        \/ p = n /\ b[p] = e
    BY <1>1, <1>6, <1>7
  <2>2. \/ q \in 1..n - 1 /\ b[q] = h[q + 1] /\ q + 1 \in 1..n
        \/ q = n /\ b[q] = e
    BY <1>1, <1>6, <1>7
  <2>3. p + 1 = q + 1 => p = q
    OBVIOUS
  <2> QED BY <2>1, <2>2, <2>3 DEF KeyOnce
<1>9. ASSUME NEW p \in 0..n - 1
      PROVE  KeysAfter(b, p) = KeysAfter(h, p + 1) \cup {e.key}
  <2>1. ASSUME NEW k \in KeysAfter(b, p)
        PROVE  k \in KeysAfter(h, p + 1) \cup {e.key}
    <3>1. PICK q \in p + 1..n : k = b[q].key
      BY <1>4 DEF KeysAfter
    <3>2. CASE q = n
      BY <1>1, <1>7, <3>1, <3>2
    <3>3. CASE q # n
      <4> DEFINE x == q + 1
      <4>1. b[q] = h[x] /\ x \in (p + 1) + 1..n
        BY <1>1, <1>6, <3>3
      <4> HIDE DEF x
      <4> QED BY <3>1, <4>1 DEF KeysAfter
    <3> QED BY <3>2, <3>3
  <2>2. ASSUME NEW k \in KeysAfter(h, p + 1) PROVE k \in KeysAfter(b, p)
    <3>1. PICK x \in (p + 1) + 1..n : k = h[x].key
      BY DEF KeysAfter
    <3> DEFINE q == x - 1
    <3>2. q \in p + 1..n /\ q \in 1..n - 1 /\ q + 1 = x
      BY <1>1
    <3> HIDE DEF q
    <3>3. b[q] = h[x]
      BY <1>6, <3>2
    <3> QED BY <1>4, <3>1, <3>2, <3>3 DEF KeysAfter
  <2>3. e.key \in KeysAfter(b, p)
    <3>1. n \in p + 1..n /\ b[n] = e
      BY <1>1, <1>7
    <3> QED BY <1>4, <3>1 DEF KeysAfter
  <2> QED BY <2>1, <2>2, <2>3
<1>10. ASSUME NEW p \in 1..n - 1
       PROVE  \E i \in 1..n : /\ b[p] = h[i] /\ h[i].key # e.key
                              /\ KeysAfter(b, p) = KeysAfter(h, i) \cup {e.key}
  <2>1. p \in 0..n - 1
    BY <1>1
  <2> DEFINE i == p + 1
  <2>2. /\ i \in 1..n /\ b[p] = h[i]
        /\ KeysAfter(b, p) = KeysAfter(h, i) \cup {e.key}
    BY <1>6, <1>9, <2>1
  <2> HIDE DEF i
  <2> QED BY <2>2
<1>11. ASSUME NEW i \in 1..n
       PROVE  \/ \E p \in 1..n : b[p].key = h[i].key
              \/ KeysAfter(h, i) \cup {e.key} = KeysAfter(b, 0)
  <2>1. CASE i = 1
    <3>1. 0 \in 0..n - 1 /\ 0 + 1 = 1
      BY <1>1
    <3> QED BY <1>9, <2>1, <3>1
  <2>2. CASE i # 1
    <3> DEFINE p == i - 1
    <3>1. p \in 1..n - 1 /\ p \in 1..n /\ p + 1 = i
      BY <1>1, <2>2
    <3> HIDE DEF p
    <3>2. b[p] = h[i]
      BY <1>6, <3>1
    <3> QED BY <3>1, <3>2
  <2> QED BY <2>1, <2>2
<1>12. Follows(b, h, e)
  BY <1>1, <1>4, <1>7, <1>8, <1>10, <1>11 DEF Follows
<1> QED BY <1>3, <1>12

\* So it is for every key and every history.
LEMMA RememberFollows ==
  ASSUME NEW h \in Seq(EntryType), KeyOnce(h), Len(h) <= MaxKeys,
         NEW e \in EntryType
  PROVE  Follows(Rates!Remember(h, e), h, e)
<1>1. Len(h) \in Nat /\ MaxKeys \in Nat
  BY RateAssumption
<1>2. CASE \E j \in 1..Len(h) : h[j].key = e.key
  BY <1>2, RememberAgain
<1>3. CASE ~\E j \in 1..Len(h) : h[j].key = e.key
  BY <1>1, <1>3, RememberNew, RememberFull
<1> QED BY <1>2, <1>3

\* As many keys come after an entry as entries do.
LEMMA KeysCounted ==
  ASSUME NEW h \in Seq(EntryType), KeyOnce(h), NEW i \in 0..Len(h)
  PROVE  /\ IsFiniteSet(KeysAfter(h, i))
         /\ Cardinality(KeysAfter(h, i)) = Len(h) - i
<1> DEFINE n == Len(h)
           P == i + 1..n
           K == KeysAfter(h, i)
           f == [p \in P |-> h[p].key]
<1>1. n \in Nat /\ i \in Nat /\ i <= n
  OBVIOUS
<1>2. IsFiniteSet(P) /\ Cardinality(P) = n - i
  <2> DEFINE a == i + 1
  <2>1. a \in Int /\ n \in Int
    BY <1>1
  <2> HIDE DEF n, a
  <2>2. IsFiniteSet(a..n) /\ Cardinality(a..n) = IF a > n THEN 0 ELSE n - a + 1
    BY <2>1, FS_Interval
  <2> QED BY <1>1, <2>2 DEF a
<1>3. f \in [P -> K] /\ \A k \in K : \E p \in P : f[p] = k
  BY DEF KeysAfter
<1>4. \A p, q \in P : f[p] = f[q] => p = q
  <2>1. P \subseteq 1..n
    BY <1>1
  <2> QED BY <2>1 DEF KeyOnce
<1> HIDE DEF P, K, f
<1>5. f \in Bijection(P, K)
  BY <1>3, <1>4 DEF Bijection, Injection, Surjection, IsInjective
<1>6. IsFiniteSet(K) /\ Cardinality(K) = Cardinality(P)
  BY <1>2, <1>5, FS_Bijection DEF ExistsBijection
<1> QED BY <1>2, <1>6 DEF K

-----------------------------------------------------------------------------
(* ContentRules: what counts for the next request                          *)
\* What RatesKept says of the requests before the n-th.
ArrivalType == [key : Keys, at : Int, allowed : BOOLEAN]
Uses(a, k, n) == {m \in 1..n - 1 : a[m].key = k}
Between(a, x, y) == {a[m].key : m \in x + 1..y - 1}
Lost(a, k, u, n) ==
  \E x \in Uses(a, k, n), y \in Uses(a, k, n) \cup {n} :
    /\ u <= x /\ x < y
    /\ k \notin Between(a, x, y) /\ Cardinality(Between(a, x, y)) >= MaxKeys
Held(a, k, n, later) ==
  {u \in Uses(a, k, n) :
     a[u].allowed /\ later - a[u].at < RateWindow /\ ~Lost(a, k, u, n)}

\* The keys used between two requests are finitely many,
LEMMA BetweenFinite ==
  ASSUME NEW a, NEW x \in Int, NEW y \in Int
  PROVE  IsFiniteSet(Between(a, x, y)) /\ Cardinality(Between(a, x, y)) \in Nat
<1> DEFINE P == x + 1..y - 1
           f == [m \in P |-> a[m].key]
<1>1. IsFiniteSet(P)
  BY FS_Interval
<1>2. f \in Surjection(P, Between(a, x, y))
  BY DEF Between, Surjection
<1>3. IsFiniteSet(Between(a, x, y))
  <2> HIDE DEF P, f
  <2> QED BY <1>1, <1>2, FS_Surjection
<1> QED BY <1>3, FS_CardinalityType

\* ... and so are the admissions that count.
LEMMA HeldFinite ==
  ASSUME NEW a, NEW k, NEW n \in Int, NEW later
  PROVE  /\ IsFiniteSet(Held(a, k, n, later))
         /\ Cardinality(Held(a, k, n, later)) \in Nat
<1>1. Held(a, k, n, later) \subseteq 1..n - 1
  BY DEF Held, Uses
<1>2. IsFiniteSet(1..n - 1)
  BY FS_Interval
<1> QED BY ONLY <1>1, <1>2, FS_Subset, FS_CardinalityType

-----------------------------------------------------------------------------
\* A request more.
LEMMA UsesMore ==
  ASSUME NEW a \in Seq(ArrivalType), NEW e \in ArrivalType, NEW k
  PROVE  LET b == Append(a, e)
             n == Len(a) + 1 IN
         /\ \A i \in 1..n : Uses(b, k, i) = Uses(a, k, i)
         /\ Uses(b, k, n + 1)
              = Uses(a, k, n) \cup (IF e.key = k THEN {n} ELSE {})
<1> DEFINE b == Append(a, e)
           n == Len(a) + 1
<1>1. /\ n \in Nat /\ n - 1 = Len(a) /\ (n + 1) - 1 = n /\ b[n] = e
      /\ \A m \in 1..n - 1 : b[m] = a[m]
  OBVIOUS
<1> HIDE DEF b, n
<1>2. \A i \in 1..n : Uses(b, k, i) = Uses(a, k, i)
  BY <1>1 DEF Uses
<1>3. 1..(n + 1) - 1 = (1..n - 1) \cup {n} /\ n \in 1..(n + 1) - 1
  BY <1>1 DEF n
<1>4. Uses(b, k, n + 1) = Uses(a, k, n) \cup (IF e.key = k THEN {n} ELSE {})
  BY <1>1, <1>3 DEF Uses
<1> QED BY <1>2, <1>4 DEF b, n

\* its key comes after all requests before it.
LEMMA BetweenMore ==
  ASSUME NEW a \in Seq(ArrivalType), NEW e \in ArrivalType
  PROVE  LET b == Append(a, e)
             n == Len(a) + 1 IN
         /\ \A x \in 1..n, y \in 1..n : Between(b, x, y) = Between(a, x, y)
         /\ \A x \in 1..n - 1 :
              Between(b, x, n + 1) = Between(a, x, n) \cup {e.key}
         /\ Between(b, n, n + 1) = {}
<1> DEFINE b == Append(a, e)
           n == Len(a) + 1
<1>1. /\ n \in Nat /\ n >= 1 /\ n - 1 = Len(a) /\ (n + 1) - 1 = n /\ b[n] = e
      /\ \A m \in 1..n - 1 : b[m] = a[m]
  OBVIOUS
<1> HIDE DEF b, n
<1>2. ASSUME NEW x \in 1..n, NEW y \in 1..n
      PROVE  Between(b, x, y) = Between(a, x, y)
  <2>1. \A m \in x + 1..y - 1 : b[m] = a[m]
    BY <1>1
  <2> QED BY <2>1 DEF Between
<1>3. ASSUME NEW x \in 1..n - 1
      PROVE  Between(b, x, n + 1) = Between(a, x, n) \cup {e.key}
  <2>1. x + 1..(n + 1) - 1 = (x + 1..n - 1) \cup {n}
    BY <1>1
  <2>2. \A m \in x + 1..n - 1 : b[m] = a[m]
    BY <1>1
  <2>3. Between(b, x, n + 1) = {b[m].key : m \in (x + 1..n - 1) \cup {n}}
    BY <2>1 DEF Between
  <2>4. Between(a, x, n) = {b[m].key : m \in x + 1..n - 1}
    BY <2>2 DEF Between
  <2> QED BY <1>1, <2>3, <2>4
<1>4. Between(b, n, n + 1) = {}
  <2>1. n + 1..(n + 1) - 1 = {}
    BY <1>1
  <2> QED BY <2>1 DEF Between
<1> QED BY <1>2, <1>3, <1>4 DEF b, n

\* What is lost before a request does not depend on later ones.
LEMMA HeldBefore ==
  ASSUME NEW a \in Seq(ArrivalType), NEW e \in ArrivalType, NEW k,
         NEW i \in 1..Len(a) + 1, NEW later
  PROVE  Held(Append(a, e), k, i, later) = Held(a, k, i, later)
<1> DEFINE b == Append(a, e)
           n == Len(a) + 1
<1>1. n \in Nat /\ i \in 1..n /\ \A m \in 1..n - 1 : b[m] = a[m]
  OBVIOUS
<1>2. Uses(b, k, i) = Uses(a, k, i)
  BY UsesMore
<1>3. Uses(a, k, i) \subseteq 1..n /\ Uses(a, k, i) \subseteq 1..n - 1
  BY <1>1 DEF Uses
<1>4. \A x \in 1..n, y \in 1..n : Between(b, x, y) = Between(a, x, y)
  BY BetweenMore
<1> HIDE DEF b, n
<1>5. ASSUME NEW u PROVE Lost(b, k, u, i) <=> Lost(a, k, u, i)
  BY <1>1, <1>2, <1>3, <1>4 DEF Lost
<1> QED BY <1>1, <1>2, <1>3, <1>5 DEF Held, b

\* The n-th request takes the place of the next one.
LEMMA LostOwn ==
  ASSUME NEW a \in Seq(ArrivalType), NEW e \in ArrivalType, MaxKeys > 0
  PROVE  LET b == Append(a, e)
             n == Len(a) + 1 IN
         /\ \A u \in Uses(a, e.key, n) :
              Lost(b, e.key, u, n + 1) <=> Lost(a, e.key, u, n)
         /\ ~Lost(b, e.key, n, n + 1)
<1> DEFINE b == Append(a, e)
           n == Len(a) + 1
           k == e.key
           U == Uses(a, k, n)
           V == Uses(b, k, n + 1)
<1>1. V = U \cup {n}
  BY UsesMore
<1>2. /\ \A x \in 1..n, y \in 1..n : Between(b, x, y) = Between(a, x, y)
      /\ \A x \in 1..n - 1 :
           Between(b, x, n + 1) = Between(a, x, n) \cup {k}
      /\ Between(b, n, n + 1) = {}
  BY BetweenMore
<1>3. n \in Nat /\ U \subseteq 1..n - 1 /\ n >= 1 /\ MaxKeys \in Nat
  BY RateAssumption DEF Uses
<1> HIDE DEF b, n, k, U, V
<1>4. Cardinality({}) = 0
  BY FS_EmptySet
<1>5. ASSUME NEW u \in 1..n, NEW x \in V, NEW y \in V \cup {n + 1},
             u <= x, x < y,
             k \notin Between(b, x, y), Cardinality(Between(b, x, y)) >= MaxKeys
      PROVE  /\ x \in U /\ y \in U \cup {n}
             /\ Between(b, x, y) = Between(a, x, y)
  <2>1. x # n
    <3> SUFFICES ASSUME x = n PROVE FALSE
      OBVIOUS
    <3>1. y = n + 1
      <4>1. y \in U => ~(x < y)
        BY <1>3
      <4>2. ~(n < n)
        BY <1>3
      <4> QED BY <1>1, <1>5, <4>1, <4>2
    <3>2. Cardinality(Between(b, x, y)) = 0
      BY <1>2, <1>4, <3>1
    <3> QED BY <1>3, <1>5, <3>2
  <2>2. x \in U /\ x \in 1..n - 1 /\ x \in 1..n
    BY <1>1, <1>3, <2>1
  <2>3. y # n + 1
    BY <1>2, <1>5, <2>2
  <2>4. y \in U \cup {n} /\ y \in 1..n
    BY <1>1, <1>3, <2>3
  <2> QED BY <1>2, <2>2, <2>4
<1>6. ASSUME NEW u \in U PROVE Lost(b, k, u, n + 1) <=> Lost(a, k, u, n)
  <2>1. ASSUME Lost(b, k, u, n + 1) PROVE Lost(a, k, u, n)
    <3>1. PICK x \in V, y \in V \cup {n + 1} :
            /\ u <= x /\ x < y
            /\ k \notin Between(b, x, y)
            /\ Cardinality(Between(b, x, y)) >= MaxKeys
      BY <2>1 DEF Lost, V
    <3>2. /\ x \in U /\ y \in U \cup {n}
          /\ Between(b, x, y) = Between(a, x, y)
      BY <1>3, <1>5, <3>1
    <3> QED BY <3>1, <3>2 DEF Lost, U
  <2>2. ASSUME Lost(a, k, u, n) PROVE Lost(b, k, u, n + 1)
    <3>1. PICK x \in U, y \in U \cup {n} :
            /\ u <= x /\ x < y
            /\ k \notin Between(a, x, y)
            /\ Cardinality(Between(a, x, y)) >= MaxKeys
      BY <2>2 DEF Lost, U
    <3>2. x \in V /\ y \in V /\ x \in 1..n /\ y \in 1..n
      BY <1>1, <1>3
    <3>3. Between(b, x, y) = Between(a, x, y)
      BY <1>2, <3>2
    <3> QED BY <3>1, <3>2, <3>3 DEF Lost, V
  <2> QED BY <2>1, <2>2
<1>7. ~Lost(b, k, n, n + 1)
  <2> SUFFICES ASSUME Lost(b, k, n, n + 1) PROVE FALSE
    OBVIOUS
  <2>1. PICK x \in V, y \in V \cup {n + 1} :
          /\ n <= x /\ x < y
          /\ k \notin Between(b, x, y)
          /\ Cardinality(Between(b, x, y)) >= MaxKeys
    BY DEF Lost, V
  <2>2. x \in U
    BY <1>3, <1>5, <2>1
  <2> QED BY <1>3, <2>1, <2>2
<1> QED BY <1>6, <1>7 DEF b, n, k, U

\* Nothing is lost to a key that few others were used after.
LEMMA LostOther ==
  ASSUME NEW a \in Seq(ArrivalType), NEW e \in ArrivalType, NEW q, q # e.key,
         NEW m \in Uses(a, q, Len(a) + 1), q \notin Between(a, m, Len(a) + 1),
         Cardinality(Between(a, m, Len(a) + 1)) < MaxKeys,
         Cardinality(Between(a, m, Len(a) + 1) \cup {e.key}) < MaxKeys,
         NEW u
  PROVE  Lost(Append(a, e), q, u, Len(a) + 2) <=> Lost(a, q, u, Len(a) + 1)
<1> DEFINE b == Append(a, e)
           n == Len(a) + 1
           U == Uses(a, q, n)
           S == Between(a, m, n)
           T == S \cup {e.key}
<1>0. n + 1 = Len(a) + 2
  OBVIOUS
<1>1. Uses(b, q, n + 1) = U
  BY UsesMore
<1>2. /\ \A x \in 1..n, y \in 1..n : Between(b, x, y) = Between(a, x, y)
      /\ \A x \in 1..n - 1 :
           Between(b, x, n + 1) = Between(a, x, n) \cup {e.key}
  BY BetweenMore
<1>3. n \in Nat /\ U \subseteq 1..n - 1 /\ m \in U /\ \A x \in U : a[x].key = q
  BY DEF Uses
<1>4. S = Between(a, m, n) /\ T = S \cup {e.key} /\ q \notin S
      /\ Cardinality(S) < MaxKeys /\ Cardinality(T) < MaxKeys
  OBVIOUS
<1>5. Cardinality(S) \in Nat /\ Cardinality(T) \in Nat /\ MaxKeys \in Nat
  <2>1. IsFiniteSet(S)
    BY <1>3, BetweenFinite
  <2> HIDE DEF S
  <2> QED BY <2>1, FS_AddElement, FS_CardinalityType, RateAssumption
<1> HIDE DEF b, n, U, S, T
<1>6. ASSUME NEW x \in U, q \notin Between(a, x, n) PROVE x = m
  <2>1. CASE x < m
    <3>1. m \in x + 1..n - 1
      BY <1>3, <2>1
    <3>2. a[m].key \in Between(a, x, n)
      BY <3>1 DEF Between
    <3> QED BY <1>3, <1>6, <3>2
  <2>2. CASE m < x
    <3>1. x \in m + 1..n - 1
      BY <1>3, <2>2
    <3>2. a[x].key \in Between(a, m, n)
      BY <3>1 DEF Between
    <3> QED BY <1>3, <1>4, <3>2
  <2> QED BY <1>3, <2>1, <2>2
<1>7. ASSUME NEW x \in U, NEW y \in U \cup {n + 1}, x < y,
             q \notin Between(b, x, y), Cardinality(Between(b, x, y)) >= MaxKeys
      PROVE  y \in U
  <2> SUFFICES ASSUME y = n + 1 PROVE FALSE
    BY <1>7
  <2>1. Between(b, x, y) = Between(a, x, n) \cup {e.key}
    BY <1>2, <1>3
  <2>2. x = m
    BY <1>6, <1>7, <2>1
  <2>3. Between(b, x, y) = T
    BY <1>4, <2>1, <2>2
  <2>4. Cardinality(T) >= MaxKeys
    BY ONLY <1>7, <2>3
  <2>5. Cardinality(T) < MaxKeys
    BY ONLY <1>4
  <2> QED BY ONLY <1>5, <2>4, <2>5
<1>8. ASSUME NEW x \in U, NEW y \in U \cup {n}, x < y,
             q \notin Between(a, x, y), Cardinality(Between(a, x, y)) >= MaxKeys
      PROVE  y \in U
  <2> SUFFICES ASSUME y = n PROVE FALSE
    BY <1>8
  <2>1. x = m
    BY <1>6, <1>8
  <2> QED BY <1>4, <1>5, <1>8, <2>1
<1>9. \A x \in U, y \in U : Between(b, x, y) = Between(a, x, y)
  BY <1>2, <1>3
<1>10. Lost(b, q, u, n + 1) <=> Lost(a, q, u, n)
  BY <1>1, <1>7, <1>8, <1>9 DEF Lost, U
<1> QED BY <1>0, <1>10 DEF b, n

\* Everything is lost to a key that enough others were used after.
LEMMA AllLost ==
  ASSUME NEW a, NEW n \in Nat, NEW k,
         \A m \in Uses(a, k, n) : k \notin Between(a, m, n) =>
           Cardinality(Between(a, m, n)) >= MaxKeys,
         NEW later
  PROVE  Held(a, k, n, later) = {}
<1> DEFINE U == Uses(a, k, n)
<1> SUFFICES ASSUME NEW u \in U PROVE Lost(a, k, u, n)
  BY DEF Held
<1>1. U \subseteq 1..n - 1 /\ \A m \in 1..n - 1 : a[m].key = k => m \in U
  BY DEF Uses
<1>2. U \in SUBSET (1..n) /\ U # {}
  BY <1>1
<1> HIDE DEF U
<1>3. PICK m \in U : \A i \in U : i <= m
  BY <1>2, GreatestBelow
<1>4. k \notin Between(a, m, n)
  <2> SUFFICES ASSUME NEW i \in m + 1..n - 1, a[i].key = k PROVE FALSE
    BY DEF Between
  <2>1. i \in U /\ ~(i <= m)
    BY <1>1
  <2> QED BY <1>3, <2>1
<1>5. m < n /\ u <= m
  BY <1>1, <1>3
<1> QED BY <1>3, <1>4, <1>5 DEF Lost, U

-----------------------------------------------------------------------------
(* ContentRules: what is remembered is what counts                         *)
\* The history has, in the order of their last uses, the keys used last.
Remembered(h, a) ==
  \A i \in 1..Len(h) :
    \E m \in Uses(a, h[i].key, Len(a) + 1) :
      /\ h[i].key \notin Between(a, m, Len(a) + 1)
      /\ Between(a, m, Len(a) + 1) = KeysAfter(h, i)
Forgotten(h, a) ==
  \A k \in Keys : (\A i \in 1..Len(h) : h[i].key # k) =>
    \A m \in Uses(a, k, Len(a) + 1) :
      k \notin Between(a, m, Len(a) + 1) =>
        Cardinality(Between(a, m, Len(a) + 1)) >= MaxKeys
\* Of each it has the times that count for the next request.
Counted(h, a, now) ==
  \A k \in Keys, later \in Int : later >= now =>
    Cardinality(Held(a, k, Len(a) + 1, later))
      = Cardinality(Lately(Rates!TimesOf(h, k), later))

\* What is remembered of a key is in its entry.
LEMMA TimesIs ==
  ASSUME NEW h \in Seq(EntryType), KeyOnce(h), NEW k
  PROVE  /\ \A i \in 1..Len(h) :
              h[i].key = k => Rates!TimesOf(h, k) = h[i].times
         /\ (\A i \in 1..Len(h) : h[i].key # k) => Rates!TimesOf(h, k) = <<>>
         /\ Rates!TimesOf(h, k) \in Seq(Int)
<1>1. ASSUME NEW i \in 1..Len(h), h[i].key = k
      PROVE  Rates!TimesOf(h, k) = h[i].times /\ h[i].times \in Seq(Int)
  <2>1. Rates!Places(h, k) # {} /\ Rates!Place(h, k) = i
    BY <1>1, PlaceIs
  <2>2. h[i] \in EntryType
    OBVIOUS
  <2> QED BY <2>1, <2>2 DEF Rates!TimesOf, EntryType
<1>2. ASSUME \A i \in 1..Len(h) : h[i].key # k
      PROVE  Rates!TimesOf(h, k) = <<>> /\ Rates!TimesOf(h, k) \in Seq(Int)
  <2>1. DOMAIN h = 1..Len(h)
    OBVIOUS
  <2>2. Rates!TimesOf(h, k) = <<>>
    BY <1>2, <2>1 DEF Rates!TimesOf, Rates!Places
  <2> QED BY <2>2
<1>3. Rates!TimesOf(h, k) \in Seq(Int)
  BY <1>1, <1>2
<1> QED BY <1>1, <1>2, <1>3

\* A key is last used once.
LEMMA LastOnce ==
  ASSUME NEW a, NEW n \in Nat, NEW k,
         NEW x \in Uses(a, k, n), k \notin Between(a, x, n),
         NEW y \in Uses(a, k, n), k \notin Between(a, y, n)
  PROVE  x = y
<1>1. /\ x \in 1..n - 1 /\ a[x].key = k
      /\ y \in 1..n - 1 /\ a[y].key = k
  BY DEF Uses
<1>2. CASE x < y
  <2>1. y \in x + 1..n - 1
    BY <1>1, <1>2
  <2> QED BY <1>1, <2>1 DEF Between
<1>3. CASE y < x
  <2>1. x \in y + 1..n - 1
    BY <1>1, <1>3
  <2> QED BY <1>1, <2>1 DEF Between
<1> QED BY <1>1, <1>2, <1>3

-----------------------------------------------------------------------------
\* A request of a key, and the history after it.
LEMMA RememberedNext ==
  ASSUME NEW a \in Seq(ArrivalType), NEW v \in ArrivalType,
         NEW h \in Seq(EntryType), NEW e \in EntryType, e.key = v.key,
         NEW g, Follows(g, h, e), Remembered(h, a)
  PROVE  Remembered(g, Append(a, v))
<1> DEFINE b == Append(a, v)
           n == Len(a) + 1
           k == v.key
<1>1. /\ g \in Seq(EntryType)
      /\ Len(g) > 0 => g[Len(g)] = e
      /\ \A p \in 1..Len(g) - 1 :
           \E i \in 1..Len(h) : /\ g[p] = h[i] /\ h[i].key # k
                                /\ KeysAfter(g, p) = KeysAfter(h, i) \cup {k}
  BY DEF Follows
<1>2. /\ \A x \in 1..n - 1 :
           Between(b, x, n + 1) = Between(a, x, n) \cup {k}
      /\ Between(b, n, n + 1) = {}
  BY BetweenMore
<1>3. \A q : Uses(b, q, n + 1)
               = Uses(a, q, n) \cup (IF k = q THEN {n} ELSE {})
  BY UsesMore
<1>4. n \in Nat /\ n = Len(a) + 1 /\ Len(b) + 1 = n + 1
  OBVIOUS
<1> HIDE DEF b, n, k
<1> SUFFICES ASSUME NEW p \in 1..Len(g)
             PROVE  \E m \in Uses(b, g[p].key, n + 1) :
                      /\ g[p].key \notin Between(b, m, n + 1)
                      /\ Between(b, m, n + 1) = KeysAfter(g, p)
  BY <1>4 DEF Remembered, b
<1>5. CASE p = Len(g)
  <2>1. g[p].key = k /\ n \in Uses(b, k, n + 1)
    BY <1>1, <1>3, <1>5 DEF k
  <2>2. KeysAfter(g, p) = {}
    <3>1. p + 1..Len(g) = {}
      BY <1>1, <1>5
    <3> QED BY <3>1 DEF KeysAfter
  <2> QED BY <1>2, <2>1, <2>2
<1>6. CASE p # Len(g)
  <2>1. p \in 1..Len(g) - 1
    BY <1>1, <1>6
  <2>2. PICK i \in 1..Len(h) :
          /\ g[p] = h[i] /\ h[i].key # k
          /\ KeysAfter(g, p) = KeysAfter(h, i) \cup {k}
    BY <1>1, <2>1
  <2>3. PICK m \in Uses(a, h[i].key, n) :
          /\ h[i].key \notin Between(a, m, n)
          /\ Between(a, m, n) = KeysAfter(h, i)
    BY <1>4 DEF Remembered
  <2>4. m \in 1..n - 1 /\ m \in Uses(b, h[i].key, n + 1)
    <3> DEFINE q == h[i].key
    <3>1. m \in 1..n - 1
      BY <2>3 DEF Uses
    <3>2. m \in Uses(a, q, n)
      BY <2>3
    <3> HIDE DEF q
    <3>3. m \in Uses(b, q, n + 1)
      BY <1>3, <3>2
    <3> QED BY <3>1, <3>3 DEF q
  <2>5. Between(b, m, n + 1) = KeysAfter(g, p)
    BY <1>2, <2>2, <2>3, <2>4
  <2>6. h[i].key \notin Between(b, m, n + 1)
    BY <1>2, <2>2, <2>3, <2>4
  <2> QED BY <2>2, <2>4, <2>5, <2>6
<1> QED BY <1>5, <1>6

\* A key is left out only when enough others were used after it.
LEMMA ForgottenNext ==
  ASSUME NEW a \in Seq(ArrivalType), NEW v \in ArrivalType,
         NEW h \in Seq(EntryType), NEW e \in EntryType, e.key = v.key,
         NEW g, Follows(g, h, e), Remembered(h, a), Forgotten(h, a)
  PROVE  Forgotten(g, Append(a, v))
<1> DEFINE b == Append(a, v)
           n == Len(a) + 1
           k == v.key
<1>1. /\ g \in Seq(EntryType) /\ KeyOnce(g) /\ MaxKeys \in Nat
      /\ MaxKeys > 0 => Len(g) > 0
      /\ Len(g) > 0 => g[Len(g)] = e
      /\ \A i \in 1..Len(h) : h[i].key # k =>
           \/ \E p \in 1..Len(g) : g[p].key = h[i].key
           \/ Len(g) = MaxKeys /\ KeysAfter(h, i) \cup {k} = KeysAfter(g, 0)
  BY RateAssumption DEF Follows
<1>2. \A x \in 1..n - 1 : Between(b, x, n + 1) = Between(a, x, n) \cup {k}
  BY BetweenMore
<1>3. \A q : Uses(b, q, n + 1)
               = Uses(a, q, n) \cup (IF k = q THEN {n} ELSE {})
  BY UsesMore
<1>4. n \in Nat /\ n = Len(a) + 1 /\ Len(b) + 1 = n + 1
  OBVIOUS
<1>5. e.key = k
  OBVIOUS
<1> HIDE DEF b, n, k
<1> SUFFICES ASSUME NEW q \in Keys, \A p \in 1..Len(g) : g[p].key # q,
                    NEW m \in Uses(b, q, n + 1), q \notin Between(b, m, n + 1)
             PROVE  Cardinality(Between(b, m, n + 1)) >= MaxKeys
  BY <1>4 DEF Forgotten, b
<1>6. Cardinality(Between(b, m, n + 1)) \in Nat
  <2>1. m \in Int /\ n + 1 \in Int
    BY <1>4 DEF Uses
  <2> QED BY <2>1, BetweenFinite
<1>7. CASE q = k
  <2>1. ~(Len(g) > 0)
    <3> SUFFICES ASSUME Len(g) > 0 PROVE FALSE
      OBVIOUS
    <3>1. Len(g) \in 1..Len(g)
      BY <1>1
    <3> QED BY <1>1, <1>5, <1>7, <3>1
  <2> QED BY <1>1, <1>6, <2>1
<1>8. CASE q # k
  <2>1. m \in Uses(a, q, n) /\ m \in 1..n - 1
    BY <1>3, <1>8 DEF Uses
  <2>2. Between(b, m, n + 1) = Between(a, m, n) \cup {k}
    BY <1>2, <2>1
  <2>3. q \notin Between(a, m, n)
    BY <2>2
  <2>4. CASE \A i \in 1..Len(h) : h[i].key # q
    <3>1. Cardinality(Between(a, m, n)) >= MaxKeys
      BY <1>4, <2>1, <2>3, <2>4 DEF Forgotten
    <3>2. Cardinality(Between(a, m, n)) <= Cardinality(Between(b, m, n + 1))
      <4>1. IsFiniteSet(Between(b, m, n + 1))
        BY <1>4, <2>1, BetweenFinite
      <4>2. Between(a, m, n) \subseteq Between(b, m, n + 1)
        BY <2>2
      <4> QED BY ONLY <4>1, <4>2, FS_Subset
    <3>3. Cardinality(Between(a, m, n)) \in Nat
      BY <1>4, <2>1, BetweenFinite
    <3> QED BY <1>1, <1>6, <3>1, <3>2, <3>3
  <2>5. CASE \E i \in 1..Len(h) : h[i].key = q
    <3>1. PICK i \in 1..Len(h) : h[i].key = q
      BY <2>5
    <3>2. PICK x \in Uses(a, q, n) :
            q \notin Between(a, x, n) /\ Between(a, x, n) = KeysAfter(h, i)
      BY <1>4, <3>1 DEF Remembered
    <3>3. x = m
      BY <1>4, <2>1, <2>3, <3>2, LastOnce
    <3>4. Len(g) = MaxKeys /\ KeysAfter(h, i) \cup {k} = KeysAfter(g, 0)
      BY <1>1, <1>8, <3>1
    <3>5. Between(b, m, n + 1) = KeysAfter(g, 0)
      BY <2>2, <3>2, <3>3, <3>4
    <3>6. Cardinality(KeysAfter(g, 0)) = Len(g) - 0
      <4>1. 0 \in 0..Len(g)
        BY <1>1
      <4> QED BY <1>1, <4>1, KeysCounted
    <3> QED BY <1>1, <3>4, <3>5, <3>6
  <2> QED BY <2>4, <2>5
<1> QED BY <1>7, <1>8

\* The counts of another key stay what they were.
LEMMA CountedOther ==
  ASSUME NEW a \in Seq(ArrivalType), NEW v \in ArrivalType,
         NEW h \in Seq(EntryType), KeyOnce(h), Len(h) <= MaxKeys,
         NEW e \in EntryType, e.key = v.key,
         NEW g, Follows(g, h, e), Remembered(h, a), Forgotten(h, a),
         NEW q \in Keys, q # v.key, NEW later \in Int,
         Cardinality(Held(a, q, Len(a) + 1, later))
           = Cardinality(Lately(Rates!TimesOf(h, q), later))
  PROVE  Cardinality(Held(Append(a, v), q, Len(a) + 2, later))
           = Cardinality(Lately(Rates!TimesOf(g, q), later))
<1> DEFINE b == Append(a, v)
           n == Len(a) + 1
           k == v.key
<1>1. /\ g \in Seq(EntryType) /\ KeyOnce(g) /\ MaxKeys \in Nat
      /\ Len(g) <= MaxKeys
      /\ Len(g) > 0 => g[Len(g)] = e
      /\ \A p \in 1..Len(g) - 1 :
           \E i \in 1..Len(h) : /\ g[p] = h[i] /\ h[i].key # k
                                /\ KeysAfter(g, p) = KeysAfter(h, i) \cup {k}
  BY RateAssumption DEF Follows
<1>2. Uses(b, q, n + 1) = Uses(a, q, n)
  <2>1. Uses(b, q, n + 1)
          = Uses(a, q, n) \cup (IF v.key = q THEN {n} ELSE {})
    BY UsesMore
  <2> HIDE DEF b, n
  <2> QED BY <2>1
<1>3. /\ n \in Nat /\ n = Len(a) + 1 /\ Len(b) + 1 = n + 1 /\ n + 1 = Len(a) + 2
      /\ \A m \in 1..n - 1 : b[m] = a[m]
  OBVIOUS
<1>4. CASE \A p \in 1..Len(g) : g[p].key # q
  <2>1. Rates!TimesOf(g, q) = <<>>
    BY <1>1, <1>4, TimesIs
  <2>2. Lately(<<>>, later) = {}
    BY DEF Lately
  <2>3. Forgotten(g, b)
    BY ForgottenNext
  <2> HIDE DEF b, n
  <2>4. \A m \in Uses(b, q, n + 1) : q \notin Between(b, m, n + 1) =>
          Cardinality(Between(b, m, n + 1)) >= MaxKeys
    BY <1>3, <1>4, <2>3 DEF Forgotten
  <2>5. n + 1 \in Nat
    BY <1>3
  <2>6. Held(b, q, n + 1, later) = {}
    BY ONLY <2>4, <2>5, AllLost
  <2> QED BY <1>3, <2>1, <2>2, <2>6 DEF b
<1>5. CASE \E p \in 1..Len(g) : g[p].key = q
  <2>1. PICK p \in 1..Len(g) : g[p].key = q
    BY <1>5
  <2>2. p \in 1..Len(g) - 1
    BY <1>1, <2>1
  <2>3. PICK i \in 1..Len(h) :
          /\ g[p] = h[i] /\ h[i].key # k
          /\ KeysAfter(g, p) = KeysAfter(h, i) \cup {k}
    BY <1>1, <2>2
  <2>4. Rates!TimesOf(g, q) = Rates!TimesOf(h, q)
    <3>1. Rates!TimesOf(g, q) = g[p].times
      BY <1>1, <2>1, TimesIs
    <3>2. Rates!TimesOf(h, q) = h[i].times
      BY <2>1, <2>3, TimesIs
    <3> QED BY <2>3, <3>1, <3>2
  <2>5. PICK m \in Uses(a, q, n) :
          q \notin Between(a, m, n) /\ Between(a, m, n) = KeysAfter(h, i)
    BY <2>1, <2>3 DEF Remembered
  <2>6. Cardinality(KeysAfter(h, i)) = Len(h) - i
    <3>1. i \in 0..Len(h)
      OBVIOUS
    <3> QED BY <3>1, KeysCounted
  <2>7. Cardinality(KeysAfter(h, i) \cup {k}) = Len(g) - p
    <3>1. p \in 0..Len(g)
      BY <1>1
    <3>2. Cardinality(KeysAfter(g, p)) = Len(g) - p
      BY <1>1, <3>1, KeysCounted
    <3> HIDE DEF k
    <3> QED BY <2>3, <3>2
  <2>8. /\ Cardinality(Between(a, m, n)) < MaxKeys
        /\ Cardinality(Between(a, m, n) \cup {k}) < MaxKeys
    <3>1. Len(h) - i < MaxKeys /\ Len(g) - p < MaxKeys
      BY <1>1
    <3> HIDE DEF k, n
    <3> QED BY <2>5, <2>6, <2>7, <3>1
  <2>9. \A u : Lost(b, q, u, Len(a) + 2) <=> Lost(a, q, u, Len(a) + 1)
    BY <2>5, <2>8, LostOther
  <2>10. Held(b, q, n + 1, later) = Held(a, q, n, later)
    <3>1. \A u : Lost(b, q, u, n + 1) <=> Lost(a, q, u, n)
      BY <1>3, <2>9
    <3>2. \A u \in Uses(a, q, n) : b[u] = a[u]
      BY <1>3 DEF Uses
    <3> HIDE DEF b, n
    <3> QED BY <1>2, <3>1, <3>2 DEF Held
  <2> HIDE DEF b, n
  <2> QED BY <1>3, <2>4, <2>10 DEF b
<1> QED BY <1>4, <1>5

\* The request counts for its key from now on, when it was let in.
LEMMA HeldOwn ==
  ASSUME NEW a \in Seq(ArrivalType), NEW v \in ArrivalType, MaxKeys > 0,
         NEW later \in Int
  PROVE  Cardinality(Held(Append(a, v), v.key, Len(a) + 2, later))
           = Cardinality(Held(a, v.key, Len(a) + 1, later))
             + (IF v.allowed /\ later - v.at < RateWindow THEN 1 ELSE 0)
<1> DEFINE b == Append(a, v)
           n == Len(a) + 1
           k == v.key
           H == Held(a, k, n, later)
           I == Held(b, k, n + 1, later)
<1>1. Uses(b, k, n + 1) = Uses(a, k, n) \cup {n}
  BY UsesMore
<1>2. /\ \A u \in Uses(a, k, n) :
           Lost(b, k, u, n + 1) <=> Lost(a, k, u, n)
      /\ ~Lost(b, k, n, n + 1)
  BY LostOwn
<1>3. /\ n \in Nat /\ n + 1 = Len(a) + 2 /\ b[n] = v
      /\ \A m \in 1..n - 1 : b[m] = a[m]
  OBVIOUS
<1> HIDE DEF b, n, k
<1>4. Uses(a, k, n) \subseteq 1..n - 1 /\ n \notin Uses(a, k, n)
  BY <1>3 DEF Uses
<1>5. IsFiniteSet(H) /\ Cardinality(H) \in Nat
  BY <1>3, HeldFinite
<1>6. n \notin H
  BY <1>4 DEF Held
<1>7. CASE v.allowed /\ later - v.at < RateWindow
  <2>1. I = H \cup {n}
    BY <1>1, <1>2, <1>3, <1>4, <1>7 DEF Held
  <2> HIDE DEF H, I
  <2>2. Cardinality(H \cup {n}) = Cardinality(H) + 1
    BY <1>5, <1>6, FS_AddElement
  <2> QED BY <1>3, <1>7, <2>1, <2>2 DEF H, I, b, n, k
<1>8. CASE ~(v.allowed /\ later - v.at < RateWindow)
  <2>1. I = H
    BY <1>1, <1>2, <1>3, <1>4, <1>8 DEF Held
  <2> HIDE DEF H, I
  <2>2. Cardinality(I) = Cardinality(H) + 0
    BY <1>5, <2>1
  <2> QED BY <1>3, <1>8, <2>2 DEF H, I, b, n, k
<1> QED BY <1>7, <1>8

\* Each was let in just when few enough counted.
Admitted(a) ==
  \A n \in 1..Len(a) :
    a[n].allowed <=> Cardinality(Held(a, a[n].key, n, a[n].at)) < RateLimit

\* The count of the key itself follows the request.
LEMMA CountedOwn ==
  ASSUME NEW a \in Seq(ArrivalType), NEW h \in Seq(EntryType),
         KeyOnce(h), Len(h) <= MaxKeys, NEW k \in Keys, NEW now \in Int,
         NEW later \in Int, later >= now,
         NEW allowed \in BOOLEAN, NEW recent,
         recent = Rates!Recent(Rates!TimesOf(h, k), now),
         NEW e, e = [key |-> k,
                     times |-> IF allowed THEN Append(recent, now) ELSE recent],
         NEW g, Follows(g, h, e), Remembered(h, a), Forgotten(h, a),
         Cardinality(Held(a, k, Len(a) + 1, later))
           = Cardinality(Lately(Rates!TimesOf(h, k), later)),
         NEW v, v = [key |-> k, at |-> now, allowed |-> allowed]
  PROVE  Cardinality(Held(Append(a, v), k, Len(a) + 2, later))
           = Cardinality(Lately(Rates!TimesOf(g, k), later))
<1>1. /\ recent \in Seq(Int)
      /\ Cardinality(Lately(recent, later))
           = Cardinality(Lately(Rates!TimesOf(h, k), later))
  <2> DEFINE t == Rates!TimesOf(h, k)
  <2>1. t \in Seq(Int)
    BY TimesIs
  <2> HIDE DEF t
  <2>2. /\ Rates!Recent(t, now) \in Seq(Int)
        /\ Cardinality(Lately(Rates!Recent(t, now), later))
             = Cardinality(Lately(t, later))
    BY <2>1, RecentCounts
  <2> QED BY <2>2 DEF t
<1>2. e.times \in Seq(Int) /\ e \in EntryType /\ e.key = k
  BY <1>1 DEF EntryType
<1>3. v \in ArrivalType /\ v.key = k /\ v.allowed = allowed /\ v.at = now
  BY DEF ArrivalType
<1>4. /\ g \in Seq(EntryType) /\ KeyOnce(g) /\ MaxKeys \in Nat
      /\ Len(g) <= MaxKeys /\ Len(g) \in Nat
      /\ MaxKeys > 0 => Len(g) > 0
      /\ Len(g) > 0 => g[Len(g)] = e
  BY RateAssumption DEF Follows
<1>5. CASE MaxKeys > 0
  <2>1. Rates!TimesOf(g, k) = e.times
    <3>1. Len(g) \in 1..Len(g) /\ g[Len(g)].key = k
      BY <1>2, <1>4, <1>5
    <3> QED BY <1>4, <1>5, <3>1, TimesIs
  <2>2. Cardinality(Lately(e.times, later))
          = Cardinality(Lately(recent, later))
            + (IF allowed /\ later - now < RateWindow THEN 1 ELSE 0)
    <3>1. Cardinality(Lately(recent, later)) \in Nat
      BY <1>1, LatelyFinite
    <3>2. CASE allowed
      <4>1. e.times = Append(recent, now)
        BY <3>2
      <4>2. Cardinality(Lately(Append(recent, now), later))
              = Cardinality(Lately(recent, later))
                + (IF later - now < RateWindow THEN 1 ELSE 0)
        BY <1>1, LatelyAppend
      <4> QED BY <3>2, <4>1, <4>2
    <3>3. CASE ~allowed
      <4>1. e.times = recent
        BY <3>3
      <4> QED BY <3>1, <3>3, <4>1
    <3> QED BY <3>2, <3>3
  <2>3. Cardinality(Held(Append(a, v), k, Len(a) + 2, later))
          = Cardinality(Held(a, k, Len(a) + 1, later))
            + (IF allowed /\ later - now < RateWindow THEN 1 ELSE 0)
    BY <1>3, <1>5, HeldOwn
  <2> QED BY <1>1, <2>1, <2>2, <2>3
<1>6. CASE ~(MaxKeys > 0)
  <2>1. \A i \in 1..Len(g) : g[i].key # k
    BY <1>4, <1>6
  <2>2. Rates!TimesOf(g, k) = <<>>
    BY <1>4, <2>1, TimesIs
  <2>3. Lately(<<>>, later) = {}
    BY DEF Lately
  <2>4. Forgotten(g, Append(a, v))
    BY <1>2, <1>3, ForgottenNext
  <2> DEFINE b == Append(a, v)
             n == Len(a) + 2
  <2>5. Len(b) + 1 = n /\ n \in Nat
    BY <1>3
  <2>6. Forgotten(g, b)
    BY <2>4
  <2> HIDE DEF b, n
  <2>7. \A m \in Uses(b, k, n) : k \notin Between(b, m, n) =>
          Cardinality(Between(b, m, n)) >= MaxKeys
    BY <2>1, <2>5, <2>6 DEF Forgotten
  <2>8. Held(b, k, n, later) = {}
    BY ONLY <2>5, <2>7, AllLost
  <2> QED BY <2>2, <2>3, <2>8 DEF b, n
<1> QED BY <1>5, <1>6

\* A request is let in by what was before it, and changes nothing of that.
LEMMA AdmittedNext ==
  ASSUME NEW a \in Seq(ArrivalType), NEW v \in ArrivalType, Admitted(a),
         v.allowed <=> Cardinality(Held(a, v.key, Len(a) + 1, v.at)) < RateLimit
  PROVE  Admitted(Append(a, v))
<1> DEFINE b == Append(a, v)
           n == Len(a) + 1
<1>1. /\ n \in Nat /\ Len(b) = n /\ n = Len(a) + 1 /\ b[n] = v
      /\ \A i \in 1..n - 1 : b[i] = a[i]
  OBVIOUS
<1>2. ASSUME NEW i \in 1..n, NEW k, NEW later
      PROVE  Held(b, k, i, later) = Held(a, k, i, later)
  BY HeldBefore
<1> HIDE DEF b, n
<1>3. ASSUME NEW i \in 1..n
      PROVE  b[i].allowed
             <=> Cardinality(Held(b, b[i].key, i, b[i].at)) < RateLimit
  <2>1. CASE i = n
    BY <1>1, <1>2, <2>1
  <2>2. CASE i # n
    <3>1. i \in 1..Len(a) /\ b[i] = a[i]
      BY <1>1, <2>2
    <3> QED BY <1>2, <3>1 DEF Admitted
  <2> QED BY <2>1, <2>2
<1> QED BY <1>1, <1>3 DEF Admitted, b

\* The history and the arrivals, related; after each request, for every key.
RatesIInv ==
  stage = "open" =>
    /\ result.now \in Int
    /\ result.history \in Seq(EntryType) /\ KeyOnce(result.history)
    /\ Len(result.history) <= MaxKeys
    /\ result.arrivals \in Seq(ArrivalType)
    /\ Remembered(result.history, result.arrivals)
    /\ Forgotten(result.history, result.arrivals)
    /\ Counted(result.history, result.arrivals, result.now)
    /\ Admitted(result.arrivals)

\* A request keeps all of this: the invariant of the limiter.
LEMMA ArriveKept ==
  ASSUME RatesIInv, NEW key \in Keys, NEW wait \in Waits, Arrive(key, wait)
  PROVE  RatesIInv'
<1> DEFINE h == result.history
           a == result.arrivals
           now == result.now + wait
           times == Rates!TimesOf(h, key)
           recent == Rates!Recent(times, now)
           allowed == Len(recent) < RateLimit
           e == [key |-> key,
                 times |-> IF allowed THEN Append(recent, now) ELSE recent]
           g == Rates!Remember(h, e)
           v == [key |-> key, at |-> now, allowed |-> allowed]
           b == Append(a, v)
<1>1. /\ stage = "open" /\ result.now \in Int
      /\ h \in Seq(EntryType) /\ KeyOnce(h) /\ Len(h) <= MaxKeys
      /\ a \in Seq(ArrivalType)
      /\ Remembered(h, a) /\ Forgotten(h, a) /\ Counted(h, a, result.now)
      /\ Admitted(a)
  BY DEF RatesIInv, Arrive
<1>2. /\ stage' = "open"
      /\ result' = [now |-> now, history |-> g, arrivals |-> b]
  BY DEF Arrive, Yield, Rates!Allow
<1>3. now \in Int /\ now >= result.now
  BY <1>1, RateAssumption
<1>4. times \in Seq(Int)
  BY <1>1, TimesIs
<1> HIDE DEF h, a, times, now
<1>5. recent \in Seq(Int) /\ Len(recent) = Cardinality(Lately(times, now))
  BY <1>3, <1>4, RecentCounts
<1> HIDE DEF recent
<1>6. allowed \in BOOLEAN
  OBVIOUS
<1>7. Cardinality(Held(a, key, Len(a) + 1, now))
        = Cardinality(Lately(times, now))
  BY <1>1, <1>3 DEF Counted, times
<1>8. v.allowed <=> Cardinality(Held(a, key, Len(a) + 1, now)) < RateLimit
  BY <1>5, <1>7
<1>9. e \in EntryType /\ e.key = key
  BY <1>3, <1>5 DEF EntryType
<1>10. v \in ArrivalType /\ v.key = key /\ v.at = now
  BY <1>3, <1>6 DEF ArrivalType
<1> HIDE DEF allowed
<1>11. Follows(g, h, e)
  <2> HIDE DEF e
  <2> QED BY <1>1, <1>9, RememberFollows
<1>12. Remembered(g, b)
  <2> HIDE DEF e, v, g
  <2> QED BY <1>1, <1>9, <1>10, <1>11, RememberedNext
<1>13. Forgotten(g, b)
  <2> HIDE DEF e, v, g
  <2> QED BY <1>1, <1>9, <1>10, <1>11, ForgottenNext
<1>14. Counted(g, b, now)
  <2> SUFFICES ASSUME NEW q \in Keys, NEW later \in Int, later >= now
               PROVE  Cardinality(Held(b, q, Len(a) + 2, later))
                        = Cardinality(Lately(Rates!TimesOf(g, q), later))
    <3>1. Len(b) + 1 = Len(a) + 2
      BY <1>1, <1>10
    <3> HIDE DEF b, g
    <3> QED BY <3>1 DEF Counted
  <2>1. Cardinality(Held(a, q, Len(a) + 1, later))
          = Cardinality(Lately(Rates!TimesOf(h, q), later))
    BY <1>1, <1>3 DEF Counted
  <2>3. later \in Int /\ later >= now /\ key \in Keys
    OBVIOUS
  <2>2. CASE q = key
    <3>1. /\ e = [key |-> key,
                  times |-> IF allowed THEN Append(recent, now) ELSE recent]
          /\ v = [key |-> key, at |-> now, allowed |-> allowed]
          /\ recent = Rates!Recent(Rates!TimesOf(h, key), now)
      BY DEF recent, times
    <3>2. Cardinality(Held(a, key, Len(a) + 1, later))
            = Cardinality(Lately(Rates!TimesOf(h, key), later))
      BY <2>1, <2>2
    <3> HIDE DEF e, v, g
    <3>3. Cardinality(Held(Append(a, v), key, Len(a) + 2, later))
            = Cardinality(Lately(Rates!TimesOf(g, key), later))
      BY ONLY <1>1, <1>3, <1>6, <1>11, <2>3, <3>1, <3>2, CountedOwn,
              SMTT(30)
    <3> QED BY <2>2, <3>3
  <2>4. CASE q # key
    <3> HIDE DEF e, v, g
    <3> QED BY <1>1, <1>9, <1>10, <1>11, <2>1, <2>4, CountedOther
  <2> QED BY <2>2, <2>4
<1>15. Admitted(b)
  <2> HIDE DEF v
  <2> QED BY <1>1, <1>8, <1>10, AdmittedNext
<1>16. /\ g \in Seq(EntryType) /\ KeyOnce(g) /\ Len(g) <= MaxKeys
  BY <1>11 DEF Follows
<1>17. b \in Seq(ArrivalType)
  BY <1>1, <1>10
<1> HIDE DEF g, b
<1> QED BY <1>2, <1>3, <1>12, <1>13, <1>14, <1>15, <1>16, <1>17 DEF RatesIInv

\* However many requests come, of whichever keys and however long apart, the
\* history has what counts of them.
THEOREM RatesInvariance == ContentSpec => []RatesIInv
<1>1. ContentInit => RatesIInv
  <2> SUFFICES ASSUME stage = "open",
                      result = [now |-> 0, history |-> <<>>, arrivals |-> <<>>]
               PROVE  RatesIInv
    BY DEF ContentInit, RatesIInv
  <2>1. /\ <<>> \in Seq(EntryType) /\ <<>> \in Seq(ArrivalType) /\ Len(<<>>) = 0
        /\ MaxKeys \in Nat
    BY RateAssumption
  <2>2. KeyOnce(<<>>) /\ Remembered(<<>>, <<>>) /\ Admitted(<<>>)
    BY DEF KeyOnce, Remembered, Admitted
  <2>3. \A k : Uses(<<>>, k, 1) = {}
    BY DEF Uses
  <2>4. Forgotten(<<>>, <<>>)
    BY <2>3 DEF Forgotten
  <2>5. Counted(<<>>, <<>>, 0)
    <3>1. ASSUME NEW k, NEW later \in Int
          PROVE  /\ Held(<<>>, k, 1, later) = {}
                 /\ Lately(Rates!TimesOf(<<>>, k), later) = {}
      <4>1. Rates!TimesOf(<<>>, k) = <<>>
        BY DEF Rates!TimesOf, Rates!Places
      <4> QED BY <2>3, <4>1 DEF Held, Lately
    <3>2. Len(<<>>) + 1 = 1
      OBVIOUS
    <3> QED BY <3>1, <3>2 DEF Counted
  <2> QED BY <2>1, <2>2, <2>4, <2>5 DEF RatesIInv
<1>2. RatesIInv /\ [ContentNext]_contentVars => RatesIInv'
  <2> SUFFICES ASSUME RatesIInv, [ContentNext]_contentVars PROVE RatesIInv'
    OBVIOUS
  <2>1. ASSUME NEW key \in Keys, NEW wait \in Waits, Arrive(key, wait)
        PROVE  RatesIInv'
    BY <2>1, ArriveKept
  <2>2. CASE UNCHANGED contentVars
    BY <2>2 DEF contentVars, RatesIInv
  <2>3. ASSUME stage' # "open" PROVE RatesIInv'
    BY <2>3 DEF RatesIInv
  <2> QED BY <2>1, <2>2, <2>3
          DEF ContentNext, Query, QueryFails, Resolve, NothingFound, Unusable,
              Chosen, Load, Refuse, Process, Match, Infer, ApplyPolicy, Signal,
              Annotate, Yield
<1> QED BY <1>1, <1>2, PTL DEF ContentSpec

\* A request is refused just when its key was admitted as often as may be within
\* the window, not counting what had to be forgotten.
THEOREM AdmissionsAccounted == ContentSpec => []RatesKept
<1>1. RatesIInv => RatesKept
  <2> SUFFICES ASSUME RatesIInv, stage = "open",
                      NEW n \in DOMAIN result.arrivals
               PROVE  LET a == result.arrivals
                          uses == {m \in 1..n : a[m].key = a[n].key}
                          between(x, y) == {a[m].key : m \in x + 1..y - 1}
                          forgotten(m) ==
                            \E x, y \in uses :
                              /\ m <= x /\ x < y
                              /\ a[n].key \notin between(x, y)
                              /\ Cardinality(between(x, y)) >= MaxKeys
                          counted == {m \in uses \ {n} :
                                        /\ a[m].allowed
                                        /\ a[n].at - a[m].at < RateWindow
                                        /\ ~forgotten(m)} IN
                      a[n].allowed <=> Cardinality(counted) < RateLimit
    BY DEF RatesKept
  <2> DEFINE a == result.arrivals
             k == a[n].key
             uses == {m \in 1..n : a[m].key = k}
             forgotten(m) ==
               \E x, y \in uses :
                 /\ m <= x /\ x < y
                 /\ k \notin Between(a, x, y)
                 /\ Cardinality(Between(a, x, y)) >= MaxKeys
             counted == {m \in uses \ {n} :
                           /\ a[m].allowed
                           /\ a[n].at - a[m].at < RateWindow
                           /\ ~forgotten(m)}
  <2>1. a \in Seq(ArrivalType) /\ Admitted(a)
    BY DEF RatesIInv
  <2>2. n \in 1..Len(a) /\ DOMAIN a = 1..Len(a)
    BY <2>1
  <2>3. uses = Uses(a, k, n) \cup {n} /\ n \notin Uses(a, k, n)
        /\ \A m \in Uses(a, k, n) : m \in Int /\ m < n
    BY <2>2 DEF Uses
  <2>4. ASSUME NEW m PROVE forgotten(m) <=> Lost(a, k, m, n)
    <3> HIDE DEF a, k, uses
    <3> QED BY <2>2, <2>3 DEF Lost
  <2>5. counted = Held(a, k, n, a[n].at)
    <3> HIDE DEF a, k, uses, forgotten
    <3> QED BY <2>3, <2>4 DEF Held
  <2>6. a[n].allowed <=> Cardinality(counted) < RateLimit
    <3> HIDE DEF counted
    <3> QED BY <2>1, <2>2, <2>5 DEF Admitted
  <2> QED BY <2>6 DEF Between
<1> QED BY <1>1, RatesInvariance, PTL

-----------------------------------------------------------------------------
(* ContentRules: lists that grow by the elements of another one            *)

\* A list that grows by the elements of another one, each if T has it for what
\* there is.
Grown(s, T, f, n) ==
  /\ f[0] = <<>>
  /\ \A i \in 1..n :
       f[i] = IF <<f[i - 1], i>> \in T THEN Append(f[i - 1], s[i]) ELSE f[i - 1]

\* There is one, for each list of elements of a set.
LEMMA GrownExists ==
  ASSUME NEW S, NEW n \in Nat, NEW s, \A i \in 1..n : s[i] \in S, NEW T
  PROVE  \E f \in [0..n -> Seq(S)] : Grown(s, T, f, n)
<1> DEFINE P(k) == \E f \in [0..k -> Seq(S)] : Grown(s, T, f, k)
           D == {k \in 0..n : ~P(k)}
<1>1. P(0)
  <2>1. [i \in 0..0 |-> <<>>] \in [0..0 -> Seq(S)]
    OBVIOUS
  <2>2. Grown(s, T, [i \in 0..0 |-> <<>>], 0)
    BY DEF Grown
  <2> QED BY <2>1, <2>2
<1>2. ASSUME NEW k \in 0..n, k < n, P(k) PROVE P(k + 1)
  <2>1. PICK f \in [0..k -> Seq(S)] : Grown(s, T, f, k)
    BY <1>2
  <2>2. k \in Nat /\ k + 1 \in 1..n /\ k \in 0..k
    BY <1>2
  <2> DEFINE step == IF <<f[k], k + 1>> \in T THEN Append(f[k], s[k + 1])
                     ELSE f[k]
             g == [i \in 0..(k + 1) |-> IF i = k + 1 THEN step ELSE f[i]]
  <2>3. step \in Seq(S)
    <3>1. f[k] \in Seq(S) /\ s[k + 1] \in S
      BY <2>2
    <3> QED BY <3>1
  <2> HIDE DEF step
  <2>4. g \in [0..(k + 1) -> Seq(S)]
    BY <2>2, <2>3
  <2>5. g[0] = <<>>
    BY <2>1, <2>2 DEF Grown
  <2>6. ASSUME NEW i \in 1..(k + 1)
        PROVE  g[i] = IF <<g[i - 1], i>> \in T THEN Append(g[i - 1], s[i])
                      ELSE g[i - 1]
    <3>1. CASE i = k + 1
      <4>1. g[i] = step /\ g[i - 1] = f[k]
        BY <2>2, <3>1
      <4> HIDE DEF g
      <4> QED BY <3>1, <4>1 DEF step
    <3>2. CASE i # k + 1
      <4>1. /\ i \in 1..k /\ i \in 0..(k + 1)
            /\ i - 1 \in 0..(k + 1) /\ i - 1 # k + 1
        BY <2>2, <3>2
      <4>2. g[i] = f[i] /\ g[i - 1] = f[i - 1]
        BY <3>2, <4>1
      <4> HIDE DEF g
      <4> QED BY <2>1, <4>1, <4>2 DEF Grown
    <3> QED BY <3>1, <3>2
  <2>7. Grown(s, T, g, k + 1)
    <3> HIDE DEF g
    <3> QED BY <2>5, <2>6 DEF Grown
  <2> QED BY <2>4, <2>7
<1>3. D = {}
  <2> HIDE DEF P
  <2>1. D \in SUBSET (0..n) /\ 0 \notin D
    BY <1>1
  <2>2. ASSUME NEW k \in 0..n, k < n, k \notin D PROVE k + 1 \notin D
    BY <1>2, <2>2
  <2> HIDE DEF D
  <2> QED BY <2>1, <2>2, NoneFails
<1>4. P(n)
  <2> HIDE DEF P
  <2> QED BY <1>3
<1> QED BY <1>4

\* What it comes to is drawn from the places g of s, in their order: those that
\* T has.
Draws(k, s, T, f, m, g) ==
  /\ g \in [1..Len(k) -> 1..m]
  /\ \A a, b \in 1..Len(k) : a < b => g[a] < g[b]
  /\ \A a \in 1..Len(k) : k[a] = s[g[a]] /\ <<f[g[a] - 1], g[a]>> \in T
  /\ \A i \in 1..m : <<f[i - 1], i>> \in T => \E a \in 1..Len(k) : g[a] = i

\* Whatever T is, a list that grows like that is drawn from s.
LEMMA GrownDraws ==
  ASSUME NEW S, NEW n \in Nat, NEW s, NEW T, NEW f \in [0..n -> Seq(S)],
         Grown(s, T, f, n), NEW m \in 0..n
  PROVE  \E g : Draws(f[m], s, T, f, m, g)
<1> DEFINE Good(k) == \E g : Draws(f[k], s, T, f, k, g)
           D == {k \in 0..n : ~Good(k)}
<1>1. Good(0)
  <2>1. f[0] = <<>>
    BY DEF Grown
  <2>2. Draws(<<>>, s, T, f, 0, <<>>)
    BY DEF Draws
  <2> QED BY <2>1, <2>2
<1>2. ASSUME NEW k \in 0..n, k < n, Good(k) PROVE Good(k + 1)
  <2>1. PICK g : Draws(f[k], s, T, f, k, g)
    BY <1>2
  <2> DEFINE l == Len(f[k])
             m1 == k + 1
  <2>2. /\ m1 \in 1..n /\ m1 - 1 = k /\ k \in Nat /\ l \in Nat
        /\ f[k] \in Seq(S) /\ m1 \in 0..n
    BY <1>2
  <2>3. /\ g \in [1..l -> 1..k]
        /\ \A a, b \in 1..l : a < b => g[a] < g[b]
        /\ \A a \in 1..l : f[k][a] = s[g[a]] /\ <<f[g[a] - 1], g[a]>> \in T
        /\ \A i \in 1..k : <<f[i - 1], i>> \in T => \E a \in 1..l : g[a] = i
    BY <2>1 DEF Draws
  <2> HIDE DEF m1
  <2>4. f[m1] = IF <<f[k], m1>> \in T THEN Append(f[k], s[m1]) ELSE f[k]
    BY <2>2 DEF Grown
  <2>5. 1..m1 = (1..k) \cup {m1}
    BY <2>2 DEF m1
  <2>6. CASE <<f[k], m1>> \in T
    <3> DEFINE h == [a \in 1..l + 1 |-> IF a = l + 1 THEN m1 ELSE g[a]]
    <3>1. f[m1] \in Seq(S)
      BY <2>2
    <3>2. /\ Len(f[m1]) = l + 1 /\ f[m1][l + 1] = s[m1]
          /\ \A a \in 1..l : f[m1][a] = f[k][a]
      <4>1. f[m1] = Append(f[k], s[m1])
        BY <2>4, <2>6
      <4> QED BY <2>2, <4>1
    <3> HIDE DEF l
    <3>3. /\ 1..l + 1 = (1..l) \cup {l + 1} /\ l + 1 \notin 1..l
          /\ l + 1 \in 1..l + 1
      BY <2>2
    <3>4. h[l + 1] = m1 /\ \A a \in 1..l : h[a] = g[a]
      BY <2>2, <3>3
    <3>5. h \in [1..l + 1 -> 1..m1]
      BY <2>2, <2>3, <2>5, <3>3
    <3> HIDE DEF h
    <3>6. ASSUME NEW a \in 1..l + 1, NEW b \in 1..l + 1, a < b
          PROVE  h[a] < h[b]
      <4>1. a \in 1..l
        BY <2>2, <3>6
      <4>2. CASE b = l + 1
        <5>1. g[a] \in 1..k
          BY <2>3, <4>1
        <5> QED BY <2>2, <3>4, <4>1, <4>2, <5>1
      <4>3. CASE b # l + 1
        <5>1. b \in 1..l
          BY <2>2, <4>3
        <5> QED BY <2>3, <3>4, <3>6, <4>1, <5>1
      <4> QED BY <4>2, <4>3
    <3>7. ASSUME NEW a \in 1..l + 1
          PROVE  f[m1][a] = s[h[a]] /\ <<f[h[a] - 1], h[a]>> \in T
      <4>1. CASE a = l + 1
        BY <2>2, <2>6, <3>2, <3>4, <4>1
      <4>2. CASE a # l + 1
        <5>1. a \in 1..l
          BY <3>3, <4>2
        <5> QED BY <2>3, <3>2, <3>4, <5>1
      <4> QED BY <4>1, <4>2
    <3>8. ASSUME NEW i \in 1..m1, <<f[i - 1], i>> \in T
          PROVE  \E a \in 1..l + 1 : h[a] = i
      <4>1. CASE i = m1
        BY <3>3, <3>4, <4>1
      <4>2. CASE i # m1
        <5>1. i \in 1..k
          BY <2>5, <4>2
        <5>2. PICK a \in 1..l : g[a] = i
          BY <2>3, <3>8, <5>1
        <5> QED BY <3>3, <3>4, <5>2
      <4> QED BY <4>1, <4>2
    <3>9. Draws(f[m1], s, T, f, m1, h)
      BY <3>2, <3>5, <3>6, <3>7, <3>8 DEF Draws
    <3> QED BY <3>9 DEF m1
  <2>7. CASE <<f[k], m1>> \notin T
    <3>1. f[m1] = f[k]
      BY <2>4, <2>7
    <3>2. ASSUME NEW i \in 1..m1, <<f[i - 1], i>> \in T
          PROVE  \E a \in 1..l : g[a] = i
      <4>1. i # m1
        BY <2>2, <2>7, <3>2
      <4>2. i \in 1..k
        BY <2>5, <4>1
      <4> QED BY <2>3, <3>2, <4>2
    <3>3. g \in [1..l -> 1..m1]
      BY <2>3, <2>5
    <3>4. Draws(f[m1], s, T, f, m1, g)
      BY <2>3, <3>1, <3>2, <3>3 DEF Draws
    <3> QED BY <3>4 DEF m1
  <2> QED BY <2>6, <2>7
<1>3. D = {}
  <2> HIDE DEF Good
  <2>1. D \in SUBSET (0..n) /\ 0 \notin D
    BY <1>1
  <2>2. ASSUME NEW k \in 0..n, k < n, k \notin D PROVE k + 1 \notin D
    BY <1>2, <2>2
  <2> HIDE DEF D
  <2> QED BY <2>1, <2>2, NoneFails
<1>4. Good(m)
  <2> HIDE DEF Good
  <2> QED BY <1>3
<1> QED BY <1>4

\* Elements of s, in their order: of the places g.
Drawn(k, s, g) ==
  /\ g \in [1..Len(k) -> 1..Len(s)]
  /\ \A a, b \in 1..Len(k) : a < b => g[a] < g[b]
  /\ \A a \in 1..Len(k) : k[a] = s[g[a]]

\* Picked grows by the elements at its places.
LEMMA PickedDrawn ==
  ASSUME NEW S, NEW s \in Seq(S), NEW places
  PROVE  LET k == Media!Picked(s, places) IN
         /\ k \in Seq(S)
         /\ \E g : /\ Drawn(k, s, g)
                   /\ \A a \in 1..Len(k) : g[a] \in places
                   /\ \A i \in 1..Len(s) \cap places :
                        \E a \in 1..Len(k) : g[a] = i
<1> DEFINE n == Len(s)
           T == {<<k, i>> : k \in Seq(S), i \in places}
           Body(g) == [i \in 0..n |->
                         IF i = 0 THEN <<>>
                         ELSE IF i \in places THEN Append(g[i - 1], s[i])
                              ELSE g[i - 1]]
           kept == CHOOSE g : g = Body(g)
<1>1. n \in Nat /\ \A i \in 1..n : s[i] \in S
  OBVIOUS
<1> HIDE DEF n, T
<1>2. PICK f \in [0..n -> Seq(S)] : Grown(s, T, f, n)
  BY <1>1, GrownExists
<1>3. ASSUME NEW i \in 1..n
      PROVE  /\ i \in 0..n /\ i - 1 \in 0..n /\ i # 0
             /\ <<f[i - 1], i>> \in T <=> i \in places
  <2>1. i \in 0..n /\ i - 1 \in 0..n /\ i # 0
    BY <1>1
  <2>2. f[i - 1] \in Seq(S)
    BY <2>1
  <2> QED BY <2>1, <2>2 DEF T
<1>4. f = Body(f)
  <2>1. ASSUME NEW i \in 0..n
        PROVE  f[i] = IF i = 0 THEN <<>>
                      ELSE IF i \in places THEN Append(f[i - 1], s[i])
                           ELSE f[i - 1]
    <3>1. CASE i = 0
      BY <1>2, <3>1 DEF Grown
    <3>2. CASE i # 0
      <4>1. i \in 1..n
        BY <1>1, <3>2
      <4> QED BY <1>2, <1>3, <3>2, <4>1 DEF Grown
    <3> QED BY <3>1, <3>2
  <2> QED BY <2>1
<1>5. kept = Body(kept)
  BY <1>4
<1>6. Media!Picked(s, places) = kept[n]
  BY DEF Media!Picked, n
<1> HIDE DEF kept
<1> DEFINE D == {i \in 0..n : kept[i] # f[i]}
<1>7. D = {}
  <2>1. D \in SUBSET (0..n)
    OBVIOUS
  <2>2. 0 \notin D
    <3>1. kept[0] = <<>> /\ f[0] = <<>>
      BY <1>1, <1>2, <1>5 DEF Grown
    <3> QED BY <3>1
  <2>3. ASSUME NEW k \in 0..n, k < n, k \notin D PROVE k + 1 \notin D
    <3> DEFINE m == k + 1
    <3>1. m \in 1..n /\ m - 1 = k /\ kept[k] = f[k]
      BY <1>1, <2>3
    <3> HIDE DEF m, D
    <3>2. kept[m] = IF m \in places THEN Append(kept[m - 1], s[m])
                    ELSE kept[m - 1]
      BY <1>3, <1>5, <3>1
    <3>3. f[m] = IF m \in places THEN Append(f[m - 1], s[m]) ELSE f[m - 1]
      BY <1>2, <1>3, <3>1 DEF Grown
    <3>4. kept[m] = f[m]
      BY <3>1, <3>2, <3>3
    <3> QED BY <3>4 DEF m, D
  <2> HIDE DEF D
  <2> QED BY <1>1, <2>1, <2>2, <2>3, NoneFails
<1>8. n \in 0..n
  BY <1>1
<1>9. kept[n] = f[n] /\ f[n] \in Seq(S)
  BY <1>7, <1>8
<1>10. PICK g : Draws(f[n], s, T, f, n, g)
  BY <1>1, <1>2, <1>8, GrownDraws
<1>11. /\ Drawn(f[n], s, g)
       /\ \A a \in 1..Len(f[n]) : g[a] \in places
       /\ \A i \in 1..Len(s) \cap places :
            \E a \in 1..Len(f[n]) : g[a] = i
  <2>1. /\ g \in [1..Len(f[n]) -> 1..n]
        /\ \A a, b \in 1..Len(f[n]) : a < b => g[a] < g[b]
        /\ \A a \in 1..Len(f[n]) : /\ f[n][a] = s[g[a]]
                                   /\ <<f[g[a] - 1], g[a]>> \in T
        /\ \A i \in 1..n : <<f[i - 1], i>> \in T =>
             \E a \in 1..Len(f[n]) : g[a] = i
    BY <1>10 DEF Draws
  <2> QED BY <1>3, <2>1 DEF Drawn, n
<1> QED BY <1>6, <1>9, <1>11

-----------------------------------------------------------------------------
(* ContentRules: what the image detector finds                             *)

\* The operators of the community modules are the same in every module.
LEMMA SameSize == \A S : Media!Cardinality(S) = Cardinality(S)
  BY DEF Media!Cardinality, Cardinality
LEMMA SameExtremes == \A S : Media!Max(S) = Max(S) /\ Media!Min(S) = Min(S)
  BY DEF Media!Max, Max, Media!Min, Min

DetectionType ==
  [class : Range(ClassNames), confidence : Int, box : [1..4 -> Int]]
Descending(s) ==
  \A p, q \in 1..Len(s) : p < q => s[p].confidence >= s[q].confidence

\* The place of an element is told by how many come before it.
LEMMA SortedIs ==
  ASSUME NEW ds \in Seq(DetectionType)
  PROVE  LET s == Media!ByConfidence(ds)
             n == Len(ds) IN
         /\ s \in Seq(DetectionType) /\ Len(s) = n /\ Descending(s)
         /\ \E h \in [1..n -> 1..n] :
              /\ \A p, q \in 1..n : h[p] = h[q] => p = q
              /\ \A p \in 1..n : s[p] = ds[h[p]]
              /\ \A i \in 1..n : \E p \in 1..n : h[p] = i
<1> DEFINE n == Len(ds)
           before(i, j) == Media!Before(ds, i, j)
           B(i) == {j \in 1..n : before(j, i)}
           pl == [i \in 1..n |-> 1 + Cardinality(B(i))]
           h == [p \in 1..n |-> Media!AtPlace(ds, p)]
           s == [p \in 1..n |-> ds[h[p]]]
<1>1. /\ n \in Nat /\ DOMAIN ds = 1..n
      /\ \A i \in 1..n : ds[i] \in DetectionType
  OBVIOUS
<1>2. \A i \in 1..n : ds[i].confidence \in Int
  BY <1>1 DEF DetectionType
<1>3. Media!ByConfidence(ds) = s
  BY <1>1 DEF Media!ByConfidence
<1>b. \A i, j : before(i, j) <=>
       \/ ds[i].confidence > ds[j].confidence
       \/ ds[i].confidence = ds[j].confidence /\ i < j
  BY DEF Media!Before
<1>p. ASSUME NEW i \in 1..n PROVE Media!Place(ds, i) = pl[i]
  <2>1. Media!Place(ds, i) = 1 + Media!Cardinality(B(i))
    BY <1>1 DEF Media!Place
  <2> HIDE DEF B
  <2> QED BY <2>1, SameSize
<1> HIDE DEF before
<1>4. /\ \A i, j \in 1..n : i # j => before(i, j) \/ before(j, i)
      /\ \A i, j, k \in 1..n : before(k, i) /\ before(i, j) => before(k, j)
      /\ \A i \in 1..n : ~before(i, i)
  <2> HIDE DEF n
  <2>1. ASSUME NEW i \in 1..n, NEW j \in 1..n, i # j
        PROVE  before(i, j) \/ before(j, i)
    <3>1. ds[i].confidence \in Int /\ ds[j].confidence \in Int
      BY <1>2
    <3>2. i \in Int /\ j \in Int
      OBVIOUS
    <3> QED BY <1>b, <2>1, <3>1, <3>2
  <2>2. ASSUME NEW i \in 1..n, NEW j \in 1..n, NEW k \in 1..n,
               before(k, i), before(i, j)
        PROVE  before(k, j)
    <3>1. /\ ds[i].confidence \in Int /\ ds[j].confidence \in Int
          /\ ds[k].confidence \in Int
      BY <1>2
    <3>2. i \in Int /\ j \in Int /\ k \in Int
      OBVIOUS
    <3> QED BY <1>b, <2>2, <3>1, <3>2
  <2>3. ASSUME NEW i \in 1..n PROVE ~before(i, i)
    <3>1. ds[i].confidence \in Int
      BY <1>2
    <3>2. i \in Int
      OBVIOUS
    <3> QED BY <1>b, <3>1, <3>2
  <2> HIDE DEF before
  <2> QED BY <2>1, <2>2, <2>3
<1> HIDE DEF n
<1>5. IsFiniteSet(1..n) /\ Cardinality(1..n) = n
  <2>1. 1 \in Int /\ n \in Int
    BY <1>1
  <2>2. Cardinality(1..n) = IF 1 > n THEN 0 ELSE n - 1 + 1
    BY <2>1, FS_Interval
  <2> QED BY <1>1, <2>1, <2>2, FS_Interval
<1>6. ASSUME NEW i \in 1..n
      PROVE  /\ IsFiniteSet(B(i)) /\ Cardinality(B(i)) \in Nat
             /\ IsFiniteSet(B(i) \cup {i})
             /\ Cardinality(B(i) \cup {i}) = Cardinality(B(i)) + 1
  <2>1. B(i) \subseteq 1..n /\ i \notin B(i)
    BY <1>4
  <2> HIDE DEF B
  <2>2. IsFiniteSet(B(i))
    BY ONLY <1>5, <2>1, FS_Subset
  <2> QED BY <2>1, <2>2, FS_AddElement, FS_CardinalityType
<1>7. ASSUME NEW i \in 1..n, NEW j \in 1..n, before(i, j)
      PROVE  pl[i] < pl[j]
  <2>1. B(i) \cup {i} \subseteq B(j)
    BY <1>4, <1>7
  <2>2. pl[i] = 1 + Cardinality(B(i)) /\ pl[j] = 1 + Cardinality(B(j))
    OBVIOUS
  <2> HIDE DEF B, pl
  <2>3. Cardinality(B(i) \cup {i}) <= Cardinality(B(j))
    BY <1>6, <2>1, FS_Subset
  <2>4. /\ Cardinality(B(i)) \in Nat /\ Cardinality(B(j)) \in Nat
        /\ Cardinality(B(i) \cup {i}) = Cardinality(B(i)) + 1
    BY <1>6
  <2> QED BY ONLY <2>2, <2>3, <2>4
<1>8. ASSUME NEW i \in 1..n PROVE pl[i] \in 1..n
  <2>1. B(i) \cup {i} \subseteq 1..n
    OBVIOUS
  <2>2. pl[i] = 1 + Cardinality(B(i))
    OBVIOUS
  <2> HIDE DEF B, pl
  <2>3. Cardinality(B(i) \cup {i}) <= Cardinality(1..n)
    BY <1>5, <2>1, FS_Subset
  <2>4. /\ Cardinality(B(i)) \in Nat
        /\ Cardinality(B(i) \cup {i}) = Cardinality(B(i)) + 1
    BY <1>6
  <2>5. pl[i] <= n /\ pl[i] >= 1 /\ pl[i] \in Int
    BY ONLY <1>5, <2>2, <2>3, <2>4
  <2> QED BY ONLY <1>1, <2>5
<1>9. \A i, j \in 1..n : pl[i] = pl[j] => i = j
  <2> SUFFICES ASSUME NEW i \in 1..n, NEW j \in 1..n, pl[i] = pl[j], i # j
               PROVE  FALSE
    OBVIOUS
  <2>1. pl[i] \in Int /\ pl[j] \in Int
    BY <1>8
  <2>2. pl[i] < pl[j] \/ pl[j] < pl[i]
    <3> HIDE DEF pl
    <3> QED BY <1>4, <1>7
  <2> HIDE DEF pl
  <2> QED BY <2>1, <2>2
<1>10. \A p \in 1..n : \E i \in 1..n : pl[i] = p
  <2>1. pl \in [1..n -> 1..n]
    <3>1. pl = [i \in 1..n |-> pl[i]]
      OBVIOUS
    <3> HIDE DEF pl
    <3> QED BY <1>8, <3>1
  <2> HIDE DEF pl
  <2>2. pl \in Injection(1..n, 1..n)
    BY <1>9, <2>1 DEF Injection, IsInjective
  <2>3. pl \in Surjection(1..n, 1..n)
    BY <1>5, <2>2, FS_Injection
  <2> QED BY <2>3 DEF Surjection
<1>11. ASSUME NEW p \in 1..n PROVE h[p] \in 1..n /\ pl[h[p]] = p
  <2>1. h[p] = Media!AtPlace(ds, p)
    OBVIOUS
  <2> HIDE DEF h, pl
  <2>2. PICK i \in 1..n : pl[i] = p
    BY <1>10
  <2>3. i \in DOMAIN ds /\ Media!Place(ds, i) = p
    BY <1>1, <1>p, <2>2
  <2>4. /\ Media!AtPlace(ds, p) \in DOMAIN ds
        /\ Media!Place(ds, Media!AtPlace(ds, p)) = p
    BY <2>3 DEF Media!AtPlace
  <2> QED BY <1>1, <1>p, <2>1, <2>4
<1>12. h \in [1..n -> 1..n]
  <2>1. h = [p \in 1..n |-> h[p]]
    OBVIOUS
  <2> HIDE DEF h, pl
  <2> QED BY <1>11, <2>1
<1> HIDE DEF h, pl, B
<1>13. \A p, q \in 1..n : h[p] = h[q] => p = q
  <2> SUFFICES ASSUME NEW p \in 1..n, NEW q \in 1..n, h[p] = h[q]
               PROVE  p = q
    OBVIOUS
  <2> QED BY <1>11
<1>14. \A i \in 1..n : \E p \in 1..n : h[p] = i
  <2> SUFFICES ASSUME NEW i \in 1..n PROVE \E p \in 1..n : h[p] = i
    OBVIOUS
  <2>1. pl[i] \in 1..n /\ pl[h[pl[i]]] = pl[i] /\ h[pl[i]] \in 1..n
    BY <1>8, <1>11
  <2> QED BY <1>9, <2>1
<1>15. /\ s \in Seq(DetectionType) /\ Len(s) = n
       /\ \A p \in 1..n : s[p] = ds[h[p]]
  <2>1. s \in [1..n -> DetectionType]
    BY <1>1, <1>11
  <2>2. \A p \in 1..n : s[p] = ds[h[p]]
    OBVIOUS
  <2> HIDE DEF s
  <2>3. s \in Seq(DetectionType)
    BY <1>1, <2>1
  <2>4. DOMAIN s = 1..n /\ DOMAIN s = 1..Len(s) /\ Len(s) \in Nat
    BY <2>1, <2>3
  <2> QED BY <1>1, <2>2, <2>3, <2>4
<1> HIDE DEF s
<1>16. Descending(s)
  <2> SUFFICES ASSUME NEW p \in 1..n, NEW q \in 1..n, p < q
               PROVE  s[p].confidence >= s[q].confidence
    BY <1>15 DEF Descending
  <2> DEFINE i == h[p]
             j == h[q]
  <2>1. i \in 1..n /\ j \in 1..n /\ pl[i] < pl[j]
    BY <1>11
  <2>2. s[p] = ds[i] /\ s[q] = ds[j]
    BY <1>15
  <2> HIDE DEF i, j
  <2>3. ~before(j, i)
    <3> SUFFICES ASSUME before(j, i) PROVE FALSE
      OBVIOUS
    <3>1. pl[j] < pl[i]
      BY <1>7, <2>1
    <3>2. pl[i] \in Int /\ pl[j] \in Int
      BY <1>8, <2>1
    <3> QED BY <2>1, <3>1, <3>2
  <2> QED BY <1>2, <1>b, <2>1, <2>2, <2>3
<1> QED BY <1>3, <1>12, <1>13, <1>14, <1>15, <1>16 DEF n

\* It does not matter which of two boxes is which.
LEMMA OverlapBothWays ==
  ASSUME NEW a \in [1..4 -> Int], NEW b \in [1..4 -> Int], NEW t
  PROVE  Media!Overlap(a, b, t) <=> Media!Overlap(b, a, t)
<1>1. ASSUME NEW c \in [1..4 -> Int] PROVE Media!Area(c) \in Int
  <2> DEFINE w == c[3] - c[1]
             h == c[4] - c[2]
  <2>1. w \in Int /\ h \in Int
    OBVIOUS
  <2>2. Media!Area(c) = Media!Max({0, w}) * Media!Max({0, h})
    BY DEF Media!Area
  <2> HIDE DEF w, h
  <2>3. Media!Max({0, w}) \in Int /\ Media!Max({0, h}) \in Int
    <3>1. Max({0, w}) \in Int /\ Max({0, h}) \in Int
      <4>1. ASSUME NEW i \in Int, NEW j \in Int PROVE Max({i, j}) \in Int
        BY MaxOfTwo
      <4>2. 0 \in Int
        OBVIOUS
      <4> QED BY <2>1, <4>1, <4>2
    <3>2. /\ Media!Max({0, w}) = Max({0, w})
          /\ Media!Max({0, h}) = Max({0, h})
      BY SameExtremes
    <3> QED BY <3>1, <3>2
  <2> QED BY <2>2, <2>3
<1>2. Media!Intersection(a, b) = Media!Intersection(b, a)
  <2>1. \A x, y : {x, y} = {y, x}
    OBVIOUS
  <2>2. /\ Media!Max({a[1], b[1]}) = Media!Max({b[1], a[1]})
        /\ Media!Max({a[2], b[2]}) = Media!Max({b[2], a[2]})
        /\ Media!Min({a[3], b[3]}) = Media!Min({b[3], a[3]})
        /\ Media!Min({a[4], b[4]}) = Media!Min({b[4], a[4]})
    BY <2>1
  <2> QED BY <2>2 DEF Media!Intersection
<1> DEFINE union(c, d) ==
             (Media!Area(c) + Media!Area(d)) - Media!Intersection(c, d)
           inter(c, d) == Media!Intersection(c, d)
<1>3. union(a, b) = union(b, a) /\ inter(a, b) = inter(b, a)
  <2> DEFINE x == Media!Area(a)
             y == Media!Area(b)
             i == Media!Intersection(a, b)
             j == Media!Intersection(b, a)
  <2>1. x \in Int /\ y \in Int /\ i = j
    BY <1>1, <1>2
  <2> DEFINE u == x + y
             v == y + x
  <2>4. union(a, b) = u - i /\ union(b, a) = v - j
    OBVIOUS
  <2> HIDE DEF x, y, i, j, union
  <2>3. u = v
    BY <2>1
  <2> HIDE DEF u, v
  <2>5. union(a, b) = union(b, a)
    BY <2>1, <2>3, <2>4
  <2> QED BY <2>1, <2>5 DEF i, j
<1>4. \A c, d : Media!Overlap(c, d, t) <=>
                /\ union(c, d) > 0 /\ 100 * inter(c, d) > t * union(c, d)
  BY DEF Media!Overlap
<1> HIDE DEF union, inter
<1> QED BY <1>3, <1>4

\* Each element of k is one of s, none of them twice.
Part(k, s) ==
  \E g \in [1..Len(k) -> 1..Len(s)] :
    /\ \A a, b \in 1..Len(k) : g[a] = g[b] => a = b
    /\ \A a \in 1..Len(k) : k[a] = s[g[a]]
\* No two of a class overlap.
Apart(k, t) ==
  \A a, b \in 1..Len(k) :
    (a # b /\ k[a].class = k[b].class) => ~Media!Overlap(k[a].box, k[b].box, t)

\* What the suppression keeps is a part, the most confident first, in which no
\* two of a class overlap; and each detection is kept, or one of its class that
\* is as confident.
LEMMA SuppressedFacts ==
  ASSUME NEW ds \in Seq(DetectionType), NEW t
  PROVE  LET k == Media!Suppressed(ds, t) IN
         /\ k \in Seq(DetectionType) /\ Part(k, ds)
         /\ Descending(k) /\ Apart(k, t)
         /\ \A i \in 1..Len(ds) : \E a \in 1..Len(k) :
              /\ k[a].class = ds[i].class
              /\ k[a].confidence >= ds[i].confidence
<1> DEFINE n == Len(ds)
           s == Media!ByConfidence(ds)
           clash(d, e) == d.class = e.class /\ Media!Overlap(d.box, e.box, t)
           Free(k, i) == ~\E a \in DOMAIN k : clash(k[a], s[i])
           T == {e \in Seq(DetectionType) \X (1..n) : Free(e[1], e[2])}
           Body(g) == [i \in 0..n |->
                         IF i = 0 THEN <<>>
                         ELSE IF \E a \in DOMAIN g[i - 1] :
                                   clash(g[i - 1][a], s[i])
                         THEN g[i - 1] ELSE Append(g[i - 1], s[i])]
           kept == CHOOSE g : g = Body(g)
<1>1. /\ n \in Nat /\ s \in Seq(DetectionType) /\ Len(s) = n
      /\ \A i \in 1..n : s[i] \in DetectionType
      /\ Descending(s)
  <2>1. /\ s \in Seq(DetectionType) /\ Len(s) = n /\ Descending(s)
    BY SortedIs
  <2> HIDE DEF s
  <2> QED BY <2>1
<1>s. PICK h \in [1..n -> 1..n] :
        /\ \A p, q \in 1..n : h[p] = h[q] => p = q
        /\ \A p \in 1..n : s[p] = ds[h[p]]
        /\ \A i \in 1..n : \E p \in 1..n : h[p] = i
  BY SortedIs
<1>6. Media!Suppressed(ds, t) = kept[n]
  BY DEF Media!Suppressed
<1> HIDE DEF n, s, T, clash
<1>2. PICK f \in [0..n -> Seq(DetectionType)] : Grown(s, T, f, n)
  BY <1>1, GrownExists
<1>3. ASSUME NEW i \in 1..n
      PROVE  /\ i \in 0..n /\ i - 1 \in 0..n /\ i # 0
             /\ <<f[i - 1], i>> \in T <=> Free(f[i - 1], i)
  <2>1. i \in 0..n /\ i - 1 \in 0..n /\ i # 0
    BY <1>1
  <2>2. f[i - 1] \in Seq(DetectionType)
    BY <2>1
  <2> HIDE DEF Free
  <2> QED BY <2>1, <2>2 DEF T
<1>4. f = Body(f)
  <2>1. ASSUME NEW i \in 0..n
        PROVE  f[i] = IF i = 0 THEN <<>>
                      ELSE IF ~Free(f[i - 1], i)
                      THEN f[i - 1] ELSE Append(f[i - 1], s[i])
    <3> HIDE DEF Free
    <3>1. CASE i = 0
      BY <1>2, <3>1 DEF Grown
    <3>2. CASE i # 0
      <4>1. i \in 1..n
        BY <1>1, <3>2
      <4> QED BY <1>2, <1>3, <3>2, <4>1 DEF Grown
    <3> QED BY <3>1, <3>2
  <2> QED BY <2>1
<1>5. kept = Body(kept)
  BY <1>4
<1> HIDE DEF kept
<1> DEFINE D == {i \in 0..n : kept[i] # f[i]}
<1>7. D = {}
  <2>1. D \in SUBSET (0..n)
    OBVIOUS
  <2>2. 0 \notin D
    <3>1. kept[0] = <<>> /\ f[0] = <<>>
      BY <1>1, <1>2, <1>5 DEF Grown
    <3> QED BY <3>1
  <2>3. ASSUME NEW k \in 0..n, k < n, k \notin D PROVE k + 1 \notin D
    <3> DEFINE m == k + 1
    <3>1. m \in 1..n /\ m - 1 = k /\ kept[k] = f[k]
      <4>1. kept[k] = f[k]
        BY <2>3
      <4>2. m \in 1..n /\ m - 1 = k
        <5> HIDE DEF D
        <5> QED BY <1>1, <2>3
      <4> QED BY <4>1, <4>2
    <3> HIDE DEF m, D
    <3>2. kept[m] = IF ~Free(kept[m - 1], m) THEN kept[m - 1]
                    ELSE Append(kept[m - 1], s[m])
      BY <1>3, <1>5, <3>1
    <3>3. f[m] = IF Free(f[m - 1], m) THEN Append(f[m - 1], s[m]) ELSE f[m - 1]
      <4> HIDE DEF Free
      <4> QED BY <1>2, <1>3, <3>1 DEF Grown
    <3> HIDE DEF Free
    <3>4. kept[m] = f[m]
      BY <3>1, <3>2, <3>3
    <3> QED BY <3>4 DEF m, D
  <2> HIDE DEF D
  <2> QED BY <1>1, <2>1, <2>2, <2>3, NoneFails
<1>8. n \in 0..n
  BY <1>1
<1> DEFINE k == f[n]
<1>9. kept[n] = k /\ k \in Seq(DetectionType)
  BY <1>7, <1>8
<1>10. ASSUME NEW m \in 0..n
       PROVE  \E g : Draws(f[m], s, T, f, m, g)
  BY <1>1, <1>2, <1>10, GrownDraws
<1>11. PICK g : Draws(k, s, T, f, n, g)
  BY <1>8, <1>10
<1>12. /\ g \in [1..Len(k) -> 1..n]
       /\ \A a, b \in 1..Len(k) : a < b => g[a] < g[b]
       /\ \A a \in 1..Len(k) : k[a] = s[g[a]] /\ <<f[g[a] - 1], g[a]>> \in T
       /\ \A i \in 1..n : <<f[i - 1], i>> \in T =>
            \E a \in 1..Len(k) : g[a] = i
  BY <1>11 DEF Draws
<1> HIDE DEF k, Free
\* What was kept before is kept.
<1>13. ASSUME NEW m \in 0..n, NEW p \in 1..Len(f[m])
       PROVE  \E a \in 1..Len(k) : g[a] \in 1..m /\ k[a] = f[m][p]
  <2>1. PICK e : Draws(f[m], s, T, f, m, e)
    BY <1>10
  <2>2. e[p] \in 1..m /\ f[m][p] = s[e[p]] /\ <<f[e[p] - 1], e[p]>> \in T
    BY <2>1, <1>13 DEF Draws
  <2> DEFINE i == e[p]
  <2>3. i \in 1..m /\ i \in 1..n
    BY <1>1, <2>2
  <2>4. <<f[i - 1], i>> \in T /\ f[m][p] = s[i]
    BY <2>2
  <2> HIDE DEF i
  <2>5. PICK a \in 1..Len(k) : g[a] = i
    BY <1>12, <2>3, <2>4
  <2>6. k[a] = s[g[a]]
    BY <1>12
  <2> QED BY <2>3, <2>4, <2>5, <2>6
\* And what is kept, was already when those after it came.
<1>14. ASSUME NEW i \in 1..n, NEW a \in 1..Len(k), g[a] < i
       PROVE  \E p \in 1..Len(f[i - 1]) : f[i - 1][p] = k[a]
  <2> DEFINE m == i - 1
  <2>1. m \in 0..n /\ g[a] \in 1..m /\ g[a] \in 1..n
    <3> DEFINE j == g[a]
    <3>1. j \in 1..n /\ j < i
      BY <1>12, <1>14
    <3> HIDE DEF j
    <3>2. m \in 0..n /\ j \in 1..m
      BY <1>1, <3>1
    <3> QED BY <3>1, <3>2 DEF j
  <2> HIDE DEF m
  <2>2. PICK e : Draws(f[m], s, T, f, m, e)
    BY <1>10, <2>1
  <2>3. <<f[g[a] - 1], g[a]>> \in T /\ k[a] = s[g[a]]
    BY <1>12
  <2>4. PICK p \in 1..Len(f[m]) : e[p] = g[a]
    BY <2>1, <2>2, <2>3 DEF Draws
  <2>5. f[m][p] = s[e[p]]
    BY <2>2 DEF Draws
  <2> QED BY <2>3, <2>4, <2>5 DEF m
<1>15. ASSUME NEW i \in 1..n
       PROVE  DOMAIN f[i - 1] = 1..Len(f[i - 1])
  <2>1. f[i - 1] \in Seq(DetectionType)
    BY <1>3
  <2> QED BY <2>1
<1>16. Part(k, ds)
  <2> DEFINE e == [a \in 1..Len(k) |-> h[g[a]]]
  <2>1. e \in [1..Len(k) -> 1..Len(ds)]
    BY <1>12 DEF n
  <2>2. ASSUME NEW a \in 1..Len(k), NEW b \in 1..Len(k), e[a] = e[b]
        PROVE  a = b
    <3>1. g[a] \in 1..n /\ g[b] \in 1..n /\ h[g[a]] = h[g[b]]
      BY <1>12, <2>2
    <3>2. g[a] = g[b]
      BY <1>s, <3>1
    <3>3. a \in Int /\ b \in Int /\ ~(g[a] < g[b]) /\ ~(g[b] < g[a])
      BY <3>1, <3>2
    <3> QED BY <1>12, <3>3
  <2>3. ASSUME NEW a \in 1..Len(k) PROVE k[a] = ds[e[a]]
    BY <1>s, <1>12
  <2> HIDE DEF e
  <2> QED BY <2>1, <2>2, <2>3 DEF Part
<1>17. Descending(k)
  <2> SUFFICES ASSUME NEW p \in 1..Len(k), NEW q \in 1..Len(k), p < q
               PROVE  k[p].confidence >= k[q].confidence
    BY DEF Descending
  <2>1. /\ g[p] \in 1..n /\ g[q] \in 1..n /\ g[p] < g[q]
        /\ k[p] = s[g[p]] /\ k[q] = s[g[q]]
    BY <1>12
  <2> QED BY <1>1, <2>1 DEF Descending
<1>18. ASSUME NEW a \in 1..Len(k), NEW b \in 1..Len(k), a < b,
              k[a].class = k[b].class
       PROVE  ~Media!Overlap(k[a].box, k[b].box, t)
  <2> DEFINE i == g[b]
  <2>1. i \in 1..n /\ g[a] < i /\ k[b] = s[i] /\ <<f[i - 1], i>> \in T
    BY <1>12, <1>18
  <2> HIDE DEF i
  <2>2. PICK p \in 1..Len(f[i - 1]) : f[i - 1][p] = k[a]
    BY <1>14, <2>1
  <2>3. ~clash(f[i - 1][p], s[i])
    BY <1>3, <1>15, <2>1, <2>2 DEF Free
  <2> QED BY <1>18, <2>1, <2>2, <2>3 DEF clash
<1>19. Apart(k, t)
  <2> SUFFICES ASSUME NEW a \in 1..Len(k), NEW b \in 1..Len(k), a # b,
                      k[a].class = k[b].class
               PROVE  ~Media!Overlap(k[a].box, k[b].box, t)
    BY DEF Apart
  <2>1. a < b \/ b < a
    OBVIOUS
  <2>2. k[a].box \in [1..4 -> Int] /\ k[b].box \in [1..4 -> Int]
    <3>1. k[a] \in DetectionType /\ k[b] \in DetectionType
      BY <1>9
    <3> QED BY <3>1 DEF DetectionType
  <2> QED BY <1>18, <2>1, <2>2, OverlapBothWays
<1>20. ASSUME NEW i \in 1..n
       PROVE  \E a \in 1..Len(k) : /\ k[a].class = ds[i].class
                                   /\ k[a].confidence >= ds[i].confidence
  <2>1. PICK p \in 1..n : h[p] = i
    BY <1>s
  <2>2. s[p] = ds[i] /\ s[p].confidence \in Int
    BY <1>1, <1>s, <2>1 DEF DetectionType
  <2>3. CASE <<f[p - 1], p>> \in T
    <3>1. PICK a \in 1..Len(k) : g[a] = p
      BY <1>12, <2>3
    <3>2. k[a] = s[g[a]]
      BY <1>12
    <3> QED BY <2>2, <3>1, <3>2
  <2>4. CASE <<f[p - 1], p>> \notin T
    <3>1. PICK q \in 1..Len(f[p - 1]) : clash(f[p - 1][q], s[p])
      BY <1>3, <1>15, <2>4 DEF Free
    <3>2. PICK a \in 1..Len(k) : g[a] \in 1..p - 1 /\ k[a] = f[p - 1][q]
      BY <1>3, <1>13
    <3> DEFINE j == g[a]
    <3>3. j \in 1..n /\ j \in 1..p - 1 /\ k[a] = s[j]
      BY <1>12, <3>2
    <3> HIDE DEF j
    <3>4. s[j].confidence >= s[p].confidence
      <4>1. j < p /\ j \in 1..Len(s) /\ p \in 1..Len(s)
        BY <1>1, <3>3
      <4>2. Descending(s)
        BY <1>1
      <4> QED BY ONLY <4>1, <4>2 DEF Descending
    <3> QED BY <2>2, <3>1, <3>2, <3>3, <3>4 DEF clash
  <2> QED BY <2>3, <2>4
<1> QED BY <1>6, <1>9, <1>16, <1>17, <1>19, <1>20 DEF n

\* The lesser of two numbers.
LEMMA MinOfTwo ==
  ASSUME NEW a \in Int, NEW b \in Int
  PROVE  /\ Min({a, b}) \in {a, b}
         /\ Min({a, b}) <= a /\ Min({a, b}) <= b
<1>1. \E x \in {a, b} : \A y \in {a, b} : x <= y
  <2>1. a <= b \/ b <= a
    OBVIOUS
  <2> QED BY <2>1
<1>2. Min({a, b}) = CHOOSE x \in {a, b} : \A y \in {a, b} : x <= y
  BY DEF Min
<1>3. Min({a, b}) \in {a, b} /\ \A y \in {a, b} : Min({a, b}) <= y
  BY <1>1, <1>2
<1> QED BY <1>3

\* The first elements are where they were.
LEMMA FirstOfFacts ==
  ASSUME NEW k \in Seq(DetectionType), NEW m \in Nat
  PROVE  LET e == Media!FirstOf(k, m) IN
         /\ e \in Seq(DetectionType)
         /\ \A a \in 1..Len(e) : a \in 1..Len(k) /\ e[a] = k[a]
         /\ \A a \in 1..Len(k) : a <= m => a \in 1..Len(e)
<1> DEFINE l == Len(k)
           q == Min({m, l})
           e == SubSeq(k, 1, q)
<1>1. l \in Nat /\ m \in Nat
  OBVIOUS
<1>2. /\ q \in {m, l} /\ q <= m /\ q <= l
  <2> HIDE DEF l
  <2>1. l \in Int /\ m \in Int
    BY <1>1
  <2> QED BY <2>1, MinOfTwo
<1>3. Media!FirstOf(k, m) = e
  <2>1. Media!FirstOf(k, m) = SubSeq(k, 1, Media!Min({m, l}))
    BY DEF Media!FirstOf
  <2> HIDE DEF l
  <2>2. Media!Min({m, l}) = Min({m, l})
    BY SameExtremes
  <2> QED BY <2>1, <2>2
<1> HIDE DEF q
<1>4. q \in Nat /\ q <= Len(k)
  BY <1>1, <1>2
<1>5. /\ e \in Seq(DetectionType) /\ Len(e) = q
      /\ \A a \in 1..q : e[a] = k[a]
  BY <1>4
<1> HIDE DEF e
<1>6. \A a \in 1..q : a \in 1..l
  BY <1>1, <1>4
<1>7. ASSUME NEW a \in 1..l, a <= m PROVE a \in 1..q
  BY <1>1, <1>2, <1>7
<1> QED BY <1>3, <1>5, <1>6, <1>7

\* A part of a part is one.
LEMMA PartOfPart ==
  ASSUME NEW k, NEW s, NEW r, Len(k) \in Nat, Len(s) \in Nat,
         Part(k, s), Part(s, r)
  PROVE  Part(k, r)
<1>1. PICK g \in [1..Len(k) -> 1..Len(s)] :
        /\ \A a, b \in 1..Len(k) : g[a] = g[b] => a = b
        /\ \A a \in 1..Len(k) : k[a] = s[g[a]]
  BY DEF Part
<1>2. PICK h \in [1..Len(s) -> 1..Len(r)] :
        /\ \A a, b \in 1..Len(s) : h[a] = h[b] => a = b
        /\ \A a \in 1..Len(s) : s[a] = r[h[a]]
  BY DEF Part
<1> DEFINE e == [a \in 1..Len(k) |-> h[g[a]]]
<1>3. e \in [1..Len(k) -> 1..Len(r)]
  BY <1>1, <1>2
<1>4. \A a, b \in 1..Len(k) : e[a] = e[b] => a = b
  BY <1>1, <1>2
<1>5. \A a \in 1..Len(k) : k[a] = r[e[a]]
  BY <1>1, <1>2
<1> HIDE DEF e
<1> QED BY <1>3, <1>4, <1>5 DEF Part

\* What is drawn in order is a part.
LEMMA DrawnPart ==
  ASSUME NEW k \in Seq(DetectionType), NEW s, NEW g, Drawn(k, s, g)
  PROVE  Part(k, s)
<1>1. /\ g \in [1..Len(k) -> 1..Len(s)]
      /\ \A a, b \in 1..Len(k) : a < b => g[a] < g[b]
      /\ \A a \in 1..Len(k) : k[a] = s[g[a]]
  BY DEF Drawn
<1>2. ASSUME NEW a \in 1..Len(k), NEW b \in 1..Len(k), g[a] = g[b]
      PROVE  a = b
  <2> DEFINE x == g[a]
             y == g[b]
  <2>1. x \in Int /\ y \in Int /\ x = y
    BY <1>1, <1>2
  <2>2. (a < b => x < y) /\ (b < a => y < x)
    BY <1>1
  <2> HIDE DEF x, y
  <2>3. ~(a < b) /\ ~(b < a)
    BY <2>1, <2>2
  <2> QED BY <2>3
<1> QED BY <1>1, <1>2 DEF Part

\* Of those that come first, the best of a class is one, unless others took
\* all the places.
Ahead(found, class, best) ==
  {i \in 1..Len(found) : found[i].class # class /\ found[i].confidence >= best}
Has(k, class, best) ==
  {a \in 1..Len(k) : k[a].class = class /\ k[a].confidence = best}

\* The best of its class that is foremost in k has only others before it, and
\* those are ahead of it in what was found.
LEMMA BestKept ==
  ASSUME NEW found \in Seq(DetectionType), NEW k \in Seq(DetectionType),
         Part(k, found), Descending(k),
         NEW class, NEW best \in Int, NEW m \in Nat,
         \A i \in 1..Len(found) :
           found[i].class = class => found[i].confidence <= best,
         Has(k, class, best) # {},
         Cardinality(Ahead(found, class, best)) < m
  PROVE  Has(Media!FirstOf(k, m), class, best) # {}
<1> DEFINE l == Len(k)
           A == Ahead(found, class, best)
<1>1. /\ l \in Nat /\ Len(found) \in Nat
      /\ \A i \in 1..Len(found) : found[i].confidence \in Int
      /\ \A a \in 1..l : k[a].confidence \in Int
  <2>1. \A i \in 1..Len(found) : found[i] \in DetectionType
    OBVIOUS
  <2>2. \A i \in 1..Len(k) : k[i] \in DetectionType
    OBVIOUS
  <2>3. \A d \in DetectionType : d.confidence \in Int
    BY DEF DetectionType
  <2>4. Len(k) \in Nat /\ Len(found) \in Nat
    OBVIOUS
  <2> QED BY <2>1, <2>2, <2>3, <2>4
<1>2. PICK g \in [1..l -> 1..Len(found)] :
        /\ \A a, b \in 1..l : g[a] = g[b] => a = b
        /\ \A a \in 1..l : k[a] = found[g[a]]
  BY DEF Part
<1>3. PICK p \in Has(k, class, best) : \A a \in Has(k, class, best) : p <= a
  <2> DEFINE S == Has(k, class, best)
  <2>1. S \in SUBSET (1..l) /\ S # {}
    BY DEF Has
  <2> HIDE DEF S, l
  <2>2. \E x \in S : \A i \in S : x <= i
    BY <1>1, <2>1, LeastBelow
  <2> QED BY <2>2 DEF S
<1>4. p \in 1..l /\ k[p].class = class /\ k[p].confidence = best
  BY <1>3 DEF Has
<1> DEFINE P == 1..p - 1
           e == [a \in P |-> g[a]]
<1>5. ASSUME NEW a \in P
      PROVE  a \in 1..l /\ g[a] \in A
  <2>1. a \in 1..l /\ a < p
    BY <1>1, <1>4
  <2> DEFINE i == g[a]
  <2>2. i \in 1..Len(found) /\ k[a] = found[i]
    BY <1>2, <2>1
  <2>3. k[a].confidence >= best
    BY <1>4, <2>1 DEF Descending
  <2> HIDE DEF i
  <2>4. k[a].class # class
    <3> SUFFICES ASSUME k[a].class = class PROVE FALSE
      OBVIOUS
    <3>1. k[a].confidence <= best
      BY <2>2
    <3>2. k[a].confidence = best
      BY <1>1, <2>1, <2>3, <3>1
    <3>3. a \in Has(k, class, best)
      BY <2>1, <3>2 DEF Has
    <3>4. p <= a
      BY <1>3, <3>3
    <3> QED BY <1>4, <2>1, <3>4
  <2>5. i \in A
    BY <2>2, <2>3, <2>4 DEF Ahead
  <2> QED BY <2>1, <2>5 DEF i
<1>6. IsFiniteSet(A) /\ Cardinality(A) \in Nat
  <2>1. A \subseteq 1..Len(found)
    BY DEF Ahead
  <2>2. IsFiniteSet(1..Len(found))
    BY FS_Interval
  <2> QED BY ONLY <2>1, <2>2, FS_Subset, FS_CardinalityType
<1>7. IsFiniteSet(P) /\ Cardinality(P) = p - 1
  <2>1. 1 \in Int /\ p - 1 \in Int /\ p \in Int /\ p >= 1
    BY <1>4
  <2> DEFINE q == p - 1
  <2>2. q \in Int
    BY <2>1
  <2> HIDE DEF q
  <2>3. /\ IsFiniteSet(1..q)
        /\ Cardinality(1..q) = IF 1 > q THEN 0 ELSE q - 1 + 1
    BY <2>1, <2>2, FS_Interval
  <2> QED BY <2>1, <2>3 DEF q
<1>8. e \in Injection(P, A)
  <2>1. e \in [P -> A]
    BY <1>5
  <2>2. \A a, b \in P : e[a] = e[b] => a = b
    BY <1>2, <1>5
  <2> HIDE DEF e, P, A
  <2> QED BY <2>1, <2>2 DEF Injection, IsInjective
<1> HIDE DEF e, P, A
<1>9. Cardinality(P) <= Cardinality(A)
  BY <1>6, <1>8, FS_Injection
<1>10. Cardinality(A) < m
  BY DEF A
<1>11. p <= m
  <2> DEFINE c == Cardinality(A)
             d == Cardinality(P)
  <2>1. c \in Nat /\ d = p - 1 /\ d <= c /\ c < m
    BY <1>6, <1>7, <1>9, <1>10
  <2> HIDE DEF c, d
  <2> QED BY <1>4, <2>1
<1> DEFINE f == Media!FirstOf(k, m)
<1>12. /\ \A a \in 1..Len(f) : a \in 1..Len(k) /\ f[a] = k[a]
       /\ \A a \in 1..Len(k) : a <= m => a \in 1..Len(f)
  BY FirstOfFacts
<1> HIDE DEF f
<1>13. p \in Has(f, class, best)
  BY <1>4, <1>11, <1>12 DEF Has
<1> QED BY <1>13 DEF f

\* A row of the detector.
RowType == [scores : [DOMAIN ClassNames -> Int], objectness : Int,
            box : [1..4 -> Int]]

\* A row has a best class: the first of those with the greatest score.
LEMMA BestIs ==
  ASSUME NEW n \in Nat \ {0}, NEW scores \in [1..n -> Int]
  PROVE  Media!Best(scores) \in 1..n
<1> DEFINE S == {scores[i] : i \in 1..n}
           top == Max(S)
           F == {i \in 1..n : scores[i] = top}
<1>1. S \in SUBSET Int /\ S # {}
  OBVIOUS
<1>2. IsFiniteSet(S)
  <2>1. IsFiniteSet(1..n)
    BY FS_Interval
  <2>2. scores \in Surjection(1..n, S)
    BY DEF Surjection
  <2> HIDE DEF S
  <2> QED BY <2>1, <2>2, FS_Surjection
<1>3. top \in S /\ \A x \in S : top >= x
  <2> HIDE DEF S
  <2> QED BY <1>1, <1>2, MaxFacts
<1> HIDE DEF top
<1>4. F \in SUBSET (1..n) /\ F # {}
  BY <1>3
<1>5. PICK k \in F : \A i \in F : k <= i
  <2> HIDE DEF F
  <2>1. n \in Nat
    OBVIOUS
  <2> QED BY <1>4, <2>1, LeastBelow
<1>6. /\ k \in 1..n
      /\ \A j \in 1..n : scores[j] <= scores[k]
  BY <1>3
<1>7. ASSUME NEW j \in 1..k - 1
      PROVE  scores[j] < scores[k]
  <2>1. j \in 1..n /\ j < k
    BY <1>6
  <2>2. j \notin F
    BY <1>5, <1>6, <2>1
  <2>3. scores[j] # scores[k] /\ scores[j] <= scores[k]
    BY <1>6, <2>1, <2>2
  <2> QED BY <1>6, <2>1, <2>3
<1>8. DOMAIN scores = 1..n
  OBVIOUS
<1> HIDE DEF F
<1> QED BY <1>6, <1>7, <1>8 DEF Media!Best

\* The rows are read as detections.
LEMMA CandidatesAre ==
  ASSUME NEW image \in Images
  PROVE  Media!Candidates(image.rows, image.config) \in Seq(DetectionType)
<1> DEFINE rows == image.rows
           all == [i \in DOMAIN rows |-> Media!Detection(rows[i])]
           places == {i \in DOMAIN all :
                        all[i].confidence >= image.config.confidence}
           n == Len(ClassNames)
<1>1. /\ rows \in Seq(RowType) /\ n \in Nat \ {0}
      /\ DOMAIN ClassNames = 1..n
      /\ \A i \in 1..n : ClassNames[i] \in Range(ClassNames)
  <2>1. ClassNames \in Seq(Range(ClassNames)) /\ ClassNames # <<>>
    BY ImagesAssumption
  <2>2. n \in Nat \ {0} /\ DOMAIN ClassNames = 1..n
    BY <2>1
  <2>3. \A i \in 1..n : ClassNames[i] \in Range(ClassNames)
    BY <2>2 DEF Range
  <2> QED BY <2>2, <2>3, ImagesAssumption DEF RowType
<1> HIDE DEF n
<1>2. ASSUME NEW row \in RowType PROVE Media!Detection(row) \in DetectionType
  <2> DEFINE c == Media!Best(row.scores)
  <2>1. /\ row.scores \in [1..n -> Int] /\ row.objectness \in Int
        /\ row.box \in [1..4 -> Int]
    BY <1>1 DEF RowType
  <2>2. c \in 1..n
    BY <1>1, <2>1, BestIs
  <2>3. Media!Detection(row) = [class |-> ClassNames[c],
          confidence |-> (row.scores[c] * row.objectness) \div 100,
          box |-> row.box]
    BY DEF Media!Detection
  <2> HIDE DEF c
  <2>4. (row.scores[c] * row.objectness) \div 100 \in Int
    <3> DEFINE x == row.scores[c]
               y == row.objectness
    <3>1. x \in Int /\ y \in Int
      BY <2>1, <2>2
    <3> HIDE DEF x, y
    <3> DEFINE z == x * y
    <3>2. z \in Int
      BY <3>1
    <3> HIDE DEF z
    <3>3. z \div 100 \in Int
      BY <3>2
    <3> QED BY <3>3 DEF x, y, z
  <2>5. ClassNames[c] \in Range(ClassNames)
    BY <1>1, <2>2
  <2> QED BY <2>1, <2>3, <2>4, <2>5 DEF DetectionType
<1>3. all \in Seq(DetectionType)
  <2> HIDE DEF rows
  <2>1. DOMAIN rows = 1..Len(rows) /\ Len(rows) \in Nat
        /\ \A i \in 1..Len(rows) : rows[i] \in RowType
    BY <1>1
  <2>2. all \in [1..Len(rows) -> DetectionType]
    BY <1>2, <2>1
  <2> HIDE DEF all
  <2> QED BY <2>1, <2>2
<1>4. Media!Candidates(rows, image.config) = Media!Picked(all, places)
  BY DEF Media!Candidates
<1> HIDE DEF all, places
<1> QED BY <1>3, <1>4, PickedDrawn

\* The first elements are a part.
LEMMA FirstPart ==
  ASSUME NEW k \in Seq(DetectionType), NEW m \in Nat
  PROVE  Part(Media!FirstOf(k, m), k)
<1> DEFINE e == Media!FirstOf(k, m)
           g == [a \in 1..Len(e) |-> a]
<1>1. \A a \in 1..Len(e) : a \in 1..Len(k) /\ e[a] = k[a]
  BY FirstOfFacts
<1> HIDE DEF e
<1>2. g \in [1..Len(e) -> 1..Len(k)]
  BY <1>1
<1>3. Part(e, k)
  BY <1>1, <1>2 DEF Part
<1> QED BY <1>3 DEF e

\* What is picked is a part, with the best of a class if that is picked.
LEMMA PickedHas ==
  ASSUME NEW s \in Seq(DetectionType), NEW places
  PROVE  LET k == Media!Picked(s, places) IN
         /\ k \in Seq(DetectionType) /\ Part(k, s)
         /\ \A class, best :
              Has(s, class, best) \cap places # {} => Has(k, class, best) # {}
<1> DEFINE k == Media!Picked(s, places)
<1>1. k \in Seq(DetectionType)
  BY PickedDrawn
<1>2. PICK g : /\ Drawn(k, s, g)
               /\ \A i \in 1..Len(s) \cap places :
                    \E a \in 1..Len(k) : g[a] = i
  BY PickedDrawn
<1> HIDE DEF k
<1>3. Part(k, s)
  BY <1>1, <1>2, DrawnPart
<1>4. ASSUME NEW class, NEW best, Has(s, class, best) \cap places # {}
      PROVE  Has(k, class, best) # {}
  <2>1. PICK i \in Has(s, class, best) : i \in places
    BY <1>4
  <2>2. i \in 1..Len(s) /\ s[i].class = class /\ s[i].confidence = best
    BY <2>1 DEF Has
  <2>3. PICK a \in 1..Len(k) : g[a] = i
    BY <1>2, <2>1, <2>2
  <2>4. k[a] = s[i]
    BY <1>2, <2>3 DEF Drawn
  <2> QED BY <2>2, <2>4 DEF Has
<1> QED BY <1>1, <1>3, <1>4 DEF k

\* What is suppressed is never the best of its class.
LEMMA SuppressedHas ==
  ASSUME NEW found \in Seq(DetectionType), NEW s \in Seq(DetectionType),
         Part(s, found), NEW t, NEW class, NEW best \in Int,
         \A i \in 1..Len(found) :
           found[i].class = class => found[i].confidence <= best,
         Has(s, class, best) # {}
  PROVE  LET k == Media!Suppressed(s, t) IN
         /\ k \in Seq(DetectionType) /\ Part(k, found) /\ Descending(k)
         /\ Apart(k, t) /\ Has(k, class, best) # {}
<1> DEFINE k == Media!Suppressed(s, t)
<1>1. /\ k \in Seq(DetectionType) /\ Part(k, s) /\ Descending(k) /\ Apart(k, t)
      /\ \A i \in 1..Len(s) : \E a \in 1..Len(k) :
           /\ k[a].class = s[i].class /\ k[a].confidence >= s[i].confidence
  BY SuppressedFacts
<1> HIDE DEF k
<1>2. Part(k, found)
  <2>1. Len(k) \in Nat /\ Len(s) \in Nat
    BY <1>1
  <2> QED BY <1>1, <2>1, PartOfPart
<1>3. PICK i \in 1..Len(s) : s[i].class = class /\ s[i].confidence = best
  BY DEF Has
<1>4. PICK a \in 1..Len(k) : k[a].class = class /\ k[a].confidence >= best
  BY <1>1, <1>3
<1>5. PICK g \in [1..Len(k) -> 1..Len(found)] :
        \A b \in 1..Len(k) : k[b] = found[g[b]]
  BY <1>2 DEF Part
<1>6. k[a].confidence <= best
  BY <1>4, <1>5
<1>7. k[a] \in DetectionType
  BY <1>1
<1>8. k[a].confidence \in Int
  BY <1>7 DEF DetectionType
<1>9. k[a].confidence = best
  BY <1>4, <1>6, <1>8
<1>10. a \in Has(k, class, best)
  BY <1>4, <1>9 DEF Has
<1> QED BY <1>1, <1>2, <1>10 DEF k

\* The greatest confidence of some of what is found.
LEMMA BestOf ==
  ASSUME NEW found \in Seq(DetectionType), NEW S \in SUBSET (1..Len(found)),
         S # {}
  PROVE  LET best == Max({found[i].confidence : i \in S}) IN
         /\ best \in Int
         /\ \A i \in S : found[i].confidence <= best
         /\ \E i \in S : found[i].confidence = best
<1> DEFINE f == [i \in S |-> found[i].confidence]
           C == {found[i].confidence : i \in S}
<1>1. \A i \in S : found[i].confidence \in Int
  <2>1. \A i \in S : found[i] \in DetectionType
    OBVIOUS
  <2> QED BY <2>1 DEF DetectionType
<1>2. IsFiniteSet(S)
  <2>1. IsFiniteSet(1..Len(found))
    BY FS_Interval
  <2>2. S \subseteq 1..Len(found)
    OBVIOUS
  <2> QED BY ONLY <2>1, <2>2, FS_Subset
<1>3. f \in Surjection(S, C)
  BY DEF Surjection
<1>4. C \in SUBSET Int /\ C # {}
  BY <1>1
<1>5. Max(C) \in C /\ \A c \in C : Max(C) >= c
  <2> HIDE DEF C, f
  <2>1. IsFiniteSet(C)
    BY <1>2, <1>3, FS_Surjection
  <2> QED BY <1>4, <2>1, MaxFacts
<1> DEFINE best == Max(C)
<1>6. best \in C /\ \A c \in C : best >= c
  BY <1>5
<1> HIDE DEF best
<1>7. /\ best \in Int
      /\ \A i \in S : found[i].confidence <= best
      /\ \E i \in S : found[i].confidence = best
  BY <1>1, <1>6
<1> QED BY <1>7 DEF best

\* The detections that ImageSignals makes signals of.
Told(s, policy) ==
  {i \in DOMAIN s : /\ Media!Enabled(s[i].class, policy)
                    /\ s[i].confidence
                       >= policy.classes[s[i].class].confidence}
Reported(s, policy) == Media!Picked(s, Told(s, policy))
\* It makes one of each, as it is.
LEMMA SignalsAre ==
  ASSUME NEW s \in Seq(DetectionType), NEW policy
  PROVE  LET k == Reported(s, policy)
             e == Media!ImageSignals(s, policy) IN
         /\ k \in Seq(DetectionType) /\ DOMAIN e = 1..Len(k)
         /\ \A i \in 1..Len(k) : /\ e[i].class = k[i].class
                                 /\ e[i].confidence = k[i].confidence
                                 /\ e[i].box = k[i].box
<1> DEFINE k == Reported(s, policy)
<1>1. Media!ImageSignals(s, policy) =
        [i \in DOMAIN k |->
           [label      |-> policy.classes[k[i].class].label,
            severity   |-> policy.classes[k[i].class].severity,
            confidence |-> k[i].confidence,
            class      |-> k[i].class,
            box        |-> k[i].box]]
  BY DEF Media!ImageSignals, Reported, Told
<1>2. k \in Seq(DetectionType)
  BY PickedHas DEF Reported
<1> HIDE DEF k
<1>3. DOMAIN k = 1..Len(k)
  BY <1>2
<1> DEFINE e == Media!ImageSignals(s, policy)
<1>4. /\ DOMAIN e = DOMAIN k
      /\ \A i \in DOMAIN k : /\ e[i].class = k[i].class
                             /\ e[i].confidence = k[i].confidence
                             /\ e[i].box = k[i].box
  BY <1>1
<1> HIDE DEF e
<1>5. /\ k \in Seq(DetectionType) /\ DOMAIN e = 1..Len(k)
      /\ \A i \in 1..Len(k) : /\ e[i].class = k[i].class
                              /\ e[i].confidence = k[i].confidence
                              /\ e[i].box = k[i].box
  BY <1>2, <1>3, <1>4
<1> QED BY <1>5 DEF e, k

\* From the rows to the signals: a class keeps its best detection from list to
\* list, and of what the last suppression keeps no two of a class overlap.
LEMMA SignalsAccounted ==
  ASSUME NEW image \in Images
  PROVE  LET policy == image.policy
             found == Media!Candidates(image.rows, image.config)
             e == Media!ImageSignals(
                    Media!Applied(Media!Inferred(image.rows, image.config),
                                  policy), policy)
             seen(class) == {i \in DOMAIN found : found[i].class = class}
             best(class) == Max({found[i].confidence : i \in seen(class)})
             ahead(class) == {i \in DOMAIN found \ seen(class) :
                                found[i].confidence >= best(class)} IN
    /\ \A class \in Range(ClassNames) :
         (/\ Media!Enabled(class, policy) /\ seen(class) # {}
          /\ best(class) >= Media!Threshold(class, policy)
          /\ Cardinality(ahead(class)) < Min({image.config.most, policy.most}))
         => \E i \in DOMAIN e : /\ e[i].class = class
                                /\ e[i].confidence = best(class)
    /\ \A i, j \in DOMAIN e :
         (i # j /\ e[i].class = e[j].class) =>
           ~Media!Overlap(e[i].box, e[j].box, policy.iou)
<1> DEFINE policy == image.policy
           m1 == image.config.most
           m2 == policy.most
           found == Media!Candidates(image.rows, image.config)
           k1 == Media!Suppressed(found, image.config.iou)
           s1 == Media!FirstOf(k1, m1)
           high == {i \in DOMAIN s1 :
                      /\ Media!Enabled(s1[i].class, policy)
                      /\ s1[i].confidence
                         >= Media!Threshold(s1[i].class, policy)}
           k2 == Media!Picked(s1, high)
           k3 == Media!Suppressed(k2, policy.iou)
           s2 == Media!FirstOf(k3, m2)
           shown == Told(s2, policy)
           k4 == Reported(s2, policy)
           e == Media!ImageSignals(s2, policy)
<1>1. Media!Inferred(image.rows, image.config) = s1
  BY DEF Media!Inferred
<1>2. Media!Applied(s1, policy) = s2
  BY DEF Media!Applied
<1>3. /\ m1 \in Nat /\ m2 \in Nat /\ policy.confidence \in Int
      /\ \A class \in DOMAIN policy.classes :
           policy.classes[class].confidence \in Int
  BY ImagesAssumption
<1> HIDE DEF m1, m2, policy
<1>4. found \in Seq(DetectionType)
  BY CandidatesAre
<1> HIDE DEF found
<1>5. k1 \in Seq(DetectionType) /\ Part(k1, found)
  BY <1>4, SuppressedFacts
<1>6. s1 \in Seq(DetectionType) /\ Part(s1, k1)
  BY <1>3, <1>5, FirstOfFacts, FirstPart
<1>7. Part(s1, found)
  <2>1. Len(s1) \in Nat /\ Len(k1) \in Nat
    BY <1>5, <1>6
  <2> HIDE DEF s1, k1
  <2> QED BY <1>5, <1>6, <2>1, PartOfPart
<1>8. /\ k2 \in Seq(DetectionType) /\ Part(k2, s1)
      /\ \A class, best :
           Has(s1, class, best) \cap high # {} => Has(k2, class, best) # {}
  <2> HIDE DEF s1, high
  <2> QED BY <1>6, PickedHas
<1>9. Part(k2, found)
  <2>1. Len(s1) \in Nat /\ Len(k2) \in Nat
    BY <1>6, <1>8
  <2> HIDE DEF s1, k2
  <2> QED BY <1>7, <1>8, <2>1, PartOfPart
<1>10. k3 \in Seq(DetectionType) /\ Apart(k3, policy.iou)
  <2> HIDE DEF k2
  <2> QED BY <1>8, SuppressedFacts
<1>11. /\ s2 \in Seq(DetectionType)
       /\ \A a \in 1..Len(s2) : a \in 1..Len(k3) /\ s2[a] = k3[a]
  <2> HIDE DEF k3
  <2> QED BY <1>3, <1>10, FirstOfFacts
<1>12. /\ k4 \in Seq(DetectionType) /\ DOMAIN e = 1..Len(k4)
       /\ \A i \in 1..Len(k4) : /\ e[i].class = k4[i].class
                                /\ e[i].confidence = k4[i].confidence
                                /\ e[i].box = k4[i].box
  <2> HIDE DEF s2
  <2> QED BY <1>11, SignalsAre
<1>13. ASSUME NEW class, NEW best \in Int,
              Media!Enabled(class, policy),
              \A i \in 1..Len(found) :
                found[i].class = class => found[i].confidence <= best,
              Has(found, class, best) # {},
              best >= Media!Threshold(class, policy),
              Cardinality(Ahead(found, class, best)) < m1,
              Cardinality(Ahead(found, class, best)) < m2
       PROVE  Has(k4, class, best) # {}
  <2>1. /\ class \in DOMAIN policy.classes
        /\ best >= policy.classes[class].confidence
    <3> DEFINE x == policy.confidence
               y == policy.classes[class].confidence
    <3>1. class \in DOMAIN policy.classes
      BY <1>13 DEF Media!Enabled
    <3>2. x \in Int /\ y \in Int
      BY <1>3, <3>1
    <3>3. Media!Threshold(class, policy) = Media!Max({x, y})
      BY DEF Media!Threshold
    <3> HIDE DEF x, y
    <3>4. Max({x, y}) \in Int /\ Max({x, y}) >= y
      BY <3>2, MaxOfTwo
    <3>5. Media!Max({x, y}) = Max({x, y})
      BY SameExtremes
    <3>6. best >= y
      BY <1>13, <3>2, <3>3, <3>4, <3>5
    <3> QED BY <3>1, <3>6 DEF y
  <2>2. Part(found, found)
    <3> DEFINE g == [a \in 1..Len(found) |-> a]
    <3>1. /\ g \in [1..Len(found) -> 1..Len(found)]
          /\ \A a \in 1..Len(found) : g[a] = a
      OBVIOUS
    <3> HIDE DEF g
    <3> QED BY <3>1 DEF Part
  <2>3. Descending(k1) /\ Has(k1, class, best) # {}
    BY <1>4, <1>13, <2>2, SuppressedHas
  <2>4. Has(s1, class, best) # {}
    <3> HIDE DEF k1
    <3> QED BY <1>3, <1>4, <1>5, <1>13, <2>3, BestKept
  <2>5. Has(s1, class, best) \cap high # {}
    <3>1. PICK a \in Has(s1, class, best) : TRUE
      BY <2>4
    <3>2. DOMAIN s1 = 1..Len(s1)
      <4> HIDE DEF s1
      <4> QED BY <1>6
    <3>3. a \in 1..Len(s1) /\ s1[a].class = class /\ s1[a].confidence = best
      BY <3>1 DEF Has
    <3> HIDE DEF s1
    <3>4. a \in high
      BY <1>13, <3>2, <3>3
    <3> QED BY <3>1, <3>4
  <2>6. Has(k2, class, best) # {}
    BY <1>8, <2>5
  <2>7. Part(k3, found) /\ Descending(k3) /\ Has(k3, class, best) # {}
    <3> HIDE DEF k2
    <3> QED BY <1>4, <1>8, <1>9, <1>13, <2>6, SuppressedHas
  <2>8. Has(s2, class, best) # {}
    <3> HIDE DEF k3
    <3> QED BY <1>3, <1>4, <1>10, <1>13, <2>7, BestKept
  <2>9. Has(s2, class, best) \cap shown # {}
    <3>1. PICK a \in Has(s2, class, best) : TRUE
      BY <2>8
    <3>2. DOMAIN s2 = 1..Len(s2)
      <4> HIDE DEF s2
      <4> QED BY <1>11
    <3>3. a \in 1..Len(s2) /\ s2[a].class = class /\ s2[a].confidence = best
      BY <3>1 DEF Has
    <3> HIDE DEF s2
    <3>4. a \in shown
      BY <1>13, <2>1, <3>2, <3>3 DEF Told
    <3> QED BY <3>1, <3>4
  <2> HIDE DEF s2
  <2>10. /\ k4 = Media!Picked(s2, shown)
         /\ Has(s2, class, best) \cap shown # {}
    BY <2>9 DEF Reported
  <2> HIDE DEF k4, shown
  <2> QED BY <1>11, <2>10, PickedHas
<1>14. ASSUME NEW i \in 1..Len(k4), NEW j \in 1..Len(k4), i # j,
              k4[i].class = k4[j].class
       PROVE  ~Media!Overlap(k4[i].box, k4[j].box, policy.iou)
  <2>1. Part(k4, s2)
    <3> HIDE DEF s2
    <3> QED BY <1>11, PickedHas DEF Reported
  <2> HIDE DEF k4, s2, k3
  <2>2. PICK g \in [1..Len(k4) -> 1..Len(s2)] :
          /\ \A a, b \in 1..Len(k4) : g[a] = g[b] => a = b
          /\ \A a \in 1..Len(k4) : k4[a] = s2[g[a]]
    BY <2>1 DEF Part
  <2> DEFINE a == g[i]
             b == g[j]
  <2>3. /\ a \in 1..Len(s2) /\ b \in 1..Len(s2) /\ a # b
        /\ k4[i] = s2[a] /\ k4[j] = s2[b]
    BY <1>14, <2>2
  <2> HIDE DEF a, b
  <2>4. /\ a \in 1..Len(k3) /\ b \in 1..Len(k3)
        /\ k4[i] = k3[a] /\ k4[j] = k3[b]
    BY <1>11, <2>3
  <2> QED BY <1>10, <1>14, <2>3, <2>4 DEF Apart
<1> HIDE DEF k4, e, s2, s1
<1> DEFINE seen(class) == {i \in DOMAIN found : found[i].class = class}
           best(class) == Max({found[i].confidence : i \in seen(class)})
           ahead(class) == {i \in DOMAIN found \ seen(class) :
                              found[i].confidence >= best(class)}
<1>15. ASSUME NEW class, Media!Enabled(class, policy), seen(class) # {},
              best(class) >= Media!Threshold(class, policy),
              Cardinality(ahead(class)) < Min({m1, m2})
       PROVE  \E i \in DOMAIN e : /\ e[i].class = class
                                  /\ e[i].confidence = best(class)
  <2>1. DOMAIN found = 1..Len(found)
    BY <1>4
  <2> DEFINE S == seen(class)
             B == best(class)
             A == ahead(class)
  <2>2. S \in SUBSET (1..Len(found)) /\ S # {}
    BY <1>15, <2>1
  <2>3. /\ B \in Int /\ \A i \in S : found[i].confidence <= B
        /\ \E i \in S : found[i].confidence = B
    <3>1. B = Max({found[i].confidence : i \in S})
      OBVIOUS
    <3> HIDE DEF B, S
    <3> QED BY <1>4, <2>2, <3>1, BestOf
  <2>4. A = Ahead(found, class, B)
    <3> HIDE DEF best
    <3> QED BY <2>1 DEF Ahead
  <2>5. S = {i \in 1..Len(found) : found[i].class = class}
    BY <2>1
  <2>6. /\ B >= Media!Threshold(class, policy)
        /\ Cardinality(A) < Min({m1, m2})
    BY <1>15
  <2> HIDE DEF S, B, A, best, ahead
  <2>7. Cardinality(A) < m1 /\ Cardinality(A) < m2
    <3>1. A \subseteq 1..Len(found)
      BY <2>4 DEF Ahead
    <3>2. IsFiniteSet(1..Len(found))
      BY FS_Interval
    <3>3. Cardinality(A) \in Nat
      BY ONLY <3>1, <3>2, FS_Subset, FS_CardinalityType
    <3>4. /\ Min({m1, m2}) \in {m1, m2}
          /\ Min({m1, m2}) <= m1 /\ Min({m1, m2}) <= m2
      BY <1>3, MinOfTwo
    <3> DEFINE c == Cardinality(A)
               x == Min({m1, m2})
    <3>5. c \in Nat /\ c < x /\ x \in Int /\ x <= m1 /\ x <= m2
      BY <1>3, <2>6, <3>3, <3>4
    <3> HIDE DEF c, x
    <3>6. c < m1 /\ c < m2
      BY <1>3, <3>5
    <3> QED BY <3>6 DEF c
  <2>8. Has(found, class, B) # {}
    BY <2>3, <2>5 DEF Has
  <2>9. Has(k4, class, B) # {}
    BY <1>13, <1>15, <2>3, <2>4, <2>5, <2>6, <2>7, <2>8
  <2>10. PICK i \in 1..Len(k4) : k4[i].class = class /\ k4[i].confidence = B
    BY <2>9 DEF Has
  <2>11. \E a \in DOMAIN e : e[a].class = class /\ e[a].confidence = B
    BY <1>12, <2>10
  <2> QED BY <2>11 DEF B
<1>16. ASSUME NEW i \in DOMAIN e, NEW j \in DOMAIN e,
              i # j, e[i].class = e[j].class
       PROVE  ~Media!Overlap(e[i].box, e[j].box, policy.iou)
  BY <1>12, <1>14, <1>16
<1> HIDE DEF best, ahead, seen
<1>17. /\ \A class : (/\ Media!Enabled(class, policy) /\ seen(class) # {}
                      /\ best(class) >= Media!Threshold(class, policy)
                      /\ Cardinality(ahead(class)) < Min({m1, m2}))
                     => \E i \in DOMAIN e : /\ e[i].class = class
                                            /\ e[i].confidence = best(class)
       /\ \A i, j \in DOMAIN e :
            (i # j /\ e[i].class = e[j].class) =>
              ~Media!Overlap(e[i].box, e[j].box, policy.iou)
  BY <1>15, <1>16
<1>18. e = Media!ImageSignals(
             Media!Applied(Media!Inferred(image.rows, image.config), policy),
             policy)
  BY <1>1, <1>2 DEF e
<1> HIDE DEF k1, k2, k3, high, shown
<1> QED BY <1>17, <1>18 DEF seen, best, ahead, found, policy, m1, m2

-----------------------------------------------------------------------------
\* Each stage has what the code computes from the input.
DetectedIInv ==
  /\ stage \in {"seen", "inferred", "applied", "signalled"} => input \in Images
  /\ stage = "inferred" => result = Media!Inferred(input.rows, input.config)
  /\ stage = "applied" =>
       result = Media!Applied(Media!Inferred(input.rows, input.config),
                              input.policy)
  /\ stage = "signalled" =>
       result = Media!ImageSignals(
                  Media!Applied(Media!Inferred(input.rows, input.config),
                                input.policy), input.policy)

\* Every step keeps that.
LEMMA DetectedNext ==
  ASSUME DetectedIInv, ContentNext
  PROVE  DetectedIInv'
<1> USE DEF DetectedIInv, Yield
<1>1. ASSUME NEW key \in Keys, NEW wait \in Waits, Arrive(key, wait)
      PROVE  DetectedIInv'
  BY <1>1 DEF Arrive
<1>2. CASE Query \/ QueryFails \/ Load \/ Refuse \/ Process \/ Match
  BY <1>2 DEF Query, QueryFails, Load, Refuse, Process, Match
<1>3. CASE Resolve
  <2>1. CASE NothingFound
    BY <2>1 DEF NothingFound
  <2>2. ASSUME stage = "queried",
               NEW row \in Policies!Foremost(result, input.context),
               Unusable(row) \/ Chosen(row)
        PROVE  DetectedIInv'
    BY <2>2 DEF Unusable, Chosen
  <2> QED BY <1>3, <2>1, <2>2 DEF Resolve
<1>4. CASE Infer
  BY <1>4 DEF Infer
<1>5. CASE ApplyPolicy
  BY <1>5 DEF ApplyPolicy
<1>6. CASE Signal
  BY <1>6 DEF Signal
<1>7. CASE Annotate
  BY <1>7 DEF Annotate
<1> QED BY <1>1, <1>2, <1>3, <1>4, <1>5, <1>6, <1>7 DEF ContentNext

\* In every behaviour, the most confident detection of every class that the
\* policy enables reaches the decision unless more confident ones took all the
\* places, and no two signals of a class are about the same box, whatever the
\* rows, the thresholds and the limits.
THEOREM DetectionsKept == ContentSpec => []DetectionsAccounted
<1>1. ContentInit => DetectedIInv
  BY DEF ContentInit, DetectedIInv
<1>2. DetectedIInv /\ [ContentNext]_contentVars => DetectedIInv'
  <2>1. DetectedIInv /\ UNCHANGED contentVars => DetectedIInv'
    BY DEF contentVars, DetectedIInv
  <2> QED BY <2>1, DetectedNext
<1>3. DetectedIInv => DetectionsAccounted
  <2> SUFFICES ASSUME DetectedIInv, stage = "signalled"
               PROVE  DetectionsAccounted
    BY DEF DetectionsAccounted
  <2>1. /\ input \in Images
        /\ result = Media!ImageSignals(
                      Media!Applied(Media!Inferred(input.rows, input.config),
                                    input.policy), input.policy)
    BY DEF DetectedIInv
  <2> QED BY ONLY <2>1, SignalsAccounted DEF DetectionsAccounted
<1> QED BY <1>1, <1>2, <1>3, PTL DEF ContentSpec

-----------------------------------------------------------------------------
(* ContentRules: what is around a message                                  *)

\* The end of a domain, label by label.
Ends(p, d) ==
  /\ Len(p) <= Len(d)
  /\ \A i \in 1..Len(p) : p[Len(p) - i + 1] = d[Len(d) - i + 1]

\* That is what IsSuffix compares.
LEMMA SuffixEnds ==
  ASSUME NEW S, NEW p \in Seq(S), NEW T, NEW d \in Seq(T)
  PROVE  IsSuffix(p, d) <=> Ends(p, d)
<1> DEFINE m == Len(p)
           n == Len(d)
           rp == [i \in 1..m |-> p[(m - i) + 1]]
           rd == [i \in 1..n |-> d[(n - i) + 1]]
<1>1. m \in Nat /\ n \in Nat
  OBVIOUS
<1>2. Reverse(p) = rp /\ Reverse(d) = rd
  BY DEF Reverse
<1>3. rp \in Seq(S) /\ Len(rp) = m
  <2>1. rp \in [1..m -> S]
    OBVIOUS
  <2> HIDE DEF rp
  <2> QED BY <1>1, <2>1
<1>4. rd \in Seq(T) /\ Len(rd) = n
  <2>1. rd \in [1..n -> T]
    OBVIOUS
  <2> HIDE DEF rd
  <2> QED BY <1>1, <2>1
<1>5. /\ \A i \in 1..m : rp[i] = p[m - i + 1]
      /\ \A i \in 1..n : rd[i] = d[n - i + 1]
  OBVIOUS
<1> HIDE DEF rp, rd
<1>6. IsSuffix(p, d) <=> m <= n /\ SubSeq(rp, 1, m) = SubSeq(rd, 1, m)
  BY <1>2, <1>3, <1>4 DEF IsSuffix, IsPrefix
<1> HIDE DEF m, n
<1>7. ASSUME m <= n
      PROVE  SubSeq(rp, 1, m) = SubSeq(rd, 1, m)
               <=> \A i \in 1..m : rp[i] = rd[i]
  <2>1. SubSeq(rp, 1, m) = [i \in 1..m |-> rp[i]]
    BY <1>1, <1>3
  <2>2. SubSeq(rd, 1, m) = [i \in 1..m |-> rd[i]]
    BY <1>1, <1>4, <1>7
  <2> QED BY <2>1, <2>2
<1>8. ASSUME m <= n
      PROVE  (\A i \in 1..m : rp[i] = rd[i])
               <=> \A i \in 1..m : p[m - i + 1] = d[n - i + 1]
  <2>1. \A i \in 1..m : i \in 1..n
    BY <1>1, <1>8
  <2> QED BY <1>5, <2>1
<1> QED BY <1>6, <1>7, <1>8 DEF Ends, m, n

\* It does not matter that the www is taken off twice.
LEMMA WwwOnce ==
  ASSUME NEW S, NEW p \in Seq(S), WithoutWww(p) = p, NEW T, NEW d \in Seq(T)
  PROVE  IsSuffix(p, WithoutWww(d)) <=> IsSuffix(p, d)
<1>1. CASE ~(Len(d) > 1 /\ d[1] = "www")
  BY <1>1 DEF WithoutWww
<1>2. CASE Len(d) > 1 /\ d[1] = "www"
  <2> DEFINE t == Tail(d)
             m == Len(p)
             n == Len(d)
  <2>1. WithoutWww(d) = t
    BY <1>2 DEF WithoutWww
  <2>2. /\ m \in Nat /\ n \in Nat /\ n > 1 /\ t \in Seq(T) /\ Len(t) = n - 1
        /\ \A i \in 1..n - 1 : t[i] = d[i + 1]
    BY <1>2
  <2>3. Len(p) > 1 => p[1] # "www"
    <3> SUFFICES ASSUME Len(p) > 1, p[1] = "www" PROVE FALSE
      OBVIOUS
    <3>1. WithoutWww(p) = Tail(p)
      BY DEF WithoutWww
    <3>2. Len(Tail(p)) = Len(p) - 1 /\ Len(p) \in Nat
      OBVIOUS
    <3> QED BY <3>1, <3>2
  <2>4. IsSuffix(p, t) <=> Ends(p, t)
    BY <2>2, SuffixEnds
  <2>5. IsSuffix(p, d) <=> Ends(p, d)
    BY SuffixEnds
  <2> HIDE DEF t, m, n
  <2>6. ASSUME NEW i \in 1..m, m <= n - 1
        PROVE  t[Len(t) - i + 1] = d[n - i + 1]
    <3> DEFINE j == Len(t) - i + 1
    <3>1. j \in 1..n - 1 /\ j + 1 = n - i + 1
      BY <2>2, <2>6
    <3> HIDE DEF j
    <3>2. t[j] = d[j + 1]
      BY <2>2, <3>1
    <3> QED BY <3>1, <3>2 DEF j
  <2>7. ASSUME m <= n - 1
        PROVE  Ends(p, t) <=> Ends(p, d)
    <3>1. Ends(p, t) <=>
            /\ m <= n - 1
            /\ \A i \in 1..m : p[m - i + 1] = t[Len(t) - i + 1]
      BY <2>2 DEF Ends, m
    <3>2. Ends(p, d) <=>
            m <= n /\ \A i \in 1..m : p[m - i + 1] = d[n - i + 1]
      BY DEF Ends, m, n
    <3>3. m <= n
      BY <2>2, <2>7
    <3> QED BY <2>6, <2>7, <3>1, <3>2, <3>3
  <2>8. ASSUME ~(m <= n - 1)
        PROVE  ~Ends(p, t) /\ ~Ends(p, d)
    <3>1. ~Ends(p, t)
      BY <2>2, <2>8 DEF Ends, m
    <3>2. ASSUME Ends(p, d) PROVE FALSE
      <4>1. m = n /\ m > 1
        BY <2>2, <2>8, <3>2 DEF Ends, m, n
      <4>2. m \in 1..m /\ m - m + 1 = 1 /\ n - m + 1 = 1
        BY <2>2, <4>1
      <4>3. p[m - m + 1] = d[n - m + 1]
        BY <3>2, <4>2 DEF Ends, m, n
      <4>4. p[1] = "www"
        BY <1>2, <4>2, <4>3
      <4> QED BY <2>3, <4>1, <4>4 DEF m
    <3> QED BY <3>1, <3>2
  <2> QED BY <2>1, <2>4, <2>5, <2>7, <2>8
<1> QED BY <1>1, <1>2

\* So a domain matches when it does as it is written.
LEMMA MatchesOnce ==
  ASSUME NEW patterns, NEW T, NEW d \in Seq(T),
         \A p \in patterns : p \in Seq(Range(p)) /\ WithoutWww(p) = p
  PROVE  MatchesAny(WithoutWww(d), patterns) <=> MatchesAny(d, patterns)
<1> DEFINE e == WithoutWww(d)
<1>1. e \in Seq(T)
  <2>1. Len(d) > 1 => Tail(d) \in Seq(T)
    OBVIOUS
  <2> QED BY <2>1 DEF WithoutWww
<1> HIDE DEF e
<1>2. \A p \in patterns : IsSuffix(p, WithoutWww(e)) <=> IsSuffix(p, e)
  BY <1>1, WwwOnce
<1>3. MatchesAny(e, patterns) <=> \E p \in patterns : IsSuffix(p, e)
  BY <1>2 DEF MatchesAny
<1> QED BY <1>3 DEF e, MatchesAny

\* The rules about links.
Linked == {"invite", "detect_any_url", "shortener"}

\* When they match.
LEMMA LinksMatched ==
  ASSUME NEW c, NEW s
  PROVE  LET r == Matched(c, s) IN
         /\ "invite" \in r <=>
              s.rule["invite"].enabled /\ ~(c.invites \subseteq s.codes)
         /\ "detect_any_url" \in r <=>
              s.rule["detect_any_url"].enabled /\ Untrusted(c, s) # {}
         /\ "shortener" \in r => Untrusted(c, s) # {}
<1> DEFINE I == Matching(InviteConditions(c, s), s)
           L == Matching(LinkConditions(c, s), s)
           spoken == Matching(ProfanityConditions(c, s), s)
                     \cup Matching(KeywordConditions(c, s), s)
           aimed == (UNION {s.rule[id].labels :
                              id \in spoken \ {"blacklist_words"}})
                    \cap {"PROFANITY", "HATE", "THREAT"} # {}
<1>1. Matched(c, s) =
        spoken \cup Matching(FloodConditions(c, s), s)
        \cup Matching(SpamConditions(c, s, aimed), s)
        \cup I \cup L \cup Matching(EvasionConditions(c, s), s)
  BY DEF Matched
<1>2. spoken \cap Linked = {}
  <2>1. Matching(ProfanityConditions(c, s), s) \cap Linked = {}
    BY DEF Matching, ProfanityConditions, Linked
  <2>2. Matching(KeywordConditions(c, s), s) \cap Linked = {}
    BY DEF Matching, KeywordConditions, Linked
  <2> QED BY <2>1, <2>2
<1> HIDE DEF spoken, aimed
<1>3. Matching(FloodConditions(c, s), s) \cap Linked = {}
  BY DEF Matching, FloodConditions, Linked
<1>4. Matching(SpamConditions(c, s, aimed), s) \cap Linked = {}
  BY DEF Matching, SpamConditions, Linked
<1>5. Matching(EvasionConditions(c, s), s) \cap Linked = {}
  BY DEF Matching, EvasionConditions, Linked
<1> DEFINE url == Untrusted(c, s) # {}
           short == \E d \in Untrusted(c, s) :
                      MatchesAny(d, s.domains.shortener)
           blocked == ~(c.invites \subseteq s.codes)
<1>6. LinkConditions(c, s) = [detect_any_url |-> url, shortener |-> short]
  BY DEF LinkConditions
<1>7. InviteConditions(c, s) = [invite |-> blocked]
  BY DEF InviteConditions
<1>8. short => url
  OBVIOUS
<1> HIDE DEF url, short, blocked
<1>9. /\ "invite" \in I <=> s.rule["invite"].enabled /\ blocked
      /\ "detect_any_url" \notin I /\ "shortener" \notin I
  BY <1>7 DEF Matching
<1>10. /\ "detect_any_url" \in L <=> s.rule["detect_any_url"].enabled /\ url
       /\ "shortener" \in L => short
       /\ "invite" \notin L
  BY <1>6 DEF Matching
<1> HIDE DEF I, L
<1>11. \A id \in Linked : id \in Matched(c, s) <=> id \in I \cup L
  BY <1>1, <1>2, <1>3, <1>4, <1>5
<1>12. \A id \in {"invite", "detect_any_url", "shortener"} :
         id \in Matched(c, s) <=> id \in I \cup L
  BY <1>11 DEF Linked
<1> QED BY <1>8, <1>9, <1>10, <1>12 DEF url, blocked

\* What Context has of the links.
LEMMA LinksOf ==
  ASSUME NEW case \in Messages, NEW s,
         s.domains = case.file.domains, s.codes = case.file.codes
  PROVE  LET r == Matched(Context(case.message), s)
             links   == LinksIn(case.message)
             trusted(d) == MatchesAny(d, case.file.domains.allowed)
             foreign == {l \in links : Host[l] # <<>> /\ ~trusted(Host[l])}
             blocked == {l \in links :
                           Code[l] # None /\ Code[l] \notin case.file.codes}
             discord == {l \in foreign : MatchesAny(Host[l], DiscordDomains)} IN
         /\ s.rule["detect_any_url"].enabled =>
              /\ foreign \ discord # {} => "detect_any_url" \in r
              /\ (foreign # {} /\ blocked # {} /\ s.rule["invite"].enabled) =>
                   "detect_any_url" \in r
         /\ s.rule["invite"].enabled => (blocked # {} <=> "invite" \in r)
         /\ foreign = {} => r \cap {"detect_any_url", "shortener"} = {}
<1> DEFINE c == Context(case.message)
           r == Matched(c, s)
           links == LinksIn(case.message)
           allowed == case.file.domains.allowed
           codes == case.file.codes
           foreign == {l \in links :
                         Host[l] # <<>> /\ ~MatchesAny(Host[l], allowed)}
           blocked == {l \in links : Code[l] # None /\ Code[l] \notin codes}
           discord == {l \in foreign : MatchesAny(Host[l], DiscordDomains)}
           invited == s.rule["invite"].enabled
<1>1. /\ c.domains =
           {WithoutWww(Host[l]) : l \in {k \in links : Host[k] # <<>>}}
      /\ c.invites = {Code[l] : l \in links} \ {None}
  BY DEF Context, DomainsOf, InvitesOf
<1>2. ASSUME NEW l \in links
      PROVE  /\ MatchesAny(WithoutWww(Host[l]), allowed)
                  <=> MatchesAny(Host[l], allowed)
             /\ MatchesAny(WithoutWww(Host[l]), DiscordDomains)
                  <=> MatchesAny(Host[l], DiscordDomains)
  <2>1. l \in Links
    BY DEF LinksIn
  <2>2. Host[l] \in Seq(Range(Host[l]))
    BY <2>1, MessagesAssumption
  <2>3. \A p \in allowed \cup DiscordDomains :
          p \in Seq(Range(p)) /\ WithoutWww(p) = p
    BY MessagesAssumption
  <2> HIDE DEF allowed
  <2> DEFINE d == Host[l]
  <2> HIDE DEF d
  <2>4. \A p \in allowed : p \in Seq(Range(p)) /\ WithoutWww(p) = p
    BY <2>3
  <2>5. \A p \in DiscordDomains : p \in Seq(Range(p)) /\ WithoutWww(p) = p
    BY <2>3
  <2>6. d \in Seq(Range(d))
    BY <2>2 DEF d
  <2>7. MatchesAny(WithoutWww(d), allowed) <=> MatchesAny(d, allowed)
    BY <2>4, <2>6, MatchesOnce
  <2>8. MatchesAny(WithoutWww(d), DiscordDomains)
          <=> MatchesAny(d, DiscordDomains)
    BY <2>5, <2>6, MatchesOnce
  <2> QED BY <2>7, <2>8 DEF d
<1>3. c.invites \subseteq codes <=> blocked = {}
  BY <1>1
<1>4. /\ "invite" \in r <=> invited /\ ~(c.invites \subseteq codes)
      /\ "detect_any_url" \in r <=>
           s.rule["detect_any_url"].enabled /\ Untrusted(c, s) # {}
      /\ "shortener" \in r => Untrusted(c, s) # {}
  <2> HIDE DEF c
  <2> QED BY LinksMatched
<1>5. s.rule.invite.enabled = invited
  OBVIOUS
<1>6. Untrusted(c, s) =
        {d \in ShownDomains(c, s) : ~MatchesAny(d, allowed)}
  <2> HIDE DEF c
  <2> QED BY DEF Untrusted
<1>7. ShownDomains(c, s) =
        IF c.invites # {} /\ (~invited \/ c.invites \subseteq codes)
        THEN {d \in c.domains : ~MatchesAny(d, DiscordDomains)}
        ELSE c.domains
  <2> HIDE DEF c, invited
  <2> QED BY <1>5 DEF ShownDomains
<1> HIDE DEF c, r, links, allowed, codes, invited
<1>8. ASSUME NEW l \in foreign
      PROVE  WithoutWww(Host[l]) \in c.domains
             /\ ~MatchesAny(WithoutWww(Host[l]), allowed)
  BY <1>1, <1>2
<1>9. foreign \ discord # {} => Untrusted(c, s) # {}
  <2> SUFFICES ASSUME NEW l \in foreign, l \notin discord
               PROVE  Untrusted(c, s) # {}
    OBVIOUS
  <2>1. ~MatchesAny(WithoutWww(Host[l]), DiscordDomains)
    BY <1>2
  <2>2. WithoutWww(Host[l]) \in ShownDomains(c, s)
    BY <1>7, <1>8, <2>1
  <2> QED BY <1>6, <1>8, <2>2
<1>10. foreign # {} /\ blocked # {} /\ invited => Untrusted(c, s) # {}
  <2> SUFFICES ASSUME NEW l \in foreign, blocked # {}, invited
               PROVE  Untrusted(c, s) # {}
    OBVIOUS
  <2>1. ShownDomains(c, s) = c.domains
    BY <1>3, <1>7
  <2> QED BY <1>6, <1>8, <2>1
<1>11. foreign = {} => Untrusted(c, s) = {}
  <2> SUFFICES ASSUME NEW d \in Untrusted(c, s) PROVE foreign # {}
    OBVIOUS
  <2>1. d \in c.domains /\ ~MatchesAny(d, allowed)
    BY <1>6, <1>7
  <2>2. PICK l \in links : Host[l] # <<>> /\ d = WithoutWww(Host[l])
    BY <1>1, <2>1
  <2> QED BY <1>2, <2>1, <2>2
<1> HIDE DEF foreign, blocked, discord
<1>12. /\ s.rule["detect_any_url"].enabled =>
            /\ foreign \ discord # {} => "detect_any_url" \in r
            /\ (foreign # {} /\ blocked # {} /\ invited) =>
                 "detect_any_url" \in r
       /\ invited => (blocked # {} <=> "invite" \in r)
       /\ foreign = {} => r \cap {"detect_any_url", "shortener"} = {}
  BY <1>3, <1>4, <1>9, <1>10, <1>11
<1> QED BY <1>12 DEF c, r, links, allowed, codes, invited, foreign, blocked,
                   discord

\* Without mentions, nothing is put in their place.
LEMMA NoneAddressed ==
  ASSUME NEW S, NEW s \in Seq(S), PositionsOf(s, Mentions) = {}
  PROVE  Addressed(s) = s
<1> DEFINE n == Len(s)
           e == [i \in DOMAIN s |->
                   IF s[i] \in Mentions THEN Address ELSE <<s[i]>>]
           Body(g) == [i \in 1..Len(e) |->
                         IF i = 1 THEN e[i] ELSE g[i - 1] \o e[i]]
           flat == CHOOSE g : g = Body(g)
           f == [i \in 1..n |-> SubSeq(s, 1, i)]
<1>1. n \in Nat /\ DOMAIN s = 1..n /\ \A i \in 1..n : s[i] \in S
  OBVIOUS
<1>2. \A i \in 1..n : s[i] \notin Mentions
  BY <1>1 DEF PositionsOf
<1>3. e = [i \in 1..n |-> <<s[i]>>]
  BY <1>1, <1>2
<1>4. Len(e) = n
  <2>1. e \in Seq(Seq(S))
    <3>1. \A i \in 1..n : <<s[i]>> \in Seq(S)
      BY <1>1
    <3>2. e \in [1..n -> Seq(S)]
      BY <1>3, <3>1
    <3> HIDE DEF e
    <3> QED BY <1>1, <3>2
  <2>2. DOMAIN e = 1..n
    BY <1>3
  <2> HIDE DEF e
  <2>3. Len(e) \in Nat /\ 1..Len(e) = 1..n
    BY <2>1, <2>2
  <2> QED BY <1>1, <2>3
<1> HIDE DEF e
<1>5. Addressed(s) = IF n = 0 THEN e ELSE flat[n]
  <2>1. Addressed(s) = FlattenSeq(e)
    BY DEF Addressed, e
  <2>2. FlattenSeq(e) = IF Len(e) = 0 THEN e ELSE flat[Len(e)]
    BY DEF FlattenSeq
  <2> HIDE DEF flat
  <2> QED BY <1>4, <2>1, <2>2
<1>6. ASSUME NEW i \in 1..n
      PROVE  f[i] = IF i = 1 THEN e[i] ELSE f[i - 1] \o e[i]
  <2>1. e[i] = <<s[i]>> /\ f[i] = SubSeq(s, 1, i)
    BY <1>3
  <2>2. CASE i = 1
    <3>1. SubSeq(s, 1, 1) = <<s[1]>>
      <4> DEFINE a == SubSeq(s, 1, 1)
                 b == <<s[1]>>
      <4>1. /\ a \in Seq(S) /\ Len(a) = 1 /\ a[1] = s[1]
        BY <1>1, <2>2
      <4>2. /\ b \in Seq(S) /\ Len(b) = 1 /\ b[1] = s[1]
        BY <1>1, <2>2
      <4> HIDE DEF a, b
      <4>3. \A j \in 1..Len(a) : a[j] = b[j]
        BY <4>1, <4>2
      <4>4. a = b
        BY <4>1, <4>2, <4>3, SeqEqual
      <4> QED BY <4>4 DEF a, b
    <3> QED BY <2>1, <2>2, <3>1
  <2>3. CASE i # 1
    <3> DEFINE k == i - 1
    <3>1. k \in 1..n /\ k \in Nat /\ i = k + 1 /\ k <= n /\ i <= n
      BY <1>1, <2>3
    <3> HIDE DEF k
    <3>2. f[k] = SubSeq(s, 1, k)
      BY <3>1
    <3>3. SubSeq(s, 1, k) \o <<s[i]>> = SubSeq(s, 1, i)
      <4> DEFINE a == SubSeq(s, 1, k)
                 b == SubSeq(s, 1, i)
      <4>1. /\ a \in Seq(S) /\ Len(a) = k /\ \A j \in 1..k : a[j] = s[j]
        BY <1>1, <3>1
      <4>2. /\ b \in Seq(S) /\ Len(b) = i /\ \A j \in 1..i : b[j] = s[j]
        BY <1>1, <3>1
      <4> HIDE DEF a, b
      <4>3. /\ a \o <<s[i]>> \in Seq(S) /\ Len(a \o <<s[i]>>) = i
            /\ \A j \in 1..i : (a \o <<s[i]>>)[j] = s[j]
        <5>1. <<s[i]>> \in Seq(S)
          BY <1>1
        <5>2. Len(a \o <<s[i]>>) = i
          BY <3>1, <4>1, <5>1
        <5>3. \A j \in 1..i : (a \o <<s[i]>>)[j] = s[j]
          BY <3>1, <4>1, <5>1
        <5> QED BY <4>1, <5>1, <5>2, <5>3
      <4> DEFINE c == a \o <<s[i]>>
      <4>4. c \in Seq(S) /\ Len(c) = i /\ \A j \in 1..i : c[j] = s[j]
        BY <4>3
      <4> HIDE DEF c
      <4>5. \A j \in 1..Len(c) : c[j] = b[j]
        BY <4>2, <4>4
      <4>6. c = b
        BY <4>2, <4>4, <4>5, SeqEqual
      <4> QED BY <4>6 DEF a, b, c
    <3>4. f[i] = f[k] \o e[i]
      BY <2>1, <3>2, <3>3
    <3> QED BY <2>3, <3>4 DEF k
  <2> QED BY <2>2, <2>3
<1>7. f = Body(f)
  BY <1>4, <1>6
<1>8. flat = Body(flat)
  BY <1>7
<1> HIDE DEF flat
<1> DEFINE D == {i \in 1..n : flat[i] # f[i]}
<1>9. D = {}
  <2> SUFFICES ASSUME D # {} PROVE FALSE
    OBVIOUS
  <2>1. D \in SUBSET (1..n)
    OBVIOUS
  <2> HIDE DEF D, f
  <2>2. PICK k \in D : \A i \in D : k <= i
    BY <1>1, <2>1, LeastBelow
  <2>3. k \in 1..n /\ flat[k] # f[k]
    BY <2>2 DEF D
  <2>4. flat[k] = IF k = 1 THEN e[k] ELSE flat[k - 1] \o e[k]
    BY <1>4, <1>8, <2>3
  <2>5. CASE k = 1
    BY <1>6, <2>3, <2>4, <2>5
  <2>6. CASE k # 1
    <3>1. k - 1 \in 1..n /\ ~(k <= k - 1)
      BY <1>1, <2>3, <2>6
    <3>2. flat[k - 1] = f[k - 1]
      BY <2>2, <3>1 DEF D
    <3> QED BY <1>6, <2>3, <2>4, <2>6, <3>2
  <2> QED BY <2>5, <2>6
<1>10. CASE n = 0
  BY <1>1, <1>3, <1>4, <1>5, <1>10
<1>11. CASE n # 0
  <2>1. n \in 1..n
    BY <1>1, <1>11
  <2>2. flat[n] = SubSeq(s, 1, n)
    BY <1>9, <2>1
  <2> QED BY <1>5, <1>11, <2>2
<1> QED BY <1>10, <1>11

\* What Context counts around a message.
LEMMA ActivityOf ==
  ASSUME NEW case \in Messages
  PROVE  LET message == case.message
             same == {i \in DOMAIN message.recent \cap DOMAIN message.stamps :
                        /\ message.recent[i] = message.text
                        /\ message.at - message.stamps[i] \in 0..600}
             activity == Context(message).activity IN
         /\ activity.in10s <= activity.in60s
         /\ activity.in60s <= activity.in10m
         /\ Count(message.text, Mentions) = 0 =>
              activity.repeated >= Cardinality(same)
         /\ Len(message.recent) <= Len(message.stamps) =>
              activity.repeated <= activity.in10m
<1> DEFINE message == case.message
           normal == Normalized(Addressed(message.text))
           Sent(n) == {i \in DOMAIN message.stamps :
                         message.at - message.stamps[i] \in 0..n}
           Again == {i \in DOMAIN message.recent :
                       /\ i \in DOMAIN message.stamps =>
                            message.at - message.stamps[i] \in 0..600
                       /\ Normalized(message.recent[i]) = normal}
           same == {i \in DOMAIN message.recent \cap DOMAIN message.stamps :
                      /\ message.recent[i] = message.text
                      /\ message.at - message.stamps[i] \in 0..600}
           activity == Context(message).activity
<1>1. /\ message.text \in Seq(DOMAIN Fold)
      /\ message.recent \in Seq(Range(message.recent))
      /\ message.stamps \in Seq(Int) /\ message.at \in Int
  BY MessagesAssumption
<1>2. /\ activity.in10s = Cardinality(Sent(10))
      /\ activity.in60s = Cardinality(Sent(60))
      /\ activity.in10m = Cardinality(Sent(600))
      /\ activity.repeated = Cardinality(Again)
  BY DEF Context, Activity, SentWithin, Repeated
<1> HIDE DEF message, normal, activity
<1> DEFINE D == DOMAIN message.stamps
           E == DOMAIN message.recent
           P == PositionsOf(message.text, Mentions)
<1>3. IsFiniteSet(D) /\ IsFiniteSet(E) /\ IsFiniteSet(P)
  <2>1. \A n \in Nat : IsFiniteSet(1..n)
    BY FS_Interval
  <2>2. IsFiniteSet(DOMAIN message.text)
    BY <1>1, <2>1
  <2>3. IsFiniteSet(D) /\ IsFiniteSet(E)
    BY <1>1, <2>1
  <2>4. P \subseteq DOMAIN message.text
    BY DEF PositionsOf
  <2> HIDE DEF P, D, E
  <2>5. IsFiniteSet(P)
    BY ONLY <2>2, <2>4, FS_Subset
  <2> QED BY <2>3, <2>5
<1>4. /\ Sent(10) \subseteq Sent(60) /\ Sent(60) \subseteq Sent(600)
      /\ Sent(60) \subseteq D /\ Sent(600) \subseteq D /\ Again \subseteq E
  <2>1. 0..10 \subseteq 0..60 /\ 0..60 \subseteq 0..600
    OBVIOUS
  <2>2. Sent(60) \subseteq D /\ Sent(600) \subseteq D /\ Again \subseteq E
    OBVIOUS
  <2>3. Sent(10) \subseteq Sent(60)
    BY <2>1
  <2>4. Sent(60) \subseteq Sent(600)
    BY <2>1
  <2> HIDE DEF Sent, Again
  <2> QED BY <2>2, <2>3, <2>4
<1>5. Count(message.text, Mentions) = 0 => same \subseteq Again
  <2> SUFFICES ASSUME Count(message.text, Mentions) = 0
               PROVE  same \subseteq Again
    OBVIOUS
  <2>1. P = {}
    <3>1. Cardinality(P) = 0
      BY DEF Count
    <3> HIDE DEF P
    <3> QED BY <1>3, <3>1, FS_EmptySet
  <2>2. Addressed(message.text) = message.text
    BY <1>1, <2>1, NoneAddressed
  <2>3. normal = Normalized(message.text)
    BY <2>2 DEF normal
  <2> QED BY <2>3
<1>6. Len(message.recent) <= Len(message.stamps) => Again \subseteq Sent(600)
  <2> SUFFICES ASSUME Len(message.recent) <= Len(message.stamps),
                      NEW i \in Again
               PROVE  i \in Sent(600)
    OBVIOUS
  <2>1. i \in 1..Len(message.recent) /\ Len(message.recent) \in Nat
    BY <1>1
  <2>2. /\ Len(message.stamps) \in Nat
        /\ DOMAIN message.stamps = 1..Len(message.stamps)
    BY <1>1
  <2> DEFINE k == Len(message.recent)
             l == Len(message.stamps)
  <2>3. k \in Nat /\ l \in Nat /\ k <= l /\ i \in 1..k
    BY <2>1, <2>2
  <2> HIDE DEF k, l
  <2>4. i \in 1..l
    BY <2>3
  <2>5. i \in DOMAIN message.stamps
    BY <2>2, <2>4 DEF l
  <2> QED BY <2>5
<1> DEFINE c10 == Cardinality(Sent(10))
           c60 == Cardinality(Sent(60))
           c600 == Cardinality(Sent(600))
           cs == Cardinality(same)
           ca == Cardinality(Again)
<1> HIDE DEF Sent, Again, same, D, E, P
<1>7. IsFiniteSet(Sent(60)) /\ IsFiniteSet(Sent(600)) /\ IsFiniteSet(Again)
  <2>1. IsFiniteSet(Sent(60))
    BY ONLY <1>3, <1>4, FS_Subset
  <2>2. IsFiniteSet(Sent(600))
    BY ONLY <1>3, <1>4, FS_Subset
  <2>3. IsFiniteSet(Again)
    BY ONLY <1>3, <1>4, FS_Subset
  <2> QED BY <2>1, <2>2, <2>3
<1>8. c10 <= c60
  BY ONLY <1>4, <1>7, FS_Subset
<1>9. c60 <= c600
  BY ONLY <1>4, <1>7, FS_Subset
<1>10. same \subseteq Again => cs <= ca
  BY ONLY <1>7, FS_Subset
<1>11. Again \subseteq Sent(600) => ca <= c600
  BY ONLY <1>7, FS_Subset
<1>12. same \subseteq Again => cs \in Nat /\ ca \in Nat
  BY ONLY <1>7, FS_Subset, FS_CardinalityType
<1> HIDE DEF c10, c60, c600, cs, ca
<1>13. cs <= ca => ca >= cs
  BY Z3
<1>14. /\ activity.in10s <= activity.in60s
       /\ activity.in60s <= activity.in10m
       /\ Count(message.text, Mentions) = 0 => activity.repeated >= cs
       /\ Len(message.recent) <= Len(message.stamps) =>
            activity.repeated <= activity.in10m
  BY <1>2, <1>5, <1>6, <1>8, <1>9, <1>10, <1>11, <1>13
     DEF c10, c60, c600, ca
<1> QED BY <1>14 DEF cs, same, activity, message

\* Each stage has what the code computes from the message and its file.
ReadIInv ==
  /\ stage \in {"configured", "loaded", "processed", "matched"} =>
       input \in Messages
  /\ stage \in {"loaded", "processed", "matched"} =>
       settings = Loaded(input.file)
  /\ stage = "processed" => result = Context(input.message)
  /\ stage = "matched" => result = Matched(Context(input.message), settings)

\* Every step keeps that.
LEMMA ReadNext ==
  ASSUME ReadIInv, ContentNext
  PROVE  ReadIInv'
<1> USE DEF ReadIInv, Yield
<1>1. ASSUME NEW key \in Keys, NEW wait \in Waits, Arrive(key, wait)
      PROVE  ReadIInv'
  BY <1>1 DEF Arrive
<1>2. CASE Query \/ QueryFails \/ Infer \/ ApplyPolicy \/ Signal \/ Annotate
  BY <1>2 DEF Query, QueryFails, Infer, ApplyPolicy, Signal, Annotate
<1>3. CASE Resolve
  <2>1. CASE NothingFound
    BY <2>1 DEF NothingFound
  <2>2. ASSUME stage = "queried",
               NEW row \in Policies!Foremost(result, input.context),
               Unusable(row) \/ Chosen(row)
        PROVE  ReadIInv'
    BY <2>2 DEF Unusable, Chosen
  <2> QED BY <1>3, <2>1, <2>2 DEF Resolve
<1>4. CASE Load
  BY <1>4 DEF Load
<1>5. CASE Refuse
  BY <1>5 DEF Refuse
<1>6. CASE Process
  BY <1>6 DEF Process
<1>7. CASE Match
  BY <1>7 DEF Match
<1> QED BY <1>1, <1>2, <1>3, <1>4, <1>5, <1>6, <1>7 DEF ContentNext

\* In every behaviour, what is matched was read from the message by the settings
\* of the file.
THEOREM ReadInvariance == ContentSpec => []ReadIInv
<1>1. ContentInit => ReadIInv
  BY DEF ContentInit, ReadIInv
<1>2. ReadIInv /\ [ContentNext]_contentVars => ReadIInv'
  <2>1. ReadIInv /\ UNCHANGED contentVars => ReadIInv'
    BY DEF contentVars, ReadIInv
  <2> QED BY <2>1, ReadNext
<1> QED BY <1>1, <1>2, PTL DEF ContentSpec

\* In every behaviour, a link to a domain that is not allowed is reported unless
\* it only leads to Discord and every invite is allowed, an invite that is not
\* allowed is reported whatever else the message has, and what is allowed is
\* not, for any links, hosts and lists of the file.
THEOREM LinksKept == ContentSpec => []LinksAccounted
<1>1. ReadIInv => LinksAccounted
  <2> SUFFICES ASSUME ReadIInv, stage = "matched"
               PROVE  LinksAccounted
    BY DEF LinksAccounted
  <2>1. /\ input \in Messages /\ settings.domains = input.file.domains
        /\ settings.codes = input.file.codes
        /\ result = Matched(Context(input.message), settings)
    BY DEF ReadIInv, Loaded
  <2> QED BY ONLY <2>1, LinksOf DEF LinksAccounted, Trusted, On
<1> QED BY <1>1, ReadInvariance, PTL

\* In every behaviour, the windows of the activity are nested, former copies of
\* the text count as repeated, and no more are repeated than were sent, for any
\* history and any times.
THEOREM ActivityKept == ContentSpec => []ActivityCounted
<1>1. ReadIInv => ActivityCounted
  <2> SUFFICES ASSUME ReadIInv, stage = "processed"
               PROVE  ActivityCounted
    BY DEF ActivityCounted
  <2>1. input \in Messages /\ result = Context(input.message)
    BY DEF ReadIInv
  <2> QED BY ONLY <2>1, ActivityOf DEF ActivityCounted
<1> QED BY <1>1, ReadInvariance, PTL

-----------------------------------------------------------------------------
(* ContentRules: what is shown of a text, and what stands for a mention    *)

\* The elements of s at the places P, one more or none at each place.
Picks(f, s, P) ==
  /\ f[0] = <<>>
  /\ \A i \in 1..Len(s) :
       f[i] = IF i \in P THEN Append(f[i - 1], s[i]) ELSE f[i - 1]

\* There is such a list of lists,
LEMMA PicksExists ==
  ASSUME NEW S, NEW s \in Seq(S), NEW P
  PROVE  \E f \in [0..Len(s) -> Seq(S)] : Picks(f, s, P)
<1> DEFINE n == Len(s)
           T == {<<k, i>> : k \in Seq(S), i \in P}
<1>1. n \in Nat /\ \A i \in 1..n : s[i] \in S
  OBVIOUS
<1> HIDE DEF n, T
<1>2. PICK f \in [0..n -> Seq(S)] : Grown(s, T, f, n)
  BY <1>1, GrownExists
<1>3. ASSUME NEW i \in 1..n
      PROVE  f[i] = IF i \in P THEN Append(f[i - 1], s[i]) ELSE f[i - 1]
  <2>1. f[i - 1] \in Seq(S)
    BY <1>1
  <2>2. <<f[i - 1], i>> \in T <=> i \in P
    BY <2>1 DEF T
  <2> QED BY <1>2, <2>2 DEF Grown
<1>4. Picks(f, s, P)
  BY <1>2, <1>3 DEF Picks, Grown, n
<1> QED BY <1>4 DEF n

\* ... and At is the last of it.
LEMMA AtPicks ==
  ASSUME NEW S, NEW s \in Seq(S), NEW P, NEW f, Picks(f, s, P)
  PROVE  At(s, P) = f[Len(s)]
<1> DEFINE n == Len(s)
           Body(g) == [i \in 0..n |->
                         IF i = 0 THEN <<>>
                         ELSE IF i \in P THEN Append(g[i - 1], s[i])
                              ELSE g[i - 1]]
           kept == CHOOSE g : g = Body(g)
           h == [i \in 0..n |-> f[i]]
<1>1. n \in Nat
  OBVIOUS
<1>2. /\ f[0] = <<>>
      /\ \A i \in 1..n : f[i] = IF i \in P THEN Append(f[i - 1], s[i])
                                ELSE f[i - 1]
  BY DEF Picks
<1> HIDE DEF n
<1>3. h = Body(h)
  <2>1. ASSUME NEW i \in 0..n
        PROVE  h[i] = IF i = 0 THEN <<>>
                      ELSE IF i \in P THEN Append(h[i - 1], s[i])
                           ELSE h[i - 1]
    <3>1. CASE i = 0
      BY <1>1, <1>2, <3>1
    <3>2. CASE i # 0
      <4>1. i \in 1..n /\ i - 1 \in 0..n
        BY <1>1, <3>2
      <4>2. h[i - 1] = f[i - 1] /\ h[i] = f[i]
        BY <4>1
      <4> HIDE DEF h
      <4> QED BY <1>2, <3>2, <4>1, <4>2
    <3> QED BY <3>1, <3>2
  <2> QED BY <2>1
<1>4. kept = Body(kept)
  BY <1>3
<1>5. At(s, P) = kept[n]
  BY DEF At, n
<1> HIDE DEF kept, h
<1> DEFINE D == {i \in 0..n : kept[i] # f[i]}
<1>6. D = {}
  <2>1. D \in SUBSET (0..n)
    OBVIOUS
  <2>2. 0 \notin D
    <3>1. kept[0] = <<>>
      BY <1>1, <1>4
    <3> QED BY <1>2, <3>1
  <2>3. ASSUME NEW k \in 0..n, k < n, k \notin D PROVE k + 1 \notin D
    <3> DEFINE m == k + 1
    <3>1. m \in 1..n /\ m \in 0..n /\ m # 0 /\ m - 1 = k /\ kept[k] = f[k]
      BY <1>1, <2>3
    <3> HIDE DEF m, D
    <3>2. kept[m] = IF m \in P THEN Append(kept[m - 1], s[m])
                    ELSE kept[m - 1]
      BY <1>4, <3>1
    <3>3. kept[m] = f[m]
      BY <1>2, <3>1, <3>2
    <3> QED BY <3>3 DEF m, D
  <2> HIDE DEF D
  <2> QED BY <1>1, <2>1, <2>2, <2>3, NoneFails
<1> QED BY <1>1, <1>5, <1>6 DEF n

\* What is at some places is drawn from them, in their order.
Exact(e, m, P) ==
  /\ e \in [1..m -> P]
  /\ \A a, b \in 1..m : a < b => e[a] < e[b]
  /\ \A i \in P : \E a \in 1..m : e[a] = i

LEMMA AtDrawn ==
  ASSUME NEW S, NEW s \in Seq(S), NEW P \in SUBSET (1..Len(s))
  PROVE  /\ At(s, P) \in Seq(S)
         /\ \E e : /\ Exact(e, Len(At(s, P)), P)
                   /\ \A k \in 1..Len(At(s, P)) : At(s, P)[k] = s[e[k]]
<1>1. At(s, P) = Media!Picked(s, P)
  BY DEF At, Media!Picked
<1> DEFINE k == At(s, P)
<1>2. /\ k \in Seq(S)
      /\ \E g : /\ Drawn(k, s, g)
                /\ \A a \in 1..Len(k) : g[a] \in P
                /\ \A i \in 1..Len(s) \cap P : \E a \in 1..Len(k) : g[a] = i
  BY <1>1, PickedDrawn
<1> HIDE DEF k
<1>3. PICK g : /\ Drawn(k, s, g)
               /\ \A a \in 1..Len(k) : g[a] \in P
               /\ \A i \in 1..Len(s) \cap P : \E a \in 1..Len(k) : g[a] = i
  BY <1>2
<1>4. Exact(g, Len(k), P)
  <2>1. g \in [1..Len(k) -> P]
    BY <1>3 DEF Drawn
  <2> QED BY <1>3, <2>1 DEF Exact, Drawn
<1>5. \A a \in 1..Len(k) : k[a] = s[g[a]]
  BY <1>3 DEF Drawn
<1> QED BY <1>2, <1>4, <1>5 DEF k

\* A longer text shows one more character, unless it is invisible.
LEMMA VisibleAppend ==
  ASSUME NEW S, NEW s \in Seq(S), NEW c \in S
  PROVE  /\ Visible(s) \in Seq(S)
         /\ Visible(Append(s, c)) = IF c \in ZeroWidth THEN Visible(s)
                                    ELSE Append(Visible(s), c)
<1> DEFINE n == Len(s)
           l == Append(s, c)
           P == DOMAIN s \ PositionsOf(s, ZeroWidth)
           Q == DOMAIN l \ PositionsOf(l, ZeroWidth)
<1>1. /\ n \in Nat /\ DOMAIN s = 1..n /\ l \in Seq(S) /\ Len(l) = n + 1
      /\ DOMAIN l = 1..n + 1 /\ l[n + 1] = c /\ \A i \in 1..n : l[i] = s[i]
  OBVIOUS
<1>2. PICK f \in [0..Len(l) -> Seq(S)] : Picks(f, l, Q)
  <2> HIDE DEF l, Q
  <2> QED BY <1>1, PicksExists
<1> HIDE DEF l, n
<1>3. \A i \in 1..n : i \in P <=> i \in Q
  BY <1>1 DEF PositionsOf
<1>4. n + 1 \in Q <=> c \notin ZeroWidth
  BY <1>1 DEF PositionsOf
<1> HIDE DEF P, Q
<1>5. /\ f[0] = <<>>
      /\ \A i \in 1..n + 1 : f[i] = IF i \in Q THEN Append(f[i - 1], l[i])
                                    ELSE f[i - 1]
  BY <1>1, <1>2 DEF Picks
<1>6. Picks(f, s, P)
  <2>1. \A i \in 1..n : i \in 1..n + 1
    BY <1>1
  <2> QED BY <1>1, <1>3, <1>5, <2>1 DEF Picks, n
<1>7. Visible(s) = f[n] /\ Visible(l) = f[n + 1]
  <2>1. At(s, P) = f[Len(s)]
    BY <1>6, AtPicks
  <2>2. At(l, Q) = f[Len(l)]
    BY <1>1, <1>2, AtPicks
  <2> QED BY <1>1, <2>1, <2>2 DEF Visible, P, Q, n
<1>8. f[n + 1] = IF n + 1 \in Q THEN Append(f[n], c) ELSE f[n]
  <2>1. n + 1 \in 1..n + 1 /\ (n + 1) - 1 = n
    BY <1>1
  <2> QED BY <1>1, <1>5, <2>1
<1>9. f[n] \in Seq(S)
  BY <1>1, <1>2
<1> QED BY <1>4, <1>7, <1>8, <1>9 DEF l

\* What is shown of a longer text.
LEMMA ShownAppend ==
  ASSUME NEW S, NEW s \in Seq(S), NEW T, \A x \in S : Fold[x] \in T, NEW c \in S
  PROVE  /\ Shown(s) \in Seq(T)
         /\ Shown(Append(s, c)) = IF Fold[c] \in ZeroWidth THEN Shown(s)
                                  ELSE Append(Shown(s), Fold[c])
<1> DEFINE n == Len(s)
           l == Append(s, c)
           ms == Mapped(s, Fold)
           ml == Mapped(l, Fold)
<1>1. /\ n \in Nat /\ DOMAIN s = 1..n /\ \A i \in 1..n : s[i] \in S
      /\ DOMAIN l = 1..n + 1 /\ l[n + 1] = c /\ \A i \in 1..n : l[i] = s[i]
  OBVIOUS
<1>2. ms \in Seq(T) /\ Len(ms) = n /\ \A i \in 1..n : ms[i] = Fold[s[i]]
  <2>1. ms = [i \in 1..n |-> Fold[s[i]]]
    BY <1>1 DEF Mapped
  <2>2. ms \in [1..n -> T]
    BY <1>1, <2>1
  <2> HIDE DEF ms, n
  <2> QED BY <1>1, <2>1, <2>2
<1>3. /\ ml \in Seq(T) /\ Len(ml) = n + 1 /\ ml[n + 1] = Fold[c]
      /\ \A i \in 1..n : ml[i] = Fold[s[i]]
  <2>1. ml = [i \in 1..n + 1 |-> Fold[l[i]]]
    BY <1>1 DEF Mapped
  <2>2. \A i \in 1..n + 1 : l[i] \in S
    BY <1>1
  <2> HIDE DEF l, n
  <2>3. ml \in [1..n + 1 -> T]
    BY <2>1, <2>2
  <2> HIDE DEF ml
  <2> QED BY <1>1, <2>1, <2>3
<1>4. Fold[c] \in T
  OBVIOUS
<1>5. ml = Append(ms, Fold[c])
  <2> DEFINE m == Append(ms, Fold[c])
  <2> HIDE DEF ms, n, ml
  <2>1. m \in Seq(T) /\ Len(m) = n + 1 /\ m[n + 1] = Fold[c]
        /\ \A i \in 1..n : m[i] = Fold[s[i]]
    BY <1>1, <1>2, <1>4
  <2> HIDE DEF m
  <2>2. \A i \in 1..Len(ml) : ml[i] = m[i]
    BY <1>1, <1>3, <2>1
  <2>3. ml = m
    BY <1>3, <2>1, <2>2, SeqEqual
  <2> QED BY <2>3 DEF m
<1> HIDE DEF ms, ml, l
<1>6. /\ Visible(ms) \in Seq(T)
      /\ Visible(ml) = IF Fold[c] \in ZeroWidth THEN Visible(ms)
                       ELSE Append(Visible(ms), Fold[c])
  BY <1>2, <1>4, <1>5, VisibleAppend
<1> QED BY <1>6 DEF Shown, ms, ml, l

\* Lists put together one after the other: e is a list of lists.
Joins(f, e) ==
  /\ f[0] = <<>>
  /\ \A i \in 1..Len(e) : f[i] = f[i - 1] \o e[i]

LEMMA JoinsExists ==
  ASSUME NEW S, NEW e \in Seq(Seq(S))
  PROVE  \E f \in [0..Len(e) -> Seq(S)] : Joins(f, e)
<1> DEFINE n == Len(e)
           P(k) == \E f \in [0..k -> Seq(S)] :
                     /\ f[0] = <<>>
                     /\ \A i \in 1..k : f[i] = f[i - 1] \o e[i]
           D == {k \in 0..n : ~P(k)}
<1>0. n \in Nat /\ \A i \in 1..n : e[i] \in Seq(S)
  OBVIOUS
<1> HIDE DEF n
<1>1. P(0)
  <2> DEFINE o == [i \in 0..0 |-> <<>>]
  <2>1. o \in [0..0 -> Seq(S)] /\ o[0] = <<>>
    <3>1. <<>> \in Seq(S)
      OBVIOUS
    <3> QED BY <3>1
  <2>2. \A i \in 1..0 : o[i] = o[i - 1] \o e[i]
    <3>1. 1..0 = {}
      OBVIOUS
    <3> QED BY <3>1
  <2> HIDE DEF o
  <2> QED BY <2>1, <2>2
<1>2. ASSUME NEW k \in 0..n, k < n, P(k) PROVE P(k + 1)
  <2>1. PICK f \in [0..k -> Seq(S)] :
          f[0] = <<>> /\ \A i \in 1..k : f[i] = f[i - 1] \o e[i]
    BY <1>2
  <2> DEFINE m == k + 1
             step == f[k] \o e[m]
             g == [i \in 0..m |-> IF i = m THEN step ELSE f[i]]
  <2>2. /\ k \in Nat /\ m \in Nat /\ m \in 1..n /\ k \in 0..k /\ m - 1 = k
        /\ k # m /\ 0 # m
        /\ 0..m = (0..k) \cup {m} /\ 1..m = (1..k) \cup {m} /\ m \notin 0..k
    <3>1. k \in Nat /\ m \in Nat /\ m \in 1..n /\ m = k + 1
      BY <1>0, <1>2
    <3> HIDE DEF m
    <3>2. k \in 0..k /\ m - 1 = k /\ k # m /\ 0 # m /\ m \notin 0..k
      BY <3>1
    <3>3. 0..m = (0..k) \cup {m}
      BY <3>1
    <3>4. 1..m = (1..k) \cup {m}
      BY <3>1
    <3> QED BY <3>1, <3>2, <3>3, <3>4
  <2> HIDE DEF m
  <2>3. step \in Seq(S)
    <3>1. f[k] \in Seq(S) /\ e[m] \in Seq(S)
      BY <1>0, <2>2
    <3> QED BY <3>1, ConcatProperties
  <2> HIDE DEF step
  <2>4. g \in [0..m -> Seq(S)]
    BY <2>2, <2>3
  <2>5. g[m] = step /\ \A i \in 0..k : g[i] = f[i]
    BY <2>2
  <2> HIDE DEF g
  <2>6. g[0] = <<>>
    BY <2>1, <2>2, <2>5
  <2>7. ASSUME NEW i \in 1..m PROVE g[i] = g[i - 1] \o e[i]
    <3>1. CASE i = m
      BY <2>2, <2>5, <3>1 DEF step
    <3>2. CASE i # m
      <4>1. i \in 1..k /\ i \in 0..k /\ i - 1 \in 0..k
        BY <2>2, <3>2
      <4> QED BY <2>1, <2>5, <4>1
    <3> QED BY <3>1, <3>2
  <2>8. P(m)
    BY <2>4, <2>6, <2>7
  <2> QED BY <2>8 DEF m
<1>3. D = {}
  <2> HIDE DEF P
  <2>1. D \in SUBSET (0..n) /\ 0 \notin D
    BY <1>1
  <2>2. ASSUME NEW k \in 0..n, k < n, k \notin D PROVE k + 1 \notin D
    BY <1>2, <2>2
  <2> HIDE DEF D
  <2> QED BY <1>0, <2>1, <2>2, NoneFails
<1>4. P(n)
  <2>1. n \in 0..n
    BY <1>0
  <2> HIDE DEF P
  <2> QED BY <1>3, <2>1
<1>5. PICK f \in [0..n -> Seq(S)] :
        f[0] = <<>> /\ \A i \in 1..n : f[i] = f[i - 1] \o e[i]
  BY <1>4
<1>6. Joins(f, e)
  BY <1>5 DEF Joins, n
<1> QED BY <1>6 DEF n

\* FlattenSeq is the last of them.
LEMMA FlatJoins ==
  ASSUME NEW S, NEW e \in Seq(Seq(S)), NEW f \in [0..Len(e) -> Seq(S)],
         Joins(f, e)
  PROVE  FlattenSeq(e) = f[Len(e)]
<1> DEFINE n == Len(e)
           Body(g) == [i \in 1..n |->
                         IF i = 1 THEN e[i] ELSE g[i - 1] \o e[i]]
           flat == CHOOSE g : g = Body(g)
           h == [i \in 1..n |-> f[i]]
<1>1. n \in Nat /\ \A i \in 1..n : e[i] \in Seq(S)
  OBVIOUS
<1>2. /\ f[0] = <<>>
      /\ \A i \in 1..n : f[i] = f[i - 1] \o e[i]
  BY DEF Joins
<1>3. FlattenSeq(e) = IF n = 0 THEN e ELSE flat[n]
  BY DEF FlattenSeq
<1>4. n = 0 => e = <<>>
  BY EmptySeq
<1> HIDE DEF n
<1>5. 1 \in 1..n => f[1] = e[1]
  <2> SUFFICES ASSUME 1 \in 1..n PROVE f[1] = e[1]
    OBVIOUS
  <2>1. f[1] = <<>> \o e[1]
    <3>1. \A i \in 1..n : i = 1 => i - 1 = 0
      OBVIOUS
    <3>2. f[1] = f[0] \o e[1]
      BY <1>2, <3>1
    <3> QED BY <1>2, <3>2
  <2>2. e[1] \in Seq(S)
    BY <1>1
  <2> QED BY <2>1, <2>2, ConcatEmptySeq
<1>6. h = Body(h)
  <2>1. ASSUME NEW i \in 1..n
        PROVE  h[i] = IF i = 1 THEN e[i] ELSE h[i - 1] \o e[i]
    <3>1. CASE i = 1
      BY <1>5, <3>1
    <3>2. CASE i # 1
      <4>1. i - 1 \in 1..n
        BY <1>1, <3>2
      <4>2. h[i - 1] = f[i - 1] /\ h[i] = f[i]
        BY <4>1
      <4> HIDE DEF h
      <4> QED BY <1>2, <3>2, <4>2
    <3> QED BY <3>1, <3>2
  <2> QED BY <2>1
<1>7. flat = Body(flat)
  BY <1>6
<1> HIDE DEF flat, h
<1> DEFINE D == {i \in 0..n : i # 0 /\ flat[i] # f[i]}
<1>8. D = {}
  <2>1. D \in SUBSET (0..n) /\ 0 \notin D
    OBVIOUS
  <2>2. ASSUME NEW k \in 0..n, k < n, k \notin D PROVE k + 1 \notin D
    <3> DEFINE m == k + 1
    <3>1. m \in 1..n /\ m - 1 = k /\ (k = 0 \/ flat[k] = f[k])
      BY <1>1, <2>2
    <3>2. k = 0 => m = 1
      BY <3>1
    <3> HIDE DEF m, D
    <3>3. flat[m] = IF m = 1 THEN e[m] ELSE flat[m - 1] \o e[m]
      BY <1>7, <3>1
    <3>4. flat[m] = f[m]
      <4>1. CASE m = 1
        BY <1>5, <3>1, <3>3, <4>1
      <4>2. CASE m # 1
        BY <1>2, <3>1, <3>2, <3>3, <4>2
      <4> QED BY <4>1, <4>2
    <3> QED BY <3>4 DEF m, D
  <2> HIDE DEF D
  <2> QED BY <1>1, <2>1, <2>2, NoneFails
<1>9. n # 0 => flat[n] = f[n]
  <2>1. n \in 0..n
    BY <1>1
  <2> QED BY <1>8, <2>1
<1> QED BY <1>2, <1>3, <1>4, <1>9 DEF n

\* A longer list with one list more at the end.
LEMMA FlatAppend ==
  ASSUME NEW S, NEW e \in Seq(Seq(S)), NEW x \in Seq(S)
  PROVE  /\ FlattenSeq(e) \in Seq(S)
         /\ FlattenSeq(Append(e, x)) = FlattenSeq(e) \o x
<1> DEFINE n == Len(e)
           l == Append(e, x)
<1>1. /\ n \in Nat /\ l \in Seq(Seq(S)) /\ Len(l) = n + 1 /\ l[n + 1] = x
      /\ \A i \in 1..n : l[i] = e[i]
  BY AppendProperties
<1> HIDE DEF l, n
<1>2. PICK f \in [0..Len(l) -> Seq(S)] : Joins(f, l)
  BY <1>1, JoinsExists
<1>3. /\ f[0] = <<>>
      /\ \A i \in 1..n + 1 : f[i] = f[i - 1] \o l[i]
  BY <1>1, <1>2 DEF Joins
<1> DEFINE g == [i \in 0..n |-> f[i]]
<1>4. g \in [0..n -> Seq(S)]
  BY <1>1, <1>2
<1>5. g[0] = <<>>
  BY <1>1, <1>3
<1>6. \A i \in 1..n : g[i] = g[i - 1] \o e[i]
  <2> SUFFICES ASSUME NEW i \in 1..n PROVE g[i] = g[i - 1] \o e[i]
    OBVIOUS
  <2>1. i \in 0..n /\ i - 1 \in 0..n /\ i \in 1..n + 1
    BY <1>1
  <2>2. g[i] = f[i] /\ g[i - 1] = f[i - 1]
    BY <2>1
  <2> HIDE DEF g
  <2> QED BY <1>1, <1>3, <2>1, <2>2
<1>7. n \in 0..n /\ g[n] = f[n]
  BY <1>1
<1> HIDE DEF g
<1>8. Joins(g, e)
  BY <1>5, <1>6 DEF Joins, n
<1>9. FlattenSeq(e) = g[n]
  BY <1>4, <1>8, FlatJoins DEF n
<1>10. FlattenSeq(l) = f[n + 1]
  BY <1>1, <1>2, FlatJoins
<1>11. f[n + 1] = f[n] \o x
  <2>1. n + 1 \in 1..n + 1 /\ (n + 1) - 1 = n
    BY <1>1
  <2> QED BY <1>1, <1>3, <2>1
<1>12. g[n] \in Seq(S)
  BY <1>4, <1>7
<1> QED BY <1>7, <1>9, <1>10, <1>11, <1>12 DEF l

\* What stands for a character.
Standing(c) == IF c \in Mentions THEN Address ELSE <<c>>

LEMMA AddressedAppend ==
  ASSUME NEW S, NEW s \in Seq(S), NEW c \in S, Address \in Seq(S)
  PROVE  /\ Addressed(s) \in Seq(S)
         /\ Addressed(Append(s, c)) = Addressed(s) \o Standing(c)
<1> DEFINE n == Len(s)
           l == Append(s, c)
           es == [i \in DOMAIN s |-> Standing(s[i])]
           el == [i \in DOMAIN l |-> Standing(l[i])]
<1>1. /\ n \in Nat /\ DOMAIN s = 1..n /\ \A i \in 1..n : s[i] \in S
      /\ DOMAIN l = 1..n + 1 /\ l[n + 1] = c /\ \A i \in 1..n : l[i] = s[i]
  OBVIOUS
<1>2. Addressed(s) = FlattenSeq(es) /\ Addressed(l) = FlattenSeq(el)
  BY DEF Addressed, Standing
<1>3. \A x \in S : Standing(x) \in Seq(S)
  BY DEF Standing
<1>4. es \in Seq(Seq(S)) /\ Len(es) = n /\ \A i \in 1..n : es[i] = Standing(s[i])
  <2>1. es = [i \in 1..n |-> Standing(s[i])]
    BY <1>1
  <2>2. es \in [1..n -> Seq(S)]
    BY <1>1, <1>3, <2>1
  <2> HIDE DEF es, n
  <2> QED BY <1>1, <2>1, <2>2
<1>5. /\ el \in Seq(Seq(S)) /\ Len(el) = n + 1 /\ el[n + 1] = Standing(c)
      /\ \A i \in 1..n : el[i] = Standing(s[i])
  <2>1. el = [i \in 1..n + 1 |-> Standing(l[i])]
    BY <1>1
  <2>2. \A i \in 1..n + 1 : l[i] \in S
    BY <1>1
  <2> HIDE DEF l, n
  <2>3. el \in [1..n + 1 -> Seq(S)]
    BY <1>3, <2>1, <2>2
  <2> HIDE DEF el
  <2> QED BY <1>1, <2>1, <2>3
<1>6. Standing(c) \in Seq(S)
  BY <1>3
<1>7. el = Append(es, Standing(c))
  <2> DEFINE m == Append(es, Standing(c))
             y == Standing(c)
             L == Seq(S)
  <2> HIDE DEF es, n, el, L, y
  <2>1. /\ m \in Seq(L) /\ Len(m) = n + 1 /\ m[n + 1] = y
        /\ \A i \in 1..n : m[i] = Standing(s[i])
    <3>1. es \in Seq(L) /\ y \in L /\ Len(es) = n /\ n \in Nat
      BY <1>1, <1>4, <1>6 DEF L, y
    <3>2. m = Append(es, y)
      BY DEF y
    <3> QED BY <1>4, <3>1, <3>2
  <2> HIDE DEF m
  <2>2. \A i \in 1..Len(el) : el[i] = m[i]
    BY <1>1, <1>5, <2>1 DEF y
  <2>3. el = m
    <3>1. el \in Seq(L) /\ Len(el) = Len(m)
      BY <1>5, <2>1 DEF L
    <3> QED BY <2>1, <2>2, <3>1, SeqEqual
  <2> QED BY <2>3 DEF m, y
<1> HIDE DEF es, el, l
<1>8. /\ FlattenSeq(es) \in Seq(S)
      /\ FlattenSeq(el) = FlattenSeq(es) \o Standing(c)
  BY <1>4, <1>6, <1>7, FlatAppend
<1> QED BY <1>2, <1>8 DEF l

LEMMA PrefixAppend ==
  ASSUME NEW S, NEW s \in Seq(S), NEW k \in 0..Len(s), k < Len(s)
  PROVE  /\ SubSeq(s, 1, k) \in Seq(S) /\ Len(SubSeq(s, 1, k)) = k
         /\ k + 1 \in 1..Len(s) /\ s[k + 1] \in S
         /\ SubSeq(s, 1, k + 1) = Append(SubSeq(s, 1, k), s[k + 1])
<1> DEFINE n == Len(s)
           m == k + 1
           a == SubSeq(s, 1, k)
           b == SubSeq(s, 1, m)
           x == s[m]
           c == Append(a, x)
<1>1. /\ n \in Nat /\ k \in Nat /\ m \in 1..n /\ k < n
      /\ \A i \in 1..n : s[i] \in S
  OBVIOUS
<1>2. x \in S
  BY <1>1
<1>3. a \in Seq(S) /\ Len(a) = k /\ \A j \in 1..k : a[j] = s[j]
  BY <1>1
<1>4. b \in Seq(S) /\ Len(b) = m /\ \A j \in 1..m : b[j] = s[j]
  BY <1>1
<1> HIDE DEF a, b, n
<1>5. /\ c \in Seq(S) /\ Len(c) = m /\ c[m] = x
      /\ \A j \in 1..k : c[j] = s[j]
  BY <1>1, <1>2, <1>3
<1> HIDE DEF c
<1>6. \A j \in 1..Len(b) : b[j] = c[j]
  BY <1>1, <1>4, <1>5
<1>7. b = c
  BY <1>4, <1>5, <1>6, SeqEqual
<1> QED BY <1>1, <1>2, <1>3, <1>7 DEF a, b, c, n

\* Nothing shows nothing and stands for nothing.
LEMMA NothingShown == Shown(<<>>) = <<>> /\ Addressed(<<>>) = <<>>
<1>1. Mapped(<<>>, Fold) = <<>>
  BY DEF Mapped
<1>2. Visible(<<>>) = <<>>
  <2> DEFINE P == DOMAIN <<>> \ PositionsOf(<<>>, ZeroWidth)
             f == [i \in {0} |-> <<>>]
             s == <<>>
  <2>1. s \in Seq({}) /\ Len(s) = 0
    OBVIOUS
  <2>2. f[0] = <<>>
    OBVIOUS
  <2> HIDE DEF P, f, s
  <2>3. Picks(f, s, P)
    BY <2>1, <2>2 DEF Picks
  <2>4. At(s, P) = <<>>
    BY <2>1, <2>2, <2>3, AtPicks
  <2> QED BY <2>4 DEF Visible, P, s
<1>3. Addressed(<<>>) = <<>>
  BY DEF Addressed, FlattenSeq
<1> QED BY <1>1, <1>2, <1>3 DEF Shown

\* Four characters at the end of a text.
LEMMA FourAppended ==
  ASSUME NEW S, NEW s \in Seq(S), NEW a \in S, NEW b \in S, NEW c \in S,
         NEW d \in S
  PROVE  s \o <<a, b, c, d>> = Append(Append(Append(Append(s, a), b), c), d)
<1>1. /\ <<a>> \in Seq(S) /\ <<a, b>> \in Seq(S) /\ <<a, b, c>> \in Seq(S)
      /\ <<a, b, c, d>> \in Seq(S)
  OBVIOUS
<1>2. /\ <<a, b>> = Append(<<a>>, b) /\ <<a, b, c>> = Append(<<a, b>>, c)
      /\ <<a, b, c, d>> = Append(<<a, b, c>>, d)
  OBVIOUS
<1>3. ASSUME NEW u \in Seq(S), NEW x \in S
      PROVE  s \o Append(u, x) = Append(s \o u, x)
  <2>1. Append(u, x) = u \o <<x>> /\ <<x>> \in Seq(S) /\ s \o u \in Seq(S)
    BY AppendIsConcat, ConcatProperties
  <2>2. Append(s \o u, x) = (s \o u) \o <<x>>
    BY <2>1, AppendIsConcat
  <2>3. (s \o u) \o <<x>> = s \o (u \o <<x>>)
    BY <2>1, ConcatAssociative
  <2> QED BY <2>1, <2>2, <2>3
<1>4. s \o <<a>> = Append(s, a)
  BY AppendIsConcat
<1>5. s \o <<a, b>> = Append(s \o <<a>>, b)
  BY <1>1, <1>2, <1>3
<1>6. s \o <<a, b, c>> = Append(s \o <<a, b>>, c)
  BY <1>1, <1>2, <1>3
<1>7. s \o <<a, b, c, d>> = Append(s \o <<a, b, c>>, d)
  BY <1>1, <1>2, <1>3
<1> QED BY <1>4, <1>5, <1>6, <1>7

\* One may first put in the address and then look at the text, or first look.
LEMMA AddressedShown ==
  ASSUME NEW text \in Seq(DOMAIN Fold)
  PROVE  Shown(Addressed(text)) = Addressed(Shown(text))
<1>1. PICK c \in Cyrillic, d \in Cyrillic :
        /\ Address = <<Space, c, d, Space>>
        /\ \A x \in {c, d, Space} : Fold[x] = x /\ x \notin ZeroWidth
  BY AddressAssumption
<1> DEFINE C == DOMAIN Fold \cup {c, d, Space}
           T == C \cup {Fold[x] : x \in C}
           n == Len(text)
           pre(k) == SubSeq(text, 1, k)
           Same(k) == Shown(Addressed(pre(k))) = Addressed(Shown(pre(k)))
           D == {k \in 0..n : ~Same(k)}
<1>2. /\ c \in C /\ d \in C /\ Space \in C
      /\ c \in T /\ d \in T /\ Space \in T
  OBVIOUS
<1>3. \A x \in C : Fold[x] \in T
  OBVIOUS
<1>4. text \in Seq(C) /\ n \in Nat
  OBVIOUS
<1>5. Address \in Seq(C) /\ Address \in Seq(T)
  BY <1>1, <1>2
<1>6. \A x \in DOMAIN Fold :
        (x \in Mentions \/ Fold[x] \in Mentions) => Fold[x] = x
  BY AddressAssumption
<1>7. Mentions \cap ZeroWidth = {}
  BY AddressAssumption
<1>8. \A x \in {c, d, Space} : Fold[x] = x /\ x \notin ZeroWidth
  BY <1>1
<1>9. \A k \in 0..n : k < n => /\ text[k + 1] \in DOMAIN Fold
                              /\ text[k + 1] \in C
  <2> SUFFICES ASSUME NEW k \in 0..n, k < n
               PROVE  text[k + 1] \in DOMAIN Fold
    OBVIOUS
  <2> QED BY PrefixAppend
<1> HIDE DEF C, T
<1>10. Same(0)
  <2>1. pre(0) = <<>>
    BY <1>4
  <2> QED BY <2>1, NothingShown
<1>11. ASSUME NEW k \in 0..n, k < n, Same(k) PROVE Same(k + 1)
  <2> DEFINE s == pre(k)
             x == text[k + 1]
             au == Addressed(s)
             ss == Shown(s)
  <2>1. s \in Seq(C) /\ pre(k + 1) = Append(s, x)
    BY <1>4, <1>11, PrefixAppend
  <2>2. x \in C /\ x \in DOMAIN Fold /\ Fold[x] \in T
    BY <1>3, <1>9, <1>11
  <2>3. Shown(au) = Addressed(ss)
    BY <1>11
  <2> HIDE DEF s, x
  <2>4. au \in Seq(C) /\ Addressed(Append(s, x)) = au \o Standing(x)
    BY <1>5, <2>1, <2>2, AddressedAppend
  <2>5. /\ ss \in Seq(T)
        /\ Shown(Append(s, x)) = IF Fold[x] \in ZeroWidth THEN ss
                                 ELSE Append(ss, Fold[x])
    BY <1>3, <2>1, <2>2, ShownAppend
  <2>6. \A y \in T : Addressed(Append(ss, y)) = Addressed(ss) \o Standing(y)
    BY <1>5, <2>5, AddressedAppend
  <2>7. ASSUME NEW u \in Seq(C), NEW y \in C
        PROVE  /\ Append(u, y) \in Seq(C) /\ Shown(u) \in Seq(T)
               /\ Shown(Append(u, y)) = IF Fold[y] \in ZeroWidth THEN Shown(u)
                                        ELSE Append(Shown(u), Fold[y])
    BY <1>3, <2>7, ShownAppend, AppendProperties
  <2>8. Addressed(ss) \in Seq(T)
    BY <1>5, <2>2, <2>5, AddressedAppend
  <2> HIDE DEF au, ss
  <2>9. CASE x \in Mentions
    <3>1. Fold[x] = x /\ x \notin ZeroWidth
      BY <1>6, <1>7, <2>2, <2>9
    <3>2. Addressed(Shown(Append(s, x))) = Addressed(ss) \o Address
      BY <2>2, <2>5, <2>6, <2>9, <3>1 DEF Standing
    <3> DEFINE u1 == Append(au, Space)
               u2 == Append(u1, c)
               u3 == Append(u2, d)
               u4 == Append(u3, Space)
    <3>3. Addressed(Append(s, x)) = u4
      <4>1. au \o Address = au \o <<Space, c, d, Space>>
        BY <1>1
      <4>2. Standing(x) = Address
        BY <2>9 DEF Standing
      <4>3. au \o <<Space, c, d, Space>> = u4
        BY <1>2, <2>4, FourAppended
      <4> HIDE DEF u4
      <4> QED BY <2>4, <4>1, <4>2, <4>3
    <3>4. u1 \in Seq(C) /\ Shown(u1) = Append(Shown(au), Space)
      BY <1>2, <1>8, <2>4, <2>7
    <3> HIDE DEF u1
    <3>5. u2 \in Seq(C) /\ Shown(u2) = Append(Shown(u1), c)
      BY <1>2, <1>8, <3>4, <2>7
    <3> HIDE DEF u2
    <3>6. u3 \in Seq(C) /\ Shown(u3) = Append(Shown(u2), d)
      BY <1>2, <1>8, <3>5, <2>7
    <3> HIDE DEF u3
    <3>7. u4 \in Seq(C) /\ Shown(u4) = Append(Shown(u3), Space)
      BY <1>2, <1>8, <3>6, <2>7
    <3> HIDE DEF u4
    <3>8. Shown(u4) = Append(Append(Append(Append(Addressed(ss), Space), c), d),
                             Space)
      BY <2>3, <3>4, <3>5, <3>6, <3>7
    <3>9. Addressed(ss) \o Address
            = Append(Append(Append(Append(Addressed(ss), Space), c), d), Space)
      <4>1. Addressed(ss) \o Address = Addressed(ss) \o <<Space, c, d, Space>>
        BY <1>1
      <4> QED BY <1>2, <2>8, <4>1, FourAppended
    <3> QED BY <2>1, <3>2, <3>3, <3>8, <3>9
  <2>10. CASE x \notin Mentions
    <3>1. Fold[x] \notin Mentions
      BY <1>6, <2>2, <2>10
    <3>2. Addressed(Append(s, x)) = Append(au, x)
      BY <2>2, <2>4, <2>10, AppendIsConcat DEF Standing
    <3>3. Addressed(Append(ss, Fold[x])) = Append(Addressed(ss), Fold[x])
      BY <2>2, <2>6, <2>8, <3>1, AppendIsConcat DEF Standing
    <3>4. Shown(Append(au, x)) = IF Fold[x] \in ZeroWidth THEN Shown(au)
                                 ELSE Append(Shown(au), Fold[x])
      BY <2>2, <2>4, <2>7
    <3> QED BY <2>1, <2>3, <2>5, <3>2, <3>3, <3>4
  <2> QED BY <2>9, <2>10
<1>12. D = {}
  <2> HIDE DEF Same
  <2>1. D \in SUBSET (0..n) /\ 0 \notin D
    BY <1>10
  <2>2. ASSUME NEW k \in 0..n, k < n, k \notin D PROVE k + 1 \notin D
    BY <1>11, <2>2
  <2> HIDE DEF D
  <2> QED BY <1>4, <2>1, <2>2, NoneFails
<1>13. Same(n)
  <2>1. n \in 0..n
    BY <1>4
  <2> HIDE DEF Same
  <2> QED BY <1>12, <2>1
<1>14. pre(n) = text
  BY SubSeqFull
<1> QED BY <1>13, <1>14

\* The letter a of t is in the middle of an address.
InAddress(t, h, a) ==
  /\ t[a] \in Cyrillic /\ a - 1 \in 1..Len(t) /\ a + 1 \in 1..Len(t)
  /\ h[a - 1] = h[a] /\ h[a + 1] = h[a]
  /\ t[a - 1] \in Cyrillic \/ t[a + 1] \in Cyrillic

\* Each character of t comes from one of the first n of s: itself, unless that
\* is a mention.
From(t, n, s, h) ==
  /\ h \in [1..Len(t) -> 1..n]
  /\ \A a, b \in 1..Len(t) : a <= b => h[a] <= h[b]
  /\ \A i \in 1..n : \E a \in 1..Len(t) : h[a] = i
  /\ \A a \in 1..Len(t) : s[h[a]] \notin Mentions =>
       /\ t[a] = s[h[a]]
       /\ \A b \in 1..Len(t) : h[b] = h[a] => b = a
  /\ \A a \in 1..Len(t) : s[h[a]] \in Mentions =>
       t[a] = Space \/ InAddress(t, h, a)

LEMMA FromMore ==
  ASSUME NEW S, NEW s \in Seq(S), NEW t \in Seq(S), NEW h, NEW k \in Nat,
         From(t, k, s, h), NEW m, m = k + 1, m \in 1..Len(s),
         NEW y \in Seq(S), Len(y) >= 1,
         s[m] \notin Mentions => y = <<s[m]>>,
         s[m] \in Mentions => /\ Len(y) = 4 /\ y[1] = Space /\ y[4] = Space
                              /\ y[2] \in Cyrillic /\ y[3] \in Cyrillic
  PROVE  \E g : From(t \o y, m, s, g)
<1> DEFINE L == Len(t)
           l == Len(y)
           u == t \o y
           g == [a \in 1..L + l |-> IF a <= L THEN h[a] ELSE m]
<1>1. L \in Nat /\ l \in Nat /\ l >= 1
  OBVIOUS
<1>2. /\ u \in Seq(S) /\ Len(u) = L + l
      /\ \A a \in 1..L : u[a] = t[a]
      /\ \A a \in 1..L + l : a > L => u[a] = y[a - L]
  <2>1. /\ u \in Seq(S) /\ Len(u) = L + l
        /\ \A a \in 1..L + l : u[a] = IF a <= L THEN t[a] ELSE y[a - L]
    BY ConcatProperties
  <2> HIDE DEF u, L, l
  <2>2. \A a \in 1..L : a \in 1..L + l /\ a <= L
    BY <1>1
  <2>3. \A a \in 1..L + l : a > L => ~(a <= L)
    BY <1>1
  <2> QED BY <2>1, <2>2, <2>3
<1>3. /\ h \in [1..L -> 1..k]
      /\ \A a, b \in 1..L : a <= b => h[a] <= h[b]
      /\ \A i \in 1..k : \E a \in 1..L : h[a] = i
      /\ \A a \in 1..L : s[h[a]] \notin Mentions =>
           /\ t[a] = s[h[a]]
           /\ \A b \in 1..L : h[b] = h[a] => b = a
      /\ \A a \in 1..L : s[h[a]] \in Mentions =>
           t[a] = Space \/ InAddress(t, h, a)
  BY DEF From
<1>4. /\ \A a \in 1..L : g[a] = h[a] /\ a \in 1..L + l
      /\ \A a \in 1..L + l : a > L => g[a] = m
  BY <1>1
<1>5. g \in [1..L + l -> 1..m]
  <2>1. ASSUME NEW a \in 1..L + l, a <= L PROVE h[a] \in 1..m
    <3>1. a \in 1..L
      BY <1>1, <2>1
    <3>2. h[a] \in 1..k
      BY <1>3, <3>1
    <3> QED BY <3>2
  <2>2. m \in 1..m
    OBVIOUS
  <2> QED BY <2>1, <2>2
<1>6. l = 1 \/ l = 4
  <2>1. s[m] \notin Mentions => l = 1
    OBVIOUS
  <2> QED BY <2>1
<1>7. s[m] \notin Mentions => l = 1 /\ y[1] = s[m]
  OBVIOUS
<1>8. \A a \in 1..L + l : a \in 1..L \/ a > L
  BY <1>1
<1>9. \A a \in 1..L : h[a] \in 1..k /\ h[a] # m /\ h[a] <= m
  BY <1>3
<1> HIDE DEF u, L, l, g
<1>10. ASSUME NEW a \in 1..L + l, NEW b \in 1..L + l, a <= b
       PROVE  g[a] <= g[b]
  <2>1. CASE b \in 1..L
    <3>1. a \in 1..L
      BY <1>1, <1>10, <2>1
    <3> QED BY <1>3, <1>4, <1>10, <2>1, <3>1
  <2>2. CASE b > L
    <3>1. g[b] = m
      BY <1>4, <2>2
    <3>2. g[a] <= m
      BY <1>5
    <3> QED BY <3>1, <3>2
  <2> QED BY <1>8, <2>1, <2>2
<1>11. ASSUME NEW i \in 1..m PROVE \E a \in 1..L + l : g[a] = i
  <2>1. CASE i = m
    <3>1. L + 1 \in 1..L + l /\ L + 1 > L
      BY <1>1
    <3> QED BY <1>4, <2>1, <3>1
  <2>2. CASE i # m
    <3>1. i \in 1..k
      BY <2>2
    <3>2. PICK a \in 1..L : h[a] = i
      BY <1>3, <3>1
    <3> QED BY <1>4, <3>2
  <2> QED BY <2>1, <2>2
<1>12. ASSUME NEW a \in 1..L + l, s[g[a]] \notin Mentions
       PROVE  /\ u[a] = s[g[a]]
              /\ \A b \in 1..L + l : g[b] = g[a] => b = a
  <2>1. CASE a \in 1..L
    <3>1. u[a] = t[a] /\ g[a] = h[a]
      BY <1>2, <1>4, <2>1
    <3>2. ASSUME NEW b \in 1..L + l, g[b] = g[a] PROVE b = a
      <4>1. b \in 1..L
        BY <1>4, <1>8, <1>9, <2>1, <3>1, <3>2
      <4> QED BY <1>3, <1>4, <1>12, <2>1, <3>1, <3>2, <4>1
    <3> QED BY <1>3, <1>12, <2>1, <3>1, <3>2
  <2>2. CASE a > L
    <3>1. g[a] = m
      BY <1>4, <2>2
    <3>2. l = 1 /\ y[1] = s[m]
      BY <1>7, <1>12, <3>1
    <3>3. a = L + 1 /\ a - L = 1
      BY <1>1, <2>2, <3>2
    <3>4. u[a] = s[m]
      BY <1>2, <2>2, <3>2, <3>3
    <3>5. ASSUME NEW b \in 1..L + l, g[b] = g[a] PROVE b = a
      <4>1. b > L
        BY <1>4, <1>8, <1>9, <3>1, <3>5
      <4> QED BY <1>1, <3>2, <3>3, <4>1
    <3> QED BY <3>1, <3>4, <3>5
  <2> QED BY <1>8, <2>1, <2>2
<1>13. ASSUME NEW a \in 1..L + l, s[g[a]] \in Mentions
       PROVE  u[a] = Space \/ InAddress(u, g, a)
  <2>1. CASE a \in 1..L
    <3>1. u[a] = t[a] /\ g[a] = h[a]
      BY <1>2, <1>4, <2>1
    <3>2. t[a] = Space \/ InAddress(t, h, a)
      BY <1>3, <1>13, <2>1, <3>1
    <3>3. ASSUME InAddress(t, h, a) PROVE InAddress(u, g, a)
      <4>1. /\ t[a] \in Cyrillic /\ a - 1 \in 1..L /\ a + 1 \in 1..L
            /\ h[a - 1] = h[a] /\ h[a + 1] = h[a]
            /\ t[a - 1] \in Cyrillic \/ t[a + 1] \in Cyrillic
        BY <3>3 DEF InAddress, L
      <4>2. /\ u[a - 1] = t[a - 1] /\ u[a + 1] = t[a + 1]
            /\ g[a - 1] = h[a - 1] /\ g[a + 1] = h[a + 1]
            /\ a - 1 \in 1..L + l /\ a + 1 \in 1..L + l
        BY <1>2, <1>4, <4>1
      <4>3. a - 1 \in 1..Len(u) /\ a + 1 \in 1..Len(u)
        BY <1>2, <4>2
      <4> QED BY <3>1, <4>1, <4>2, <4>3 DEF InAddress
    <3> QED BY <3>1, <3>2, <3>3
  <2>2. CASE a > L
    <3>1. g[a] = m /\ u[a] = y[a - L]
      BY <1>2, <1>4, <2>2
    <3>2. /\ l = 4 /\ y[1] = Space /\ y[4] = Space
          /\ y[2] \in Cyrillic /\ y[3] \in Cyrillic
      BY <1>13, <3>1 DEF l
    <3>3. a = L + 1 \/ a = L + 2 \/ a = L + 3 \/ a = L + 4
      BY <1>1, <2>2, <3>2
    <3>4. CASE a = L + 1 \/ a = L + 4
      <4>1. a - L = 1 \/ a - L = 4
        BY <1>1, <3>4
      <4> QED BY <3>1, <3>2, <4>1
    <3>5. CASE a = L + 2 \/ a = L + 3
      <4>1. /\ a - 1 \in 1..L + l /\ a + 1 \in 1..L + l
            /\ a - 1 > L /\ a + 1 > L
        BY <1>1, <3>2, <3>5
      <4>2. /\ g[a - 1] = m /\ g[a + 1] = m
            /\ u[a - 1] = y[(a - 1) - L] /\ u[a + 1] = y[(a + 1) - L]
        BY <1>2, <1>4, <4>1
      <4>3. \/ a - L = 2 /\ (a + 1) - L = 3
            \/ a - L = 3 /\ (a - 1) - L = 2
        BY <1>1, <3>5
      <4>4. u[a] \in Cyrillic /\ (u[a - 1] \in Cyrillic \/ u[a + 1] \in Cyrillic)
        BY <3>1, <3>2, <4>2, <4>3
      <4>5. a - 1 \in 1..Len(u) /\ a + 1 \in 1..Len(u)
        BY <1>2, <4>1
      <4>6. InAddress(u, g, a)
        BY <3>1, <4>2, <4>4, <4>5 DEF InAddress
      <4> QED BY <4>6
    <3> QED BY <3>3, <3>4, <3>5
  <2> QED BY <1>8, <2>1, <2>2
<1>14. From(u, m, s, g)
  BY <1>2, <1>5, <1>10, <1>11, <1>12, <1>13 DEF From
<1> QED BY <1>14 DEF u

\* So each character of an addressed text comes from one of the text.
LEMMA AddressedFrom ==
  ASSUME NEW S, NEW s \in Seq(S), Address \in Seq(S)
  PROVE  /\ Addressed(s) \in Seq(S)
         /\ \E h : From(Addressed(s), Len(s), s, h)
<1> DEFINE n == Len(s)
           pre(k) == SubSeq(s, 1, k)
           Good(k) == \E h : From(Addressed(pre(k)), k, s, h)
           D == {k \in 0..n : ~Good(k)}
<1>1. n \in Nat
  OBVIOUS
<1>2. PICK c \in Cyrillic, d \in Cyrillic : Address = <<Space, c, d, Space>>
  BY AddressAssumption
<1>3. Good(0)
  <2>1. pre(0) = <<>>
    OBVIOUS
  <2>2. Addressed(pre(0)) = <<>>
    BY <2>1, NothingShown
  <2>3. From(<<>>, 0, s, <<>>)
    BY DEF From
  <2> QED BY <2>2, <2>3
<1>4. ASSUME NEW k \in 0..n, k < n, Good(k) PROVE Good(k + 1)
  <2> DEFINE t == Addressed(pre(k))
             m == k + 1
             x == s[m]
             y == Standing(x)
  <2>1. PICK h : From(t, k, s, h)
    BY <1>4
  <2>2. /\ pre(k) \in Seq(S) /\ x \in S /\ m \in 1..n /\ k \in Nat
        /\ pre(m) = Append(pre(k), x)
    BY <1>1, <1>4, PrefixAppend
  <2>3. t \in Seq(S) /\ Addressed(pre(m)) = t \o y
    BY <2>2, AddressedAppend
  <2>4. /\ y \in Seq(S) /\ Len(y) >= 1
        /\ x \notin Mentions => y = <<x>>
        /\ x \in Mentions => /\ Len(y) = 4 /\ y[1] = Space /\ y[4] = Space
                             /\ y[2] \in Cyrillic /\ y[3] \in Cyrillic
    <3>1. CASE x \in Mentions
      BY <1>2, <3>1 DEF Standing
    <3>2. CASE x \notin Mentions
      BY <2>2, <3>2 DEF Standing
    <3> QED BY <3>1, <3>2
  <2>5. m = k + 1
    OBVIOUS
  <2> HIDE DEF t, m, y, pre
  <2>6. \E g : From(t \o y, m, s, g)
    BY <2>1, <2>2, <2>3, <2>4, <2>5, FromMore
  <2>7. Good(m)
    BY <2>3, <2>6
  <2> QED BY <2>7 DEF m
<1>5. D = {}
  <2> HIDE DEF Good
  <2>1. D \in SUBSET (0..n) /\ 0 \notin D
    BY <1>3
  <2>2. ASSUME NEW k \in 0..n, k < n, k \notin D PROVE k + 1 \notin D
    BY <1>4, <2>2
  <2> HIDE DEF D
  <2> QED BY <1>1, <2>1, <2>2, NoneFails
<1>6. Good(n)
  <2>1. n \in 0..n
    BY <1>1
  <2> HIDE DEF Good
  <2> QED BY <1>5, <2>1
<1>7. pre(n) = s
  BY SubSeqFull
<1>8. Addressed(s) \in Seq(S)
  <2>1. n = 0 => s = <<>>
    BY EmptySeq
  <2>2. CASE n = 0
    BY <2>1, <2>2, NothingShown
  <2>3. CASE n # 0
    <3>1. PICK q \in Seq(S), x \in S : s = Append(q, x)
      BY <2>3, EmptySeq, SequenceEmptyOrAppend
    <3>2. Addressed(s) = Addressed(q) \o Standing(x) /\ Addressed(q) \in Seq(S)
      BY <3>1, AddressedAppend
    <3>3. Standing(x) \in Seq(S)
      BY DEF Standing
    <3> QED BY <3>2, <3>3, ConcatProperties
  <2> QED BY <2>2, <2>3
<1> QED BY <1>6, <1>7, <1>8

-----------------------------------------------------------------------------
(* ContentRules: words and letters that reading a text leaves              *)

\* A word that is in s at i is in t when each of its characters is, once, and
\* what is before it in t is no part of a word.
Reads(t, s, w, i, h) ==
  /\ i \in Nat /\ i + Len(w) <= Len(s) /\ Len(w) >= 1
  /\ h \in [1..Len(t) -> 1..Len(s)]
  /\ \A a, b \in 1..Len(t) : a <= b => h[a] <= h[b]
  /\ \A j \in 1..Len(w) : s[i + j] = w[j]
  /\ \A j \in 1..Len(w) : \E a \in 1..Len(t) :
       /\ h[a] = i + j /\ t[a] = s[i + j]
       /\ \A b \in 1..Len(t) : h[b] = i + j => b = a
  /\ \A a \in 1..Len(t) :
       h[a] = i + 1 /\ a > 1 => t[a - 1] \notin TokenChars

LEMMA WrittenKept ==
  ASSUME NEW S, NEW s \in Seq(S), NEW t \in Seq(S), NEW w \in Seq(S),
         NEW i, NEW h, Reads(t, s, w, i, h)
  PROVE  WrittenIn(t, w)
<1> USE DEF Reads
<1> DEFINE n == Len(w)
           m == Len(t)
<1>1. n \in Nat /\ m \in Nat /\ n >= 1 /\ Len(s) \in Nat
  OBVIOUS
<1>2. PICK u \in 1..m : h[u] = i + 1
  BY <1>1
<1> DEFINE Good(j) == j = 0 \/ (u + j - 1 \in 1..m /\ h[u + j - 1] = i + j)
           D == {j \in 0..n : ~Good(j)}
<1> HIDE DEF n, m
<1>3. \A j \in 1..n : \E a \in 1..m :
        /\ h[a] = i + j /\ t[a] = s[i + j]
        /\ \A b \in 1..m : h[b] = i + j => b = a
  BY DEF n, m
<1>4. /\ \A a \in 1..m : h[a] \in 1..Len(s)
      /\ \A a, b \in 1..m : a <= b => h[a] <= h[b]
  BY DEF m
<1>5. ASSUME NEW j \in 0..n, j < n, Good(j) PROVE Good(j + 1)
  <2>1. CASE j = 0
    <3>1. u + 1 - 1 = u /\ j + 1 = 1
      BY <1>1, <2>1
    <3> QED BY <1>2, <3>1
  <2>2. CASE j # 0
    <3> DEFINE a == u + j - 1
               v == j + 1
               c == a + 1
    <3>1. /\ a \in 1..m /\ h[a] = i + j /\ j \in 1..n /\ v \in 1..n
          /\ c \in Int /\ v \in Nat /\ i + v = i + j + 1 /\ u + v - 1 = c
      BY <1>1, <1>5, <2>2
    <3> HIDE DEF a, v
    <3>2. PICK b \in 1..m : h[b] = i + v
      BY <1>3, <3>1
    <3>3. b > a
      <4>1. ~(b <= a)
        BY <1>4, <3>1, <3>2
      <4> QED BY <1>1, <3>1, <4>1
    <3>4. c \in 1..m /\ a <= c /\ c <= b
      BY <1>1, <3>1, <3>3
    <3>5. h[a] <= h[c] /\ h[c] <= h[b] /\ h[c] \in 1..Len(s)
      BY <1>4, <3>1, <3>4
    <3>6. h[c] = i + j \/ h[c] = i + v
      <4>1. h[c] \in Int /\ i + j <= h[c] /\ h[c] <= i + v
        BY <3>1, <3>2, <3>5
      <4>2. i \in Int /\ j \in Int /\ v \in Int /\ i + v = i + j + 1
        BY <3>1
      <4> DEFINE z == h[c]
                 x == i + j
                 y == i + v
      <4>3. z \in Int /\ x \in Int /\ y = x + 1 /\ x <= z /\ z <= y
        BY <4>1, <4>2
      <4> HIDE DEF x, y, z
      <4>4. z = x \/ z = y
        BY ONLY <4>3
      <4> QED BY <4>4 DEF x, y, z
    <3>7. h[c] # i + j
      <4>1. c # a
        BY <1>1, <3>1
      <4>2. \A b1, b2 \in 1..m : h[b1] = i + j /\ h[b2] = i + j => b1 = b2
        BY <1>3, <3>1
      <4> QED BY <3>1, <3>4, <4>1, <4>2
    <3>8. Good(v)
      <4>1. u + v - 1 \in 1..m /\ h[u + v - 1] = i + v
        BY <3>1, <3>4, <3>6, <3>7
      <4> QED BY <4>1
    <3> QED BY <3>8 DEF v
  <2> QED BY <2>1, <2>2
<1>6. D = {}
  <2> HIDE DEF Good
  <2>1. D \in SUBSET (0..n)
    OBVIOUS
  <2>2. 0 \notin D
    BY DEF Good
  <2>3. ASSUME NEW k \in 0..n, k < n, k \notin D PROVE k + 1 \notin D
    BY <1>5, <2>3
  <2> HIDE DEF D
  <2> QED BY <1>1, <2>1, <2>2, <2>3, NoneFails
<1>7. ASSUME NEW j \in 1..n
      PROVE  u + j - 1 \in 1..m /\ t[u + j - 1] = w[j]
  <2> DEFINE a == u + j - 1
  <2>1. j \in 0..n /\ j # 0
    BY <1>1
  <2>2. Good(j)
    BY <1>6, <2>1
  <2>3. a \in 1..m /\ h[a] = i + j
    BY <2>1, <2>2
  <2> HIDE DEF a
  <2>4. PICK b \in 1..m : t[b] = s[i + j] /\ b = a
    BY <1>3, <2>3
  <2>5. s[i + j] = w[j]
    BY DEF n
  <2> QED BY <2>3, <2>4, <2>5 DEF a
<1> DEFINE o == u - 1
           x == SubSeq(t, o + 1, o + n)
<1>8. o \in Nat /\ o + n \in 1..m /\ o + 1 = u
  <2>1. u + n - 1 \in 1..m
    <3>1. n \in 1..n
      BY <1>1
    <3> QED BY <1>7, <3>1
  <2> QED BY <1>1, <2>1
<1>9. /\ x \in Seq(S) /\ Len(x) = n /\ \A j \in 1..n : x[j] = t[o + j]
  <2>1. \A j \in o + 1..o + n : t[j] \in S
    BY <1>1, <1>8 DEF m
  <2>2. o + 1 <= o + n /\ (o + n) - (o + 1) + 1 = n
    BY <1>1, <1>8
  <2> HIDE DEF o
  <2>3. /\ x \in Seq(S) /\ Len(x) = n
        /\ \A j \in 1..n : x[j] = t[(o + 1) + j - 1]
    BY <1>1, <1>8, <2>1, <2>2, SubSeqProperties
  <2>4. \A j \in 1..n : (o + 1) + j - 1 = o + j
    BY <1>1, <1>8
  <2> QED BY <2>3, <2>4
<1>10. x = w
  <2>1. \A j \in 1..n : o + j = u + j - 1
    BY <1>1, <1>8
  <2>2. \A j \in 1..n : t[o + j] = w[j]
    BY <1>7, <2>1
  <2> HIDE DEF x, o
  <2>3. \A j \in 1..Len(x) : x[j] = w[j]
    BY <1>9, <2>2
  <2> QED BY <1>9, <2>3, SeqEqual DEF n
<1>11. o > 0 => t[o] \notin TokenChars
  <2> SUFFICES ASSUME o > 0 PROVE t[o] \notin TokenChars
    OBVIOUS
  <2>1. u > 1 /\ u - 1 = o
    BY <1>1, <1>8
  <2> QED BY <1>2, <2>1 DEF m
<1>12. o \in 0..Len(t) - Len(w)
  <2>1. o + n <= m
    BY <1>8
  <2> HIDE DEF o
  <2>2. o \in 0..m - n
    BY <1>1, <1>8, <2>1
  <2> QED BY <2>2 DEF n, m
<1> HIDE DEF o
<1> QED BY <1>10, <1>11, <1>12 DEF WrittenIn, n

\* The letters of s that have no letter beside them.
Lone(s) == {i \in PositionsOf(s, Cyrillic) :
              {i - 1, i + 1} \cap PositionsOf(s, Cyrillic) = {}}

LEMMA LoneIs ==
  ASSUME NEW S, NEW s \in Seq(S), NEW i
  PROVE  i \in Lone(s) <=>
           /\ i \in 1..Len(s) /\ s[i] \in Cyrillic
           /\ i - 1 \in 1..Len(s) => s[i - 1] \notin Cyrillic
           /\ i + 1 \in 1..Len(s) => s[i + 1] \notin Cyrillic
<1>1. DOMAIN s = 1..Len(s)
  OBVIOUS
<1> QED BY <1>1 DEF Lone, PositionsOf

\* The letters of w are the first lone ones of s, at p, with only separators
\* between them.
Spelt(s, w, p) ==
  /\ p \in [1..Len(w) -> Lone(s)]
  /\ \A a, b \in 1..Len(w) : a < b => p[a] < p[b]
  /\ \A a \in 1..Len(w) : s[p[a]] = w[a]
  /\ \A q \in Lone(s) : q <= p[Len(w)] => \E a \in 1..Len(w) : p[a] = q
  /\ \A i \in p[1]..p[Len(w)] : i \in Lone(s) \/ s[i] \in Separators
  /\ IsFiniteSet(Lone(s)) /\ Cardinality(Lone(s)) <= 32

\* t has the lone letters of s, in their order, and separators for separators.
Carries(t, s, h) ==
  /\ h \in [1..Len(t) -> 1..Len(s)]
  /\ \A a, b \in 1..Len(t) : a <= b => h[a] <= h[b]
  /\ \A q \in Lone(s) : \E a \in 1..Len(t) : h[a] = q
  /\ \A a \in 1..Len(t) : a \in Lone(t) <=> h[a] \in Lone(s)
  /\ \A a \in 1..Len(t) : h[a] \in Lone(s) =>
       t[a] = s[h[a]] /\ \A b \in 1..Len(t) : h[b] = h[a] => b = a
  /\ \A a \in 1..Len(t) : s[h[a]] \in Separators => t[a] \in Separators

LEMMA SpeltKept ==
  ASSUME NEW S, NEW s \in Seq(S), NEW t \in Seq(S), NEW w \in Seq(S),
         Len(w) >= 1, NEW h, Carries(t, s, h), NEW p, Spelt(s, w, p)
  PROVE  \E q : Spelt(t, w, q)
<1> DEFINE n == Len(w)
           m == Len(t)
           A == Lone(s)
           B == Lone(t)
           r == [a \in 1..n |-> CHOOSE b \in 1..m : h[b] = p[a]]
<1>1. /\ n \in Nat /\ m \in Nat /\ n >= 1 /\ Len(s) \in Nat
      /\ 1 \in 1..n /\ n \in 1..n
  OBVIOUS
<1>2. A \subseteq 1..Len(s) /\ B \subseteq 1..m
  BY LoneIs
<1>3. /\ p \in [1..n -> A]
      /\ \A a, b \in 1..n : a < b => p[a] < p[b]
      /\ \A a \in 1..n : s[p[a]] = w[a]
      /\ \A q \in A : q <= p[n] => \E a \in 1..n : p[a] = q
      /\ \A i \in p[1]..p[n] : i \in A \/ s[i] \in Separators
      /\ IsFiniteSet(A) /\ Cardinality(A) <= 32
  BY DEF Spelt
<1>4. /\ h \in [1..m -> 1..Len(s)]
      /\ \A a, b \in 1..m : a <= b => h[a] <= h[b]
      /\ \A q \in A : \E a \in 1..m : h[a] = q
      /\ \A a \in 1..m : a \in B <=> h[a] \in A
      /\ \A a \in 1..m : h[a] \in A =>
           t[a] = s[h[a]] /\ \A b \in 1..m : h[b] = h[a] => b = a
      /\ \A a \in 1..m : s[h[a]] \in Separators => t[a] \in Separators
  BY DEF Carries
<1> HIDE DEF n, m, A, B
<1>5. \A a \in 1..n : r[a] \in B /\ r[a] \in 1..m /\ h[r[a]] = p[a]
  <2> SUFFICES ASSUME NEW a \in 1..n
               PROVE  r[a] \in B /\ r[a] \in 1..m /\ h[r[a]] = p[a]
    OBVIOUS
  <2>1. p[a] \in A
    BY <1>3
  <2>2. \E b \in 1..m : h[b] = p[a]
    BY <1>4, <2>1
  <2>3. r[a] \in 1..m /\ h[r[a]] = p[a]
    BY <2>2
  <2> HIDE DEF r
  <2> QED BY <1>4, <2>1, <2>3
<1>6. r \in [1..n -> B]
  BY <1>5
<1> HIDE DEF r
<1>7. \A a, b \in 1..m : h[a] < h[b] => a < b
  <2> SUFFICES ASSUME NEW a \in 1..m, NEW b \in 1..m, h[a] < h[b], ~(a < b)
               PROVE  FALSE
    OBVIOUS
  <2>1. b <= a /\ h[a] \in 1..Len(s) /\ h[b] \in 1..Len(s)
    BY <1>1, <1>4
  <2>2. h[b] <= h[a]
    BY <1>4, <2>1
  <2> QED BY <2>1, <2>2
<1>8. \A a, b \in 1..n : a < b => r[a] < r[b]
  BY <1>3, <1>5, <1>7
<1>9. \A a \in 1..n : t[r[a]] = w[a]
  <2> SUFFICES ASSUME NEW a \in 1..n PROVE t[r[a]] = w[a]
    OBVIOUS
  <2>1. h[r[a]] \in A /\ r[a] \in 1..m /\ h[r[a]] = p[a]
    BY <1>3, <1>5
  <2>2. t[r[a]] = s[h[r[a]]]
    BY <1>4, <2>1
  <2> QED BY <1>3, <2>1, <2>2
<1>10. ASSUME NEW q \in B, q <= r[n] PROVE \E a \in 1..n : r[a] = q
  <2>1. q \in 1..m /\ h[q] \in A
    BY <1>2, <1>4
  <2>2. h[q] <= h[r[n]]
    BY <1>1, <1>4, <1>5, <1>10, <2>1
  <2>3. PICK a \in 1..n : p[a] = h[q]
    BY <1>1, <1>3, <1>5, <2>1, <2>2
  <2>4. r[a] = q
    BY <1>4, <1>5, <2>1, <2>3
  <2> QED BY <2>4
<1>11. ASSUME NEW i \in r[1]..r[n] PROVE i \in B \/ t[i] \in Separators
  <2>1. r[1] \in 1..m /\ r[n] \in 1..m
    BY <1>1, <1>5
  <2>2. i \in 1..m /\ r[1] <= i /\ i <= r[n]
    BY <1>1, <2>1
  <2>3. h[r[1]] <= h[i] /\ h[i] <= h[r[n]] /\ h[i] \in 1..Len(s)
    BY <1>4, <2>1, <2>2
  <2>4. h[r[1]] = p[1] /\ h[r[n]] = p[n]
    BY <1>1, <1>5
  <2>5. p[1] \in Int /\ p[n] \in Int
    <3>1. p[1] \in 1..Len(s) /\ p[n] \in 1..Len(s)
      BY <1>1, <1>2, <1>3
    <3> QED BY <3>1
  <2>6. h[i] \in p[1]..p[n]
    BY <2>3, <2>4, <2>5
  <2>7. h[i] \in A \/ s[h[i]] \in Separators
    BY <1>3, <2>6
  <2> QED BY <1>4, <2>2, <2>7
<1>12. IsFiniteSet(B) /\ Cardinality(B) <= 32
  <2> DEFINE f == [a \in B |-> h[a]]
  <2>1. f \in Injection(B, A)
    <3>1. f \in [B -> A]
      BY <1>2, <1>4
    <3>2. ASSUME NEW a \in B, NEW b \in B, f[a] = f[b] PROVE a = b
      <4>1. a \in 1..m /\ b \in 1..m /\ h[a] = h[b] /\ h[a] \in A
        BY <1>2, <1>4, <3>2
      <4> QED BY <1>4, <4>1
    <3> HIDE DEF f
    <3> QED BY <3>1, <3>2 DEF Injection, IsInjective
  <2> HIDE DEF f
  <2>2. IsFiniteSet(B) /\ Cardinality(B) <= Cardinality(A)
    BY <1>3, <2>1, FS_Injection
  <2>3. Cardinality(A) \in Nat /\ Cardinality(B) \in Nat
    BY <1>3, <2>2, FS_CardinalityType
  <2> QED BY <1>3, <2>2, <2>3
<1>13. Spelt(t, w, r)
  BY <1>6, <1>8, <1>9, <1>10, <1>11, <1>12 DEF Spelt, n, B
<1> QED BY <1>13

\* The characters of words are letters among others, not blank and no mention.
LEMMA TokenFacts ==
  /\ Cyrillic \subseteq TokenChars
  /\ TokenChars \cap Blanks = {} /\ TokenChars \cap Mentions = {}
  /\ Separators \cap Mentions = {}
  /\ Space \in Blanks /\ Space \notin TokenChars /\ Space \in Separators
  BY CharactersAssumption DEF TokenChars, WordChars, Alphanumeric, Letters

\* t has the characters of words of s and what is beside them, in their order.
Thins(t, s, h) ==
  /\ h \in [1..Len(t) -> 1..Len(s)]
  /\ \A a, b \in 1..Len(t) : a <= b => h[a] <= h[b]
  /\ \A a \in 1..Len(t) : s[h[a]] \in TokenChars =>
       /\ t[a] = s[h[a]] /\ \A b \in 1..Len(t) : h[b] = h[a] => b = a
       /\ a - 1 \in 1..Len(t) =>
            \/ t[a - 1] \notin TokenChars
            \/ h[a] - 1 \in 1..Len(s) /\ t[a - 1] = s[h[a] - 1]
       /\ a + 1 \in 1..Len(t) =>
            \/ t[a + 1] \notin TokenChars
            \/ h[a] + 1 \in 1..Len(s) /\ s[h[a] + 1] \in {t[a + 1], s[h[a]]}
  /\ \A a \in Lone(t) : s[h[a]] = t[a]
  /\ \A a \in 1..Len(t) : s[h[a]] \in Separators => t[a] \in Separators
  /\ \A a \in 1..Len(t) : s[h[a]] \in Cyrillic =>
       /\ h[a] - 1 \in 1..Len(s) /\ s[h[a] - 1] \in Cyrillic =>
            a - 1 \in 1..Len(t) /\ t[a - 1] \in Cyrillic
       /\ h[a] + 1 \in 1..Len(s) /\ s[h[a] + 1] \in Cyrillic =>
            \E b \in {a - 1, a + 1} \cap 1..Len(t) : t[b] \in Cyrillic
  /\ \A q \in Lone(s) : \E a \in 1..Len(t) : h[a] = q

\* So it carries what is spelled out.
LEMMA ThinsCarries ==
  ASSUME NEW S, NEW s \in Seq(S), NEW t \in Seq(S), NEW h, Thins(t, s, h)
  PROVE  Carries(t, s, h)
<1> DEFINE m == Len(t)
           n == Len(s)
<1>1. /\ h \in [1..m -> 1..n]
      /\ \A a, b \in 1..m : a <= b => h[a] <= h[b]
      /\ \A a \in 1..m : s[h[a]] \in TokenChars =>
           t[a] = s[h[a]] /\ \A b \in 1..m : h[b] = h[a] => b = a
      /\ \A a \in 1..m : s[h[a]] \in Separators => t[a] \in Separators
      /\ \A q \in Lone(s) : \E a \in 1..m : h[a] = q
  BY DEF Thins
<1>2. \A a \in Lone(t) : s[h[a]] = t[a]
  BY DEF Thins
<1>3. \A a \in 1..m : s[h[a]] \in TokenChars =>
        /\ a - 1 \in 1..m =>
             \/ t[a - 1] \notin TokenChars
             \/ h[a] - 1 \in 1..n /\ t[a - 1] = s[h[a] - 1]
        /\ a + 1 \in 1..m =>
             \/ t[a + 1] \notin TokenChars
             \/ h[a] + 1 \in 1..n /\ s[h[a] + 1] \in {t[a + 1], s[h[a]]}
  BY DEF Thins
<1>4. \A a \in 1..m : s[h[a]] \in Cyrillic =>
        /\ h[a] - 1 \in 1..n /\ s[h[a] - 1] \in Cyrillic =>
             a - 1 \in 1..m /\ t[a - 1] \in Cyrillic
        /\ h[a] + 1 \in 1..n /\ s[h[a] + 1] \in Cyrillic =>
             \E b \in {a - 1, a + 1} \cap 1..m : t[b] \in Cyrillic
  BY DEF Thins
<1>5. \A i : i \in Lone(s) <=>
        /\ i \in 1..n /\ s[i] \in Cyrillic
        /\ i - 1 \in 1..n => s[i - 1] \notin Cyrillic
        /\ i + 1 \in 1..n => s[i + 1] \notin Cyrillic
  BY LoneIs
<1>6. \A i : i \in Lone(t) <=>
        /\ i \in 1..m /\ t[i] \in Cyrillic
        /\ i - 1 \in 1..m => t[i - 1] \notin Cyrillic
        /\ i + 1 \in 1..m => t[i + 1] \notin Cyrillic
  BY LoneIs
<1> HIDE DEF m, n
<1>7. ASSUME NEW a \in 1..m, h[a] \in Lone(s) PROVE a \in Lone(t)
  <2>1. /\ s[h[a]] \in Cyrillic /\ s[h[a]] \in TokenChars
        /\ h[a] - 1 \in 1..n => s[h[a] - 1] \notin Cyrillic
        /\ h[a] + 1 \in 1..n => s[h[a] + 1] \notin Cyrillic
    BY <1>5, <1>7, TokenFacts
  <2>2. t[a] \in Cyrillic
    BY <1>1, <2>1
  <2>3. a - 1 \in 1..m => t[a - 1] \notin Cyrillic
    BY <1>3, <2>1, TokenFacts
  <2>4. a + 1 \in 1..m => t[a + 1] \notin Cyrillic
    BY <1>3, <2>1, TokenFacts
  <2> QED BY <1>6, <2>2, <2>3, <2>4
<1>8. ASSUME NEW a \in 1..m, a \in Lone(t) PROVE h[a] \in Lone(s)
  <2>1. /\ s[h[a]] \in Cyrillic /\ h[a] \in 1..n
        /\ a - 1 \in 1..m => t[a - 1] \notin Cyrillic
        /\ a + 1 \in 1..m => t[a + 1] \notin Cyrillic
    BY <1>1, <1>2, <1>6, <1>8
  <2>2. h[a] - 1 \in 1..n => s[h[a] - 1] \notin Cyrillic
    BY <1>4, <2>1
  <2>3. h[a] + 1 \in 1..n => s[h[a] + 1] \notin Cyrillic
    BY <1>4, <2>1
  <2> QED BY <1>5, <2>1, <2>2, <2>3
<1>9. \A a \in 1..m : h[a] \in Lone(s) =>
        t[a] = s[h[a]] /\ \A b \in 1..m : h[b] = h[a] => b = a
  BY <1>1, <1>5, TokenFacts
<1> QED BY <1>1, <1>7, <1>8, <1>9 DEF Carries, m, n

\* The characters of a word are in each set that its range is in.
LEMMA CharacterIn ==
  ASSUME NEW S, NEW w \in Seq(S), NEW T, Range(w) \subseteq T
  PROVE  \A j \in 1..Len(w) : w[j] \in T
<1>1. DOMAIN w = 1..Len(w)
  OBVIOUS
<1>2. \A j \in DOMAIN w : w[j] \in Range(w)
  BY DEF Range
<1> QED BY <1>1, <1>2

\* And words, if all of their characters are there.
LEMMA ThinsWritten ==
  ASSUME NEW S, NEW s \in Seq(S), NEW t \in Seq(S), NEW w \in Seq(S),
         Len(w) >= 1, Range(w) \subseteq TokenChars,
         NEW i \in 0..Len(s) - Len(w), SubSeq(s, i + 1, i + Len(w)) = w,
         i > 0 => s[i] \notin TokenChars, NEW h, Thins(t, s, h),
         \A j \in 1..Len(w) : \E a \in 1..Len(t) : h[a] = i + j
  PROVE  WrittenIn(t, w)
<1> DEFINE k == Len(w)
           m == Len(t)
           n == Len(s)
<1>1. /\ k \in Nat /\ m \in Nat /\ n \in Nat /\ k >= 1 /\ i \in Nat /\ i + k <= n
  OBVIOUS
<1>2. \A j \in 1..k : s[i + j] = w[j] /\ i + j \in 1..n
  <2>1. ASSUME NEW j \in 1..k PROVE s[i + j] = SubSeq(s, i + 1, i + k)[j]
    OBVIOUS
  <2>2. \A j \in 1..k : i + j \in 1..n
    BY <1>1
  <2> QED BY <2>1, <2>2
<1>3. \A j \in 1..k : w[j] \in TokenChars
  BY CharacterIn
<1>4. /\ h \in [1..m -> 1..n]
      /\ \A a, b \in 1..m : a <= b => h[a] <= h[b]
      /\ \A a \in 1..m : s[h[a]] \in TokenChars =>
           /\ t[a] = s[h[a]] /\ \A b \in 1..m : h[b] = h[a] => b = a
           /\ a - 1 \in 1..m =>
                \/ t[a - 1] \notin TokenChars
                \/ h[a] - 1 \in 1..n /\ t[a - 1] = s[h[a] - 1]
  BY DEF Thins
<1>5. \A j \in 1..k : \E a \in 1..m : h[a] = i + j
  OBVIOUS
<1> HIDE DEF k, m, n
<1>6. \A j \in 1..k : \E a \in 1..m :
        /\ h[a] = i + j /\ t[a] = s[i + j]
        /\ \A b \in 1..m : h[b] = i + j => b = a
  <2> SUFFICES ASSUME NEW j \in 1..k
               PROVE  \E a \in 1..m :
                        /\ h[a] = i + j /\ t[a] = s[i + j]
                        /\ \A b \in 1..m : h[b] = i + j => b = a
    OBVIOUS
  <2>1. PICK a \in 1..m : h[a] = i + j
    BY <1>5
  <2>2. s[h[a]] \in TokenChars
    BY <1>2, <1>3, <2>1
  <2> QED BY <1>4, <2>1, <2>2
<1>7. ASSUME NEW a \in 1..m, h[a] = i + 1, a > 1 PROVE t[a - 1] \notin TokenChars
  <2>1. 1 \in 1..k /\ a - 1 \in 1..m
    BY <1>1, <1>7
  <2>2. s[h[a]] \in TokenChars
    BY <1>2, <1>3, <1>7, <2>1
  <2>3. h[a] - 1 = i
    BY <1>1, <1>7
  <2>4. \/ t[a - 1] \notin TokenChars
        \/ i \in 1..n /\ t[a - 1] = s[i]
    BY <1>4, <2>1, <2>2, <2>3
  <2>5. i \in 1..n => i > 0
    BY <1>1
  <2> QED BY <2>4, <2>5
<1>8. /\ h \in [1..m -> 1..n] /\ i \in Nat /\ i + k <= n /\ k >= 1
      /\ \A a, b \in 1..m : a <= b => h[a] <= h[b]
      /\ \A j \in 1..k : s[i + j] = w[j]
      /\ s \in Seq(S) /\ t \in Seq(S) /\ w \in Seq(S)
  BY <1>1, <1>2, <1>4
<1>9. \A a \in 1..m : h[a] = i + 1 /\ a > 1 => t[a - 1] \notin TokenChars
  BY <1>7
<1>10. Reads(t, s, w, i, h)
  BY <1>6, <1>8, <1>9 DEF Reads, k, m, n
<1> QED BY <1>10, WrittenKept

\* Numbers that reach all of 1..n in their order go up by one at a time.
Climbs(h, m, n) ==
  /\ h \in [1..m -> 1..n]
  /\ \A a, b \in 1..m : a <= b => h[a] <= h[b]
  /\ \A i \in 1..n : \E a \in 1..m : h[a] = i

LEMMA Climbing ==
  ASSUME NEW m \in Nat, NEW n \in Nat, NEW h, Climbs(h, m, n),
         NEW a \in 1..m, \A b \in 1..m : h[b] = h[a] => b = a
  PROVE  /\ a + 1 \in 1..m <=> h[a] + 1 \in 1..n
         /\ a + 1 \in 1..m => h[a + 1] = h[a] + 1
         /\ a - 1 \in 1..m <=> h[a] - 1 \in 1..n
         /\ a - 1 \in 1..m => h[a - 1] = h[a] - 1
<1> USE DEF Climbs
<1>0. h[a] \in 1..n /\ a \in Int /\ h[a] \in Int
  OBVIOUS
<1>1. ASSUME NEW b \in 1..m PROVE b < a <=> h[b] < h[a]
  <2>1. h[b] \in 1..n /\ (b = a <=> h[b] = h[a])
    OBVIOUS
  <2>2. b <= a => h[b] <= h[a]
    OBVIOUS
  <2>3. a <= b => h[a] <= h[b]
    OBVIOUS
  <2> QED BY <1>0, <2>1, <2>2, <2>3
<1>2. ASSUME NEW b \in 1..m PROVE b > a <=> h[b] > h[a]
  <2>1. h[b] \in 1..n /\ (b = a <=> h[b] = h[a])
    OBVIOUS
  <2> QED BY <1>0, <1>1, <2>1
<1>3. ASSUME a + 1 \in 1..m
      PROVE  h[a + 1] = h[a] + 1 /\ h[a] + 1 \in 1..n
  <2> DEFINE c == a + 1
             i == h[a] + 1
  <2>1. c \in 1..m /\ c > a /\ h[c] \in 1..n /\ h[c] > h[a]
    BY <1>2, <1>3
  <2>2. i \in 1..n
    BY <1>0, <2>1
  <2>3. PICK b \in 1..m : h[b] = i
    BY <2>2
  <2>4. b > a
    BY <1>0, <1>2, <2>3
  <2>5. c <= b
    BY <2>4
  <2> HIDE DEF c
  <2>6. h[c] <= h[b]
    BY <2>1, <2>5
  <2>7. h[c] = i
    BY <1>0, <2>1, <2>3, <2>6
  <2> QED BY <2>2, <2>7 DEF c
<1>4. ASSUME h[a] + 1 \in 1..n PROVE a + 1 \in 1..m
  <2>1. PICK b \in 1..m : h[b] = h[a] + 1
    BY <1>4
  <2>2. b > a
    BY <1>0, <1>2, <2>1
  <2> QED BY <2>2
<1>5. ASSUME a - 1 \in 1..m
      PROVE  h[a - 1] = h[a] - 1 /\ h[a] - 1 \in 1..n
  <2> DEFINE c == a - 1
             i == h[a] - 1
  <2>1. c \in 1..m /\ c < a /\ h[c] \in 1..n /\ h[c] < h[a]
    BY <1>1, <1>5
  <2>2. i \in 1..n
    BY <1>0, <2>1
  <2>3. PICK b \in 1..m : h[b] = i
    BY <2>2
  <2>4. b < a
    BY <1>0, <1>1, <2>3
  <2>5. b <= c
    BY <2>4
  <2> HIDE DEF c
  <2>6. h[b] <= h[c]
    BY <2>1, <2>5
  <2>7. h[c] = i
    BY <1>0, <2>1, <2>3, <2>6
  <2> QED BY <2>2, <2>7 DEF c
<1>6. ASSUME h[a] - 1 \in 1..n PROVE a - 1 \in 1..m
  <2>1. PICK b \in 1..m : h[b] = h[a] - 1
    BY <1>6
  <2>2. b < a
    BY <1>0, <1>1, <2>1
  <2> QED BY <2>2
<1> QED BY <1>3, <1>4, <1>5, <1>6

\* What is read for the mentions hides no word.
LEMMA AddressedThins ==
  ASSUME NEW S, NEW s \in Seq(S), NEW t \in Seq(S), NEW h,
         From(t, Len(s), s, h)
  PROVE  Thins(t, s, h)
<1> DEFINE m == Len(t)
           n == Len(s)
<1>0. m \in Nat /\ n \in Nat
  OBVIOUS
<1>1. /\ h \in [1..m -> 1..n]
      /\ \A a, b \in 1..m : a <= b => h[a] <= h[b]
      /\ \A i \in 1..n : \E a \in 1..m : h[a] = i
      /\ \A a \in 1..m : s[h[a]] \notin Mentions =>
           t[a] = s[h[a]] /\ \A b \in 1..m : h[b] = h[a] => b = a
  BY DEF From
<1>2. \A a \in 1..m : s[h[a]] \in Mentions => t[a] = Space \/ InAddress(t, h, a)
  BY DEF From
<1>3. \A a \in 1..m : InAddress(t, h, a) =>
        /\ t[a] \in Cyrillic /\ a - 1 \in 1..m /\ a + 1 \in 1..m
        /\ h[a - 1] = h[a] /\ h[a + 1] = h[a]
        /\ t[a - 1] \in Cyrillic \/ t[a + 1] \in Cyrillic
  BY DEF InAddress
<1>4. \A i : i \in Lone(t) <=>
        /\ i \in 1..m /\ t[i] \in Cyrillic
        /\ i - 1 \in 1..m => t[i - 1] \notin Cyrillic
        /\ i + 1 \in 1..m => t[i + 1] \notin Cyrillic
  BY LoneIs
<1>5. \A q \in Lone(s) : q \in 1..n
  BY LoneIs
<1> HIDE DEF m, n
<1>6. ASSUME NEW a \in 1..m, s[h[a]] \notin Mentions
      PROVE  /\ a + 1 \in 1..m <=> h[a] + 1 \in 1..n
             /\ a + 1 \in 1..m => /\ h[a + 1] = h[a] + 1
                                  /\ t[a + 1] = Space \/ t[a + 1] = s[h[a] + 1]
                                  /\ s[h[a] + 1] \notin Mentions =>
                                       t[a + 1] = s[h[a] + 1]
             /\ a - 1 \in 1..m <=> h[a] - 1 \in 1..n
             /\ a - 1 \in 1..m => /\ h[a - 1] = h[a] - 1
                                  /\ t[a - 1] = Space \/ t[a - 1] = s[h[a] - 1]
                                  /\ s[h[a] - 1] \notin Mentions =>
                                       t[a - 1] = s[h[a] - 1]
  <2>1. \A b \in 1..m : h[b] = h[a] => b = a
    BY <1>1, <1>6
  <2>2. /\ a + 1 \in 1..m <=> h[a] + 1 \in 1..n
        /\ a + 1 \in 1..m => h[a + 1] = h[a] + 1
        /\ a - 1 \in 1..m <=> h[a] - 1 \in 1..n
        /\ a - 1 \in 1..m => h[a - 1] = h[a] - 1
    <3>1. Climbs(h, m, n)
      BY <1>1 DEF Climbs
    <3>2. a \in 1..m
      OBVIOUS
    <3>3. \A b \in 1..m : h[b] = h[a] => b = a
      BY <2>1
    <3> QED BY ONLY <1>0, <3>1, <3>2, <3>3, Climbing
  <2>3. a + 1 - 1 = a /\ a - 1 + 1 = a /\ a # a + 1 /\ a # a - 1
    OBVIOUS
  <2>4. ASSUME a + 1 \in 1..m
        PROVE  /\ t[a + 1] = Space \/ t[a + 1] = s[h[a] + 1]
               /\ s[h[a] + 1] \notin Mentions => t[a + 1] = s[h[a] + 1]
    <3> DEFINE c == a + 1
    <3>1. c \in 1..m /\ c - 1 = a /\ c # a /\ h[c] = h[a] + 1
      BY <2>2, <2>3, <2>4
    <3> HIDE DEF c
    <3>2. ~InAddress(t, h, c)
      BY <1>3, <2>1, <3>1
    <3>3. /\ t[c] = Space \/ t[c] = s[h[c]]
          /\ s[h[c]] \notin Mentions => t[c] = s[h[c]]
      BY <1>1, <1>2, <3>1, <3>2
    <3> QED BY <3>1, <3>3 DEF c
  <2>5. ASSUME a - 1 \in 1..m
        PROVE  /\ t[a - 1] = Space \/ t[a - 1] = s[h[a] - 1]
               /\ s[h[a] - 1] \notin Mentions => t[a - 1] = s[h[a] - 1]
    <3> DEFINE c == a - 1
    <3>1. c \in 1..m /\ c + 1 = a /\ c # a /\ h[c] = h[a] - 1
      BY <2>2, <2>3, <2>5
    <3> HIDE DEF c
    <3>2. ~InAddress(t, h, c)
      BY <1>3, <2>1, <3>1
    <3>3. /\ t[c] = Space \/ t[c] = s[h[c]]
          /\ s[h[c]] \notin Mentions => t[c] = s[h[c]]
      BY <1>1, <1>2, <3>1, <3>2
    <3> QED BY <3>1, <3>3 DEF c
  <2> QED BY <2>2, <2>4, <2>5
<1>7. ASSUME NEW a \in 1..m, s[h[a]] \in TokenChars
      PROVE  /\ t[a] = s[h[a]] /\ \A b \in 1..m : h[b] = h[a] => b = a
             /\ a - 1 \in 1..m =>
                  \/ t[a - 1] \notin TokenChars
                  \/ h[a] - 1 \in 1..n /\ t[a - 1] = s[h[a] - 1]
             /\ a + 1 \in 1..m =>
                  \/ t[a + 1] \notin TokenChars
                  \/ h[a] + 1 \in 1..n /\ s[h[a] + 1] \in {t[a + 1], s[h[a]]}
  <2>1. s[h[a]] \notin Mentions
    BY <1>7, TokenFacts
  <2>2. t[a] = s[h[a]] /\ \A b \in 1..m : h[b] = h[a] => b = a
    BY <1>1, <2>1
  <2>3. a - 1 \in 1..m =>
          \/ t[a - 1] \notin TokenChars
          \/ h[a] - 1 \in 1..n /\ t[a - 1] = s[h[a] - 1]
    BY <1>6, <2>1, TokenFacts
  <2>4. a + 1 \in 1..m =>
          \/ t[a + 1] \notin TokenChars
          \/ h[a] + 1 \in 1..n /\ s[h[a] + 1] \in {t[a + 1], s[h[a]]}
    BY <1>6, <2>1, TokenFacts
  <2> QED BY <2>2, <2>3, <2>4
<1>8. ASSUME NEW a \in Lone(t) PROVE s[h[a]] = t[a]
  <2>1. /\ a \in 1..m /\ t[a] \in Cyrillic
        /\ a - 1 \in 1..m => t[a - 1] \notin Cyrillic
        /\ a + 1 \in 1..m => t[a + 1] \notin Cyrillic
    BY <1>4
  <2>2. ~InAddress(t, h, a) /\ t[a] # Space
    BY <1>3, <2>1, TokenFacts
  <2> QED BY <1>1, <1>2, <2>1, <2>2
<1>9. ASSUME NEW a \in 1..m, s[h[a]] \in Separators PROVE t[a] \in Separators
  BY <1>1, <1>9, TokenFacts
<1>10. ASSUME NEW a \in 1..m, s[h[a]] \in Cyrillic
       PROVE  /\ h[a] - 1 \in 1..n /\ s[h[a] - 1] \in Cyrillic =>
                   a - 1 \in 1..m /\ t[a - 1] \in Cyrillic
              /\ h[a] + 1 \in 1..n /\ s[h[a] + 1] \in Cyrillic =>
                   \E b \in {a - 1, a + 1} \cap 1..m : t[b] \in Cyrillic
  <2>1. s[h[a]] \notin Mentions /\ Cyrillic \cap Mentions = {}
    BY <1>10, TokenFacts
  <2>2. h[a] - 1 \in 1..n /\ s[h[a] - 1] \in Cyrillic =>
          a - 1 \in 1..m /\ t[a - 1] \in Cyrillic
    BY <1>6, <2>1
  <2>3. h[a] + 1 \in 1..n /\ s[h[a] + 1] \in Cyrillic =>
          a + 1 \in 1..m /\ t[a + 1] \in Cyrillic
    BY <1>6, <2>1
  <2> QED BY <2>2, <2>3
<1>11. \A q \in Lone(s) : \E a \in 1..m : h[a] = q
  BY <1>1, <1>5
<1> QED BY <1>1, <1>7, <1>8, <1>9, <1>10, <1>11 DEF Thins, m, n

\* What Spaced keeps, and what of.
Blanked(s) ==
  [i \in DOMAIN s |-> IF i \in PositionsOf(s, Blanks) THEN Space ELSE s[i]]
SpacedAt(s) ==
  (DOMAIN s \ PositionsOf(s, Blanks))
  \cup {r[1] : r \in {q \in Runs(PositionsOf(s, Blanks)) :
                        q[1] > 1 /\ q[2] < Len(s)}}

\* All that is not blank is kept, and the first of the blanks between two
\* others.
LEMMA SpacedPlaces ==
  ASSUME NEW S, NEW s \in Seq(S)
  PROVE  /\ SpacedAt(s) \in SUBSET (1..Len(s))
         /\ \A x \in 1..Len(s) : s[x] \notin Blanks => x \in SpacedAt(s)
         /\ \A x \in SpacedAt(s) : s[x] \in Blanks =>
              x - 1 \in 1..Len(s) /\ s[x - 1] \notin Blanks
         /\ \A y, z \in 1..Len(s) :
              (/\ s[y] \notin Blanks /\ s[z] \notin Blanks /\ z > y + 1
               /\ s[y + 1] \in Blanks) => y + 1 \in SpacedAt(s)
<1> DEFINE n == Len(s)
           B == PositionsOf(s, Blanks)
           P == SpacedAt(s)
<1>1. n \in Nat /\ DOMAIN s = 1..n /\ B \subseteq 1..n
  BY DEF PositionsOf
<1>2. \A x \in 1..n : x \in B <=> s[x] \in Blanks
  BY <1>1 DEF PositionsOf
<1>3. P = (1..n \ B) \cup {r[1] : r \in {q \in Runs(B) : q[1] > 1 /\ q[2] < n}}
  BY <1>1 DEF SpacedAt
<1> HIDE DEF n, B, P
<1>4. ASSUME NEW q \in Runs(B)
      PROVE  /\ q[1] \in B /\ q[2] \in B /\ q[1] <= q[2]
             /\ \A i \in q[1]..q[2] : i \in B
             /\ q[1] - 1 \notin B /\ q[2] + 1 \notin B
  BY DEF Runs
<1>5. P \in SUBSET (1..n)
  BY <1>1, <1>3, <1>4
<1>6. ASSUME NEW x \in P, x \in B PROVE x - 1 \in 1..n /\ x - 1 \notin B
  <2>1. PICK q \in Runs(B) : q[1] > 1 /\ q[2] < n /\ x = q[1]
    BY <1>3, <1>6
  <2>2. x \in 1..n /\ x > 1 /\ x - 1 \notin B
    BY <1>1, <1>4, <1>6, <2>1
  <2> QED BY <1>1, <2>2
<1>7. ASSUME NEW y \in 1..n, NEW z \in 1..n, y \notin B, z \notin B, z > y + 1,
             y + 1 \in B
      PROVE  y + 1 \in P
  <2> DEFINE T == {x \in 1..n : x > y + 1 /\ x \notin B}
  <2>1. T \in SUBSET (1..n) /\ T # {}
    BY <1>7
  <2>2. PICK e \in T : \A x \in T : e <= x
    <3> HIDE DEF T
    <3> QED BY <1>1, <2>1, LeastBelow
  <2> DEFINE r == <<y + 1, e - 1>>
  <2>3. /\ e \in 1..n /\ y \in Int /\ e \in Int /\ e > y + 1 /\ e \notin B
        /\ y + 1 <= e - 1 /\ e - 1 < n
    BY <1>1, <2>2
  <2>4. ASSUME NEW i \in y + 1..e - 1 PROVE i \in B
    <3>1. CASE i = y + 1
      BY <1>7, <3>1
    <3>2. CASE i # y + 1
      <4>1. i \in 1..n /\ i > y + 1 /\ ~(e <= i)
        BY <1>1, <2>3, <3>2
      <4>2. i \notin T
        BY <2>2, <4>1
      <4> QED BY <4>1, <4>2
    <3> QED BY <3>1, <3>2
  <2>5. e - 1 \in B /\ (y + 1) - 1 = y /\ (e - 1) + 1 = e /\ y + 1 > 1
    BY <1>1, <2>3, <2>4
  <2>6. r \in Runs(B)
    <3>1. r \in B \X B /\ r[1] = y + 1 /\ r[2] = e - 1
      BY <1>7, <2>5
    <3> HIDE DEF r
    <3> QED BY <1>7, <2>3, <2>4, <2>5, <3>1 DEF Runs
  <2>7. r[1] = y + 1 /\ r[2] = e - 1
    OBVIOUS
  <2> HIDE DEF r
  <2> QED BY <1>3, <2>3, <2>5, <2>6, <2>7
<1>8. \A x \in 1..n : s[x] \notin Blanks => x \in P
  BY <1>2, <1>3
<1>9. \A x \in P : s[x] \in Blanks => x - 1 \in 1..n /\ s[x - 1] \notin Blanks
  BY <1>2, <1>5, <1>6
<1>10. ASSUME NEW y \in 1..n, NEW z \in 1..n, s[y] \notin Blanks,
              s[z] \notin Blanks, z > y + 1, s[y + 1] \in Blanks
       PROVE  y + 1 \in P
  <2>1. y + 1 \in 1..n
    BY <1>1, <1>10
  <2> QED BY <1>2, <1>7, <1>10, <2>1
<1> QED BY <1>5, <1>8, <1>9, <1>10 DEF P, n

\* What is next in an exact list of numbers.
LEMMA ExactNext ==
  ASSUME NEW m \in Nat, NEW P \in SUBSET Int, NEW e, Exact(e, m, P),
         NEW a \in 1..m, NEW i \in P
  PROVE  /\ i > e[a] => a + 1 \in 1..m /\ e[a + 1] > e[a] /\ e[a + 1] <= i
         /\ i < e[a] => a - 1 \in 1..m /\ e[a - 1] < e[a] /\ i <= e[a - 1]
<1>1. /\ e \in [1..m -> P]
      /\ \A b, c \in 1..m : b < c => e[b] < e[c]
      /\ \A j \in P : \E b \in 1..m : e[b] = j
  BY DEF Exact
<1>2. PICK b \in 1..m : e[b] = i
  BY <1>1
<1>3. e[a] \in Int /\ e[b] \in Int
  BY <1>1
<1>4. ASSUME i > e[a] PROVE a + 1 \in 1..m /\ e[a + 1] > e[a] /\ e[a + 1] <= i
  <2>1. ~(b < a) /\ b # a
    BY <1>1, <1>2, <1>3, <1>4
  <2> DEFINE c == a + 1
  <2>2. c \in 1..m /\ a < c /\ (c < b \/ c = b)
    BY <2>1
  <2> HIDE DEF c
  <2>3. e[c] \in Int
    BY <1>1, <2>2
  <2>4. e[a] < e[c] /\ (e[c] < e[b] \/ e[c] = e[b])
    BY <1>1, <2>2
  <2> QED BY <1>2, <1>3, <2>2, <2>3, <2>4 DEF c
<1>5. ASSUME i < e[a] PROVE a - 1 \in 1..m /\ e[a - 1] < e[a] /\ i <= e[a - 1]
  <2>1. ~(a < b) /\ b # a
    BY <1>1, <1>2, <1>3, <1>5
  <2> DEFINE c == a - 1
  <2>2. c \in 1..m /\ c < a /\ (b < c \/ c = b)
    BY <2>1
  <2> HIDE DEF c
  <2>3. e[c] \in Int
    BY <1>1, <2>2
  <2>4. e[c] < e[a] /\ (e[b] < e[c] \/ e[c] = e[b])
    BY <1>1, <2>2
  <2> QED BY <1>2, <1>3, <2>2, <2>3, <2>4 DEF c
<1> QED BY <1>4, <1>5

\* An exact list keeps the order, and has each number once.
LEMMA ExactOrder ==
  ASSUME NEW m \in Nat, NEW P \in SUBSET Int, NEW e, Exact(e, m, P)
  PROVE  /\ \A a, b \in 1..m : a <= b => e[a] <= e[b]
         /\ \A a, b \in 1..m : e[a] = e[b] => a = b
<1>1. /\ e \in [1..m -> P]
      /\ \A b, c \in 1..m : b < c => e[b] < e[c]
  BY DEF Exact
<1>2. ASSUME NEW a \in 1..m, NEW b \in 1..m
      PROVE  (a <= b => e[a] <= e[b]) /\ (e[a] = e[b] => a = b)
  <2>1. e[a] \in Int /\ e[b] \in Int
    BY <1>1
  <2>2. a < b => e[a] < e[b]
    BY <1>1
  <2>3. b < a => e[b] < e[a]
    BY <1>1
  <2>4. a < b \/ b < a \/ a = b
    OBVIOUS
  <2> QED BY <2>1, <2>2, <2>3, <2>4
<1> QED BY <1>2

\* Taking blanks away hides no word.
LEMMA SpacedThins ==
  ASSUME NEW S, NEW s \in Seq(S), Space \in S
  PROVE  /\ Spaced(s) \in Seq(S)
         /\ \E h : /\ Thins(Spaced(s), s, h)
                   /\ \A q \in 1..Len(s) : s[q] \in TokenChars =>
                        \E a \in 1..Len(Spaced(s)) : h[a] = q
<1> DEFINE t == Spaced(s)
           u == Blanked(s)
           P == SpacedAt(s)
           n == Len(s)
           m == Len(t)
<1>1. /\ n \in Nat /\ u \in Seq(S) /\ Len(u) = n
      /\ \A i \in 1..n : u[i] = IF s[i] \in Blanks THEN Space ELSE s[i]
  <2>1. DOMAIN s = 1..n /\ n \in Nat /\ \A i \in 1..n : s[i] \in S
    OBVIOUS
  <2>2. \A i \in 1..n : i \in PositionsOf(s, Blanks) <=> s[i] \in Blanks
    BY <2>1 DEF PositionsOf
  <2>3. u = [i \in 1..n |-> IF s[i] \in Blanks THEN Space ELSE s[i]]
    BY <2>1, <2>2 DEF Blanked
  <2>4. u \in [1..n -> S]
    BY <2>1, <2>3
  <2> HIDE DEF u, n
  <2> QED BY <2>1, <2>3, <2>4
<1>2. t = At(u, P)
  BY DEF Spaced, Blanked, SpacedAt
<1>3. /\ P \in SUBSET (1..n)
      /\ \A x \in 1..n : s[x] \notin Blanks => x \in P
      /\ \A x \in P : s[x] \in Blanks => x - 1 \in 1..n /\ s[x - 1] \notin Blanks
      /\ \A y, z \in 1..n :
           (/\ s[y] \notin Blanks /\ s[z] \notin Blanks /\ z > y + 1
            /\ s[y + 1] \in Blanks) => y + 1 \in P
  BY SpacedPlaces
<1> HIDE DEF t, u, P, n
<1>4. t \in Seq(S) /\ \E e : /\ Exact(e, Len(t), P)
                             /\ \A k \in 1..Len(t) : t[k] = u[e[k]]
  BY <1>1, <1>2, <1>3, AtDrawn
<1>5. PICK h : Exact(h, m, P) /\ \A k \in 1..m : t[k] = u[h[k]]
  BY <1>4
<1>6. m \in Nat /\ h \in [1..m -> P]
  BY <1>4, <1>5 DEF Exact
<1>7. \A i : i \in Lone(t) <=>
        /\ i \in 1..m /\ t[i] \in Cyrillic
        /\ i - 1 \in 1..m => t[i - 1] \notin Cyrillic
        /\ i + 1 \in 1..m => t[i + 1] \notin Cyrillic
  BY <1>4, LoneIs
<1>8. \A q \in Lone(s) : q \in 1..n /\ s[q] \in TokenChars
  BY LoneIs, TokenFacts DEF n
<1> HIDE DEF m
<1>9. /\ \A a, b \in 1..m : a <= b => h[a] <= h[b]
      /\ \A a, b \in 1..m : h[a] = h[b] => a = b
  <2>1. P \in SUBSET Int
    BY <1>3
  <2> QED BY <1>5, <1>6, <2>1, ExactOrder
<1>10. ASSUME NEW a \in 1..m, NEW i \in P
       PROVE  /\ i > h[a] => a + 1 \in 1..m /\ h[a + 1] > h[a] /\ h[a + 1] <= i
              /\ i < h[a] => a - 1 \in 1..m /\ h[a - 1] < h[a] /\ i <= h[a - 1]
  <2>1. P \in SUBSET Int
    BY <1>3
  <2> QED BY <1>5, <1>6, <2>1, ExactNext
<1>11. ASSUME NEW a \in 1..m
       PROVE  /\ h[a] \in 1..n /\ h[a] \in P
              /\ t[a] = IF s[h[a]] \in Blanks THEN Space ELSE s[h[a]]
  BY <1>1, <1>3, <1>5, <1>6
<1>12. ASSUME NEW q \in P PROVE \E a \in 1..m : h[a] = q
  BY <1>5 DEF Exact
<1>13. ASSUME NEW a \in 1..m, s[h[a]] \notin Blanks, a - 1 \in 1..m
       PROVE  \/ t[a - 1] = Space
              \/ h[a] - 1 \in 1..n /\ h[a - 1] = h[a] - 1
                 /\ t[a - 1] = s[h[a] - 1]
  <2> DEFINE c == a - 1
             x == h[a]
             y == h[c]
  <2>1. c \in 1..m /\ c + 1 = a /\ c <= a /\ c # a
    BY <1>13
  <2>2. x \in 1..n /\ y \in 1..n /\ x \in P /\ y \in P /\ y <= x /\ y # x
    BY <1>9, <1>11, <2>1
  <2>3. t[c] = IF s[y] \in Blanks THEN Space ELSE s[y]
    BY <1>11, <2>1
  <2>4. ASSUME s[y] \notin Blanks PROVE y = x - 1
    <3> SUFFICES ASSUME y # x - 1 PROVE FALSE
      OBVIOUS
    <3>1. x > y + 1 /\ y + 1 \in 1..n
      <4> HIDE DEF c, x, y
      <4> QED BY <1>1, <2>2
    <3>2. y + 1 \in P
      BY <1>3, <1>13, <2>2, <2>4, <3>1
    <3>3. y + 1 <= y
      BY <1>10, <2>1, <3>1, <3>2
    <3> QED BY <2>2, <3>3
  <2> HIDE DEF c, x, y
  <2>5. s[y] \notin Blanks => x - 1 \in 1..n /\ y = x - 1 /\ t[c] = s[x - 1]
    BY <2>2, <2>3, <2>4
  <2>6. s[y] \in Blanks => t[c] = Space
    BY <2>3
  <2> QED BY <2>5, <2>6 DEF c, x, y
<1>14. ASSUME NEW a \in 1..m, s[h[a]] \notin Blanks, a + 1 \in 1..m
       PROVE  /\ h[a] + 1 \in 1..n /\ h[a + 1] = h[a] + 1
              /\ t[a + 1] = Space \/ t[a + 1] = s[h[a] + 1]
  <2> DEFINE c == a + 1
             x == h[a]
             y == h[c]
  <2>1. c \in 1..m /\ c - 1 = a /\ a <= c /\ c # a
    BY <1>14
  <2>2. x \in 1..n /\ y \in 1..n /\ x \in P /\ y \in P /\ x <= y /\ y # x
    BY <1>9, <1>11, <2>1
  <2>3. t[c] = IF s[y] \in Blanks THEN Space ELSE s[y]
    BY <1>11, <2>1
  <2>4. ASSUME NEW i \in P, i > x, i < y PROVE FALSE
    <3>1. y <= i
      BY <1>10, <2>4
    <3> QED BY <1>3, <2>2, <2>4, <3>1
  <2>5. y = x + 1
    <3> SUFFICES ASSUME y # x + 1 PROVE FALSE
      OBVIOUS
    <3>1. y > x + 1 /\ x + 1 \in 1..n /\ x + 1 > x
      <4> HIDE DEF c, x, y
      <4> QED BY <1>1, <2>2
    <3> HIDE DEF c, x, y
    <3>2. s[x + 1] \in Blanks /\ x + 1 \notin P
      BY <1>3, <2>4, <3>1
    <3>3. CASE s[y] \notin Blanks
      <4>1. s[x] \notin Blanks
        BY <1>14 DEF x
      <4> QED BY <1>3, <2>2, <3>1, <3>2, <3>3, <4>1
    <3>4. CASE s[y] \in Blanks
      <4>1. y - 1 \in 1..n /\ s[y - 1] \notin Blanks
        BY <1>3, <2>2, <3>4
      <4>2. y - 1 \in P /\ y - 1 # x + 1 /\ y - 1 < y
        BY <1>3, <2>2, <3>2, <4>1
      <4>3. y - 1 > x
        BY <2>2, <3>1, <4>2
      <4> QED BY <2>4, <4>2, <4>3
    <3> QED BY <3>3, <3>4
  <2> HIDE DEF c, x, y
  <2>6. x + 1 \in 1..n /\ (t[c] = Space \/ t[c] = s[x + 1])
    BY <2>2, <2>3, <2>5
  <2> QED BY <2>5, <2>6 DEF c, x, y
<1>15. ASSUME NEW a \in 1..m, s[h[a]] \in TokenChars
       PROVE  /\ t[a] = s[h[a]] /\ \A b \in 1..m : h[b] = h[a] => b = a
              /\ a - 1 \in 1..m =>
                   \/ t[a - 1] \notin TokenChars
                   \/ h[a] - 1 \in 1..n /\ t[a - 1] = s[h[a] - 1]
              /\ a + 1 \in 1..m =>
                   \/ t[a + 1] \notin TokenChars
                   \/ h[a] + 1 \in 1..n /\ s[h[a] + 1] \in {t[a + 1], s[h[a]]}
  <2>1. s[h[a]] \notin Blanks
    BY <1>15, TokenFacts
  <2>2. t[a] = s[h[a]] /\ \A b \in 1..m : h[b] = h[a] => b = a
    BY <1>9, <1>11, <2>1
  <2>3. a - 1 \in 1..m =>
          \/ t[a - 1] \notin TokenChars
          \/ h[a] - 1 \in 1..n /\ t[a - 1] = s[h[a] - 1]
    BY <1>13, <2>1, TokenFacts
  <2>4. a + 1 \in 1..m =>
          \/ t[a + 1] \notin TokenChars
          \/ h[a] + 1 \in 1..n /\ s[h[a] + 1] \in {t[a + 1], s[h[a]]}
    BY <1>14, <2>1, TokenFacts
  <2> QED BY <2>2, <2>3, <2>4
<1>16. ASSUME NEW a \in Lone(t) PROVE s[h[a]] = t[a]
  <2>1. a \in 1..m /\ t[a] # Space
    BY <1>7, TokenFacts
  <2> QED BY <1>11, <2>1
<1>17. ASSUME NEW a \in 1..m, s[h[a]] \in Separators PROVE t[a] \in Separators
  BY <1>11, <1>17, TokenFacts
<1>18. ASSUME NEW a \in 1..m, NEW q \in 1..n, s[q] \notin Blanks
       PROVE  /\ q = h[a] - 1 => a - 1 \in 1..m /\ t[a - 1] = s[q]
              /\ q = h[a] + 1 => a + 1 \in 1..m /\ t[a + 1] = s[q]
  <2>1. q \in P /\ h[a] \in 1..n /\ q \in Int
    BY <1>3, <1>11, <1>18
  <2>2. ASSUME q = h[a] - 1 PROVE a - 1 \in 1..m /\ t[a - 1] = s[q]
    <3>1. q < h[a]
      BY <2>1, <2>2
    <3>2. a - 1 \in 1..m /\ h[a - 1] < h[a] /\ q <= h[a - 1]
      BY <1>10, <2>1, <3>1
    <3>3. h[a - 1] = q
      <4>1. h[a - 1] \in 1..n
        BY <1>11, <3>2
      <4> QED BY <2>1, <2>2, <3>2, <4>1
    <3> QED BY <1>11, <1>18, <3>2, <3>3
  <2>3. ASSUME q = h[a] + 1 PROVE a + 1 \in 1..m /\ t[a + 1] = s[q]
    <3>1. q > h[a]
      BY <2>1, <2>3
    <3>2. a + 1 \in 1..m /\ h[a + 1] > h[a] /\ h[a + 1] <= q
      BY <1>10, <2>1, <3>1
    <3>3. h[a + 1] = q
      <4>1. h[a + 1] \in 1..n
        BY <1>11, <3>2
      <4> QED BY <2>1, <2>3, <3>2, <4>1
    <3> QED BY <1>11, <1>18, <3>2, <3>3
  <2> QED BY <2>2, <2>3
<1>19. ASSUME NEW a \in 1..m, s[h[a]] \in Cyrillic
       PROVE  /\ h[a] - 1 \in 1..n /\ s[h[a] - 1] \in Cyrillic =>
                   a - 1 \in 1..m /\ t[a - 1] \in Cyrillic
              /\ h[a] + 1 \in 1..n /\ s[h[a] + 1] \in Cyrillic =>
                   \E b \in {a - 1, a + 1} \cap 1..m : t[b] \in Cyrillic
  <2>1. Cyrillic \cap Blanks = {}
    BY TokenFacts
  <2>2. h[a] - 1 \in 1..n /\ s[h[a] - 1] \in Cyrillic =>
          a - 1 \in 1..m /\ t[a - 1] \in Cyrillic
    BY <1>18, <2>1
  <2>3. h[a] + 1 \in 1..n /\ s[h[a] + 1] \in Cyrillic =>
          a + 1 \in 1..m /\ t[a + 1] \in Cyrillic
    BY <1>18, <2>1
  <2> QED BY <2>2, <2>3
<1>20. \A q \in 1..n : s[q] \in TokenChars => \E a \in 1..m : h[a] = q
  BY <1>3, <1>12, TokenFacts
<1>21. Thins(t, s, h)
  <2>1. h \in [1..m -> 1..n]
    BY <1>6, <1>11
  <2>2. \A q \in Lone(s) : \E a \in 1..m : h[a] = q
    BY <1>8, <1>20
  <2> QED BY <1>9, <1>15, <1>16, <1>17, <1>19, <2>1, <2>2 DEF Thins, m, n
<1> QED BY <1>4, <1>20, <1>21 DEF t, m, n

\* What Collapsed keeps: what is not the third of its kind in a row.
CollapsedAt(s) ==
  {i \in DOMAIN s : i > 2 => s[i - 2] # s[i] \/ s[i - 1] # s[i]}

LEMMA CollapsedPlaces ==
  ASSUME NEW S, NEW s \in Seq(S)
  PROVE  /\ CollapsedAt(s) \in SUBSET (1..Len(s))
         /\ \A x \in 1..Len(s) : x \notin CollapsedAt(s) =>
              /\ x - 1 \in 1..Len(s) /\ x - 2 \in 1..Len(s)
              /\ s[x - 1] = s[x] /\ s[x - 2] = s[x]
<1> DEFINE n == Len(s)
<1>1. n \in Nat /\ DOMAIN s = 1..n
  OBVIOUS
<1> HIDE DEF n
<1>2. ASSUME NEW x \in 1..n, x \notin CollapsedAt(s)
      PROVE  /\ x - 1 \in 1..n /\ x - 2 \in 1..n
             /\ s[x - 1] = s[x] /\ s[x - 2] = s[x]
  <2>1. x > 2 /\ s[x - 1] = s[x] /\ s[x - 2] = s[x]
    BY <1>1, <1>2 DEF CollapsedAt
  <2> QED BY <1>1, <2>1
<1> QED BY <1>1, <1>2 DEF CollapsedAt, n

\* Nothing is the third of its kind in what Collapsed leaves alone.
LEMMA CollapsedWhole ==
  ASSUME NEW S, NEW w \in Seq(S), Collapsed(w) = w
  PROVE  CollapsedAt(w) = 1..Len(w)
<1> DEFINE n == Len(w)
           K == CollapsedAt(w)
           A == 1..n
<1>1. n \in Nat /\ K \subseteq A
  BY CollapsedPlaces
<1>2. At(w, K) = w
  BY DEF Collapsed, CollapsedAt
<1>3. \E e : Exact(e, Len(At(w, K)), K)
  <2>1. K \in SUBSET (1..Len(w))
    BY <1>1
  <2> HIDE DEF K, n
  <2> QED BY <2>1, AtDrawn
<1>4. PICK e : Exact(e, n, K)
  <2> HIDE DEF K
  <2> QED BY <1>2, <1>3
<1> HIDE DEF n, K
<1>5. e \in Injection(A, K)
  <2>1. e \in [A -> K] /\ K \in SUBSET Int
    BY <1>1, <1>4 DEF Exact
  <2>2. \A a, b \in A : e[a] = e[b] => a = b
    BY <1>1, <1>4, <2>1, ExactOrder
  <2> HIDE DEF A
  <2> QED BY <2>1, <2>2 DEF Injection, IsInjective
<1>6. IsFiniteSet(A)
  BY <1>1, FS_Interval
<1> HIDE DEF A
<1>7. IsFiniteSet(K) /\ Cardinality(K) <= Cardinality(A)
  BY <1>1, <1>6, FS_Subset
<1>8. Cardinality(A) <= Cardinality(K)
  BY <1>5, <1>7, FS_Injection
<1>9. Cardinality(A) = Cardinality(K)
  <2>1. Cardinality(A) \in Nat /\ Cardinality(K) \in Nat
    BY <1>6, <1>7, FS_CardinalityType
  <2> QED BY <1>7, <1>8, <2>1
<1>10. K = A
  BY <1>1, <1>6, <1>9, FS_Subset
<1> QED BY <1>10 DEF A, K, n

\* Taking repetitions away hides no word that has none.
LEMMA CollapsedThins ==
  ASSUME NEW S, NEW s \in Seq(S)
  PROVE  /\ Collapsed(s) \in Seq(S)
         /\ \E h : /\ Thins(Collapsed(s), s, h)
                   /\ \A q \in CollapsedAt(s) :
                        \E a \in 1..Len(Collapsed(s)) : h[a] = q
<1> DEFINE t == Collapsed(s)
           K == CollapsedAt(s)
           n == Len(s)
           m == Len(t)
<1>1. n \in Nat
  OBVIOUS
<1>2. t = At(s, K)
  BY DEF Collapsed, CollapsedAt
<1>3. /\ K \in SUBSET (1..n)
      /\ \A x \in 1..n : x \notin K =>
           /\ x - 1 \in 1..n /\ x - 2 \in 1..n
           /\ s[x - 1] = s[x] /\ s[x - 2] = s[x]
  BY CollapsedPlaces
<1> HIDE DEF t, K
<1>4. t \in Seq(S) /\ \E e : /\ Exact(e, Len(t), K)
                             /\ \A k \in 1..Len(t) : t[k] = s[e[k]]
  BY <1>2, <1>3, AtDrawn
<1> HIDE DEF n
<1>5. PICK h : Exact(h, m, K) /\ \A k \in 1..m : t[k] = s[h[k]]
  BY <1>4
<1>6. m \in Nat /\ h \in [1..m -> K]
  BY <1>4, <1>5 DEF Exact
<1>7. \A i : i \in Lone(s) <=>
        /\ i \in 1..n /\ s[i] \in Cyrillic
        /\ i - 1 \in 1..n => s[i - 1] \notin Cyrillic
        /\ i + 1 \in 1..n => s[i + 1] \notin Cyrillic
  BY LoneIs DEF n
<1>8. \A a \in Lone(t) : a \in 1..m
  BY <1>4, LoneIs
<1> HIDE DEF m
<1>9. /\ \A a, b \in 1..m : a <= b => h[a] <= h[b]
      /\ \A a, b \in 1..m : h[a] = h[b] => a = b
  <2>1. K \in SUBSET Int
    BY <1>1, <1>3
  <2> QED BY <1>5, <1>6, <2>1, ExactOrder
<1>10. ASSUME NEW a \in 1..m, NEW i \in K
       PROVE  /\ i > h[a] => a + 1 \in 1..m /\ h[a + 1] > h[a] /\ h[a + 1] <= i
              /\ i < h[a] => a - 1 \in 1..m /\ h[a - 1] < h[a] /\ i <= h[a - 1]
  <2>1. K \in SUBSET Int
    BY <1>1, <1>3
  <2> QED BY <1>5, <1>6, <2>1, ExactNext
<1>11. ASSUME NEW a \in 1..m
       PROVE  h[a] \in 1..n /\ h[a] \in K /\ t[a] = s[h[a]]
  BY <1>3, <1>5, <1>6
<1>12. \A q \in K : \E a \in 1..m : h[a] = q
  BY <1>5 DEF Exact
<1>13. ASSUME NEW a \in 1..m, a - 1 \in 1..m
       PROVE  h[a] - 1 \in 1..n /\ t[a - 1] = s[h[a] - 1]
  <2> DEFINE c == a - 1
             x == h[a]
             y == h[c]
             l == x - 1 - y
             D == {k \in 0..l : s[y + k] # s[y]}
  <2>1. c \in 1..m /\ c <= a /\ c # a /\ c + 1 = a
    BY <1>13
  <2>2. x \in 1..n /\ y \in 1..n /\ y <= x /\ y # x /\ x \in K /\ y \in K
    BY <1>9, <1>11, <2>1
  <2>3. t[c] = s[y]
    BY <1>11, <2>1
  <2>4. ASSUME NEW i \in 1..n, y < i, i < x PROVE i \notin K
    <3> SUFFICES ASSUME i \in K PROVE FALSE
      OBVIOUS
    <3>1. i <= y
      BY <1>10, <2>4
    <3> QED BY <1>1, <2>2, <2>4, <3>1
  <2> HIDE DEF c, x, y
  <2>5. l \in Nat /\ x \in Int /\ y \in Int /\ y + l = x - 1
        /\ x - 1 \in 1..n
    BY <1>1, <2>2
  <2>6. D = {}
    <3>1. D \in SUBSET (0..l)
      OBVIOUS
    <3>2. 0 \notin D
      <4>1. y + 0 = y
        BY <2>5
      <4> QED BY <4>1
    <3>3. ASSUME NEW k \in 0..l, k < l, k \notin D PROVE k + 1 \notin D
      <4> DEFINE i == y + (k + 1)
      <4>1. i \in 1..n /\ y < i /\ i < x /\ i - 1 = y + k
        BY <1>1, <2>2, <2>5, <3>3
      <4>2. s[y + k] = s[y]
        BY <3>3
      <4>3. s[i] = s[i - 1]
        <5> HIDE DEF i
        <5>1. i \notin K
          BY <2>4, <4>1
        <5> QED BY <1>3, <4>1, <5>1
      <4> HIDE DEF l
      <4> QED BY <4>1, <4>2, <4>3
    <3> HIDE DEF D, l
    <3> QED BY <2>5, <3>1, <3>2, <3>3, NoneFails
  <2>7. s[y + l] = s[y]
    <3>1. l \in 0..l
      BY <2>5
    <3> HIDE DEF l
    <3> QED BY <2>6, <3>1
  <2> HIDE DEF l
  <2>8. t[c] = s[x - 1]
    BY <2>3, <2>5, <2>7
  <2> QED BY <2>5, <2>8 DEF c, x
<1>14. ASSUME NEW a \in 1..m, h[a] - 1 \in 1..n PROVE a - 1 \in 1..m
  <2>1. 1 \in 1..n /\ 1 < h[a]
    BY <1>1, <1>11, <1>14
  <2>2. 1 \in K
    <3>1. ~(1 - 1 \in 1..n)
      BY <1>1
    <3> QED BY <1>3, <2>1, <3>1
  <2> QED BY <1>10, <2>1, <2>2
<1>15. ASSUME NEW a \in 1..m, h[a] + 1 \in K
       PROVE  a + 1 \in 1..m /\ t[a + 1] = s[h[a] + 1]
  <2> DEFINE i == h[a] + 1
  <2>1. h[a] \in Int /\ i > h[a] /\ i \in K
    BY <1>1, <1>11, <1>15
  <2>2. a + 1 \in 1..m /\ h[a + 1] > h[a] /\ h[a + 1] <= i
    BY <1>10, <2>1
  <2>3. h[a + 1] \in 1..n /\ t[a + 1] = s[h[a + 1]]
    BY <1>11, <2>2
  <2>4. h[a + 1] = i
    BY <1>1, <2>1, <2>2, <2>3
  <2> QED BY <2>2, <2>3, <2>4
<1>16. ASSUME NEW a \in 1..m, a + 1 \in 1..m
       PROVE  /\ h[a] + 1 \in 1..n
              /\ s[h[a] + 1] = t[a + 1] \/ s[h[a] + 1] = s[h[a]]
  <2>1. h[a] + 1 \in 1..n
    <3>1. h[a] <= h[a + 1] /\ h[a] # h[a + 1]
      BY <1>9, <1>16
    <3>2. h[a] \in 1..n /\ h[a + 1] \in 1..n
      BY <1>11, <1>16
    <3> QED BY <1>1, <3>1, <3>2
  <2>2. CASE h[a] + 1 \in K
    BY <1>15, <2>1, <2>2
  <2>3. CASE h[a] + 1 \notin K
    <3> DEFINE i == h[a] + 1
    <3>1. i - 1 = h[a]
      BY <1>1, <1>11
    <3>2. s[i - 1] = s[i]
      BY <1>3, <2>1, <2>3
    <3> QED BY <2>1, <3>1, <3>2
  <2> QED BY <2>2, <2>3
<1>17. ASSUME NEW a \in 1..m, s[h[a]] \in TokenChars
       PROVE  /\ t[a] = s[h[a]] /\ \A b \in 1..m : h[b] = h[a] => b = a
              /\ a - 1 \in 1..m =>
                   \/ t[a - 1] \notin TokenChars
                   \/ h[a] - 1 \in 1..n /\ t[a - 1] = s[h[a] - 1]
              /\ a + 1 \in 1..m =>
                   \/ t[a + 1] \notin TokenChars
                   \/ h[a] + 1 \in 1..n /\ s[h[a] + 1] \in {t[a + 1], s[h[a]]}
  BY <1>9, <1>11, <1>13, <1>16
<1>18. ASSUME NEW a \in 1..m, s[h[a]] \in Cyrillic
       PROVE  /\ h[a] - 1 \in 1..n /\ s[h[a] - 1] \in Cyrillic =>
                   a - 1 \in 1..m /\ t[a - 1] \in Cyrillic
              /\ h[a] + 1 \in 1..n /\ s[h[a] + 1] \in Cyrillic =>
                   \E b \in {a - 1, a + 1} \cap 1..m : t[b] \in Cyrillic
  <2>1. h[a] - 1 \in 1..n /\ s[h[a] - 1] \in Cyrillic =>
          a - 1 \in 1..m /\ t[a - 1] \in Cyrillic
    BY <1>13, <1>14
  <2>2. ASSUME h[a] + 1 \in 1..n, s[h[a] + 1] \in Cyrillic
        PROVE  \E b \in {a - 1, a + 1} \cap 1..m : t[b] \in Cyrillic
    <3>1. CASE h[a] + 1 \in K
      BY <1>15, <2>2, <3>1
    <3>2. CASE h[a] + 1 \notin K
      <4> DEFINE i == h[a] + 1
      <4>1. i - 2 = h[a] - 1
        BY <1>1, <1>11
      <4>2. i - 2 \in 1..n /\ s[i - 2] = s[i]
        BY <1>3, <2>2, <3>2
      <4>3. h[a] - 1 \in 1..n /\ s[h[a] - 1] \in Cyrillic
        BY <2>2, <4>1, <4>2
      <4> QED BY <2>1, <4>3
    <3> QED BY <3>1, <3>2
  <2> QED BY <2>1, <2>2
<1>19. \A q \in Lone(s) : \E a \in 1..m : h[a] = q
  <2> SUFFICES ASSUME NEW q \in Lone(s) PROVE q \in K
    BY <1>12
  <2> QED BY <1>3, <1>7
<1>20. \A a \in Lone(t) : s[h[a]] = t[a]
  BY <1>8, <1>11
<1>21. Thins(t, s, h)
  <2>1. h \in [1..m -> 1..n]
    BY <1>6, <1>11
  <2>2. \A a \in 1..m : s[h[a]] \in Separators => t[a] \in Separators
    BY <1>11
  <2> QED BY <1>9, <1>17, <1>18, <1>19, <1>20, <2>1, <2>2 DEF Thins, m, n
<1> QED BY <1>4, <1>12, <1>21 DEF t, m, K

\* A word without repetitions is kept where it begins.
LEMMA CollapsedWord ==
  ASSUME NEW S, NEW s \in Seq(S), NEW w \in Seq(S), Collapsed(w) = w,
         Range(w) \subseteq TokenChars,
         NEW i \in 0..Len(s) - Len(w), SubSeq(s, i + 1, i + Len(w)) = w,
         i > 0 => s[i] \notin TokenChars, NEW j \in 1..Len(w)
  PROVE  i + j \in CollapsedAt(s)
<1> DEFINE k == Len(w)
           n == Len(s)
           x == i + j
<1>1. k \in Nat /\ n \in Nat /\ i \in Nat /\ j \in 1..k /\ x \in 1..n
  OBVIOUS
<1>2. \A l \in 1..k : s[i + l] = w[l]
  <2>1. ASSUME NEW l \in 1..k PROVE s[i + l] = SubSeq(s, i + 1, i + k)[l]
    OBVIOUS
  <2> QED BY <2>1
<1>3. \A l \in 1..k : w[l] \in TokenChars
  BY CharacterIn
<1> HIDE DEF k, n
<1> SUFFICES ASSUME x \notin CollapsedAt(s) PROVE FALSE
  OBVIOUS
<1>4. x - 1 \in 1..n /\ x - 2 \in 1..n /\ s[x - 1] = s[x] /\ s[x - 2] = s[x]
  BY <1>1, CollapsedPlaces DEF n
<1>5. s[x] = w[j] /\ s[x] \in TokenChars
  BY <1>1, <1>2, <1>3
<1>6. CASE j = 1
  <2>1. x - 1 = i /\ i > 0
    BY <1>1, <1>4, <1>6
  <2> QED BY <1>4, <1>5, <2>1
<1>7. CASE j = 2
  <2>1. x - 2 = i /\ i > 0
    BY <1>1, <1>4, <1>7
  <2> QED BY <1>4, <1>5, <2>1
<1>8. CASE j > 2
  <2>1. /\ j - 1 \in 1..k /\ j - 2 \in 1..k
        /\ x - 1 = i + (j - 1) /\ x - 2 = i + (j - 2)
    BY <1>1, <1>8
  <2>2. w[j - 1] = w[j] /\ w[j - 2] = w[j]
    BY <1>2, <1>4, <1>5, <2>1
  <2>3. j \in CollapsedAt(w)
    BY <1>1, CollapsedWhole DEF k
  <2> QED BY <1>8, <2>2, <2>3 DEF CollapsedAt
<1> QED BY <1>1, <1>6, <1>7, <1>8

-----------------------------------------------------------------------------
(* ContentRules: words that are found                                      *)

\* A run holds each interval that begins where it does or later.
LEMMA RunOf ==
  ASSUME NEW n \in Nat, NEW P \in SUBSET (1..n), NEW x \in 1..n, NEW y \in 1..n,
         x <= y, \A i \in x..y : i \in P
  PROVE  \E r \in Runs(P) : r[1] \in 1..x /\ r[2] \in y..n
<1> DEFINE A == {a \in 1..n : a <= x /\ \A i \in a..x : i \in P}
           B == {b \in 1..n : x <= b /\ \A i \in x..b : i \in P}
<1>1. A \in SUBSET (1..n) /\ x \in A
  <2>1. \A i \in x..x : i \in P
    OBVIOUS
  <2> QED BY <2>1
<1>2. B \in SUBSET (1..n) /\ y \in B
  OBVIOUS
<1>3. PICK a \in A : \A i \in A : a <= i
  <2> HIDE DEF A
  <2> QED BY <1>1, LeastBelow
<1>4. PICK b \in B : \A i \in B : i <= b
  <2> HIDE DEF B
  <2> QED BY <1>2, GreatestBelow
<1>5. /\ a \in 1..x /\ b \in y..n /\ a \in Int /\ b \in Int
      /\ x \in Int /\ a <= x /\ x <= b
  BY <1>2, <1>3, <1>4
<1>6. \A i \in a..b : i \in P
  <2> SUFFICES ASSUME NEW i \in a..b PROVE i \in P
    OBVIOUS
  <2>1. i \in a..x \/ i \in x..b
    BY <1>5
  <2> QED BY <1>3, <1>4, <2>1
<1>7. a - 1 \notin P
  <2> SUFFICES ASSUME a - 1 \in P PROVE FALSE
    OBVIOUS
  <2> DEFINE c == a - 1
  <2>1. c \in 1..n /\ c <= x /\ c < a
    BY <1>5
  <2>2. ASSUME NEW i \in c..x PROVE i \in P
    <3>1. i = c \/ i \in a..x
      BY <1>5
    <3> QED BY <1>3, <3>1
  <2>3. c \in A
    BY <2>1, <2>2
  <2> HIDE DEF A, c
  <2>4. a <= c
    BY <1>3, <2>3
  <2> QED BY <1>5, <2>1, <2>4
<1>8. b + 1 \notin P
  <2> SUFFICES ASSUME b + 1 \in P PROVE FALSE
    OBVIOUS
  <2> DEFINE c == b + 1
  <2>1. c \in 1..n /\ x <= c /\ b < c
    BY <1>5
  <2>2. ASSUME NEW i \in x..c PROVE i \in P
    <3>1. i = c \/ i \in x..b
      BY <1>5
    <3> QED BY <1>4, <3>1
  <2>3. c \in B
    BY <2>1, <2>2
  <2> HIDE DEF B, c
  <2>4. c <= b
    BY <1>4, <2>3
  <2> QED BY <1>5, <2>1, <2>4
<1> DEFINE r == <<a, b>>
<1>9. r[1] = a /\ r[2] = b
  OBVIOUS
<1>10. r \in P \X P
  <2>1. a \in P /\ b \in P
    BY <1>5, <1>6
  <2> QED BY <2>1
<1> HIDE DEF r
<1>11. r \in Runs(P)
  <2>1. a..b \subseteq P /\ a <= b
    BY <1>5, <1>6
  <2> QED BY <1>7, <1>8, <1>9, <1>10, <2>1 DEF Runs
<1> QED BY <1>5, <1>9, <1>11

\* c begins with w.
Begins(c, w) == /\ Len(c) >= Len(w) /\ Len(c) \in Nat
                /\ \A j \in 1..Len(w) : c[j] = w[j]

\* A word that is written begins a token.
LEMMA TokenBegins ==
  ASSUME NEW S, NEW s \in Seq(S), NEW w \in Seq(S), Len(w) >= 1,
         Range(w) \subseteq TokenChars, WrittenIn(s, w)
  PROVE  \E c \in Tokens(s) \cap Seq(S) : Begins(c, w)
<1> DEFINE n == Len(s)
           k == Len(w)
           P == PositionsOf(s, TokenChars)
<1>1. n \in Nat /\ k \in Nat /\ k >= 1 /\ DOMAIN s = 1..n
  OBVIOUS
<1>2. PICK i \in 0..n - k : /\ SubSeq(s, i + 1, i + k) = w
                            /\ i > 0 => s[i] \notin TokenChars
  BY DEF WrittenIn
<1>3. i \in Nat /\ i + 1 \in 1..n /\ i + k \in 1..n /\ i + 1 <= i + k
  BY <1>1, <1>2
<1>4. \A j \in 1..k : s[i + j] = w[j] /\ w[j] \in TokenChars
  <2>1. ASSUME NEW j \in 1..k PROVE s[i + j] = SubSeq(s, i + 1, i + k)[j]
    <3>1. /\ \A x \in i + 1..i + k : s[x] \in S
          /\ i + 1 \in Int /\ i + k \in Int /\ i + 1 <= i + k
          /\ (i + k) - (i + 1) + 1 = k /\ (i + 1) + j - 1 = i + j
      BY <1>1, <1>3
    <3> HIDE DEF n, k
    <3>2. \A x \in 1..(i + k) - (i + 1) + 1 :
            SubSeq(s, i + 1, i + k)[x] = s[(i + 1) + x - 1]
      BY <3>1, SubSeqProperties
    <3> QED BY <3>1, <3>2
  <2>2. \A j \in 1..k : w[j] \in TokenChars
    BY DEF Range
  <2> QED BY <1>2, <2>1, <2>2
<1> HIDE DEF n, k
<1>5. P \in SUBSET (1..n) /\ \A x \in P : s[x] \in TokenChars
  BY <1>1 DEF PositionsOf
<1>6. \A x \in i + 1..i + k : x \in P
  <2> SUFFICES ASSUME NEW x \in i + 1..i + k PROVE x \in P
    OBVIOUS
  <2> DEFINE j == x - i
  <2>1. j \in 1..k /\ i + j = x /\ x \in 1..n
    BY <1>1, <1>3
  <2> HIDE DEF j
  <2>2. s[x] \in TokenChars
    BY <1>4, <2>1
  <2> QED BY <1>1, <2>1, <2>2 DEF PositionsOf
<1>7. PICK r \in Runs(P) : r[1] \in 1..i + 1 /\ r[2] \in i + k..n
  <2> HIDE DEF P
  <2> QED BY <1>1, <1>3, <1>5, <1>6, RunOf
<1>8. r[1] = i + 1
  <2> SUFFICES ASSUME r[1] # i + 1 PROVE FALSE
    OBVIOUS
  <2>1. r[1]..r[2] \subseteq P
    BY <1>7 DEF Runs
  <2>2. i \in r[1]..r[2] /\ i > 0
    BY <1>1, <1>3, <1>7
  <2> HIDE DEF P
  <2> QED BY <1>2, <1>5, <2>1, <2>2
<1> DEFINE c == SubSeq(s, r[1], r[2])
           e == r[2]
<1>9. c \in Tokens(s)
  BY <1>7 DEF Tokens
<1>10. e \in i + k..n
  BY <1>7
<1>11. c = SubSeq(s, i + 1, e)
  BY <1>8
<1> HIDE DEF c, e
<1>12. /\ c \in Seq(S) /\ Len(c) = e - i
       /\ \A j \in 1..k : c[j] = s[i + j]
  <2>1. /\ e \in Int /\ i + 1 <= e /\ e <= n /\ e - (i + 1) + 1 = e - i
        /\ \A j \in 1..k : j \in 1..e - i /\ (i + 1) + j - 1 = i + j
    BY <1>1, <1>3, <1>10
  <2>2. \A x \in i + 1..e : s[x] \in S
    BY <1>1, <1>3, <2>1 DEF n
  <2>3. /\ c \in Seq(S) /\ Len(c) = e - i
        /\ \A j \in 1..e - i : c[j] = s[(i + 1) + j - 1]
    BY <1>3, <1>11, <2>1, <2>2, SubSeqProperties
  <2> QED BY <2>1, <2>3
<1>13. Len(c) >= k /\ Len(c) \in Nat
  BY <1>1, <1>3, <1>10, <1>12
<1>14. Begins(c, w)
  BY <1>4, <1>12, <1>13 DEF Begins, k
<1> QED BY <1>9, <1>12, <1>14

\* Letters spelled out first, one at a time, are the first lone ones.
LEMMA SpelledSpelt ==
  ASSUME NEW S, NEW s \in Seq(S), NEW w \in Seq(S), Len(w) >= 1,
         SpelledFirst(s, w)
  PROVE  \E p : Spelt(s, w, p)
<1> DEFINE n == Len(s)
           k == Len(w)
           L == PositionsOf(s, Cyrillic)
           Before(p) == {q \in L : q < p}
           F == {p \in L : Cardinality(Before(p)) < k}
<1>1. n \in Nat /\ k \in Nat /\ k >= 1 /\ DOMAIN s = 1..n
  OBVIOUS
<1>2. /\ Cardinality(L) <= 32
      /\ At(s, F) = w /\ \A p \in F : p + 1 \notin L
      /\ \A i \in 1..n : (\E p, q \in F : p < i /\ i < q) =>
                           s[i] \in Cyrillic \cup Separators
  BY <1>1 DEF SpelledFirst
<1>3. /\ L \in SUBSET (1..n) /\ \A i \in 1..n : i \in L <=> s[i] \in Cyrillic
  BY <1>1 DEF PositionsOf
<1>4. \A i : i \in Lone(s) <=> i \in L /\ i - 1 \notin L /\ i + 1 \notin L
  BY DEF Lone
<1> HIDE DEF n, k, L
<1>5. IsFiniteSet(L) /\ Cardinality(L) \in Nat
  <2>1. IsFiniteSet(1..n)
    BY <1>1, FS_Interval
  <2>2. IsFiniteSet(L)
    BY <1>3, <2>1, FS_Subset
  <2> QED BY <2>2, FS_CardinalityType
<1>6. ASSUME NEW p \in F, NEW q \in L, q <= p PROVE q \in F
  <2> DEFINE A == Before(q)
             B == Before(p)
  <2>1. A \subseteq B /\ B \subseteq L
    <3>1. p \in Int /\ q \in Int /\ \A x \in L : x \in Int
      BY <1>1, <1>3
    <3>2. \A x \in L : x < q => x < p
      BY <1>6, <3>1
    <3> QED BY <3>2
  <2>2. Cardinality(B) < k
    OBVIOUS
  <2> HIDE DEF A, B
  <2>3. IsFiniteSet(B)
    BY <1>5, <2>1, FS_Subset
  <2>4. IsFiniteSet(A) /\ Cardinality(A) <= Cardinality(B)
    BY <2>1, <2>3, FS_Subset
  <2>5. Cardinality(A) \in Nat /\ Cardinality(B) \in Nat
    BY <2>3, <2>4, FS_CardinalityType
  <2>6. Cardinality(A) < k
    BY <1>1, <2>2, <2>4, <2>5
  <2> QED BY <2>6 DEF A
<1>7. F \in SUBSET (1..n) /\ F \subseteq L
  BY <1>3
<1> HIDE DEF F
<1>8. ASSUME NEW p \in F PROVE p \in Lone(s)
  <2>1. p \in L /\ p + 1 \notin L /\ p \in Int
    BY <1>1, <1>2, <1>7
  <2>2. ASSUME p - 1 \in L PROVE FALSE
    <3>1. p - 1 <= p /\ (p - 1) + 1 = p
      BY <2>1
    <3>2. p - 1 \in F
      BY <1>6, <2>2, <3>1
    <3> QED BY <1>2, <2>1, <3>1, <3>2
  <2> QED BY <1>4, <2>1, <2>2
<1>9. PICK e : Exact(e, k, F) /\ \A a \in 1..k : w[a] = s[e[a]]
  <2>1. F \in SUBSET (1..Len(s))
    BY <1>7 DEF n
  <2> QED BY <1>2, <2>1, AtDrawn DEF k
<1>10. /\ e \in [1..k -> F]
       /\ \A a, b \in 1..k : a < b => e[a] < e[b]
       /\ \A q \in F : \E a \in 1..k : e[a] = q
  BY <1>9 DEF Exact
<1>11. 1 \in 1..k /\ k \in 1..k
  BY <1>1
<1>12. e \in [1..k -> Lone(s)]
  BY <1>8, <1>10
<1>13. e[1] \in F /\ e[k] \in F /\ e[1] \in Int /\ e[k] \in Int
  <2>1. e[1] \in F /\ e[k] \in F
    BY <1>10, <1>11
  <2>2. \A x \in F : x \in Int
    BY <1>1, <1>7
  <2> QED BY <2>1, <2>2
<1>14. ASSUME NEW q \in Lone(s), q <= e[k] PROVE \E a \in 1..k : e[a] = q
  BY <1>4, <1>6, <1>10, <1>13, <1>14
<1>15. ASSUME NEW i \in e[1]..e[k] PROVE i \in Lone(s) \/ s[i] \in Separators
  <2>1. CASE i = e[1] \/ i = e[k]
    BY <1>8, <1>13, <2>1
  <2>2. CASE i # e[1] /\ i # e[k]
    <3>1. e[1] < i /\ i < e[k] /\ i <= e[k]
      BY <1>13, <2>2
    <3>2. i \in 1..n
      BY <1>1, <1>7, <1>13, <3>1
    <3>3. s[i] \in Cyrillic \cup Separators
      BY <1>2, <1>13, <3>1, <3>2
    <3>4. s[i] \in Cyrillic => i \in F
      BY <1>3, <1>6, <1>13, <3>1, <3>2
    <3> QED BY <1>8, <3>3, <3>4
  <2> QED BY <2>1, <2>2
<1>16. IsFiniteSet(Lone(s)) /\ Cardinality(Lone(s)) <= 32
  <2> DEFINE A == Lone(s)
  <2>1. A \subseteq L
    BY <1>4
  <2> HIDE DEF A
  <2>2. IsFiniteSet(A) /\ Cardinality(A) <= Cardinality(L)
    BY <1>5, <2>1, FS_Subset
  <2>3. Cardinality(A) \in Nat
    BY <2>2, FS_CardinalityType
  <2>4. Cardinality(A) <= 32
    BY <1>2, <1>5, <2>2, <2>3
  <2> QED BY <2>2, <2>4 DEF A
<1>17. Spelt(s, w, e)
  <2>1. \A a \in 1..k : s[e[a]] = w[a]
    BY <1>9
  <2> QED BY <1>10, <1>12, <1>14, <1>15, <1>16, <2>1 DEF Spelt, k
<1> QED BY <1>17

\* They begin a candidate.
LEMMA CandidateBegins ==
  ASSUME NEW S, NEW s \in Seq(S), NEW w \in Seq(S), Len(w) >= 3,
         NEW p, Spelt(s, w, p)
  PROVE  \E c \in Candidates(s) \cap Seq(S) : Begins(c, w)
<1> DEFINE n == Len(s)
           k == Len(w)
           A == Lone(s)
           B == PositionsOf(s, Separators)
           P == A \cup B
<1>1. n \in Nat /\ k \in Nat /\ k >= 3 /\ DOMAIN s = 1..n
      /\ 1 \in 1..k /\ k \in 1..k
  OBVIOUS
<1>2. /\ p \in [1..k -> A]
      /\ \A a, b \in 1..k : a < b => p[a] < p[b]
      /\ \A a \in 1..k : s[p[a]] = w[a]
      /\ \A q \in A : q <= p[k] => \E a \in 1..k : p[a] = q
      /\ \A i \in p[1]..p[k] : i \in A \/ s[i] \in Separators
      /\ IsFiniteSet(A) /\ Cardinality(A) <= 32
  BY DEF Spelt
<1>3. A \in SUBSET (1..n) /\ B \in SUBSET (1..n)
      /\ \A i \in 1..n : s[i] \in Separators => i \in B
  BY <1>1, LoneIs DEF PositionsOf
<1>4. Candidates(s) = {v \in {At(s, A \cap r[1]..r[2]) : r \in Runs(P)} :
                         Len(v) \in 3..32}
  BY DEF Candidates, Lone
<1> HIDE DEF n, k, A, B
<1>5. /\ p[1] \in 1..n /\ p[k] \in 1..n /\ p[1] < p[k]
  <2>1. p[1] \in A /\ p[k] \in A
    BY <1>1, <1>2
  <2>2. 1 < k
    BY <1>1
  <2>3. p[1] < p[k]
    BY <1>1, <1>2, <2>2
  <2> QED BY <1>3, <2>1, <2>3
<1>6. \A i \in p[1]..p[k] : i \in P
  <2> SUFFICES ASSUME NEW i \in p[1]..p[k] PROVE i \in P
    OBVIOUS
  <2>1. i \in 1..n
    BY <1>1, <1>5
  <2> QED BY <1>2, <1>3, <2>1
<1>7. PICK r \in Runs(P) : r[1] \in 1..p[1] /\ r[2] \in p[k]..n
  <2>1. P \in SUBSET (1..n) /\ p[1] <= p[k]
    BY <1>1, <1>3, <1>5
  <2> HIDE DEF P
  <2> QED BY <1>1, <1>5, <1>6, <2>1, RunOf
<1> DEFINE Q == A \cap r[1]..r[2]
           c == At(s, Q)
           m == Len(c)
<1>8. Q \in SUBSET (1..n) /\ Q \subseteq A
  BY <1>3
<1>9. \A a \in 1..k : p[a] \in Q
  <2> SUFFICES ASSUME NEW a \in 1..k PROVE p[a] \in Q
    OBVIOUS
  <2>1. p[a] \in A /\ p[a] \in 1..n
    BY <1>2, <1>3
  <2>2. a = 1 \/ p[1] < p[a]
    BY <1>1, <1>2
  <2>3. a = k \/ p[a] < p[k]
    BY <1>1, <1>2
  <2>4. p[a] \in r[1]..r[2]
    BY <1>1, <1>5, <1>7, <2>1, <2>2, <2>3
  <2> QED BY <2>1, <2>4
<1> HIDE DEF Q
<1>10. c \in Seq(S) /\ \E e : Exact(e, m, Q) /\ \A a \in 1..m : c[a] = s[e[a]]
  <2>1. Q \in SUBSET (1..Len(s))
    BY <1>8 DEF n
  <2> QED BY <2>1, AtDrawn
<1> HIDE DEF c
<1>11. PICK e : Exact(e, m, Q) /\ \A a \in 1..m : c[a] = s[e[a]]
  BY <1>10
<1>12. m \in Nat /\ Q \in SUBSET Int
  BY <1>1, <1>8, <1>10
<1> HIDE DEF m
<1>13. /\ e \in [1..m -> Q]
       /\ \A a, b \in 1..m : a <= b => e[a] <= e[b]
       /\ \A a, b \in 1..m : e[a] = e[b] => a = b
       /\ \A q \in Q : \E a \in 1..m : e[a] = q
  <2>1. /\ \A a, b \in 1..m : a <= b => e[a] <= e[b]
        /\ \A a, b \in 1..m : e[a] = e[b] => a = b
    BY <1>11, <1>12, ExactOrder
  <2>2. /\ e \in [1..m -> Q] /\ \A q \in Q : \E a \in 1..m : e[a] = q
    BY <1>11 DEF Exact
  <2> QED BY <2>1, <2>2
<1>14. ASSUME NEW a \in 1..m, NEW i \in Q, i > e[a]
       PROVE  a + 1 \in 1..m /\ e[a + 1] > e[a] /\ e[a + 1] <= i
  BY <1>11, <1>12, <1>14, ExactNext
<1> DEFINE Good(a) == a = 0 \/ (a \in 1..m /\ e[a] = p[a])
           D == {a \in 0..k : ~Good(a)}
<1>15. ASSUME NEW a \in 0..k, a < k, Good(a) PROVE Good(a + 1)
  <2> DEFINE b == a + 1
  <2>1. b \in 1..k /\ p[b] \in Q /\ p[b] \in Int /\ p[b] <= p[k]
    <3>1. b \in 1..k
      BY <1>1, <1>15
    <3> HIDE DEF b
    <3>2. p[b] \in Q /\ p[b] \in Int
      BY <1>9, <1>12, <3>1
    <3>3. b = k \/ p[b] < p[k]
      BY <1>1, <1>2, <3>1
    <3> QED BY <1>1, <1>5, <3>1, <3>2, <3>3
  <2>2. ASSUME NEW x \in Q, x <= p[b], \A j \in 1..k : p[j] = x => j >= b
        PROVE  x = p[b]
    <3> HIDE DEF b
    <3>1. x \in A /\ x \in Int /\ x <= p[k]
      BY <1>1, <1>5, <1>8, <1>12, <2>1, <2>2
    <3>2. PICK j \in 1..k : p[j] = x
      BY <1>2, <3>1
    <3>3. j >= b /\ (j = b \/ b < j)
      BY <2>1, <2>2, <3>2
    <3>4. b < j => p[b] < x
      BY <1>2, <2>1, <3>2
    <3> QED BY <2>1, <2>2, <3>1, <3>2, <3>3, <3>4
  <2>3. CASE a = 0
    <3>1. b = 1 /\ \A j \in 1..k : j >= b
      BY <1>1, <2>3
    <3> HIDE DEF b
    <3>2. PICK d \in 1..m : e[d] = p[b]
      BY <1>13, <2>1
    <3>3. 1 \in 1..m /\ 1 <= d
      BY <1>12
    <3>4. e[1] \in Q /\ e[1] <= p[b]
      BY <1>13, <3>2, <3>3
    <3>5. e[1] = p[b]
      BY <2>2, <3>1, <3>4
    <3>6. Good(b)
      BY <3>1, <3>3, <3>5
    <3> QED BY <3>6 DEF b
  <2>4. CASE a # 0
    <3>1. a \in 1..m /\ e[a] = p[a] /\ a \in 1..k /\ a < b
      BY <1>1, <1>15, <2>4
    <3>2. p[a] < p[b]
      BY <1>2, <2>1, <3>1
    <3>3. b \in 1..m /\ e[b] > e[a] /\ e[b] <= p[b]
      BY <1>14, <2>1, <3>1, <3>2
    <3> HIDE DEF b
    <3>4. e[b] \in Q /\ e[b] \in Int /\ p[a] \in Int
      BY <1>9, <1>12, <1>13, <3>1, <3>3
    <3>5. ASSUME NEW j \in 1..k, p[j] = e[b] PROVE j >= b
      <4>1. ~(p[j] <= p[a])
        BY <3>1, <3>3, <3>4, <3>5
      <4>2. j = a => p[j] <= p[a]
        BY <3>4
      <4>3. j < a => p[j] <= p[a]
        BY <1>2, <3>1, <3>4, <3>5
      <4>4. b = a + 1
        BY DEF b
      <4> QED BY <3>1, <4>1, <4>2, <4>3, <4>4
    <3>6. e[b] = p[b]
      BY <2>2, <3>3, <3>4, <3>5
    <3>7. Good(b)
      BY <3>3, <3>6
    <3> QED BY <3>7 DEF b
  <2> QED BY <2>3, <2>4
<1>16. D = {}
  <2> HIDE DEF Good
  <2>1. D \in SUBSET (0..k)
    OBVIOUS
  <2>2. 0 \notin D
    BY DEF Good
  <2>3. ASSUME NEW a \in 0..k, a < k, a \notin D PROVE a + 1 \notin D
    BY <1>15, <2>3
  <2> HIDE DEF D
  <2> QED BY <1>1, <2>1, <2>2, <2>3, NoneFails
<1>17. \A a \in 1..k : a \in 1..m /\ e[a] = p[a]
  <2> SUFFICES ASSUME NEW a \in 1..k PROVE a \in 1..m /\ e[a] = p[a]
    OBVIOUS
  <2>1. a \in 0..k /\ a # 0
    BY <1>1
  <2> QED BY <1>16, <2>1
<1>18. m >= k
  BY <1>1, <1>12, <1>17
<1>19. m <= 32
  <2> DEFINE I == 1..m
  <2>1. e \in Injection(I, A)
    <3>1. e \in [I -> A]
      BY <1>8, <1>13
    <3>2. \A a, b \in I : e[a] = e[b] => a = b
      BY <1>13
    <3> HIDE DEF I
    <3> QED BY <3>1, <3>2 DEF Injection, IsInjective
  <2>2. Cardinality(I) = m
    <3>1. Cardinality(I) = IF 1 > m THEN 0 ELSE m - 1 + 1
      BY <1>12, FS_Interval
    <3> HIDE DEF I
    <3> QED BY <1>1, <1>12, <1>18, <3>1
  <2> HIDE DEF I
  <2>3. Cardinality(I) <= Cardinality(A)
    BY <1>2, <2>1, FS_Injection
  <2>4. Cardinality(A) \in Nat
    BY <1>2, FS_CardinalityType
  <2> QED BY <1>2, <1>12, <2>2, <2>3, <2>4
<1>20. c \in Candidates(s)
  <2>1. c \in {At(s, A \cap q[1]..q[2]) : q \in Runs(P)}
    BY <1>7 DEF c, Q
  <2>2. Len(c) \in 3..32
    <3>1. m \in 3..32
      BY <1>1, <1>12, <1>18, <1>19
    <3> QED BY <3>1 DEF m
  <2> QED BY <1>4, <2>1, <2>2
<1>21. Begins(c, w)
  <2>1. \A a \in 1..k : c[a] = w[a]
    BY <1>2, <1>11, <1>17
  <2> QED BY <1>12, <1>18, <2>1 DEF Begins, m, k
<1> QED BY <1>10, <1>20, <1>21

\* The categories of a vocabulary.
Categories == {"obscene", "literary"}

\* What begins with a word of the vocabulary is found.
LEMMA LookupFinds ==
  ASSUME NEW v, \A x \in DOMAIN v : v[x] \in Categories,
         NEW S, NEW c \in Seq(S), NEW w \in Seq(S), w \in DOMAIN v,
         Len(w) >= 3, Begins(c, w)
  PROVE  Lookup(v, c) \in Categories
<1> DEFINE k == Len(w)
           m == Len(c)
           P == {n \in 3..m : SubSeq(c, 1, n) \in DOMAIN v}
           x == SubSeq(c, 1, k)
<1>1. k \in Nat /\ m \in Nat /\ k >= 3 /\ m >= k /\ \A j \in 1..k : c[j] = w[j]
  BY DEF Begins
<1>2. x = w
  <2>1. \A j \in 1..k : c[j] \in S
    BY <1>1
  <2>2. 1 \in Int /\ 1 <= k /\ k - 1 + 1 = k /\ \A j \in 1..k : 1 + j - 1 = j
    BY <1>1
  <2> HIDE DEF k
  <2>3. x \in Seq(S) /\ Len(x) = k /\ \A j \in 1..k : x[j] = c[1 + j - 1]
    BY <1>1, <2>1, <2>2, SubSeqProperties
  <2>4. \A j \in 1..Len(x) : x[j] = w[j]
    BY <1>1, <2>2, <2>3
  <2> HIDE DEF x
  <2> QED BY <2>3, <2>4, SeqEqual DEF k
<1>3. k \in P
  <2>1. k \in 3..m
    BY <1>1
  <2> QED BY <1>2, <2>1
<1>4. IsFiniteSet(P) /\ P \in SUBSET Int
  <2>1. P \subseteq 3..m
    OBVIOUS
  <2> HIDE DEF P, m
  <2>2. IsFiniteSet(3..m)
    BY <1>1, FS_Interval
  <2>3. \A i \in P : i \in Int
    BY <2>1
  <2> QED BY <2>1, <2>2, <2>3, FS_Subset
<1>5. Max(P) \in P
  <2> HIDE DEF P
  <2> QED BY <1>3, <1>4, MaxFacts
<1>6. SubSeq(c, 1, Max(P)) \in DOMAIN v
  BY <1>5
<1>7. Lookup(v, c) = v[SubSeq(c, 1, Max(P))]
  <2>1. P # {}
    BY <1>3
  <2> HIDE DEF k
  <2> QED BY <2>1 DEF Lookup
<1> HIDE DEF P
<1> QED BY <1>6, <1>7

LEMMA VocabularyFacts ==
  ASSUME NEW o, NEW l
  PROVE  /\ \A w \in o \cup l : w \in DOMAIN Vocabulary(o, l)
         /\ \A w \in DOMAIN Vocabulary(o, l) :
              Vocabulary(o, l)[w] \in Categories
  BY DEF Vocabulary, Categories

\* A word that is shown is read, as it is or letter by letter.
LEMMA WordsRead ==
  ASSUME NEW text \in Seq(DOMAIN Fold), NEW w, w \in Seq(Range(w)), Len(w) >= 3,
         Collapsed(w) = w, Range(w) \subseteq TokenChars,
         NEW u, u = Normalized(Addressed(text))
  PROVE  \E S :
           /\ w \in Seq(S)
           /\ WrittenIn(Shown(text), w) =>
                \E c \in Tokens(u) \cap Seq(S) : Begins(c, w)
           /\ SpelledFirst(Shown(text), w) =>
                \E c \in Candidates(u) \cap Seq(S) : Begins(c, w)
<1>1. PICK c \in Cyrillic, d \in Cyrillic : Address = <<Space, c, d, Space>>
  BY AddressAssumption
<1> DEFINE C == DOMAIN Fold \cup {c, d, Space}
           S == C \cup {Fold[x] : x \in C} \cup Range(w)
           s == Shown(text)
           v == Addressed(s)
           t == Spaced(v)
<1>2. /\ w \in Seq(S) /\ text \in Seq(C) /\ c \in C /\ Space \in S
      /\ \A x \in C : Fold[x] \in S
  <2>1. Range(w) \subseteq S /\ DOMAIN Fold \subseteq C
    OBVIOUS
  <2>2. w \in Seq(S) /\ text \in Seq(C)
    <3> HIDE DEF S, C
    <3> QED BY <2>1
  <2> QED BY <2>2
<1>3. Address \in Seq(S)
  <2>1. c \in S /\ d \in S /\ Space \in S
    OBVIOUS
  <2> HIDE DEF S
  <2> QED BY <1>1, <2>1
<1> HIDE DEF C, S
<1>4. s \in Seq(S)
  BY <1>2, ShownAppend
<1>5. u = Collapsed(t)
  BY AddressedShown DEF Normalized, Shown
<1> HIDE DEF s
<1>6. v \in Seq(S) /\ \E g : From(v, Len(s), s, g)
  BY <1>3, <1>4, AddressedFrom
<1>7. PICK g : From(v, Len(s), s, g)
  BY <1>6
<1> HIDE DEF v
<1>8. /\ Thins(v, s, g)
      /\ \A i \in 1..Len(s) : \E a \in 1..Len(v) : g[a] = i
  <2>1. Thins(v, s, g)
    BY <1>4, <1>6, <1>7, AddressedThins
  <2> QED BY <1>7, <2>1 DEF From
<1>9. /\ t \in Seq(S)
      /\ \E h : /\ Thins(t, v, h)
                /\ \A q \in 1..Len(v) : v[q] \in TokenChars =>
                     \E a \in 1..Len(t) : h[a] = q
  BY <1>2, <1>6, SpacedThins
<1>10. PICK h : /\ Thins(t, v, h)
                /\ \A q \in 1..Len(v) : v[q] \in TokenChars =>
                     \E a \in 1..Len(t) : h[a] = q
  BY <1>9
<1> HIDE DEF t
<1>11. /\ u \in Seq(S)
       /\ \E f : /\ Thins(u, t, f)
                 /\ \A q \in CollapsedAt(t) : \E a \in 1..Len(u) : f[a] = q
  BY <1>5, <1>9, CollapsedThins
<1>12. PICK f : /\ Thins(u, t, f)
                /\ \A q \in CollapsedAt(t) : \E a \in 1..Len(u) : f[a] = q
  BY <1>11
<1> DEFINE k == Len(w)
<1>13. k \in Nat /\ k >= 1
  OBVIOUS
<1>14. ASSUME NEW y \in Seq(S), NEW i \in 0..Len(y) - k,
              SubSeq(y, i + 1, i + k) = w
       PROVE  \A j \in 1..k : /\ i + j \in 1..Len(y) /\ y[i + j] = w[j]
                              /\ y[i + j] \in TokenChars
  <2> SUFFICES ASSUME NEW j \in 1..k
               PROVE  /\ i + j \in 1..Len(y) /\ y[i + j] = w[j]
                      /\ y[i + j] \in TokenChars
    OBVIOUS
  <2> DEFINE n == Len(y)
  <2>1. n \in Nat /\ i \in Nat /\ i + k <= n /\ w[j] \in TokenChars
    BY <1>13 DEF Range
  <2>2. i + j \in 1..n
    BY <1>13, <2>1
  <2>3. /\ \A x \in i + 1..i + k : y[x] \in S
        /\ i + 1 \in Int /\ i + k \in Int /\ i + 1 <= i + k
        /\ (i + k) - (i + 1) + 1 = k /\ (i + 1) + j - 1 = i + j
    BY <1>13, <2>1
  <2> HIDE DEF n, k
  <2>4. \A x \in 1..(i + k) - (i + 1) + 1 :
          SubSeq(y, i + 1, i + k)[x] = y[(i + 1) + x - 1]
    BY <2>3, SubSeqProperties
  <2> QED BY <1>14, <2>1, <2>2, <2>3, <2>4 DEF n
<1>15. ASSUME NEW y \in Seq(S), NEW z \in Seq(S), NEW q, Thins(z, y, q),
              NEW i \in 0..Len(y) - k, SubSeq(y, i + 1, i + k) = w,
              i > 0 => y[i] \notin TokenChars,
              \A j \in 1..k : \E a \in 1..Len(z) : q[a] = i + j
       PROVE  WrittenIn(z, w)
  BY <1>2, <1>13, <1>15, ThinsWritten
<1> HIDE DEF k
<1>16. ASSUME WrittenIn(s, w)
       PROVE  \E x \in Tokens(u) \cap Seq(S) : Begins(x, w)
  <2>1. PICK i \in 0..Len(s) - k : /\ SubSeq(s, i + 1, i + k) = w
                                   /\ i > 0 => s[i] \notin TokenChars
    BY <1>16 DEF WrittenIn, k
  <2>2. \A j \in 1..k : \E a \in 1..Len(v) : g[a] = i + j
    BY <1>4, <1>8, <1>14, <2>1
  <2>3. WrittenIn(v, w)
    <3>1. s \in Seq(S) /\ v \in Seq(S) /\ Thins(v, s, g)
      BY <1>4, <1>6, <1>8
    <3>2. /\ i \in 0..Len(s) - k /\ SubSeq(s, i + 1, i + k) = w
          /\ i > 0 => s[i] \notin TokenChars
      BY <2>1
    <3> QED BY ONLY <1>15, <2>2, <3>1, <3>2
  <2>4. PICK o \in 0..Len(v) - k : /\ SubSeq(v, o + 1, o + k) = w
                                   /\ o > 0 => v[o] \notin TokenChars
    BY <2>3 DEF WrittenIn, k
  <2>5. \A j \in 1..k : \E a \in 1..Len(t) : h[a] = o + j
    BY <1>6, <1>10, <1>14, <2>4
  <2>6. WrittenIn(t, w)
    <3>1. v \in Seq(S) /\ t \in Seq(S) /\ Thins(t, v, h)
      BY <1>6, <1>9, <1>10
    <3>2. /\ o \in 0..Len(v) - k /\ SubSeq(v, o + 1, o + k) = w
          /\ o > 0 => v[o] \notin TokenChars
      BY <2>4
    <3> QED BY ONLY <1>15, <2>5, <3>1, <3>2
  <2>7. PICK e \in 0..Len(t) - k : /\ SubSeq(t, e + 1, e + k) = w
                                   /\ e > 0 => t[e] \notin TokenChars
    BY <2>6 DEF WrittenIn, k
  <2>8. \A j \in 1..k : e + j \in CollapsedAt(t)
    BY <1>2, <1>9, <2>7, CollapsedWord DEF k
  <2>9. \A j \in 1..k : \E a \in 1..Len(u) : f[a] = e + j
    BY <1>12, <2>8
  <2>10. WrittenIn(u, w)
    <3>1. t \in Seq(S) /\ u \in Seq(S) /\ Thins(u, t, f)
      BY <1>9, <1>11, <1>12
    <3>2. /\ e \in 0..Len(t) - k /\ SubSeq(t, e + 1, e + k) = w
          /\ e > 0 => t[e] \notin TokenChars
      BY <2>7
    <3> QED BY ONLY <1>15, <2>9, <3>1, <3>2
  <2> QED BY <1>2, <1>11, <1>13, <2>10, TokenBegins DEF k
<1>17. ASSUME SpelledFirst(s, w)
       PROVE  \E x \in Candidates(u) \cap Seq(S) : Begins(x, w)
  <2>1. PICK p : Spelt(s, w, p)
    BY <1>2, <1>4, <1>13, <1>17, SpelledSpelt DEF k
  <2>2. Carries(v, s, g)
    BY <1>4, <1>6, <1>8, ThinsCarries
  <2>3. PICK p2 : Spelt(v, w, p2)
    BY <1>2, <1>4, <1>6, <1>13, <2>1, <2>2, SpeltKept DEF k
  <2>4. Carries(t, v, h)
    BY <1>6, <1>9, <1>10, ThinsCarries
  <2>5. PICK p3 : Spelt(t, w, p3)
    BY <1>2, <1>6, <1>9, <1>13, <2>3, <2>4, SpeltKept DEF k
  <2>6. Carries(u, t, f)
    BY <1>9, <1>11, <1>12, ThinsCarries
  <2>7. PICK p4 : Spelt(u, w, p4)
    BY <1>2, <1>9, <1>11, <1>13, <2>5, <2>6, SpeltKept DEF k
  <2> QED BY <1>2, <1>11, <2>7, CandidateBegins
<1> QED BY <1>2, <1>16, <1>17 DEF s

\* The profanity of what is read, and whether it is spelled out, are reported.
LEMMA ProfanityMatched ==
  ASSUME NEW c, NEW s
  PROVE  /\ \A id \in Categories :
              s.rule[id].enabled /\ id \in Profanity(s.vocabulary, c.normalized)
                => id \in Matched(c, s)
         /\ s.rule["unicode"].enabled /\ SpelledOut(s.vocabulary, c.normalized)
              => "unicode" \in Matched(c, s)
<1> DEFINE A == Matching(ProfanityConditions(c, s), s)
           B == Matching(EvasionConditions(c, s), s)
<1>1. A \subseteq Matched(c, s) /\ B \subseteq Matched(c, s)
  BY DEF Matched
<1>2. \A id \in Categories :
        s.rule[id].enabled /\ id \in Profanity(s.vocabulary, c.normalized)
          => id \in A
  BY DEF Matching, ProfanityConditions, Categories
<1>3. s.rule["unicode"].enabled /\ SpelledOut(s.vocabulary, c.normalized)
        => "unicode" \in B
  <2> DEFINE w == \/ c.features.mixed \/ c.features.suspicious
                  \/ SpelledOut(s.vocabulary, c.normalized)
  <2>1. EvasionConditions(c, s) = [unicode |-> w]
    BY DEF EvasionConditions
  <2>2. SpelledOut(s.vocabulary, c.normalized) => w
    OBVIOUS
  <2> HIDE DEF w
  <2> QED BY <2>1, <2>2 DEF Matching
<1> QED BY <1>1, <1>2, <1>3

\* The vocabulary of a file with the profanity rules on has the listed words.
LEMMA ListedKnown ==
  ASSUME NEW case \in Messages, NEW s, s = Loaded(case.file),
         s.rule["obscene"].enabled, s.rule["literary"].enabled
  PROVE  /\ \A x \in DOMAIN s.vocabulary : s.vocabulary[x] \in Categories
         /\ \A c \in Categories :
              \A w \in IF case.file.words[c] = {} THEN Dictionary[c]
                       ELSE case.file.words[c] :
                w \in DOMAIN s.vocabulary /\ w \in Seq(Range(w))
<1> DEFINE words(c) == IF case.file.words[c] = {} THEN Dictionary[c]
                       ELSE case.file.words[c]
           o == words("obscene")
           l == words("literary")
<1>1. s.vocabulary = Vocabulary(o, l)
  BY DEF Loaded
<1>2. \A c \in Categories : words(c) \subseteq o \cup l
  BY DEF Categories
<1>3. \A c \in Categories : \A w \in words(c) : w \in Seq(Range(w))
  BY MessagesAssumption DEF Categories
<1> HIDE DEF o, l, words
<1>4. \A c \in Categories : \A w \in words(c) :
        w \in DOMAIN s.vocabulary /\ w \in Seq(Range(w))
  BY <1>1, <1>2, <1>3, VocabularyFacts
<1>5. \A x \in DOMAIN s.vocabulary : s.vocabulary[x] \in Categories
  BY <1>1, VocabularyFacts
<1> QED BY <1>4, <1>5 DEF words

\* In every behaviour, a listed word of three characters or more, without one
\* three times in a row, is found when a reader sees it, in capitals, with
\* invisible characters inside, after a mention or spelled out with separators,
\* and spelling it out is reported as an evasion, for any text and any lists.
THEOREM WordsKept == ContentSpec => []WordsFound
<1>1. ReadIInv => WordsFound
  <2> SUFFICES ASSUME ReadIInv, stage = "matched", On("obscene"),
                      On("literary"), On("unicode"), NEW w \in Listed,
                      Len(w) >= 3, Collapsed(w) = w,
                      Range(w) \subseteq TokenChars
               PROVE  LET shown == Shown(input.message.text) IN
                      /\ WrittenIn(shown, w) => result \cap Categories # {}
                      /\ SpelledFirst(shown, w) =>
                           /\ result \cap Categories # {}
                           /\ "unicode" \in result
    BY DEF WordsFound, Categories
  <2> DEFINE text == input.message.text
             u == Normalized(Addressed(text))
             cx == Context(input.message)
             v == settings.vocabulary
             shown == Shown(text)
  <2>1. /\ input \in Messages /\ settings = Loaded(input.file)
        /\ result = Matched(cx, settings)
    BY DEF ReadIInv
  <2>2. text \in Seq(DOMAIN Fold) /\ cx.normalized = u
    BY <2>1, MessagesAssumption DEF Context
  <2>3. /\ settings.rule["obscene"].enabled /\ settings.rule["literary"].enabled
        /\ settings.rule["unicode"].enabled
    BY DEF On
  <2>4. PICK id \in Categories :
          w \in IF input.file.words[id] = {} THEN Dictionary[id]
                ELSE input.file.words[id]
    BY DEF Listed, Categories
  <2>5. /\ w \in DOMAIN v /\ w \in Seq(Range(w))
        /\ \A x \in DOMAIN v : v[x] \in Categories
    BY ONLY <2>1, <2>3, <2>4, ListedKnown
  <2>6. PICK S :
          /\ w \in Seq(S)
          /\ WrittenIn(shown, w) =>
               \E c \in Tokens(u) \cap Seq(S) : Begins(c, w)
          /\ SpelledFirst(shown, w) =>
               \E c \in Candidates(u) \cap Seq(S) : Begins(c, w)
    BY <2>2, <2>5, WordsRead
  <2>7. ASSUME NEW c \in Seq(S), Begins(c, w) PROVE Lookup(v, c) \in Categories
    <3> HIDE DEF v
    <3> QED BY <2>5, <2>6, <2>7, LookupFinds
  <2> HIDE DEF v, u, cx, shown
  <2>8. ASSUME NEW c \in Tokens(u) \cup Candidates(u),
               Lookup(v, c) \in Categories
        PROVE  result \cap Categories # {}
    <3> DEFINE k == Lookup(v, c)
    <3>1. k \in Profanity(v, u) /\ k \in Categories
      <4>1. k # "none" /\ k \in Categories
        BY <2>8 DEF Categories
      <4> QED BY <2>8, <4>1 DEF Profanity
    <3> HIDE DEF k
    <3>2. settings.rule[k].enabled
      BY <2>3, <3>1 DEF Categories
    <3>3. k \in result
      BY <2>1, <2>2, <3>1, <3>2, ProfanityMatched DEF v
    <3> QED BY <3>1, <3>3
  <2>9. ASSUME NEW c \in Candidates(u), Lookup(v, c) \in Categories
        PROVE  "unicode" \in result
    <3>1. Lookup(v, c) # "none"
      BY <2>9 DEF Categories
    <3>2. SpelledOut(v, u)
      BY <3>1 DEF SpelledOut
    <3> QED BY <2>1, <2>2, <2>3, <3>2, ProfanityMatched DEF v
  <2>10. WrittenIn(shown, w) => result \cap Categories # {}
    BY <2>6, <2>7, <2>8
  <2>11. SpelledFirst(shown, w) =>
           result \cap Categories # {} /\ "unicode" \in result
    BY <2>6, <2>7, <2>8, <2>9
  <2> QED BY <2>10, <2>11 DEF shown
<1> QED BY <1>1, ReadInvariance, PTL

\* In every behaviour, what is in a message and around it is read as it is: its
\* words, its links and invites, and the activity of its user.
THEOREM MessagesRead == ContentSpec => []MessageRead
<1>1. WordsFound /\ LinksAccounted /\ ActivityCounted => MessageRead
  BY DEF MessageRead
<1> QED BY <1>1, WordsKept, LinksKept, ActivityKept, PTL
=============================================================================
