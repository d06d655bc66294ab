----------------------- MODULE ModerationDecisionProofs ---------------------
(***************************************************************************)
(* Proofs about ModerationDecision: that harm is named and the passive     *)
(* mode capped, by the invariant that what was computed is still what the  *)
(* evidence and the policies give; that the strict mode is softer than the *)
(* active one in one case only, for all evaluations and policies; and that *)
(* more evidence never lowers the risk, by lemmas about selecting from a   *)
(* list and about sums over finite sets.                                   *)
(***************************************************************************)
EXTENDS ModerationDecision, TLAPS, FiniteSetTheorems, SequenceTheorems,
        WellFoundedInduction

-----------------------------------------------------------------------------
(* Selecting from a list                                                   *)

\* A non-empty finite set of integers has a greatest element: the least of
\* the sets of what is not less than a member, ordered by inclusion, is that
\* of it.
LEMMA GreatestExists ==
  ASSUME NEW S \in SUBSET Int, IsFiniteSet(S), S # {}
  PROVE  \E i \in S : \A j \in S : i >= j
<1> DEFINE Above(k) == {i \in S : i >= k}
           T == {Above(k) : k \in S}
<1>2. T \subseteq FiniteSubsetsOf(S) /\ T # {}
  <2>1. T \subseteq SUBSET S /\ T # {}
    OBVIOUS
  <2>2. FiniteSubsetsOf(S) = SUBSET S
    BY FS_FiniteSubsetsOfFinite
  <2> QED BY <2>1, <2>2
<1>3. PICK t \in T : \A u \in T : <<u, t>> \notin StrictSubsetOrdering(S)
  <2> HIDE DEF T
  <2> QED BY ONLY <1>2, FS_StrictSubsetOrderingWellFounded, WFMin
<1>4. PICK k \in S : t = Above(k)
  BY <1>3
<1>5. ASSUME NEW j \in S, k < j
      PROVE  FALSE
  <2>1. Above(j) \in T
    BY <1>5
  <2>4. Above(j) \subseteq Above(k)
    <3>1. \A i \in S : i \in Int
      OBVIOUS
    <3>2. \A i \in S : i >= j => i >= k
      BY <1>5, <3>1
    <3> QED BY <3>2
  <2>2. k \in Above(k) /\ k \notin Above(j)
    BY <1>5
  <2>3. <<Above(j), t>> \in StrictSubsetOrdering(S)
    BY <2>2, <2>4, <1>4 DEF StrictSubsetOrdering
  <2> QED BY <1>3, <2>1, <2>3
<1> QED BY <1>5

\* What holds of 0 and, with k, of k + 1 holds up to n: no least counterexample.
LEMMA NoneFails ==
  ASSUME NEW n \in Nat, NEW S \in SUBSET (0..n), 0 \notin S,
         \A k \in 0..n : k < n /\ k \notin S => k + 1 \notin S
  PROVE  S = {}
<1>1. SUFFICES ASSUME S # {} PROVE FALSE
  OBVIOUS
<1>2. PICK k \in S : \A j \in S : k <= j
  <2> DEFINE T == {i \in 0..n : n - i \in S}
  <2>1. T \in SUBSET (0..n) /\ T \in SUBSET Int
    OBVIOUS
  <2>2. T # {}
    <3>1. PICK k \in S : TRUE
      BY <1>1
    <3>2. n - k \in 0..n /\ n - (n - k) = k
      OBVIOUS
    <3> QED BY <3>2
  <2>3. IsFiniteSet(0..n)
    BY FS_Interval
  <2>4. IsFiniteSet(T)
    <3> HIDE DEF T
    <3> QED BY ONLY <2>1, <2>3, FS_Subset
  <2>5. PICK t \in T : \A j \in T : t >= j
    <3> HIDE DEF T
    <3> QED BY <2>1, <2>2, <2>4, GreatestExists
  <2>6. ASSUME NEW j \in S PROVE n - t <= j
    <3>1. n - j \in 0..n /\ n - (n - j) = j
      OBVIOUS
    <3>2. n - j \in T
      BY <3>1
    <3> QED BY <2>5, <3>2
  <2> QED BY <2>6
<1>4. k # 0 /\ k - 1 \in 0..n /\ k - 1 < n /\ ~(k <= k - 1) /\ k - 1 + 1 = k
  OBVIOUS
<1>5. k - 1 \notin S
  BY <1>2, <1>4
<1> QED BY <1>4, <1>5

\* The recursion of Among, as a property of its function.
Selects(list, S, f) ==
  /\ DOMAIN f = 0..Len(list) /\ f[0] = <<>>
  /\ \A k \in 1..Len(list) :
       f[k] = IF list[k] \in S THEN Append(f[k - 1], list[k]) ELSE f[k - 1]

\* A function with that property is the one that Among computes with.
LEMMA AmongIs ==
  ASSUME NEW A, NEW list \in Seq(A), NEW S, NEW f, Selects(list, S, f),
         f = [i \in 0..Len(list) |-> f[i]]
  PROVE  Among(list, S) = f[Len(list)]
<1> DEFINE n == Len(list)
           Body(g) == [i \in 0..n |->
                         IF i = 0 THEN <<>>
                         ELSE IF list[i] \in S THEN Append(g[i - 1], list[i])
                              ELSE g[i - 1]]
           among == CHOOSE g : g = Body(g)
<1>0. n \in Nat
  OBVIOUS
<1>1. f = Body(f)
  <2>1. ASSUME NEW i \in 0..n
        PROVE  f[i] = IF i = 0 THEN <<>>
                      ELSE IF list[i] \in S THEN Append(f[i - 1], list[i])
                           ELSE f[i - 1]
    <3>1. CASE i = 0
      BY <3>1 DEF Selects
    <3>2. CASE i # 0
      <4>1. i \in 1..n
        BY <1>0, <3>2
      <4> QED BY <3>2, <4>1 DEF Selects
    <3> QED BY <3>1, <3>2
  <2> QED BY <2>1
<1>2. among = Body(among)
  BY <1>1
<1> HIDE DEF among
<1> DEFINE D == {i \in 0..n : among[i] # f[i]}
<1>3. 0 \notin D
  <2>1. among[0] = <<>>
    BY <1>0, <1>2
  <2> QED BY <2>1 DEF Selects
<1>4. ASSUME NEW k \in 0..n, k < n, k \notin D PROVE k + 1 \notin D
  <2>1. k + 1 \in 1..n /\ k + 1 \in 0..n /\ k + 1 # 0 /\ k + 1 - 1 = k
    BY <1>0, <1>4
  <2>2. among[k + 1] = IF list[k + 1] \in S THEN Append(among[k], list[k + 1])
                       ELSE among[k]
    <3> DEFINE m == k + 1
    <3>1. m \in 0..n /\ m # 0 /\ m - 1 = k
      BY <2>1
    <3> HIDE DEF m
    <3>2. among[m] = IF list[m] \in S THEN Append(among[m - 1], list[m])
                     ELSE among[m - 1]
      BY <1>2, <3>1
    <3> QED BY <3>1, <3>2 DEF m
  <2>3. f[k + 1] = IF list[k + 1] \in S THEN Append(f[k], list[k + 1])
                   ELSE f[k]
    BY <2>1 DEF Selects
  <2> QED BY <1>4, <2>2, <2>3
<1>5. D = {}
  <2> HIDE DEF D
  <2>1. D \in SUBSET (0..n)
    BY DEF D
  <2> HIDE DEF n
  <2> QED BY <1>0, <1>3, <1>4, <2>1, NoneFails
<1>6. among[n] = f[n]
  BY <1>0, <1>5
<1> QED BY <1>6 DEF Among, among

\* There is such a function for every list.
LEMMA SelectsExist ==
  ASSUME NEW A, NEW list \in Seq(A), NEW S
  PROVE  \E f \in [0..Len(list) -> Seq(A)] : Selects(list, S, f)
<1> DEFINE n == Len(list)
           Upto(k) == SubSeq(list, 1, k)
           P(k) == \E f \in [0..k -> Seq(A)] : Selects(Upto(k), S, f)
           D == {k \in 0..n : ~P(k)}
<1>0. n \in Nat /\ Upto(n) = list
  OBVIOUS
<1>1. \A k \in 0..n : Len(Upto(k)) = k /\ \A i \in 1..k : Upto(k)[i] = list[i]
  OBVIOUS
<1>2. P(0)
  <2>1. <<>> \in Seq(A) /\ Len(Upto(0)) = 0
    BY <1>0, <1>1
  <2>2. [i \in 0..0 |-> <<>>] \in [0..0 -> Seq(A)]
    BY <2>1
  <2>3. Selects(Upto(0), S, [i \in 0..0 |-> <<>>])
    BY <2>1 DEF Selects
  <2> QED BY <2>2, <2>3
<1>3. ASSUME NEW k \in 0..n, k < n, P(k) PROVE P(k + 1)
  <2>1. PICK f \in [0..k -> Seq(A)] : Selects(Upto(k), S, f)
    BY <1>3
  <2>2. /\ k \in Nat /\ k + 1 \in 1..n /\ k + 1 \in 0..n /\ list[k + 1] \in A
        /\ k \in 0..k
    BY <1>0, <1>3
  <2> DEFINE next == IF list[k + 1] \in S THEN Append(f[k], list[k + 1])
                     ELSE f[k]
             g == [i \in 0..(k + 1) |-> IF i = k + 1 THEN next ELSE f[i]]
  <2>3. next \in Seq(A)
    BY <2>2
  <2> HIDE DEF next
  <2>4. g \in [0..(k + 1) -> Seq(A)]
    BY <2>2, <2>3
  <2>5. f[0] = <<>> /\ \A i \in 1..k :
          f[i] = IF list[i] \in S THEN Append(f[i - 1], list[i]) ELSE f[i - 1]
    BY <1>1, <2>1 DEF Selects
  <2>6. g[0] = <<>>
    BY <2>2, <2>5
  <2>7. ASSUME NEW i \in 1..(k + 1)
        PROVE  g[i] = IF list[i] \in S THEN Append(g[i - 1], list[i])
                      ELSE g[i - 1]
    <3>1. CASE i = k + 1
      <4>1. g[i] = next /\ g[i - 1] = f[k]
        BY <2>2, <3>1
      <4> HIDE DEF g
      <4> QED BY <3>1, <4>1 DEF next
    <3>2. CASE i # k + 1
      <4>1. /\ i \in 1..k /\ i \in 0..(k + 1)
            /\ i - 1 \in 0..(k + 1) /\ i - 1 # k + 1
        BY <2>2, <3>2
      <4>2. g[i] = f[i] /\ g[i - 1] = f[i - 1]
        BY <3>2, <4>1
      <4> HIDE DEF g
      <4> QED BY <2>5, <4>1, <4>2
    <3> QED BY <3>1, <3>2
  <2>8. Selects(Upto(k + 1), S, g)
    <3>1. /\ Len(Upto(k + 1)) = k + 1
          /\ \A i \in 1..(k + 1) : Upto(k + 1)[i] = list[i]
      BY <1>1, <2>2
    <3>2. DOMAIN g = 0..(k + 1)
      OBVIOUS
    <3> HIDE DEF g, Upto
    <3> QED BY <2>6, <2>7, <3>1, <3>2 DEF Selects
  <2> QED BY <2>4, <2>8
<1>4. D = {}
  <2> HIDE DEF P
  <2>1. D \in SUBSET (0..n) /\ 0 \notin D
    BY <1>2
  <2>2. ASSUME NEW k \in 0..n, k < n, k \notin D PROVE k + 1 \notin D
    BY <1>3, <2>2
  <2> HIDE DEF D, n
  <2> QED BY <1>0, <2>1, <2>2, NoneFails
<1>5. P(n)
  <2> HIDE DEF P
  <2> QED BY <1>0, <1>4
<1> QED BY <1>0, <1>5

\* A selection is a list of the same kind, of which every item was in the list
\* and in the set.
LEMMA AmongType ==
  ASSUME NEW A, NEW list \in Seq(A), NEW S
  PROVE  /\ Among(list, S) \in Seq(A)
         /\ \A i \in DOMAIN Among(list, S) :
              /\ Among(list, S)[i] \in S
              /\ \E j \in DOMAIN list : Among(list, S)[i] = list[j]
<1> DEFINE n == Len(list)
           Good(c) == \A i \in DOMAIN c :
                        c[i] \in S /\ \E j \in DOMAIN list : c[i] = list[j]
<1>1. PICK f \in [0..n -> Seq(A)] : Selects(list, S, f)
  BY SelectsExist
<1>2. Among(list, S) = f[n]
  BY <1>1, AmongIs
<1>3. n \in Nat
  OBVIOUS
<1> DEFINE D == {k \in 0..n : ~Good(f[k])}
<1>4. 0 \notin D
  BY <1>1 DEF Selects
<1>5. ASSUME NEW k \in 0..n, k < n, k \notin D PROVE k + 1 \notin D
  <2>1. k + 1 \in 1..n /\ k + 1 - 1 = k /\ Good(f[k]) /\ f[k] \in Seq(A)
        /\ k + 1 \in DOMAIN list
    BY <1>1, <1>3, <1>5
  <2>2. f[k + 1] = IF list[k + 1] \in S THEN Append(f[k], list[k + 1])
                   ELSE f[k]
    BY <1>1, <2>1 DEF Selects
  <2>3. CASE list[k + 1] \in S
    <3>1. ASSUME NEW i \in DOMAIN Append(f[k], list[k + 1])
          PROVE  \/ i \in DOMAIN f[k] /\ Append(f[k], list[k + 1])[i] = f[k][i]
                 \/ Append(f[k], list[k + 1])[i] = list[k + 1]
      BY <2>1
    <3> QED BY <2>1, <2>2, <2>3, <3>1
  <2> QED BY <2>1, <2>2, <2>3
<1>6. D = {}
  <2>1. D \in SUBSET (0..n)
    OBVIOUS
  <2> HIDE DEF D, n
  <2> QED BY <1>3, <1>4, <1>5, <2>1, NoneFails
<1>7. Good(f[n])
  BY <1>3, <1>6
<1> QED BY <1>1, <1>2, <1>3, <1>7

\* A list continues another one by what comes from the list two.
Continues(A, whole, part, two) ==
  \E more \in Seq(A) :
    /\ whole = part \o more
    /\ \A i \in DOMAIN more : \E j \in DOMAIN two : more[i] = two[j]

\* What is put at the end of two lists is put at the end of the second.
LEMMA AppendJoined ==
  ASSUME NEW A, NEW s \in Seq(A), NEW t \in Seq(A), NEW x \in A
  PROVE  s \o Append(t, x) = Append(s \o t, x)
<1> DEFINE l == s \o Append(t, x)
           r == Append(s \o t, x)
           m == Len(s)
           n == Len(t)
<1>1. s \o t \in Seq(A) /\ Append(t, x) \in Seq(A)
  OBVIOUS
<1>2. /\ l \in Seq(A) /\ r \in Seq(A)
      /\ Len(l) = m + n + 1 /\ Len(r) = m + n + 1
  BY <1>1
<1>3. \A i \in 1..m + n + 1 : l[i] = r[i]
  BY <1>1
<1> HIDE DEF l, r
<1>4. l = r
  BY <1>2, <1>3, SeqEqual
<1> QED BY <1>4 DEF l, r

\* Selecting from a list with more at its end adds at the end.
LEMMA AmongMore ==
  ASSUME NEW A, NEW one \in Seq(A), NEW two \in Seq(A), NEW S
  PROVE  Continues(A, Among(one \o two, S), Among(one, S), two)
<1> DEFINE m == Len(one)
           n == Len(two)
           list == one \o two
           Of(c) == \E more \in Seq(A) :
                      /\ c = Among(one, S) \o more
                      /\ \A i \in DOMAIN more :
                           \E j \in DOMAIN two : more[i] = two[j]
<1>0. /\ m \in Nat /\ n \in Nat /\ list \in Seq(A) /\ Len(list) = m + n
      /\ \A i \in 1..m : list[i] = one[i]
      /\ \A i \in 1..n : list[m + i] = two[i]
  OBVIOUS
<1> HIDE DEF list
<1>1. PICK f \in [0..(m + n) -> Seq(A)] : Selects(list, S, f)
  BY <1>0, SelectsExist
<1>2. Among(list, S) = f[m + n]
  BY <1>0, <1>1, AmongIs
<1>3. Among(one, S) = f[m]
  <2> DEFINE g == [i \in 0..m |-> f[i]]
  <2>1. Selects(one, S, g)
    <3>1. g[0] = <<>>
      BY <1>0, <1>1 DEF Selects
    <3>2. ASSUME NEW k \in 1..m
          PROVE  g[k] = IF one[k] \in S THEN Append(g[k - 1], one[k])
                        ELSE g[k - 1]
      <4>1. k \in 1..(m + n) /\ k \in 0..m /\ k - 1 \in 0..m /\ list[k] = one[k]
        BY <1>0
      <4>2. f[k] = IF list[k] \in S THEN Append(f[k - 1], list[k]) ELSE f[k - 1]
        BY <1>0, <1>1, <4>1 DEF Selects
      <4> QED BY <4>1, <4>2
    <3> QED BY <3>1, <3>2 DEF Selects
  <2>2. Among(one, S) = g[m]
    <3> HIDE DEF g
    <3>1. g = [i \in 0..m |-> g[i]]
      BY DEF g
    <3> QED BY <2>1, <3>1, AmongIs
  <2> QED BY <1>0, <2>2
<1> DEFINE D == {k \in 0..n : ~Of(f[m + k])}
<1>4. 0 \notin D
  <2>1. f[m] \in Seq(A) /\ m + 0 = m
    BY <1>0, <1>1
  <2>2. f[m + 0] = Among(one, S) \o <<>> /\ <<>> \in Seq(A)
    BY <1>3, <2>1
  <2>3. \A i \in DOMAIN <<>> : \E j \in DOMAIN two : <<>>[i] = two[j]
    OBVIOUS
  <2>4. Of(f[m + 0])
    <3> HIDE DEF m
    <3> QED BY <2>2, <2>3
  <2> QED BY <2>4
<1>5. ASSUME NEW k \in 0..n, k < n, k \notin D PROVE k + 1 \notin D
  <2> DEFINE x == list[m + (k + 1)]
  <2>1. PICK more \in Seq(A) :
          /\ f[m + k] = Among(one, S) \o more
          /\ \A i \in DOMAIN more : \E j \in DOMAIN two : more[i] = two[j]
    BY <1>5
  <2>2. /\ m + (k + 1) \in 1..(m + n) /\ m + (k + 1) - 1 = m + k
        /\ x = two[k + 1] /\ k + 1 \in DOMAIN two /\ x \in A
    BY <1>0, <1>5
  <2>3. f[m + (k + 1)] = IF x \in S THEN Append(f[m + k], x) ELSE f[m + k]
    <3>1. ASSUME NEW i \in 1..(m + n)
          PROVE  f[i] = IF list[i] \in S THEN Append(f[i - 1], list[i])
                        ELSE f[i - 1]
      BY <1>0, <1>1 DEF Selects
    <3> DEFINE i == m + (k + 1)
    <3>2. i \in 1..(m + n) /\ i - 1 = m + k
      BY <2>2
    <3> HIDE DEF i, m, n
    <3>3. f[i] = IF list[i] \in S THEN Append(f[i - 1], list[i]) ELSE f[i - 1]
      BY <3>1, <3>2
    <3> QED BY <3>2, <3>3 DEF i
  <2>4. Among(one, S) \in Seq(A)
    BY AmongType
  <2> HIDE DEF x
  <2>5. CASE x \in S
    <3> DEFINE longer == Append(more, x)
    <3>1. longer \in Seq(A) /\ Append(Among(one, S) \o more, x)
                                 = Among(one, S) \o longer
      <4> DEFINE first == Among(one, S)
      <4>1. first \in Seq(A) /\ more \in Seq(A) /\ x \in A
        BY <2>2, <2>4
      <4> HIDE DEF first
      <4>2. Append(first \o more, x) = first \o Append(more, x)
        <5>1. first \o Append(more, x) = Append(first \o more, x)
          BY <4>1, AppendJoined
        <5> QED BY <5>1
      <4>3. Append(more, x) \in Seq(A)
        BY <4>1, AppendProperties
      <4> QED BY <4>2, <4>3 DEF first
    <3>2. ASSUME NEW i \in DOMAIN longer
          PROVE  \E j \in DOMAIN two : longer[i] = two[j]
      <4>1. \/ i \in DOMAIN more /\ longer[i] = more[i]
            \/ longer[i] = x
        BY <2>2
      <4> QED BY <2>1, <2>2, <4>1
    <3>3. f[m + (k + 1)] = Among(one, S) \o longer
      BY <2>1, <2>3, <2>5, <3>1
    <3> HIDE DEF longer, m, n, list
    <3>4. Of(f[m + (k + 1)])
      BY <3>1, <3>2, <3>3
    <3> QED BY <3>4
  <2> QED BY <2>1, <2>3, <2>5
<1>6. D = {}
  <2>1. D \in SUBSET (0..n)
    OBVIOUS
  <2> HIDE DEF D, n
  <2> QED BY <1>0, <1>4, <1>5, <2>1, NoneFails
<1>7. Of(f[m + n])
  BY <1>0, <1>6
<1> QED BY <1>2, <1>7 DEF list, Continues

\* The rank of anything in a priority list is a number (Rank).
LEMMA RankType ==
  ASSUME NEW A, NEW list \in Seq(A), NEW x
  PROVE  Rank(list, x) \in Nat
<1> DEFINE S == {i \in DOMAIN list : list[i] = x}
<1>1. CASE S = {}
  BY <1>1 DEF Rank
<1>2. CASE S # {}
  <2>1. S \subseteq Nat /\ Len(list) \in Nat /\ \A i \in S : i <= Len(list)
    OBVIOUS
  <2>4. IsFiniteSet(S)
    <3> HIDE DEF S
    <3> QED BY <2>1, FS_BoundedSetOfNaturals
  <2>2. \E i \in S : \A j \in S : i >= j
    <3>1. S \in SUBSET Int
      BY <2>1
    <3> HIDE DEF S
    <3> QED BY <1>2, <2>4, <3>1, GreatestExists
  <2>3. Ext!Max(S) \in S
    BY <2>2 DEF Ext!Max
  <2> QED BY <2>1, <2>3 DEF Rank
<1> QED BY <1>1, <1>2

-----------------------------------------------------------------------------
(* Naming the harm                                                         *)

\* A sort that puts one of the harmful labels first finds a harmful label, and
\* the resolvers of conflicts name labels of the evidence.
LEMMA PrimaryNamed ==
  ASSUME NEW ss, ss # <<>>, NEW l \in Primaries(ss)
  PROVE  /\ l \in ResolvedLabels(ss)
         /\ l = URL => SCAM \notin LabelsOf(ss)
<1>0. PICK i \in Foremost(ss) :
        \E k \in SafeResolved(ss, ss[i].label) : l = LinkResolved(ss, k)
  BY DEF Primaries
<1>1. PICK k \in SafeResolved(ss, ss[i].label) : l = LinkResolved(ss, k)
  BY <1>0
<1>2. ss[i].label \in LabelsOf(ss)
  BY <1>0 DEF Foremost, LabelsOf
<1>3. k \in ResolvedLabels(ss) /\ k \in LabelsOf(ss)
  BY <1>1, <1>2 DEF SafeResolved, Firsts, Harmful, ResolvedLabels
<1>4. CASE k = URL /\ {URL, SCAM} \subseteq LabelsOf(ss)
  BY <1>1, <1>4 DEF LinkResolved, ResolvedLabels, Harmful, SCAM, SAFE, URL
<1>5. CASE ~(k = URL /\ {URL, SCAM} \subseteq LabelsOf(ss))
  BY <1>1, <1>3, <1>5 DEF LinkResolved
<1> QED BY <1>4, <1>5

\* An evaluation names the harm in what it was made from.
LEMMA EvaluationNames ==
  ASSUME NEW ss, NEW fs, NEW l \in Primaries(ss)
  PROVE  LET e == Evaluation(ss, fs, l)
         IN  /\ e.primary \in e.labels
             /\ SAFE \in e.labels <=> Harmful(e.signals) = {}
             /\ SAFE \in e.labels => e.labels = {SAFE}
             /\ e.primary = URL => SCAM \notin e.labels
<1> DEFINE e == Evaluation(ss, fs, l)
<1>1. e.primary = l /\ e.labels = ResolvedLabels(ss) /\ e.signals = ss
  BY DEF Evaluation
<1>2. SAFE \notin Harmful(ss)
  BY DEF Harmful
<1>3. /\ SAFE \in ResolvedLabels(ss) <=> Harmful(ss) = {}
      /\ SAFE \in ResolvedLabels(ss) => ResolvedLabels(ss) = {SAFE}
  BY <1>2 DEF ResolvedLabels
<1>4. l \in ResolvedLabels(ss) /\ (l = URL => SCAM \notin ResolvedLabels(ss))
  <2>1. CASE ss = <<>>
    <3>1. l = SAFE /\ LabelsOf(ss) = {}
      BY <2>1 DEF Primaries, LabelsOf
    <3> QED BY <3>1 DEF ResolvedLabels, Harmful, SAFE, URL
  <2>2. CASE ss # <<>>
    BY <2>2, PrimaryNamed DEF ResolvedLabels, Harmful, SAFE, SCAM
  <2> QED BY <2>1, <2>2
<1>5. /\ e.primary \in e.labels
      /\ SAFE \in e.labels <=> Harmful(e.signals) = {}
      /\ SAFE \in e.labels => e.labels = {SAFE}
      /\ e.primary = URL => SCAM \notin e.labels
  <2> HIDE DEF e
  <2> QED BY <1>1, <1>3, <1>4
<1> QED BY <1>5

-----------------------------------------------------------------------------
(* Policies and what is selected by them                                   *)

LEMMA PolicyFields ==
  ASSUME NEW p \in PolicyType
  PROVE  /\ p.threshold \in ThresholdsType
         /\ p.cap \in Actions /\ p.priority \in Seq(Actions)
<1>1. p.threshold \in ThresholdsType
  BY DEF PolicyType
<1>2. p.cap \in Actions /\ p.priority \in Seq(Actions)
  BY DEF PolicyType
<1> QED BY <1>1, <1>2

LEMMA PolicyNumbers ==
  ASSUME NEW p \in PolicyType
  PROVE  /\ p.minConfidence \in Nat /\ p.reduction \in Nat
         /\ p.riskFactor \in Nat
<1>1. p.minConfidence \in Hundredths
  BY DEF PolicyType
<1>2. p.reduction \in Nat
  BY DEF PolicyType
<1>3. p.riskFactor \in Nat
  BY DEF PolicyType
<1>4. Hundredths \subseteq Nat
  BY DEF Hundredths
<1> QED BY <1>1, <1>2, <1>3, <1>4

\* Only the mode of a policy is exchanged.
LEMMA InMode ==
  ASSUME NEW p \in PolicyType, NEW m \in {"ACTIVE", "STRICT"}
  PROVE  /\ [p EXCEPT !.mode = m] \in PolicyType
         /\ [p EXCEPT !.mode = m].mode = m
BY DEF PolicyType

\* A risk above another one reaches all the thresholds that one reaches, and
\* the gravest of several exists.
LEMMA GravestExists ==
  ASSUME NEW R \in SUBSET Thresholded, R # {}
  PROVE  \E a \in R : \A b \in R : Grade[b] <= Grade[a]
<1>1. R \subseteq {"LOG", "REVIEW", "WARN", "DELETE", "DELETE_WARN", "TIMEOUT",
                  "BAN"}
  BY DEF Thresholded, Actions, Grade
<1>2. CASE "BAN" \in R
  BY <1>1, <1>2 DEF Grade
<1>3. CASE "BAN" \notin R /\ "TIMEOUT" \in R
  BY <1>1, <1>3 DEF Grade
<1>4. CASE R \cap {"BAN", "TIMEOUT"} = {} /\ "DELETE_WARN" \in R
  BY <1>1, <1>4 DEF Grade
<1>5. CASE R \cap {"BAN", "TIMEOUT", "DELETE_WARN"} = {} /\ "DELETE" \in R
  BY <1>1, <1>5 DEF Grade
<1>6. CASE /\ R \cap {"BAN", "TIMEOUT", "DELETE_WARN", "DELETE"} = {}
           /\ "WARN" \in R
  BY <1>1, <1>6 DEF Grade
<1>7. CASE R \subseteq {"LOG", "REVIEW"} /\ "REVIEW" \in R
  BY <1>7 DEF Grade
<1>8. CASE R = {"LOG"}
  BY <1>8 DEF Grade
<1> QED BY <1>1, <1>2, <1>3, <1>4, <1>5, <1>6, <1>7, <1>8

\* Whatever an evaluation says, an action is selected.
LEMMA SelectedAction ==
  ASSUME NEW e, NEW p \in PolicyType
  PROVE  Select(e, p) \in Actions
<1>1. /\ {"REVIEW", "IGNORE"} \cup Thresholded \subseteq Actions
      /\ p.cap \in Actions
  BY PolicyFields DEF Thresholded, Actions, Grade
<1>2. ASSUME NEW r
      PROVE  ByThreshold(r, p) \in Actions
  <2> DEFINE R == {a \in Thresholded : r >= p.threshold[a]}
  <2>1. CASE R = {}
    BY <1>1, <2>1 DEF ByThreshold
  <2>2. CASE R # {}
    <3>1. \E a \in R : \A b \in R : Grade[b] <= Grade[a]
      BY <2>2, GravestExists
    <3>2. ByThreshold(r, p) \in R
      BY <2>2, <3>1 DEF ByThreshold
    <3> QED BY <1>1, <3>2
  <2> QED BY <2>1, <2>2
<1>3. ByRiskOrLabel(e, p) \in Actions
  BY <1>2 DEF ByRiskOrLabel
<1> QED BY <1>1, <1>3 DEF Select, Capped, Downgraded

-----------------------------------------------------------------------------
(* The passive mode                                                        *)

\* Nothing that the passive mode lets through goes before its cap.
LEMMA SelectionCapped ==
  ASSUME NEW e, NEW p, p.priority \in Seq(Actions), p.mode = "PASSIVE",
         ~Reviewed(e, p)
  PROVE  Rank(p.priority, p.cap) <= Rank(p.priority, Select(e, p))
<1> DEFINE a == Downgraded(ByRiskOrLabel(e, p), e, p)
<1>1. Select(e, p) = Capped(a, p)
  BY DEF Select
<1>2. /\ Rank(p.priority, a) \in Nat
      /\ Rank(p.priority, p.cap) \in Nat
  BY RankType
<1> HIDE DEF a
<1> QED BY <1>1, <1>2 DEF Capped

LEMMA PlanCapped ==
  ASSUME NEW e, NEW p \in PolicyType, p.mode = "PASSIVE",
         ~Reviewed(e, p), BundlesWithin(p),
         NEW i \in DOMAIN PlanOf(Select(e, p), p)
  PROVE  Rank(p.priority, p.cap)
           <= Rank(p.priority, PlanOf(Select(e, p), p)[i])
<1> DEFINE a == Select(e, p)
           b == PlanOf(a, p)[i]
<1>0. p.priority \in Seq(Actions)
  BY PolicyFields
<1>1. Rank(p.priority, p.cap) <= Rank(p.priority, a)
  BY <1>0, SelectionCapped
<1>2. /\ Rank(p.priority, a) \in Nat /\ Rank(p.priority, b) \in Nat
      /\ Rank(p.priority, p.cap) \in Nat
  BY <1>0, RankType
<1>3. Rank(p.priority, a) <= Rank(p.priority, b)
  BY SelectedAction DEF PlanOf, BundlesWithin
<1> HIDE DEF a, b
<1>4. Rank(p.priority, p.cap) <= Rank(p.priority, b)
  BY <1>1, <1>2, <1>3
<1> QED BY <1>4 DEF a, b

-----------------------------------------------------------------------------
(* The invariant                                                           *)

LEMMA Initially == Init => IInv
BY DEF Init, IInv, Staged, HarmNamed, PassiveCapped

LEMMA Gathering ==
  ASSUME IInv, NEW batch, NEW next, Gather(batch, next), decision = None
  PROVE  IInv'
<1>1. policy' = policy /\ evaluation' = evaluation /\ decision' = None
  BY DEF Gather
<1>2. HarmNamed'
  BY <1>1 DEF IInv, HarmNamed
<1> QED BY <1>1, <1>2 DEF IInv, Staged, PassiveCapped

LEMMA Evaluating ==
  ASSUME IInv, Evaluate
  PROVE  IInv'
<1>1. decision' = None /\ policy' = policy
  BY DEF IInv, Staged, Evaluate
<1>2. PICK l \in Primaries(Kept(signals)) :
        evaluation' = Evaluation(Kept(signals), facts, l)
  BY DEF Evaluate
<1>3. HarmNamed'
  BY <1>2, EvaluationNames DEF HarmNamed
<1> QED BY <1>1, <1>3 DEF IInv, Staged, PassiveCapped

LEMMA Deciding ==
  ASSUME IInv, Decide
  PROVE  IInv'
<1>1. policy' = policy /\ evaluation' = evaluation /\ stage' = "decided"
  BY DEF Decide
<1>2. HarmNamed'
  BY <1>1 DEF IInv, HarmNamed
<1>3. decision'.plan = PlanOf(Select(evaluation, policy), policy)
  BY DEF Decide
<1>4. policy \in PolicyType
  BY PoliciesAssumption DEF IInv
<1>5. PassiveCapped'
  BY <1>1, <1>3, <1>4, PlanCapped DEF PassiveCapped
<1> QED BY <1>1, <1>2, <1>5 DEF IInv, Staged

\* The invariant holds in every state of every behaviour.
THEOREM Invariance == Spec => []IInv
<1>1. ASSUME IInv, [Next]_vars
      PROVE  IInv'
  <2>1. ASSUME NEW m \in Matches, Match(m)
        PROVE  IInv'
    BY <1>1, <2>1, Gathering DEF Match, IInv, Staged
  <2>2. ASSUME NEW c \in Classifications, Classify(c)
        PROVE  IInv'
    BY <1>1, <2>2, Gathering DEF Classify, IInv, Staged
  <2>3. CASE Unavailable
    BY <1>1, <2>3, Gathering DEF Unavailable, IInv, Staged
  <2>4. ASSUME NEW n \in 0..MaxLinks, CheckLinks(n)
        PROVE  IInv'
    BY <1>1, <2>4, Gathering DEF CheckLinks, IInv, Staged
  <2>5. ASSUME NEW s \in OtherSignals, Other(s)
        PROVE  IInv'
    BY <1>1, <2>5, Gathering DEF Other, IInv, Staged
  <2>9. CASE Reject
    BY <1>1, <2>9 DEF Reject, IInv, Staged, HarmNamed, PassiveCapped
  <2>6. CASE Evaluate
    BY <1>1, <2>6, Evaluating
  <2>7. CASE Decide
    BY <1>1, <2>7, Deciding
  <2>8. CASE UNCHANGED vars
    BY <1>1, <2>8 DEF vars, IInv, Staged, HarmNamed, PassiveCapped
  <2> QED BY <1>1, <2>1, <2>2, <2>3, <2>4, <2>5, <2>6, <2>7, <2>8, <2>9 DEF Next
<1> QED BY Initially, <1>1, PTL DEF Spec

\* Whatever the evidence and the policy, harm is named, and SAFE never hides it
\* (ModerationRuleEngine.evaluate).
THEOREM Harm == Spec => []HarmNamed
<1>1. IInv => HarmNamed
  BY DEF IInv
<1> QED BY Invariance, <1>1, PTL

\* Whatever the evidence and the policy, the plan of a passive decision stays
\* within the greatest permitted action (ActionSelector, ActionPlanBuilder).
THEOREM Passive == Spec => []PassiveCapped
<1>1. IInv => PassiveCapped
  BY DEF IInv
<1> QED BY Invariance, <1>1, PTL

-----------------------------------------------------------------------------
(* The strict mode                                                         *)

LEMMA ByThresholdMonotone ==
  ASSUME NEW p \in PolicyType, NEW q \in PolicyType,
         p.threshold = q.threshold, NEW r \in Nat, NEW s \in Nat, r <= s
  PROVE  /\ ByThreshold(r, p) \in Actions \ {"KICK"}
         /\ ByThreshold(s, q) \in Actions \ {"KICK"}
         /\ Grade[ByThreshold(r, p)] <= Grade[ByThreshold(s, q)]
<1> DEFINE R(x) == {a \in Thresholded : x >= p.threshold[a]}
<1>1. \A a \in Thresholded : p.threshold[a] \in Nat
  BY PolicyFields DEF ThresholdsType
<1>2. R(r) \subseteq R(s)
  <2>1. SUFFICES ASSUME NEW a \in Thresholded, r >= p.threshold[a]
                 PROVE  s >= p.threshold[a]
    OBVIOUS
  <2> QED BY <1>1, <2>1
<1>3. ASSUME NEW x \in {r, s}, NEW k \in {p, q}
      PROVE  /\ ByThreshold(x, k) \in IF R(x) = {} THEN {"IGNORE"} ELSE R(x)
             /\ \A b \in R(x) : Grade[b] <= Grade[ByThreshold(x, k)]
  <2>1. R(x) = {a \in Thresholded : x >= k.threshold[a]}
    OBVIOUS
  <2>2. CASE R(x) = {}
    BY <2>1, <2>2 DEF ByThreshold
  <2>3. CASE R(x) # {}
    <3>1. R(x) \in SUBSET Thresholded
      OBVIOUS
    <3>2. \E a \in R(x) : \A b \in R(x) : Grade[b] <= Grade[a]
      BY <2>3, <3>1, GravestExists
    <3> QED BY <2>1, <2>3, <3>2 DEF ByThreshold
  <2> QED BY <2>2, <2>3
<1>4. \A a \in Thresholded \cup {"IGNORE"} :
        /\ a \in Actions \ {"KICK"} /\ Grade[a] \in Nat
        /\ Grade["IGNORE"] <= Grade[a]
  BY DEF Thresholded, Actions, Grade
<1>5. /\ ByThreshold(r, p) \in IF R(r) = {} THEN {"IGNORE"} ELSE R(r)
      /\ ByThreshold(s, q) \in IF R(s) = {} THEN {"IGNORE"} ELSE R(s)
      /\ \A b \in R(s) : Grade[b] <= Grade[ByThreshold(s, q)]
  BY <1>3
<1> QED BY <1>2, <1>4, <1>5

\* In strict mode the risk is not lower, nor the confidence asked for higher.
LEMMA StrictAdjusts ==
  ASSUME NEW e, e.risk \in Nat, e.risk <= MaxRisk,
         NEW p \in PolicyType, p.mode = "STRICT", p.riskFactor >= 100
  PROVE  /\ RiskIn(e, p) \in Nat /\ e.risk <= RiskIn(e, p)
         /\ MinConfidence(p) \in Nat /\ MinConfidence(p) <= p.minConfidence
<1> DEFINE x == e.risk * p.riskFactor
<1>1. p.riskFactor \in Nat /\ p.minConfidence \in Nat /\ p.reduction \in Nat
  BY PolicyNumbers
<1>2. x \in Nat /\ x >= e.risk * 100
  BY <1>1
<1> HIDE DEF x
<1>3. x \div 100 \in Nat /\ e.risk <= x \div 100
  BY <1>2
<1>4. Times(e.risk, p.riskFactor) = x \div 100
  BY DEF Times, x
<1>5. RiskIn(e, p) \in Nat /\ e.risk <= RiskIn(e, p)
  <2>1. MaxRisk \in Nat
    BY DEF MaxRisk
  <2> QED BY <1>3, <1>4, <2>1 DEF RiskIn, Lesser
<1>6. MinConfidence(p) \in Nat /\ MinConfidence(p) <= p.minConfidence
  BY <1>1 DEF MinConfidence, Greater
<1> QED BY <1>5, <1>6

\* For every evaluation and every policy whose strict mode does not scale the
\* risk down: the strict decision is as grave as the active one, or REVIEW
\* instead of WARN (ActionSelector.select).
THEOREM StrictNotSofter ==
  ASSUME NEW e, e.risk \in Nat, e.risk <= MaxRisk, e.confidence \in Nat,
         NEW p \in PolicyType, p.riskFactor >= 100
  PROVE  NotSofter(e, p)
<1> DEFINE a == [p EXCEPT !.mode = "ACTIVE"]
           s == [p EXCEPT !.mode = "STRICT"]
<1>1. /\ a \in PolicyType /\ a.mode = "ACTIVE"
      /\ s \in PolicyType /\ s.mode = "STRICT"
  BY InMode
<1>2. /\ a.threshold = s.threshold /\ a.minConfidence = s.minConfidence
      /\ a.overrides = s.overrides /\ s.riskFactor >= 100
      /\ a.reviewDisagreement = s.reviewDisagreement
      /\ a.reviewLowConfidence = s.reviewLowConfidence
  BY DEF PolicyType
<1> HIDE DEF a, s
<1>3. SUFFICES \/ Grade[Select(e, a)] <= Grade[Select(e, s)]
               \/ Select(e, a) = "WARN" /\ Select(e, s) = "REVIEW"
  BY DEF NotSofter, a, s
<1>4. \A x \in Actions : Grade[x] \in Nat
  BY DEF Actions, Grade
<1>5. CASE Reviewed(e, a)
  <2>1. Reviewed(e, s)
    BY <1>2, <1>5 DEF Reviewed
  <2>2. Select(e, a) = "REVIEW" /\ Select(e, s) = "REVIEW"
    BY <1>5, <2>1 DEF Select
  <2> QED BY <2>2 DEF Grade
<1>6. CASE ~Reviewed(e, a)
  <2> DEFINE x == ByRiskOrLabel(e, a)
             y == ByRiskOrLabel(e, s)
  <2>1. /\ Select(e, a) = Downgraded(x, e, a)
        /\ Select(e, s) = Downgraded(y, e, s)
    BY <1>1, <1>2, <1>6 DEF Select, Reviewed, Capped
  <2>2. x \in Actions /\ y \in Actions /\ Grade[x] <= Grade[y]
        /\ (x # y => x # "KICK" /\ y # "KICK")
    <3>1. CASE a.overrides[e.primary] \in Actions
      <4>1. x = a.overrides[e.primary] /\ y = x
        BY <1>2, <3>1 DEF ByRiskOrLabel
      <4>2. x \in Actions
        BY <3>1, <4>1
      <4> HIDE DEF x, y
      <4> QED BY <1>4, <4>1, <4>2
    <3>2. CASE a.overrides[e.primary] \notin Actions
      <4>1. /\ x = ByThreshold(e.risk, a)
            /\ y = ByThreshold(RiskIn(e, s), s)
        BY <1>1, <1>2, <3>2 DEF ByRiskOrLabel, RiskIn
      <4>2. RiskIn(e, s) \in Nat /\ e.risk <= RiskIn(e, s)
        BY <1>1, <1>2, StrictAdjusts
      <4> HIDE DEF x, y
      <4> QED BY <1>1, <1>2, <4>1, <4>2, ByThresholdMonotone
    <3> QED BY <3>1, <3>2
  <2>3. /\ MinConfidence(s) \in Nat /\ MinConfidence(a) \in Nat
        /\ MinConfidence(s) <= MinConfidence(a)
    BY <1>1, <1>2, StrictAdjusts, PolicyNumbers DEF MinConfidence
  <2> HIDE DEF x, y
  <2>4. CASE Downgraded(x, e, a) # x
    <3>1. /\ x \in Destructive /\ Downgraded(x, e, a) = "REVIEW"
          /\ Downgraded(y, e, s) \in {"REVIEW", y}
      BY <2>4 DEF Downgraded
    <3>2. Grade["REVIEW"] <= Grade[x] /\ Grade["REVIEW"] <= Grade["REVIEW"]
      BY <3>1 DEF Destructive, Grade
    <3> QED BY <1>4, <2>1, <2>2, <3>1, <3>2 DEF Actions, Grade
  <2>5. CASE Downgraded(x, e, a) = x /\ Downgraded(y, e, s) = y
    BY <2>1, <2>2, <2>5
  <2>6. CASE Downgraded(x, e, a) = x /\ Downgraded(y, e, s) # y
    <3>1. /\ y \in Destructive /\ Downgraded(y, e, s) = "REVIEW"
          /\ e.confidence < MinConfidence(s) /\ s.reviewLowConfidence
      BY <2>6 DEF Downgraded
    <3>2. x \notin Destructive
      BY <1>2, <2>3, <2>6, <3>1 DEF Downgraded, Destructive
    <3>3. x # "KICK" /\ x # "BAN"
      BY <2>2, <3>1, <3>2 DEF Destructive
    <3>4. x \in {"IGNORE", "LOG", "REVIEW", "WARN"}
      BY <2>2, <3>2, <3>3 DEF Actions, Destructive, Grade
    <3> QED BY <2>1, <2>6, <3>1, <3>4 DEF Grade
  <2> QED BY <2>4, <2>5, <2>6
<1> QED BY <1>3, <1>5, <1>6

\* Harm is named and the mode's limit kept: Harm and Passive together.
THEOREM Judgement == Spec => []JudgementSound
<1>1. HarmNamed /\ PassiveCapped => JudgementSound
  BY DEF JudgementSound
<1>2. QED
  BY <1>1, Harm, Passive, PTL

-----------------------------------------------------------------------------
(* Sums over labels                                                        *)

\* A set of subsets of a finite set that misses something misses a least one:
\* one whose proper subsets it all has.
LEMMA LeastMissing ==
  ASSUME NEW S, IsFiniteSet(S), NEW D \in SUBSET SUBSET S, D # {}
  PROVE  \E t \in D : \A u \in SUBSET t : u # t => u \notin D
<1>1. D \subseteq FiniteSubsetsOf(S)
  BY FS_FiniteSubsetsOfFinite
<1>2. PICK t \in D : \A u \in D : <<u, t>> \notin StrictSubsetOrdering(S)
  BY <1>1, FS_StrictSubsetOrderingWellFounded, WFMin
<1>3. ASSUME NEW u \in SUBSET t, u # t, u \in D
      PROVE  FALSE
  <2>1. <<u, t>> \in StrictSubsetOrdering(S)
    BY <1>3 DEF StrictSubsetOrdering
  <2> QED BY <1>2, <1>3, <2>1
<1> QED BY <1>2, <1>3

\* The member of a set that the sum takes next, what defines the sums of the
\* weights w over the subsets of S, and such sums that are numbers.
Chosen(s) == CHOOSE x \in s : TRUE

Adds(S, w, f) ==
  /\ f[{}] = 0
  /\ \A s \in SUBSET S :
       s # {} => f[s] = w[Chosen(s)] + f[s \ {Chosen(s)}]

Sums(S, w, f) == f \in [SUBSET S -> Int] /\ Adds(S, w, f)

\* It is a member.
LEMMA ChosenIn ==
  ASSUME NEW s, s # {}
  PROVE  Chosen(s) \in s
BY DEF Chosen

\* Whatever member of a set is taken, the sum is its weight and the rest's sum.
LEMMA SumsSplit ==
  ASSUME NEW S, IsFiniteSet(S), NEW w \in [S -> Int], NEW f, Sums(S, w, f),
         NEW s \in SUBSET S, NEW x \in s
  PROVE  f[s] = w[x] + f[s \ {x}]
<1> DEFINE Splits(u) == \A y \in u : f[u] = w[y] + f[u \ {y}]
           D == {u \in SUBSET S : ~Splits(u)}
<1>1. ASSUME NEW t \in D, \A u \in SUBSET t : u # t => u \notin D
      PROVE  FALSE
  <2>1. PICK y \in t : f[t] # w[y] + f[t \ {y}]
    OBVIOUS
  <2> DEFINE z == Chosen(t)
  <2>2. z \in t /\ t \in SUBSET S /\ f[t] = w[z] + f[t \ {z}]
    BY <2>1, ChosenIn DEF Sums, Adds
  <2> HIDE DEF z
  <2>3. y # z
    BY <2>1, <2>2
  <2>4. /\ t \ {z} \in SUBSET t /\ t \ {z} # t /\ t \ {z} \in SUBSET S
        /\ t \ {y} \in SUBSET t /\ t \ {y} # t /\ t \ {y} \in SUBSET S
        /\ y \in t \ {z} /\ z \in t \ {y}
        /\ (t \ {z}) \ {y} = (t \ {y}) \ {z}
        /\ (t \ {z}) \ {y} \in SUBSET S
    BY <2>1, <2>2, <2>3
  <2>5. Splits(t \ {z}) /\ Splits(t \ {y})
    BY <1>1, <2>4
  <2>6. f[t \ {z}] = w[y] + f[(t \ {z}) \ {y}]
    BY <2>4, <2>5
  <2>7. f[t \ {y}] = w[z] + f[(t \ {y}) \ {z}]
    BY <2>4, <2>5
  <2>8. w[y] \in Int /\ w[z] \in Int /\ f[(t \ {z}) \ {y}] \in Int
    BY <2>2, <2>4 DEF Sums, Adds
  <2> DEFINE r == f[(t \ {z}) \ {y}]
             a == f[t \ {z}]
             b == f[t \ {y}]
             c == f[t]
  <2>9. /\ a = w[y] + r /\ b = w[z] + r /\ r \in Int /\ c = w[z] + a
        /\ c # w[y] + b
    BY <2>1, <2>2, <2>4, <2>6, <2>7, <2>8
  <2> HIDE DEF r, a, b, c
  <2> QED BY <2>8, <2>9
<1>2. D = {}
  <2> HIDE DEF Splits
  <2>1. D \in SUBSET SUBSET S
    OBVIOUS
  <2> HIDE DEF D
  <2> QED BY <1>1, <2>1, LeastMissing
<1>3. Splits(s)
  <2> HIDE DEF Splits
  <2> QED BY <1>2
<1> QED BY <1>3

\* Adding labels, or weight to them, lowers no sum of weights not negative.
LEMMA SumsMonotone ==
  ASSUME NEW S, NEW T, IsFiniteSet(T), S \subseteq T,
         NEW w \in [S -> Nat], NEW v \in [T -> Nat],
         \A x \in S : w[x] <= v[x],
         NEW f, Sums(S, w, f), NEW g, Sums(T, v, g)
  PROVE  f[S] <= g[T] /\ f[S] \in Nat
<1>0. IsFiniteSet(S) /\ w \in [S -> Int] /\ v \in [T -> Int]
  BY FS_Subset
<1> DEFINE Less(u) == f[u \cap S] <= g[u] /\ f[u \cap S] \in Nat
           D == {u \in SUBSET T : ~Less(u)}
<1>1. ASSUME NEW t \in D, \A u \in SUBSET t : u # t => u \notin D
      PROVE  FALSE
  <2>1. f[{}] = 0 /\ g[{}] = 0
    BY DEF Sums, Adds
  <2>2. t # {}
    <3>1. Less({})
      <4>1. {} \cap S = {}
        OBVIOUS
      <4> QED BY <2>1, <4>1
    <3> QED BY <3>1
  <2>3. PICK x \in t : TRUE
    BY <2>2
  <2>4. t \ {x} \in SUBSET t /\ t \ {x} # t /\ t \ {x} \in SUBSET T
        /\ t \in SUBSET T /\ x \in T
    BY <2>3
  <2>5. Less(t \ {x})
    BY <1>1, <2>4
  <2>6. g[t] = v[x] + g[t \ {x}]
    BY <1>0, <2>3, <2>4, SumsSplit
  <2>7. g[t \ {x}] \in Int /\ v[x] \in Nat /\ g[t] \in Int
    BY <2>4 DEF Sums, Adds
  <2>8. CASE x \in S
    <3>1. /\ (t \cap S) \ {x} = (t \ {x}) \cap S
          /\ x \in t \cap S /\ t \cap S \in SUBSET S
      <4>1. x \in t /\ x \in S
        BY <2>3, <2>8
      <4>2. (t \cap S) \ {x} = (t \ {x}) \cap S
        OBVIOUS
      <4>3. x \in t \cap S /\ t \cap S \in SUBSET S
        BY ONLY <4>1
      <4> QED BY ONLY <4>2, <4>3
    <3>2. f[t \cap S] = w[x] + f[(t \cap S) \ {x}]
      <4> DEFINE r == t \cap S
      <4>1. IsFiniteSet(S) /\ w \in [S -> Int]
        BY <1>0
      <4>2. r \in SUBSET S /\ x \in r
        BY <3>1
      <4> HIDE DEF r
      <4>3. f[r] = w[x] + f[r \ {x}]
        BY <4>1, <4>2, SumsSplit
      <4> QED BY <4>3 DEF r
    <3>3. w[x] \in Nat /\ w[x] <= v[x]
      BY <2>8
    <3> DEFINE a == f[(t \ {x}) \cap S]
               b == g[t \ {x}]
               c == f[t \cap S]
               d == g[t]
    <3>4. /\ a \in Nat /\ b \in Int /\ a <= b /\ c = w[x] + a /\ d = v[x] + b
      BY <2>5, <2>6, <2>7, <3>1, <3>2
    <3> HIDE DEF a, b, c, d
    <3>5. c <= d /\ c \in Nat
      BY <2>7, <3>3, <3>4
    <3> QED BY <3>5 DEF c, d
  <2>9. CASE x \notin S
    <3>1. t \cap S = (t \ {x}) \cap S
      BY <2>9
    <3> DEFINE a == f[(t \ {x}) \cap S]
               b == g[t \ {x}]
    <3>2. a \in Nat /\ b \in Int /\ a <= b /\ f[t \cap S] = a
          /\ g[t] = v[x] + b
      BY <2>5, <2>6, <2>7, <3>1
    <3> HIDE DEF a, b
    <3>3. a <= v[x] + b
      BY <2>7, <3>2
    <3> QED BY <3>2, <3>3
  <2> QED BY <2>8, <2>9
<1>2. D = {}
  <2> HIDE DEF Less
  <2>1. D \in SUBSET SUBSET T
    OBVIOUS
  <2> HIDE DEF D
  <2> QED BY <1>1, <2>1, LeastMissing
<1>3. Less(T) /\ T \cap S = S
  <2>1. Less(T)
    <3> HIDE DEF Less
    <3> QED BY <1>2
  <2> QED BY <2>1
<1> QED BY <1>3

\* The sums are unique: those over a larger set agree with those over a smaller.
LEMMA SumsAgree ==
  ASSUME NEW S, NEW T, IsFiniteSet(S), S \subseteq T, NEW w,
         NEW f, Adds(S, w, f), NEW g, Adds(T, w, g), NEW s \in SUBSET S
  PROVE  f[s] = g[s]
<1> DEFINE D == {u \in SUBSET S : f[u] # g[u]}
<1>1. ASSUME NEW t \in D, \A u \in SUBSET t : u # t => u \notin D
      PROVE  FALSE
  <2>1. t \in SUBSET S /\ t \in SUBSET T /\ f[t] # g[t] /\ t # {}
    BY DEF Adds
  <2> DEFINE z == Chosen(t)
  <2>2. z \in t /\ t \ {z} \in SUBSET t /\ t \ {z} # t /\ t \ {z} \in SUBSET S
    BY <2>1, ChosenIn
  <2>3. f[t] = w[z] + f[t \ {z}] /\ g[t] = w[z] + g[t \ {z}]
    BY <2>1 DEF Adds
  <2>4. f[t \ {z}] = g[t \ {z}]
    BY <1>1, <2>2
  <2> QED BY <2>1, <2>3, <2>4
<1>2. D = {}
  <2>1. D \in SUBSET SUBSET S
    OBVIOUS
  <2> HIDE DEF D
  <2> QED BY <1>1, <2>1, LeastMissing
<1> QED BY <1>2

\* There are such sums ...
LEMMA SumsExist ==
  ASSUME NEW S, IsFiniteSet(S), NEW w \in [S -> Int]
  PROVE  \E f : Sums(S, w, f)
<1> DEFINE Has(u) == \E f : Sums(u, w, f)
           D == {u \in SUBSET S : ~Has(u)}
<1>1. ASSUME NEW t \in D, \A u \in SUBSET t : u # t => u \notin D
      PROVE  FALSE
  <2>1. t \in SUBSET S /\ \A u \in SUBSET t : u # t => Has(u)
    BY <1>1
  <2>2. t # {}
    <3>1. Sums({}, w, [u \in SUBSET {} |-> 0])
      BY DEF Sums, Adds
    <3> QED BY <3>1
  <2> DEFINE F(u) == CHOOSE f : Sums(u, w, f)
             z == Chosen(t)
             g == [u \in SUBSET t |->
                     IF u = t THEN w[z] + F(t \ {z})[t \ {z}] ELSE F(u)[u]]
  <2>3. \A u \in SUBSET t : u # t => Sums(u, w, F(u))
    BY <2>1
  <2>4. z \in t /\ t \ {z} \in SUBSET t /\ t \ {z} # t /\ w[z] \in Int
    BY <2>1, <2>2, ChosenIn
  <2> HIDE DEF F, z
  <2>5. \A u \in SUBSET t : u # t => F(u)[u] \in Int
    BY <2>3 DEF Sums, Adds
  <2>6. g \in [SUBSET t -> Int]
    BY <2>4, <2>5
  <2>7. g[{}] = 0
    <3>1. {} \in SUBSET t /\ {} # t
      BY <2>2
    <3>2. F({})[{}] = 0
      BY <2>3, <3>1 DEF Sums, Adds
    <3> QED BY <3>1, <3>2
  <2>8. ASSUME NEW u \in SUBSET t, u # {}
        PROVE  g[u] = w[Chosen(u)] + g[u \ {Chosen(u)}]
    <3> DEFINE y == Chosen(u)
               v == u \ {y}
    <3>1. y \in u /\ v \in SUBSET u /\ v # u /\ v # t /\ v \in SUBSET t
      BY <2>8, ChosenIn
    <3>2. g[v] = F(v)[v]
      BY <3>1
    <3>3. CASE u = t
      BY <3>2, <3>3, <3>1 DEF z
    <3>4. CASE u # t
      <4>1. g[u] = F(u)[u]
        BY <3>4
      <4>2. Sums(u, w, F(u)) /\ Sums(v, w, F(v))
        BY <2>3, <3>1, <3>4
      <4>3. F(u)[u] = w[y] + F(u)[v]
        BY <2>8, <4>2 DEF Sums, Adds
      <4>4. F(u)[v] = F(v)[v]
        <5>2. IsFiniteSet(v)
          BY <2>1, <3>1, FS_Subset
        <5>3. v \in SUBSET v /\ v \subseteq u
          BY <3>1
        <5> DEFINE p == F(v)
                   q == F(u)
        <5>4. Adds(v, w, p) /\ Adds(u, w, q)
          BY <4>2 DEF Sums
        <5> HIDE DEF v, p, q
        <5>5. p[v] = q[v]
          BY ONLY <5>2, <5>3, <5>4, SumsAgree
        <5> QED BY <5>5 DEF p, q
      <4> QED BY <3>2, <4>1, <4>3, <4>4
    <3> QED BY <3>3, <3>4
  <2>9. Sums(t, w, g)
    <3> HIDE DEF g
    <3> QED BY <2>6, <2>7, <2>8 DEF Sums, Adds
  <2> QED BY <2>1, <2>9
<1>2. D = {}
  <2> HIDE DEF Has
  <2>1. D \in SUBSET SUBSET S
    OBVIOUS
  <2> HIDE DEF D
  <2> QED BY <1>1, <2>1, LeastMissing
<1>3. Has(S)
  <2> HIDE DEF Has
  <2> QED BY <1>2
<1> QED BY <1>3

\* ... and RawRisk adds up the labels' contributions by them.
Total(ss) == Ext!MapThenSumSet(LAMBDA l : OfLabel(ss, l), LabelsOf(ss))

LEMMA TotalIs ==
  ASSUME NEW ss, IsFiniteSet(LabelsOf(ss)), NEW w \in [LabelsOf(ss) -> Int],
         \A l \in LabelsOf(ss) : w[l] = OfLabel(ss, l),
         NEW f, Sums(LabelsOf(ss), w, f)
  PROVE  Total(ss) = f[LabelsOf(ss)]
<1> DEFINE L == LabelsOf(ss)
           Body(g) == [s \in SUBSET L |->
                         IF s = {} THEN 0
                         ELSE OfLabel(ss, CHOOSE x \in s : TRUE)
                                + g[s \ {CHOOSE x \in s : TRUE}]]
           iter == CHOOSE g : g = Body(g)
<1>1. f = Body(f)
  <2>1. ASSUME NEW s \in SUBSET L, s # {}
        PROVE  f[s] = OfLabel(ss, CHOOSE x \in s : TRUE)
                        + f[s \ {CHOOSE x \in s : TRUE}]
    BY <2>1 DEF Sums, Adds, Chosen
  <2>2. f[{}] = 0 /\ f = [s \in SUBSET L |-> f[s]]
    BY DEF Sums, Adds
  <2> HIDE DEF L
  <2> QED BY <2>1, <2>2
<1>2. iter = Body(iter)
  <2> HIDE DEF Body
  <2> QED BY <1>1, ZenonT(30)
<1> HIDE DEF iter
<1>3. Adds(L, w, iter)
  <2>1. {} \in SUBSET L /\ iter[{}] = 0
    <3> HIDE DEF L
    <3> QED BY <1>2
  <2>2. ASSUME NEW s \in SUBSET L, s # {}
        PROVE  iter[s] = w[Chosen(s)] + iter[s \ {Chosen(s)}]
    <3>1. iter[s] = OfLabel(ss, CHOOSE x \in s : TRUE)
                      + iter[s \ {CHOOSE x \in s : TRUE}]
      <4> HIDE DEF L
      <4> QED BY <1>2, <2>2
    <3>2. Chosen(s) \in L
      BY <2>2, ChosenIn
    <3> QED BY <3>1, <3>2 DEF Chosen
  <2> HIDE DEF L
  <2> QED BY <2>1, <2>2 DEF Adds
<1>4. iter[L] = f[L]
  <2>1. Adds(L, w, f) /\ L \in SUBSET L /\ L \subseteq L /\ IsFiniteSet(L)
    BY DEF Sums
  <2> HIDE DEF L
  <2> QED BY ONLY <1>3, <2>1, SumsAgree
<1> QED BY <1>4 DEF Total, iter, Ext!MapThenSumSet, Ext!MapThenFoldSet

-----------------------------------------------------------------------------
(* The risk                                                                *)

\* The parts of a rule policy that the risk is computed from.
LEMMA RulesRange ==
  ASSUME rules \in Rules
  PROVE  /\ rules.floor \in 0..MaxRisk /\ rules.ceiling \in 0..MaxRisk
         /\ rules.floor <= rules.ceiling
<1>1. rules \in RulesType /\ rules.floor <= rules.ceiling
  BY PoliciesAssumption
<1>2. rules.floor \in 0..MaxRisk
  BY <1>1 DEF RulesType
<1>3. rules.ceiling \in 0..MaxRisk
  BY <1>1 DEF RulesType
<1> QED BY <1>1, <1>2, <1>3

\* The weights and factors ...
LEMMA RulesFactors ==
  ASSUME rules \in Rules
  PROVE  /\ rules.labelWeight \in [Labels -> Nat]
         /\ rules.sourceWeight \in [Sources -> Nat]
         /\ rules.severityFactor \in [0..5 -> Int]
<1>1. rules \in RulesType
  BY PoliciesAssumption
<1>3. rules.labelWeight \in [Labels -> Nat]
  BY <1>1 DEF RulesType
<1>4. rules.sourceWeight \in [Sources -> Nat]
  BY <1>1 DEF RulesType
<1>5. rules.severityFactor \in [0..5 -> Int]
  BY <1>1 DEF RulesType
<1> QED BY <1>3, <1>4, <1>5

\* ... and the options.
LEMMA RulesOptions ==
  ASSUME rules \in Rules
  PROVE  /\ rules.agreement \in [enabled : BOOLEAN, bonus : Nat, penalty : Nat,
                                 high : Hundredths]
         /\ rules.userRisk \in [enabled : BOOLEAN,
                                factor : [Facts -> Nat \ 0..99],
                                max : Nat \ 0..99]
         /\ rules.phishing \in [enabled : BOOLEAN, confidence : Hundredths,
                                severity : 0..5, weight : Nat]
<1>1. rules \in RulesType
  BY PoliciesAssumption
<1>6. rules.agreement \in [enabled : BOOLEAN, bonus : Nat, penalty : Nat,
                           high : Hundredths]
  BY <1>1 DEF RulesType
<1>7. rules.userRisk \in [enabled : BOOLEAN, factor : [Facts -> Nat \ 0..99],
                          max : Nat \ 0..99]
  BY <1>1 DEF RulesType
<1>8. rules.phishing \in [enabled : BOOLEAN, confidence : Hundredths,
                          severity : 0..5, weight : Nat]
  BY <1>1 DEF RulesType
<1> QED BY <1>6, <1>7, <1>8

\* A product by a factor has the sign of the two ...
LEMMA TimesType ==
  ASSUME NEW x \in Int, NEW y \in Int
  PROVE  Times(x, y) \in Int /\ (x >= 0 /\ y >= 0 => Times(x, y) \in Nat)
         /\ (x <= 0 /\ y >= 0 => Times(x, y) <= 0)
         /\ (x >= 0 /\ y <= 0 => Times(x, y) <= 0)
<1> DEFINE z == x * y
<1>1. /\ z \in Int /\ (x >= 0 /\ y >= 0 => z >= 0)
      /\ (x <= 0 /\ y >= 0 => z <= 0) /\ (x >= 0 /\ y <= 0 => z <= 0)
  OBVIOUS
<1> HIDE DEF z
<1>2. z \div 100 \in Int /\ (z >= 0 => z \div 100 >= 0)
      /\ (z <= 0 => z \div 100 <= 0)
  BY <1>1
<1> QED BY <1>1, <1>2 DEF Times, z

\* The cases in use, one by one.
LEMMA TimesNegative ==
  ASSUME NEW x \in Int, NEW y \in Int,
         (x <= 0 /\ y >= 0) \/ (x >= 0 /\ y <= 0)
  PROVE  Times(x, y) <= 0
BY TimesType

LEMMA TimesInt ==
  ASSUME NEW x \in Int, NEW y \in Int
  PROVE  Times(x, y) \in Int
BY TimesType

LEMMA TimesNat ==
  ASSUME NEW x \in Nat, NEW y \in Nat
  PROVE  Times(x, y) \in Nat
BY TimesType

\* ... and keeps the order of what is multiplied.
LEMMA TimesMonotone ==
  ASSUME NEW x \in Int, NEW y \in Int, x <= y, NEW f \in Nat
  PROVE  Times(x, f) <= Times(y, f)
<1> DEFINE a == x * f
           b == y * f
<1>1. a \in Int /\ b \in Int /\ a <= b
  OBVIOUS
<1> HIDE DEF a, b
<1>2. a \div 100 <= b \div 100
  BY <1>1
<1> QED BY <1>2 DEF Times, a, b

\* The clamp gives a risk and keeps the order.
LEMMA ClampedKeeps ==
  ASSUME rules \in Rules, NEW x \in Int, NEW y \in Int, x <= y
  PROVE  /\ Clamped(x) \in 0..MaxRisk /\ Clamped(y) \in 0..MaxRisk
         /\ Clamped(x) <= Clamped(y)
         /\ x <= 0 => Clamped(x) = rules.floor
         /\ rules.floor <= Clamped(y)
<1>0. MaxRisk \in Nat
  BY DEF MaxRisk
<1>1. /\ rules.floor \in Int /\ 0 <= rules.floor
      /\ rules.ceiling \in Int /\ rules.ceiling <= MaxRisk
      /\ rules.floor <= rules.ceiling
  BY <1>0, RulesRange
<1> QED BY <1>0, <1>1 DEF Clamped, Greater, Lesser

\* The fields of a signal.
LEMMA SignalTyped ==
  ASSUME NEW s \in SignalType
  PROVE  /\ s.source \in Sources /\ s.label \in Labels
         /\ s.confidence \in 0..100 /\ s.severity \in 0..5 /\ s.weight \in Nat
BY DEF SignalType, Hundredths

\* What a signal contributes is a number, negative when a factor is.
LEMMA ContributionType ==
  ASSUME rules \in Rules, NEW s \in SignalType
  PROVE  Contribution(s) \in Int
<1> DEFINE weight == Greater(rules.labelWeight[s.label], s.weight)
           x == weight * s.confidence
           f == rules.sourceWeight[s.source]
           g == rules.severityFactor[s.severity]
<1>1. weight \in Int /\ s.confidence \in Int /\ f \in Int /\ g \in Int
  BY RulesFactors, SignalTyped DEF Greater
<1>2. x \in Int
  <2> HIDE DEF weight
  <2> QED BY <1>1
<1> HIDE DEF x, f, g
<1>3. Times(x, f) \in Int
  BY <1>1, <1>2, TimesType
<1>4. Times(Times(x, f), g) \in Int
  BY <1>1, <1>3, TimesType
<1> QED BY <1>4 DEF Contribution, x, f, g

\* The greatest element, if there is one, is what Max chooses.
LEMMA MaxIs ==
  ASSUME NEW S \in SUBSET Int, NEW i \in S, \A j \in S : i >= j
  PROVE  Ext!Max(S) = i
<1>1. ASSUME NEW k \in S, \A j \in S : k >= j
      PROVE  k = i
  <2>1. k >= i /\ i >= k /\ k \in Int /\ i \in Int
    BY <1>1
  <2> QED BY <2>1
<1> QED BY <1>1 DEF Ext!Max

\* A finite set has one.
LEMMA MaxIn ==
  ASSUME NEW S \in SUBSET Int, IsFiniteSet(S), S # {}
  PROVE  Ext!Max(S) \in S /\ \A j \in S : Ext!Max(S) >= j
<1>1. PICK i \in S : \A j \in S : i >= j
  BY GreatestExists
<1>2. Ext!Max(S) = i
  BY <1>1, MaxIs
<1> QED BY <1>1, <1>2

\* What the positions of a list are mapped to is a finite set.
LEMMA ImageFinite ==
  ASSUME NEW n \in Nat, NEW f, NEW T, f \in [1..n -> T]
  PROVE  IsFiniteSet({f[i] : i \in 1..n})
<1>1. f \in Surjection(1..n, {f[i] : i \in 1..n})
  BY DEF Surjection
<1>2. IsFiniteSet(1..n)
  BY FS_Interval
<1> QED BY <1>1, <1>2, FS_Surjection

\* The labels of the evidence are finitely many.
LEMMA LabelsFinite ==
  ASSUME NEW ss \in Seq(SignalType)
  PROVE  IsFiniteSet(LabelsOf(ss)) /\ LabelsOf(ss) \subseteq Labels
<1> DEFINE f == [i \in 1..Len(ss) |-> ss[i].label]
<1>1. \A i \in 1..Len(ss) : ss[i].label \in Labels
  BY SignalTyped
<1>2. f \in [1..Len(ss) -> Labels] /\ Len(ss) \in Nat
  BY <1>1
<1>3. LabelsOf(ss) = {f[i] : i \in 1..Len(ss)}
  BY DEF LabelsOf
<1>4. IsFiniteSet(LabelsOf(ss))
  <2> HIDE DEF f
  <2> QED BY <1>2, <1>3, ImageFinite
<1>5. LabelsOf(ss) \subseteq Labels
  BY <1>1 DEF LabelsOf
<1> QED BY <1>4, <1>5

\* What a label contributes is its strongest signal's contribution, at least 0.
LEMMA OfLabelIs ==
  ASSUME rules \in Rules, NEW ss \in Seq(SignalType), NEW l
  PROVE  /\ OfLabel(ss, l) \in Nat
         /\ \A i \in DOMAIN ss :
              ss[i].label = l => Contribution(ss[i]) <= OfLabel(ss, l)
         /\ \/ OfLabel(ss, l) = 0
            \/ \E i \in DOMAIN ss :
                 ss[i].label = l /\ OfLabel(ss, l) = Contribution(ss[i])
<1> DEFINE all == {Contribution(ss[i]) :
                     i \in {j \in DOMAIN ss : ss[j].label = l}}
           S == {0} \cup all
           f == [i \in 1..Len(ss) |-> Contribution(ss[i])]
<1>1. \A i \in 1..Len(ss) : Contribution(ss[i]) \in Int
  BY ContributionType
<1>2. S \in SUBSET Int /\ 0 \in S
  BY <1>1
<1>3. IsFiniteSet(S)
  <2>1. f \in [1..Len(ss) -> Int] /\ Len(ss) \in Nat
    BY <1>1
  <2> DEFINE images == {f[i] : i \in 1..Len(ss)}
  <2>2. IsFiniteSet(images)
    <3> HIDE DEF f
    <3> QED BY <2>1, ImageFinite
  <2>3. S \subseteq images \cup {0}
    OBVIOUS
  <2>4. IsFiniteSet(images \cup {0})
    <3> HIDE DEF images
    <3> QED BY <2>2, FS_AddElement
  <2> HIDE DEF S, images
  <2> QED BY <2>3, <2>4, FS_Subset
<1>4. Ext!Max(S) \in S /\ \A j \in S : Ext!Max(S) >= j
  <2> HIDE DEF S
  <2> QED BY <1>2, <1>3, MaxIn
<1>5. OfLabel(ss, l) = Ext!Max(S)
  BY DEF OfLabel
<1> DEFINE m == OfLabel(ss, l)
<1>6. m \in S /\ \A j \in S : m >= j
  BY <1>4, <1>5
<1> HIDE DEF m
<1>7. m \in Nat
  BY <1>2, <1>6
<1>8. ASSUME NEW i \in DOMAIN ss, ss[i].label = l
      PROVE  Contribution(ss[i]) <= m
  <2>1. Contribution(ss[i]) \in S /\ i \in 1..Len(ss)
    BY <1>8
  <2> HIDE DEF S
  <2> QED BY <1>1, <1>6, <1>7, <2>1
<1>9. m = 0 \/ \E i \in DOMAIN ss : ss[i].label = l /\ m = Contribution(ss[i])
  BY <1>6
<1> QED BY <1>7, <1>8, <1>9 DEF m

\* What evidence more than ss there is, follows it.
LEMMA Followed ==
  ASSUME NEW A, NEW ss \in Seq(A), NEW tt \in Seq(A)
  PROVE  /\ ss \o tt \in Seq(A) /\ Len(ss \o tt) = Len(ss) + Len(tt)
         /\ Len(ss) \in Nat /\ Len(tt) \in Nat
         /\ DOMAIN ss \subseteq DOMAIN (ss \o tt)
         /\ \A i \in DOMAIN ss : (ss \o tt)[i] = ss[i]
         /\ \A i \in DOMAIN (ss \o tt) :
              i \notin DOMAIN ss =>
                \E j \in DOMAIN tt : (ss \o tt)[i] = tt[j]
<1>1. /\ ss \o tt \in Seq(A) /\ Len(ss \o tt) = Len(ss) + Len(tt)
      /\ Len(ss) \in Nat /\ Len(tt) \in Nat
  OBVIOUS
<1>2. \A i \in DOMAIN ss : (ss \o tt)[i] = ss[i]
  OBVIOUS
<1>3. ASSUME NEW i \in DOMAIN (ss \o tt), i \notin DOMAIN ss
      PROVE  \E j \in DOMAIN tt : (ss \o tt)[i] = tt[j]
  <2>1. i - Len(ss) \in DOMAIN tt /\ (ss \o tt)[i] = tt[i - Len(ss)]
    BY <1>1, <1>3
  <2> QED BY <2>1
<1>4. DOMAIN ss \subseteq DOMAIN (ss \o tt)
  BY <1>1
<1> QED BY <1>1, <1>2, <1>3, <1>4

\* More evidence does not lower what a label contributes.
LEMMA OfLabelMore ==
  ASSUME rules \in Rules, NEW ss \in Seq(SignalType),
         NEW tt \in Seq(SignalType), NEW l
  PROVE  OfLabel(ss, l) <= OfLabel(ss \o tt, l)
<1> DEFINE all == ss \o tt
<1>1. /\ all \in Seq(SignalType)
      /\ \A i \in DOMAIN ss : i \in DOMAIN all /\ all[i] = ss[i]
  BY Followed
<1> HIDE DEF all
<1>2. OfLabel(ss, l) \in Nat /\ OfLabel(all, l) \in Nat
  BY <1>1, OfLabelIs
<1>3. CASE OfLabel(ss, l) = 0
  BY <1>2, <1>3 DEF all
<1>4. ASSUME NEW i \in DOMAIN ss, ss[i].label = l,
             OfLabel(ss, l) = Contribution(ss[i])
      PROVE  OfLabel(ss, l) <= OfLabel(all, l)
  <2>1. i \in DOMAIN all /\ all[i] = ss[i]
    BY <1>1
  <2>2. Contribution(all[i]) <= OfLabel(all, l)
    BY <1>1, <1>4, <2>1, OfLabelIs
  <2> QED BY <1>4, <2>1, <2>2
<1>5. OfLabel(ss, l) = 0 \/ \E i \in DOMAIN ss :
        ss[i].label = l /\ OfLabel(ss, l) = Contribution(ss[i])
  BY OfLabelIs
<1> QED BY <1>3, <1>4, <1>5 DEF all

\* More evidence does not lower the sum.
LEMMA TotalMore ==
  ASSUME rules \in Rules, NEW ss \in Seq(SignalType),
         NEW tt \in Seq(SignalType)
  PROVE  /\ Total(ss) \in Nat /\ Total(ss \o tt) \in Int
         /\ Total(ss) <= Total(ss \o tt)
<1> DEFINE all == ss \o tt
           S == LabelsOf(ss)
           T == LabelsOf(all)
           w == [l \in S |-> OfLabel(ss, l)]
           v == [l \in T |-> OfLabel(all, l)]
<1>1. /\ all \in Seq(SignalType)
      /\ \A i \in DOMAIN ss : i \in DOMAIN all /\ all[i] = ss[i]
  BY Followed
<1>2. \A l \in S : OfLabel(ss, l) <= OfLabel(all, l)
  BY OfLabelMore
<1> HIDE DEF all
<1>3. IsFiniteSet(S) /\ IsFiniteSet(T)
  BY <1>1, LabelsFinite
<1>4. S \subseteq T
  BY <1>1 DEF LabelsOf
<1>5. w \in [S -> Nat] /\ v \in [T -> Nat]
  <2>1. \A l : OfLabel(ss, l) \in Nat /\ OfLabel(all, l) \in Nat
    BY <1>1, OfLabelIs
  <2> QED BY <2>1
<1>6. \A l \in S : w[l] <= v[l]
  BY <1>2, <1>4
<1>7. /\ w \in [S -> Int] /\ v \in [T -> Int]
      /\ \A l \in S : w[l] = OfLabel(ss, l)
      /\ \A l \in T : v[l] = OfLabel(all, l)
  BY <1>5
<1> HIDE DEF w, v
<1>8. PICK f : Sums(S, w, f)
  BY <1>3, <1>7, SumsExist
<1>9. PICK g : Sums(T, v, g)
  BY <1>3, <1>7, SumsExist
<1>10. Total(ss) = f[S] /\ Total(all) = g[T]
  BY <1>3, <1>7, <1>8, <1>9, TotalIs
<1>11. f[S] <= g[T] /\ f[S] \in Nat
  <2> HIDE DEF S, T
  <2> QED BY <1>3, <1>4, <1>5, <1>6, <1>8, <1>9, SumsMonotone
<1>12. g[T] \in Int
  BY <1>9 DEF Sums
<1> QED BY <1>10, <1>11, <1>12 DEF all

\* The risk before the factors is one, and more evidence does not lower it.
LEMMA RawRiskMore ==
  ASSUME rules \in Rules, NEW ss \in Seq(SignalType),
         NEW tt \in Seq(SignalType)
  PROVE  /\ RawRisk(ss) \in 0..MaxRisk /\ RawRisk(ss \o tt) \in 0..MaxRisk
         /\ RawRisk(ss) <= RawRisk(ss \o tt)
<1> DEFINE a == Total(ss)
           b == Total(ss \o tt)
<1>1. a \in Int /\ b \in Int /\ a <= b
  BY TotalMore
<1>2. /\ RawRisk(ss) = IF ss = <<>> THEN 0 ELSE Clamped(a)
      /\ RawRisk(ss \o tt) = IF ss \o tt = <<>> THEN 0 ELSE Clamped(b)
  BY DEF RawRisk, Total
<1>3. ss \o tt = <<>> => ss = <<>>
  OBVIOUS
<1> HIDE DEF a, b
<1>4. /\ Clamped(a) \in 0..MaxRisk /\ Clamped(b) \in 0..MaxRisk
      /\ Clamped(a) <= Clamped(b)
  BY <1>1, ClampedKeeps
<1>5. MaxRisk \in Nat
  BY DEF MaxRisk
<1> QED BY <1>2, <1>3, <1>4, <1>5

\* Evidence that no model gave does not change what the models said.
LEMMA ModelsUnmoved ==
  ASSUME rules \in Rules, NEW ss \in Seq(SignalType),
         NEW tt \in Seq(SignalType), Unheard(tt), NEW m \in ModelSources
  PROVE  LabelOfModel(ss \o tt, m) = LabelOfModel(ss, m)
<1> DEFINE all == ss \o tt
           At(uu) == {i \in DOMAIN uu :
                        /\ uu[i].source = m
                        /\ uu[i].confidence >= rules.agreement.high}
<1>1. /\ all \in Seq(SignalType)
      /\ \A i \in DOMAIN ss : i \in DOMAIN all /\ all[i] = ss[i]
      /\ \A i \in DOMAIN all :
           i \notin DOMAIN ss => \E j \in DOMAIN tt : all[i] = tt[j]
  BY Followed
<1> HIDE DEF all
<1>2. At(all) = At(ss)
  <2>1. \A j \in DOMAIN tt : tt[j].source # m
    BY DEF Unheard
  <2>2. At(ss) \subseteq At(all)
    BY <1>1
  <2>3. At(all) \subseteq At(ss)
    BY <1>1, <2>1
  <2> QED BY <2>2, <2>3
<1>3. /\ LabelOfModel(all, m) = IF At(all) = {} THEN "none"
                                ELSE all[Ext!Max(At(all))].label
      /\ LabelOfModel(ss, m) = IF At(ss) = {} THEN "none"
                               ELSE ss[Ext!Max(At(ss))].label
  BY DEF LabelOfModel
<1>4. ASSUME At(ss) # {}
      PROVE  Ext!Max(At(ss)) \in DOMAIN ss
  <2>1. At(ss) \in SUBSET (1..Len(ss)) /\ At(ss) \in SUBSET Int
        /\ Len(ss) \in Nat
    OBVIOUS
  <2>2. IsFiniteSet(1..Len(ss))
    BY <2>1, FS_Interval
  <2> HIDE DEF At
  <2>3. IsFiniteSet(At(ss))
    BY ONLY <2>1, <2>2, FS_Subset
  <2>4. Ext!Max(At(ss)) \in At(ss)
    BY <1>4, <2>1, <2>3, MaxIn
  <2> QED BY <2>4 DEF At
<1> HIDE DEF At
<1>5. LabelOfModel(all, m) = LabelOfModel(ss, m)
  BY <1>1, <1>2, <1>3, <1>4
<1> QED BY <1>5 DEF all

\* ... hence neither how far they agree.
LEMMA AgreementMore ==
  ASSUME rules \in Rules, NEW ss \in Seq(SignalType),
         NEW tt \in Seq(SignalType), Unheard(tt)
  PROVE  Agreement(ss \o tt) = Agreement(ss)
<1> DEFINE all == ss \o tt
<1>1. \A m \in ModelSources : LabelOfModel(all, m) = LabelOfModel(ss, m)
  BY ModelsUnmoved
<1> HIDE DEF all
<1>2. Opinions(all) = Opinions(ss)
  BY <1>1 DEF Opinions
<1>3. Judged(all) <=> Judged(ss)
  BY <1>1 DEF Judged
<1>4. Disagreed(all) <=> Disagreed(ss)
  BY <1>2, <1>3 DEF Disagreed
<1> QED BY <1>3, <1>4 DEF Agreement, all

\* The factor of agreement is a number, which a great penalty makes negative.
LEMMA AgreementType ==
  ASSUME rules \in Rules, NEW ss
  PROVE  Agreement(ss) \in Int
<1>1. rules.agreement.bonus \in Int /\ rules.agreement.penalty \in Int
  BY RulesOptions
<1> QED BY <1>1 DEF Agreement

\* What is known of the author does not make the factor negative.
LEMMA UserRiskType ==
  ASSUME rules \in Rules, NEW fs \in SUBSET Facts
  PROVE  UserRisk(fs) \in Nat
<1> DEFINE f(x) == FactorOf(fs, x)
           a == Times(f("newAccount"), f("newMember"))
           b == Times(a, f("repeated"))
           c == Times(b, f("escalated"))
<1>1. \A x \in Facts : f(x) \in Nat
  <2>1. rules.userRisk.factor \in [Facts -> Nat \ 0..99]
    BY RulesOptions
  <2> QED BY <2>1 DEF FactorOf
<1>2. /\ f("newAccount") \in Nat /\ f("newMember") \in Nat
      /\ f("repeated") \in Nat /\ f("escalated") \in Nat
  BY <1>1 DEF Facts
<1> HIDE DEF f
<1>3. a \in Nat
  BY <1>2, TimesNat
<1> HIDE DEF a
<1>4. b \in Nat
  BY <1>2, <1>3, TimesNat
<1> HIDE DEF b
<1>5. c \in Nat
  BY <1>2, <1>4, TimesNat
<1>6. rules.userRisk.max \in Nat
  BY RulesOptions
<1>7. UserRisk(fs) = IF ~rules.userRisk.enabled THEN 100
                     ELSE Lesser(rules.userRisk.max, c)
  BY DEF UserRisk, a, b, c, f
<1> HIDE DEF c
<1> QED BY <1>5, <1>6, <1>7 DEF Lesser

\* The risk is one, and evidence that no model gave does not lower it: a
\* factor below 0, if the policy has one, leaves the least risk to both.
LEMMA RiskMore ==
  ASSUME rules \in Rules, NEW fs \in SUBSET Facts, NEW ss \in Seq(SignalType),
         NEW tt \in Seq(SignalType), Unheard(tt)
  PROVE  /\ Risk(ss, fs) \in 0..MaxRisk
         /\ Risk(ss, fs) <= Risk(ss \o tt, fs)
<1> DEFINE a == RawRisk(ss)
           b == RawRisk(ss \o tt)
           g == Agreement(ss)
           u == UserRisk(fs)
           x == Times(a, g)
           y == Times(b, g)
           v == Times(x, u)
           w == Times(y, u)
<1>1. Risk(ss, fs) = Clamped(v) /\ Risk(ss \o tt, fs) = Clamped(w)
  BY AgreementMore DEF Risk
<1>2. a \in Nat /\ b \in Nat /\ a <= b /\ a \in Int /\ b \in Int
  BY RawRiskMore
<1>3. g \in Int /\ u \in Nat /\ u \in Int
  BY AgreementType, UserRiskType
<1> HIDE DEF a, b, g, u
<1>4. /\ x \in Int /\ y \in Int /\ (g >= 0 => x <= y)
      /\ (g < 0 => x <= 0 /\ y <= 0)
  <2>1. Times(a, g) \in Int /\ Times(b, g) \in Int
    BY <1>2, <1>3, TimesInt
  <2>2. ASSUME g < 0 PROVE Times(a, g) <= 0 /\ Times(b, g) <= 0
    <3>1. g <= 0 /\ a >= 0 /\ b >= 0
      BY <1>2, <1>3, <2>2
    <3> QED BY <1>2, <1>3, <3>1, TimesNegative
  <2>3. ASSUME g >= 0 PROVE Times(a, g) <= Times(b, g)
    <3>1. g \in Nat
      BY <1>3, <2>3
    <3> QED BY <1>2, <3>1, TimesMonotone
  <2> QED BY <1>3, <2>1, <2>2, <2>3
<1> HIDE DEF x, y
<1>5. /\ v \in Int /\ w \in Int /\ (g >= 0 => v <= w)
      /\ (g < 0 => v <= 0 /\ w <= 0)
  <2>1. Times(x, u) \in Int /\ Times(y, u) \in Int
    BY <1>3, <1>4, TimesInt
  <2>2. ASSUME x <= 0, y <= 0 PROVE Times(x, u) <= 0 /\ Times(y, u) <= 0
    <3>1. u \in Int /\ u >= 0
      BY <1>3
    <3> QED BY <1>4, <2>2, <3>1, TimesNegative
  <2>3. x <= y => Times(x, u) <= Times(y, u)
    BY <1>3, <1>4, TimesMonotone
  <2> QED BY <1>4, <2>1, <2>2, <2>3
<1> HIDE DEF v, w
<1>6. Clamped(v) \in 0..MaxRisk /\ Clamped(w) \in 0..MaxRisk
  <2>1. v \in Int /\ w \in Int /\ v <= v /\ w <= w
    BY <1>5
  <2> QED BY <2>1, ClampedKeeps
<1>7. CASE g >= 0
  <2>1. v \in Int /\ w \in Int /\ v <= w
    BY <1>5, <1>7
  <2>2. Clamped(v) <= Clamped(w)
    BY <2>1, ClampedKeeps
  <2> QED BY <1>1, <1>6, <2>2
<1>8. CASE g < 0
  <2>1. Clamped(v) = rules.floor /\ Clamped(w) = rules.floor
    <3>1. v \in Int /\ w \in Int /\ v <= v /\ w <= w /\ v <= 0 /\ w <= 0
      BY <1>5, <1>8
    <3> QED BY <3>1, ClampedKeeps
  <2>2. MaxRisk \in Nat
    BY DEF MaxRisk
  <2> QED BY <1>1, <1>6, <2>1, <2>2
<1> QED BY <1>3, <1>7, <1>8

-----------------------------------------------------------------------------
(* The types                                                               *)

\* The bundle of an action is a list of actions, not an empty one.
LEMMA BundleType ==
  ASSUME NEW p \in PolicyType, NEW a \in Actions
  PROVE  PlanOf(a, p) \in Seq(Actions) /\ PlanOf(a, p) # <<>>
<1>1. p.bundles \in [Actions -> Seq(Actions) \ {<<>>}]
  BY DEF PolicyType
<1> QED BY <1>1 DEF PlanOf

\* What an evaluation names are labels.
LEMMA PrimaryType ==
  ASSUME NEW ss \in Seq(SignalType), NEW l \in Primaries(ss)
  PROVE  l \in Labels /\ ResolvedLabels(ss) \subseteq Labels
<1>1. LabelsOf(ss) \subseteq Labels /\ SAFE \in Labels
  BY LabelsFinite, LabelsAssumption
<1>2. ResolvedLabels(ss) \subseteq Labels
  BY <1>1 DEF ResolvedLabels, Harmful
<1>3. CASE ss = <<>>
  BY <1>1, <1>2, <1>3 DEF Primaries
<1>4. CASE ss # <<>>
  BY <1>2, <1>4, PrimaryNamed
<1> QED BY <1>3, <1>4

\* Its confidence is one of those of the evidence.
LEMMA ConfidenceType ==
  ASSUME NEW ss \in Seq(SignalType)
  PROVE  Confidence(ss) \in Hundredths
<1>1. CASE ss = <<>>
  BY <1>1 DEF Confidence, Hundredths
<1>2. CASE ss # <<>>
  <2> DEFINE f == [i \in 1..Len(ss) |-> ss[i].confidence]
             S == {f[i] : i \in 1..Len(ss)}
  <2>1. \A i \in 1..Len(ss) : ss[i].confidence \in Hundredths
    BY SignalTyped DEF Hundredths
  <2>2. f \in [1..Len(ss) -> Hundredths] /\ Len(ss) \in Nat /\ 1 \in 1..Len(ss)
    BY <1>2, <2>1
  <2>3. Confidence(ss) = Ext!Max(S)
    <3>1. S = {ss[i].confidence : i \in DOMAIN ss}
      OBVIOUS
    <3> HIDE DEF S
    <3> QED BY <1>2, <3>1 DEF Confidence
  <2> HIDE DEF f
  <2>4. IsFiniteSet(S)
    BY <2>2, ImageFinite
  <2>5. S \subseteq Hundredths /\ S # {}
    BY <2>2
  <2>6. Hundredths \subseteq Int
    BY DEF Hundredths
  <2> HIDE DEF S
  <2>7. Ext!Max(S) \in S
    BY <2>4, <2>5, <2>6, MaxIn
  <2> QED BY <2>3, <2>5, <2>7
<1> QED BY <1>1, <1>2

\* What passes the filter is evidence.
LEMMA KeptType ==
  ASSUME NEW ss \in Seq(SignalType)
  PROVE  Kept(ss) \in Seq(SignalType)
BY AmongType DEF Kept

\* What more evidence adds to what is kept comes from it.
LEMMA KeptMore ==
  ASSUME NEW ss \in Seq(SignalType), NEW tt \in Seq(SignalType)
  PROVE  Continues(SignalType, Kept(ss \o tt), Kept(ss), tt)
BY AmongMore DEF Kept

\* An evaluation is not None.
LEMMA NoneApart ==
  ASSUME NEW e \in EvaluationType
  PROVE  e # None
<1>1. "risk" \in DOMAIN e /\ "risk" \notin DOMAIN None
  BY DEF EvaluationType, None
<1> QED BY <1>1

\* An evaluation has its type.
LEMMA EvaluationTyped ==
  ASSUME rules \in Rules, NEW ss \in Seq(SignalType), NEW fs \in SUBSET Facts,
         NEW l \in Primaries(ss)
  PROVE  /\ Evaluation(ss, fs, l) \in EvaluationType
         /\ Evaluation(ss, fs, l) # None
<1>1. l \in Labels /\ ResolvedLabels(ss) \subseteq Labels
  BY PrimaryType
<1>2. Risk(ss, fs) \in 0..MaxRisk
  <2>1. <<>> \in Seq(SignalType) /\ Unheard(<<>>)
    BY DEF Unheard
  <2> QED BY <2>1, RiskMore
<1>3. Confidence(ss) \in Hundredths
  BY ConfidenceType
<1>4. Disagreed(ss) \in BOOLEAN
  BY DEF Disagreed
<1>5. Evaluation(ss, fs, l) \in EvaluationType
  BY <1>1, <1>2, <1>3, <1>4 DEF Evaluation, EvaluationType
<1> QED BY <1>5, NoneApart

\* The context and the policy of a message.
LEMMA FactsType ==
  ASSUME TypeOK
  PROVE  facts \in SUBSET Facts /\ policy \in PolicyType
BY EvidenceAssumption, PoliciesAssumption DEF TypeOK

\* Gathering well-typed evidence keeps the types.
LEMMA GatheringTyped ==
  ASSUME TypeOK, stage \in {"matching", "classified", "checked"},
         NEW batch \in Seq(SignalType),
         NEW next \in {"matching", "classified", "checked"}, Gather(batch, next)
  PROVE  TypeOK'
<1>1. /\ rules' = rules /\ policy' = policy /\ facts' = facts
      /\ signals' = signals \o batch /\ stage' = next
      /\ evaluation' = evaluation /\ decision' = decision
  BY DEF Gather
<1>2. signals' \in Seq(SignalType)
  BY <1>1 DEF TypeOK
<1>3. evaluation = None /\ decision = None
  BY DEF TypeOK
<1> QED BY <1>1, <1>2, <1>3 DEF TypeOK

\* A list of positions filled with signals is a list of signals.
LEMMA ListOf ==
  ASSUME NEW A, NEW n \in Nat, NEW f \in [1..n -> A]
  PROVE  f \in Seq(A)
BY SeqDef

\* Each kind of evidence is well typed.
LEMMA EvidenceTyped ==
  ASSUME TypeOK
  PROVE  /\ \A m \in Matches : Adapted(m) \in Seq(SignalType)
         /\ \A n \in Nat : [i \in 1..n |-> LinkSignal] \in Seq(SignalType)
         /\ \A s \in OtherSignals : <<s>> \in Seq(SignalType)
<1>1. ASSUME NEW m \in Matches
      PROVE  Adapted(m) \in Seq(SignalType)
  <2>1. m \in MatchType
    BY EvidenceAssumption
  <2>2. m.labels \in Seq(Labels) /\ Len(m.labels) \in Nat
    BY <2>1 DEF MatchType
  <2>3. m.confidence \in Hundredths /\ m.severity \in 0..5 /\ m.weight \in Nat
    BY <2>1 DEF MatchType
  <2>4. \A i \in 1..Len(m.labels) : m.labels[i] \in Labels
    BY <2>2
  <2>5. Adapted(m) \in [1..Len(m.labels) -> SignalType]
    BY <2>3, <2>4 DEF Adapted, SignalType, Sources
  <2> QED BY <2>2, <2>5, ListOf
<1>2. LinkSignal \in SignalType
  <2>1. rules \in Rules
    BY DEF TypeOK
  <2>2. /\ rules.phishing.confidence \in Hundredths
        /\ rules.phishing.severity \in 0..5 /\ rules.phishing.weight \in Nat
    BY <2>1, RulesOptions
  <2>3. SCAM \in Labels
    BY LabelsAssumption
  <2> QED BY <2>2, <2>3 DEF LinkSignal, SignalType, Sources
<1>3. ASSUME NEW n \in Nat
      PROVE  [i \in 1..n |-> LinkSignal] \in Seq(SignalType)
  BY <1>2, ListOf
<1>4. \A s \in OtherSignals : <<s>> \in Seq(SignalType)
  BY EvidenceAssumption
<1> QED BY <1>1, <1>3, <1>4

\* So are the signals of the classifier.
LEMMA ModelTyped ==
  ASSUME TypeOK, NEW c \in Classifications, NEW ls \in Seq(Labels)
  PROVE  [i \in 1..Len(ls) |-> ModelSignal(c, ls[i])] \in Seq(SignalType)
<1>1. rules.labelWeight \in [Labels -> Nat]
  BY RulesFactors DEF TypeOK
<1>2. c \in [Labels -> Hundredths] /\ ModelSeverity \in [Labels -> 0..5]
  BY EvidenceAssumption, LabelsAssumption
<1>3. \A l \in Labels : ModelSignal(c, l) \in SignalType
  BY <1>1, <1>2 DEF ModelSignal, SignalType, Sources
<1>4. Len(ls) \in Nat /\ \A i \in 1..Len(ls) : ls[i] \in Labels
  OBVIOUS
<1>5. [i \in 1..Len(ls) |-> ModelSignal(c, ls[i])]
        \in [1..Len(ls) -> SignalType]
  BY <1>3, <1>4
<1> QED BY <1>4, <1>5, ListOf

\* The variables have their types in every state of every behaviour; the risk
\* is within its range (ModerationRuleEngine, RuleEvaluationResult).
THEOREM Typed == Spec => []TypeOK
<1>1. ASSUME Init
      PROVE  TypeOK
  <2>1. signals \in Seq(SignalType)
    BY <1>1 DEF Init
  <2> QED BY <1>1, <2>1 DEF Init, TypeOK
<1>2. ASSUME TypeOK, [Next]_vars
      PROVE  TypeOK'
  <2>1. ASSUME NEW m \in Matches, Match(m)
        PROVE  TypeOK'
    BY <1>2, <2>1, EvidenceTyped, GatheringTyped DEF Match
  <2>2. ASSUME NEW c \in Classifications, Classify(c)
        PROVE  TypeOK'
    <3> DEFINE ls == Among(LabelOrder, Selected(c))
    <3>1. ls \in Seq(Labels)
      BY AmongType, LabelsAssumption
    <3>2. /\ stage = "matching"
          /\ Gather([i \in 1..Len(ls) |-> ModelSignal(c, ls[i])], "classified")
      BY <2>2 DEF Classify
    <3> HIDE DEF ls
    <3>3. [i \in 1..Len(ls) |-> ModelSignal(c, ls[i])] \in Seq(SignalType)
      BY <1>2, <3>1, ModelTyped
    <3> QED BY <1>2, <3>2, <3>3, GatheringTyped
  <2>3. CASE Unavailable
    <3>1. <<>> \in Seq(SignalType)
      OBVIOUS
    <3> QED BY <1>2, <2>3, <3>1, GatheringTyped DEF Unavailable
  <2>4. ASSUME NEW n \in 0..MaxLinks, CheckLinks(n)
        PROVE  TypeOK'
    <3>1. n \in Nat
      BY BoundsAssumption
    <3>2. [i \in 1..n |-> LinkSignal] \in Seq(SignalType)
      BY <1>2, <3>1, EvidenceTyped
    <3> QED BY <1>2, <2>4, <3>2, GatheringTyped DEF CheckLinks
  <2>5. ASSUME NEW s \in OtherSignals, Other(s)
        PROVE  TypeOK'
    <3>1. <<s>> \in Seq(SignalType)
      BY <1>2, EvidenceTyped
    <3> QED BY <1>2, <2>5, <3>1, GatheringTyped DEF Other
  <2>6. CASE Reject
    BY <1>2, <2>6 DEF Reject, TypeOK
  <2>7. CASE Evaluate
    <3>1. PICK l \in Primaries(Kept(signals)) :
            evaluation' = Evaluation(Kept(signals), facts, l)
      BY <2>7 DEF Evaluate
    <3>2. Kept(signals) \in Seq(SignalType) /\ rules \in Rules
          /\ facts \in SUBSET Facts
      BY <1>2, KeptType, FactsType DEF TypeOK
    <3>3. evaluation' \in EvaluationType /\ evaluation' # None
      BY <3>1, <3>2, EvaluationTyped
    <3> QED BY <1>2, <2>7, <3>3 DEF Evaluate, TypeOK
  <2>8. CASE Decide
    <3> DEFINE a == Select(evaluation, policy)
               plan == PlanOf(a, policy)
    <3>1. a \in Actions
      BY <1>2, FactsType, SelectedAction
    <3>2. plan \in Seq(Actions) /\ plan # <<>>
      BY <1>2, <3>1, FactsType, BundleType
    <3>3. /\ decision' = [action |-> a, plan |-> plan,
                          required |->
                            \E i \in DOMAIN plan : plan[i] # "IGNORE"]
          /\ stage = "evaluated" /\ stage' = "decided"
          /\ UNCHANGED <<rules, policy, facts, signals, evaluation>>
      BY <2>8 DEF Decide
    <3> HIDE DEF a, plan
    <3>4. /\ decision'.action \in Actions /\ decision'.plan \in Seq(Actions)
          /\ decision'.plan # <<>> /\ decision'.required \in BOOLEAN
      BY <3>1, <3>2, <3>3
    <3>5. decision' # None
      BY <3>3 DEF None
    <3> QED BY <1>2, <3>3, <3>4, <3>5 DEF TypeOK
  <2>9. CASE UNCHANGED vars
    BY <1>2, <2>9 DEF vars, TypeOK
  <2> QED BY <1>2, <2>1, <2>2, <2>3, <2>4, <2>5, <2>6, <2>7, <2>8, <2>9 DEF Next
<1> QED BY <1>1, <1>2, PTL DEF Spec

\* What is judged is within its ranges, and the strict mode softer than the
\* active one only where a review replaces a warning (ActionSelector.select).
THEOREM ConsistentAlways == Spec => []Consistent
<1>1. TypeOK => Consistent
  <2>1. SUFFICES ASSUME TypeOK, evaluation # None, policy.riskFactor >= 100
                 PROVE  NotSofter(evaluation, policy)
    BY DEF Consistent, StrictSofterOnlyToReview
  <2>2. evaluation \in EvaluationType /\ policy \in PolicyType
    BY <2>1, FactsType DEF TypeOK
  <2>3. evaluation.risk \in 0..MaxRisk /\ evaluation.confidence \in 0..100
    BY <2>2 DEF EvaluationType, Hundredths
  <2>4. evaluation.risk \in Nat /\ evaluation.risk <= MaxRisk
        /\ evaluation.confidence \in Nat
    <3>1. MaxRisk \in Nat
      BY DEF MaxRisk
    <3> QED BY <2>3, <3>1
  <2> QED BY <2>1, <2>2, <2>4, StrictNotSofter
<1> QED BY <1>1, Typed, PTL

\* Evidence that no model gave never lowers the risk of a message, whatever the
\* rules of its policy (ModerationRuleEngine.evaluate, RiskCalculator).
THEOREM RiskNeverLowered == Spec => EvidenceNeverLowersRisk
<1>1. ASSUME TypeOK, [Next]_vars, Unheard(Added)
      PROVE  Risk(Kept(signals), facts) <= Risk(Kept(signals'), facts)
  <2>1. rules \in Rules /\ facts \in SUBSET Facts /\ signals \in Seq(SignalType)
    BY <1>1, FactsType DEF TypeOK
  <2>2. ASSUME NEW batch \in Seq(SignalType), signals' = signals \o batch
        PROVE  Risk(Kept(signals), facts) <= Risk(Kept(signals'), facts)
    <3>1. PICK more \in Seq(SignalType) :
            /\ Kept(signals \o batch) = Kept(signals) \o more
            /\ \A i \in DOMAIN more : \E j \in DOMAIN batch : more[i] = batch[j]
      BY <2>1, <2>2, KeptMore DEF Continues
    <3>2. Kept(signals') = Kept(signals) \o more
      BY <2>2, <3>1
    <3>3. Added = batch
      BY <2>1, <2>2 DEF Added
    <3>4. Unheard(more)
      BY <1>1, <3>1, <3>3 DEF Unheard
    <3>5. Kept(signals) \in Seq(SignalType)
      BY <2>1, KeptType
    <3> QED BY <2>1, <3>2, <3>4, <3>5, RiskMore
  <2>3. \E batch \in Seq(SignalType) : signals' = signals \o batch
    <3>1. ASSUME signals' = signals
          PROVE  signals' = signals \o <<>> /\ <<>> \in Seq(SignalType)
      BY <2>1, <3>1
    <3>2. ASSUME NEW c \in Classifications, Classify(c)
          PROVE  \E batch \in Seq(SignalType) : signals' = signals \o batch
      <4> DEFINE ls == Among(LabelOrder, Selected(c))
      <4>1. ls \in Seq(Labels)
        BY AmongType, LabelsAssumption
      <4>2. signals' = signals \o [i \in 1..Len(ls) |-> ModelSignal(c, ls[i])]
        BY <3>2 DEF Classify, Gather
      <4> HIDE DEF ls
      <4>3. [i \in 1..Len(ls) |-> ModelSignal(c, ls[i])] \in Seq(SignalType)
        BY <1>1, <4>1, ModelTyped
      <4> QED BY <4>2, <4>3
    <3>3. ASSUME NEW m \in Matches, Match(m)
          PROVE  \E batch \in Seq(SignalType) : signals' = signals \o batch
      BY <1>1, <3>3, EvidenceTyped DEF Match, Gather
    <3>4. ASSUME NEW n \in 0..MaxLinks, CheckLinks(n)
          PROVE  \E batch \in Seq(SignalType) : signals' = signals \o batch
      <4>1. n \in Nat
        BY BoundsAssumption
      <4>2. [i \in 1..n |-> LinkSignal] \in Seq(SignalType)
        BY <1>1, <4>1, EvidenceTyped
      <4> QED BY <3>4, <4>2 DEF CheckLinks, Gather
    <3>5. ASSUME NEW s \in OtherSignals, Other(s)
          PROVE  \E batch \in Seq(SignalType) : signals' = signals \o batch
      BY <1>1, <3>5, EvidenceTyped DEF Other, Gather
    <3>6. CASE Unavailable
      <4>1. signals' = signals \o <<>> /\ <<>> \in Seq(SignalType)
        BY <3>6 DEF Unavailable, Gather
      <4> QED BY <4>1
    <3>7. CASE Reject \/ Evaluate \/ Decide \/ UNCHANGED vars
      BY <3>1, <3>7 DEF Reject, Evaluate, Decide, vars
    <3> QED BY <1>1, <3>2, <3>3, <3>4, <3>5, <3>6, <3>7 DEF Next
  <2> QED BY <2>2, <2>3
<1> QED BY <1>1, Typed, PTL DEF Spec, EvidenceNeverLowersRisk
=============================================================================
