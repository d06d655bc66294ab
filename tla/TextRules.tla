------------------------------ MODULE TextRules ------------------------------
(***************************************************************************)
(* What preprocessing reads out of a text (src/src/modules/preprocessing): *)
(* its normal form, the profanity spelled in it, and the features of it.   *)
(*                                                                         *)
(* A text is a sequence of characters.  A link and a user mention are one  *)
(* character each, so lengths and words inside them are left out; Fold     *)
(* (NFKC and casefold) maps a character to one character.  Ratios are in   *)
(* thousandths, rounded down.                                              *)
(***************************************************************************)
EXTENDS Integers, SequencesExt

CONSTANTS Fold,        \* function from characters to characters
          Cyrillic, Latin, Uppercase, Digits,  \* classes of characters
          Space, Blanks,                       \* the space; all whitespace
          ZeroWidth, Controls,                 \* invisible ones; Cf and Cc
          Separators,  \* whitespace and what spells a word out: . - * _ |
          Hyphen, Underscore,
          Emoji, Links, Mentions,
          Address,     \* the text that stands for a mention: " ты "
          SoftSign, Typos,  \* the letter ь, and those typed for it: д, т
          Stems             \* _OBSCENE_STEMS

ASSUME CharactersAssumption ==
  /\ Space \in Blanks /\ Blanks \subseteq Separators
  /\ ZeroWidth \subseteq Controls
  /\ (Cyrillic \cup Latin \cup Digits \cup {Hyphen, Underscore})
     \cap (Blanks \cup Controls \cup Emoji \cup Links \cup Mentions) = {}
  /\ Separators \cap (Cyrillic \cup Latin \cup Links \cup Mentions) = {}

\* The address is a word of letters that stay as they are, and a mention is
\* seen, stays as it is, and is what no other character becomes.
ASSUME AddressAssumption ==
  /\ \E c, d \in Cyrillic :
       /\ Address = <<Space, c, d, Space>>
       /\ \A x \in {c, d, Space} : Fold[x] = x /\ x \notin ZeroWidth
  /\ \A x \in DOMAIN Fold :
       x \in Mentions \/ Fold[x] \in Mentions => Fold[x] = x
  /\ Mentions \cap ZeroWidth = {}

Letters == Cyrillic \cup Latin
Alphanumeric == Letters \cup Digits
WordChars == Alphanumeric \cup {Underscore}
TokenChars == WordChars \cup {Hyphen}

\* The characters of s at the given positions.
At(s, positions) ==
  LET kept[i \in 0..Len(s)] ==
        IF i = 0 THEN <<>>
        ELSE IF i \in positions THEN Append(kept[i - 1], s[i])
        ELSE kept[i - 1] IN
  kept[Len(s)]

\* The maximal intervals of positions.
Runs(positions) ==
  {r \in positions \X positions :
     /\ r[1] <= r[2] /\ r[1]..r[2] \subseteq positions
     /\ r[1] - 1 \notin positions /\ r[2] + 1 \notin positions}

PositionsOf(s, chars) == {i \in DOMAIN s : s[i] \in chars}
Mapped(s, f) == [i \in DOMAIN s |-> f[s[i]]]

-----------------------------------------------------------------------------
(* TextNormalizer                                                          *)

Visible(s) == At(s, DOMAIN s \ PositionsOf(s, ZeroWidth))

\* One space for each inner run of whitespace, none at the ends.
Spaced(s) ==
  LET blanks == PositionsOf(s, Blanks)
      inner  == {r \in Runs(blanks) : r[1] > 1 /\ r[2] < Len(s)} IN
  At([i \in DOMAIN s |-> IF i \in blanks THEN Space ELSE s[i]],
     (DOMAIN s \ blanks) \cup {r[1] : r \in inner})

\* No character stays more than twice in a row.
Collapsed(s) ==
  At(s, {i \in DOMAIN s : i > 2 => s[i - 2] # s[i] \/ s[i - 1] # s[i]})

Normalized(s) == Collapsed(Spaced(Visible(Mapped(s, Fold))))

\* replace_user_mentions_with_direct_address
Addressed(s) ==
  FlattenSeq([i \in DOMAIN s |->
                IF s[i] \in Mentions THEN Address ELSE <<s[i]>>])

-----------------------------------------------------------------------------
(* RussianProfanityDetector; a vocabulary maps words to categories         *)

Vocabulary(obscene, literary) ==
  LET listed  == obscene \cup literary
      soft    == {w \in listed : Last(w) = SoftSign}
      alias   == {Append(Front(w), c) : w \in soft, c \in Typos}
      meant(w) == IF w \in listed THEN w ELSE Append(Front(w), SoftSign) IN
  [w \in listed \cup alias |->
     IF meant(w) \in obscene THEN "obscene" ELSE "literary"]

Within(s, w) ==
  \E i \in 0..Len(s) - Len(w) : SubSeq(s, i + 1, i + Len(w)) = w

\* Mutant: the token itself must be listed.
LookupWhole(vocabulary, token) ==
  IF token \in DOMAIN vocabulary THEN vocabulary[token] ELSE "none"

\* The longest listed prefix of three letters or more, else any stem inside.
Lookup(vocabulary, token) ==
  LET prefixes == {n \in 3..Len(token) :
                     SubSeq(token, 1, n) \in DOMAIN vocabulary} IN
  IF prefixes # {} THEN vocabulary[SubSeq(token, 1, Max(prefixes))]
  ELSE IF \E stem \in Stems : Within(token, stem) THEN "obscene" ELSE "none"

Tokens(s) ==
  {SubSeq(s, r[1], r[2]) : r \in Runs(PositionsOf(s, TokenChars))}

\* The words of 3 to 32 letters spelled one letter at a time.
Candidates(s) ==
  LET letters == PositionsOf(s, Cyrillic)
      lone    == {i \in letters : {i - 1, i + 1} \cap letters = {}}
      spelled == Runs(lone \cup PositionsOf(s, Separators)) IN
  {w \in {At(s, lone \cap r[1]..r[2]) : r \in spelled} : Len(w) \in 3..32}

\* find_matches; has_separator_obfuscation
Profanity(vocabulary, s) ==
  {Lookup(vocabulary, t) : t \in Tokens(s) \cup Candidates(s)} \ {"none"}
SpelledOut(vocabulary, s) ==
  \E w \in Candidates(s) : Lookup(vocabulary, w) # "none"

-----------------------------------------------------------------------------
(* TextFeatureExtractor                                                    *)

Thousandths(part, whole) ==
  IF whole = 0 THEN 0 ELSE (1000 * part) \div whole

Count(s, chars) == Cardinality(PositionsOf(s, chars))

\* The longest run of one letter, case aside: at least 1, as the loop starts.
LongestRepeat(s) ==
  LET run[i \in 0..Len(s)] ==
        IF i = 0 \/ s[i] \notin Letters THEN 0
        ELSE IF i > 1 /\ Fold[s[i]] = Fold[s[i - 1]] THEN run[i - 1] + 1
        ELSE 1 IN
  Max({1} \cup {run[i] : i \in DOMAIN s})

\* <<count, thousandths of all words>> of the commonest word of two letters.
WordRepetition(s) ==
  LET words == Runs(PositionsOf(s, Alphanumeric))
      word(r) == Mapped(SubSeq(s, r[1], r[2]), Fold)
      long  == {r \in words : r[1] < r[2]}
      most  == Max({0} \cup {Cardinality({q \in long : word(q) = word(r)})
                               : r \in long}) IN
  <<most, Thousandths(most, Cardinality(words))>>

\* extract, over the text whose links are replaced by spaces
Features(s) ==
  LET metric  == [i \in DOMAIN s |-> IF s[i] \in Links THEN Space ELSE s[i]]
      repeat  == WordRepetition(s) IN
  [length     |-> Len(s),
   words      |-> Cardinality(Runs(PositionsOf(s, Alphanumeric))),
   uppercase  |-> Thousandths(Count(metric, Uppercase),
                              Count(metric, Letters)),
   emoji      |-> Thousandths(Count(metric, Emoji), Len(metric)),
   repeated   |-> Min({100 * (LongestRepeat(metric) - 1), 1000}),
   commonest  |-> repeat[1],
   repetition |-> repeat[2],
   mixed      |-> Count(metric, Cyrillic) > 0 /\ Count(metric, Latin) > 0,
   suspicious |-> Count(s, Controls) > 0]
=============================================================================
