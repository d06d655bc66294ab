-------------------------- MODULE PreprocessingRules --------------------------
(***************************************************************************)
(* The preprocessing rules (src/src/modules/preprocessing/rules): how the  *)
(* settings are loaded from a file, merged with the defaults and checked   *)
(* against the moderation policy, and which rules match a message.         *)
(*                                                                         *)
(* A rule is named by its field.  Confidences and thresholds that are      *)
(* fractions are in thousandths.  A domain is the sequence of its labels.  *)
(* Reasons, evidence and the parsing of YAML are left out.                 *)
(***************************************************************************)
EXTENDS TextRules

CONSTANTS Host,     \* [Links -> domain]: <<>> when it is an invite only
          Code,     \* [Links -> invite code or None]
          Dictionary,  \* [obscene, literary: sets of words]: the two files
          DiscordDomains

None == "none"
Unset == -1

Rule(labels, severity, confidence, weight) ==
  [enabled |-> TRUE, labels |-> labels, severity |-> severity,
   confidence |-> confidence, weight |-> weight, threshold |-> Unset,
   shortest |-> 0]
Limit(rule, threshold, shortest) ==
  [rule EXCEPT !.threshold = threshold, !.shortest = shortest]
Off(rule) == [rule EXCEPT !.enabled = FALSE]

LinkDefaults ==
  [detect_any_url |-> Rule({"URL"}, 1, 550, 10),
   shortener |-> Rule({"URL", "SPAM"}, 2, 680, 20)]

FloodDefaults ==
  [messages_10s |-> Limit(Rule({"FLOOD"}, 3, 820, 35), 4, 0),
   messages_60s |-> Limit(Rule({"FLOOD"}, 3, 860, 45), 12, 0),
   repeated_messages_10m |-> Limit(Rule({"FLOOD"}, 3, 780, 35), 3, 0)]

SpamDefaults ==
  [mass_mentions |-> Limit(Rule({"SPAM"}, 2, 740, 25), 5, 0),
   targeted_mass_mentions |-> Limit(Rule({"TOXIC"}, 3, 820, 32), 3, 0),
   caps |-> Limit(Rule({"SPAM"}, 1, 580, 10), 750, 8),
   emoji |-> Limit(Rule({"SPAM"}, 1, 520, 8), 350, 4),
   repeated_chars |-> Limit(Rule({"SPAM"}, 1, 560, 10), 400, 6),
   repeated_words |-> Limit(Rule({"SPAM"}, 2, 720, 20), 5, 0)
                      @@ [tokens |-> 5, repetition |-> 500]]

SemanticDefaults ==
  [hate |-> Off(Rule({"HATE"}, 5, 820, 60)),
   nsfw |-> Off(Rule({"NSFW"}, 4, 820, 70)),
   politics |-> Off(Rule({"POLITICS_IRL"}, 2, 900, 18))]

ProfanityDefaults ==
  [obscene |-> Off(Rule({"PROFANITY"}, 1, 940, 8)),
   literary |-> Off(Rule({"PROFANITY"}, 1, 820, 5))]

BlacklistDefaults == [blacklist_words |-> Rule({"SPAM"}, 2, 750, 25)]
InviteDefaults == [invite |-> Rule({"INVITE"}, 3, 900, 45)]
EvasionDefaults == [unicode |-> Rule({"EVASION"}, 2, 640, 20)]

\* PreprocessingRuleSettings
Defaults ==
  LinkDefaults @@ FloodDefaults @@ SpamDefaults @@ SemanticDefaults
  @@ ProfanityDefaults @@ BlacklistDefaults @@ InviteDefaults
  @@ EvasionDefaults

LegacyThreshold ==
  [max_messages_10s |-> "messages_10s", max_messages_60s |-> "messages_60s",
   max_repeated_messages_10m |-> "repeated_messages_10m",
   mass_mentions_threshold |-> "mass_mentions",
   caps_ratio_threshold |-> "caps", emoji_ratio_threshold |-> "emoji",
   repeated_char_score_threshold |-> "repeated_chars"]

\* What a file says of rules: given maps some of them to some of their fields,
\* legacy maps keys of the former format to their values.
Nothing == [none \in {} |-> None]
GivenTo(file, id) ==
  IF id \in DOMAIN file.given THEN file.given[id] ELSE Nothing

\* _normalize_legacy_mapping: a key of the former format wins over the rule's
\* own field, except that the former profanity rule gives way to obscene.
LegacyFor(file, id) ==
  LET keys == {k \in DOMAIN file.legacy \cap DOMAIN LegacyThreshold :
                 LegacyThreshold[k] = id} IN
  IF keys # {}
  THEN [threshold |-> file.legacy[CHOOSE k \in keys : TRUE]]
  ELSE IF id = "detect_any_url" /\ id \in DOMAIN file.legacy
  THEN [enabled |-> file.legacy[id]]
  ELSE IF id = "obscene" /\ "profanity" \in DOMAIN file.legacy
          /\ id \notin DOMAIN file.given
  THEN file.legacy["profanity"]
  ELSE Nothing

\* load: the fields a file gives a rule replace the defaults one by one.  The
\* dictionaries are read when a profanity rule is on and the file has no words.
Loaded(file) ==
  LET rules == [id \in DOMAIN Defaults |->
                  LegacyFor(file, id) @@ GivenTo(file, id) @@ Defaults[id]]
      on    == rules.obscene.enabled \/ rules.literary.enabled
      words(category) ==
        IF on /\ file.words[category] = {} THEN Dictionary[category]
        ELSE file.words[category] IN
  [rule |-> rules,
   vocabulary |-> Vocabulary(words("obscene"), words("literary")),
   keywords |-> file.words,
   domains |-> file.domains,
   codes |-> file.codes]

-----------------------------------------------------------------------------
(* PreprocessingModerationPolicyAdapter                                    *)

\* Mutant: the source's minimum wins over the label's.
MinimumOfSource(policy, label) ==
  IF policy.minimum.source # Unset THEN policy.minimum.source
  ELSE IF policy.minimum.label[label] # Unset
  THEN policy.minimum.label[label]
  ELSE policy.minimum.default

MinimumFor(policy, label) ==
  IF policy.minimum.label[label] # Unset
  THEN policy.minimum.label[label]
  ELSE IF policy.minimum.source # Unset THEN policy.minimum.source
  ELSE policy.minimum.default

\* _iter_rule_policies
Checked == DOMAIN Defaults \ {"targeted_mass_mentions", "blacklist_words"}

CompatibleRule(rule, policy) ==
  /\ rule.severity \in policy.severities
  /\ rule.weight <= policy.ceiling
  /\ \A label \in rule.labels :
       /\ label \in policy.priority
       /\ rule.confidence >= MinimumFor(policy, label)
       /\ policy.labelWeight[label] > 0 \/ label = "SAFE"

Compatible(settings, policy) ==
  /\ policy.sourceWeight > 0
  /\ \A id \in Checked :
       settings.rule[id].enabled => CompatibleRule(settings.rule[id], policy)

-----------------------------------------------------------------------------
(* PreprocessingRuleEngine, over what the preprocessor found in a message  *)

Reached(rule, value) == rule.threshold # Unset /\ value >= rule.threshold
ReachedIn(rule, value, c) ==
  c.features.length >= rule.shortest /\ Reached(rule, value)

WordAt(s, w, i) == SubSeq(s, i + 1, i + Len(w)) = w
Bounded(s, i) == i \notin PositionsOf(s, WordChars)

HasWord(s, w) ==
  \E i \in 0..Len(s) - Len(w) :
    WordAt(s, w, i) /\ Bounded(s, i) /\ Bounded(s, i + Len(w) + 1)

\* A keyword of several words is found anywhere, one word as a whole.
HasKeyword(s, w) == IF Contains(w, Space) THEN Within(s, w) ELSE HasWord(s, w)
HasAny(s, keywords) == \E w \in keywords : HasKeyword(s, w)

WithoutWww(domain) ==
  IF Len(domain) > 1 /\ domain[1] = "www" THEN Tail(domain) ELSE domain
MatchesAny(domain, patterns) ==
  \E p \in patterns : IsSuffix(p, WithoutWww(domain))

\* The domains of Discord are left out when its invites are all allowed.
ShownDomains(c, settings) ==
  IF /\ c.invites # {}
     /\ \/ ~settings.rule.invite.enabled
        \/ c.invites \subseteq settings.codes
  THEN {d \in c.domains : ~MatchesAny(d, DiscordDomains)}
  ELSE c.domains

Untrusted(c, settings) ==
  {d \in ShownDomains(c, settings) :
     ~MatchesAny(d, settings.domains.allowed)}

LinkConditions(c, settings) ==
  [detect_any_url |-> Untrusted(c, settings) # {},
   shortener |-> \E d \in Untrusted(c, settings) :
                   MatchesAny(d, settings.domains.shortener)]

InviteConditions(c, settings) ==
  [invite |-> ~(c.invites \subseteq settings.codes)]

FloodConditions(c, settings) ==
  LET rule == settings.rule IN
  [messages_10s |-> Reached(rule.messages_10s, c.activity.in10s),
   messages_60s |-> Reached(rule.messages_60s, c.activity.in60s),
   repeated_messages_10m |->
     Reached(rule.repeated_messages_10m, c.activity.repeated)]

KeywordConditions(c, settings) ==
  [id \in {"hate", "nsfw", "politics", "blacklist_words"} |->
     IF id = "blacklist_words"
     THEN \E w \in settings.keywords[id] : HasWord(c.normalized, w)
     ELSE HasAny(c.normalized, settings.keywords[id])]

ProfanityConditions(c, settings) ==
  LET found == Profanity(settings.vocabulary, c.normalized) IN
  [id \in {"obscene", "literary"} |-> id \in found]

EvasionConditions(c, settings) ==
  [unicode |-> \/ c.features.mixed \/ c.features.suspicious
               \/ SpelledOut(settings.vocabulary, c.normalized)]

SpamConditions(c, settings, targeted) ==
  LET rule == settings.rule
      f    == c.features IN
  [mass_mentions |-> Reached(rule.mass_mentions, c.mentions),
   targeted_mass_mentions |->
     targeted /\ Reached(rule.targeted_mass_mentions, c.mentions),
   caps |-> ReachedIn(rule.caps, f.uppercase, c),
   emoji |-> ReachedIn(rule.emoji, f.emoji, c),
   repeated_chars |-> ReachedIn(rule.repeated_chars, f.repeated, c),
   repeated_words |-> /\ ReachedIn(rule.repeated_words, f.commonest, c)
                      /\ f.words >= rule.repeated_words.tokens
                      /\ f.repetition >= rule.repeated_words.repetition]

Matching(conditions, settings) ==
  {id \in DOMAIN conditions : settings.rule[id].enabled /\ conditions[id]}

\* evaluate: the rules that match
Matched(c, settings) ==
  LET spoken == Matching(ProfanityConditions(c, settings), settings)
                \cup Matching(KeywordConditions(c, settings), settings)
      harms  == UNION {settings.rule[id].labels :
                         id \in spoken \ {"blacklist_words"}}
      aimed  == harms \cap {"PROFANITY", "HATE", "THREAT"} # {} IN
  spoken
  \cup Matching(FloodConditions(c, settings), settings)
  \cup Matching(SpamConditions(c, settings, aimed), settings)
  \cup Matching(InviteConditions(c, settings), settings)
  \cup Matching(LinkConditions(c, settings), settings)
  \cup Matching(EvasionConditions(c, settings), settings)
=============================================================================
