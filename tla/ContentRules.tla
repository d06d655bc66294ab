----------------------------- MODULE ContentRules -----------------------------
(***************************************************************************)
(* The rules that judge content without a model of language, and what      *)
(* comes before them: the requests the rate limiter lets in, the stored    *)
(* policy a message gets, the preprocessing of a message                   *)
(* (src/src/modules/preprocessing), from the rule file to the rules that   *)
(* match, the policy applied to what the image detector finds, and the     *)
(* annotation of texts about sensitive topics.  Each behaviour takes one   *)
(* input through one of these, a step for each stage of the code; the      *)
(* stages compute what the pure modules say.                               *)
(*                                                                         *)
(* Times are in seconds.                                                   *)
(***************************************************************************)
EXTENDS PreprocessingRules, SensitiveTopics

CONSTANTS ClassNames,  \* of the image detector, see MediaRules
          Messages,  \* inputs [file, policy, message]
          Images,    \* inputs [rows, config, policy]
          SensitiveTexts,  \* inputs: texts of SensitiveTopics
          Lookups,   \* inputs [store, context], see PolicyResolution
          RateLimit, RateWindow, MaxKeys,  \* of the rate limiter
          Keys,      \* client, method and path of a request
          Waits,     \* between one request and the next
          MaxArrivals  \* bound: requests

\* api_rate_limit, api_rate_window_seconds; the clock never goes back.
ASSUME RateAssumption ==
  /\ RateLimit \in Nat /\ RateWindow \in Nat /\ MaxKeys \in Nat
  /\ Waits \subseteq Nat

Media == INSTANCE MediaRules
Policies == INSTANCE PolicyResolution
Rates == INSTANCE RateLimiter

\* PolicyScopeType, and what PolicyRecord requires of a row.
ScopeKinds == {"USER", "ROLE", "CHANNEL", "GUILD", "CHAT", "PLATFORM", "GLOBAL"}
ASSUME LookupsAssumption ==
  \A lookup \in Lookups :
    /\ lookup.context.roles \in Seq(Range(lookup.context.roles))
    /\ \A row \in lookup.store :
         /\ row.kind \in ScopeKinds
         /\ row.kind \notin {"PLATFORM", "GLOBAL"} => row.id # Policies!Nothing
         /\ row.priority \in Int /\ row.updated \in Int

\* The manifest names a class at least, and a row has a score for each of them
\* and a box of four numbers.
ASSUME ImagesAssumption ==
  /\ ClassNames \in Seq(Range(ClassNames)) /\ ClassNames # <<>>
  /\ \A image \in Images :
       /\ image.rows \in Seq([scores : [DOMAIN ClassNames -> Int],
                             objectness : Int, box : [1..4 -> Int]])
       /\ image.config.confidence \in Int /\ image.config.most \in Nat
       /\ image.policy.confidence \in Int /\ image.policy.most \in Nat
       /\ \A class \in DOMAIN image.policy.classes :
            image.policy.classes[class].confidence \in Int

\* A message is a text with times; of a domain in the settings, and of those of
\* Discord, the www is taken off when they are read.
ASSUME MessagesAssumption ==
  /\ \A link \in Links : Host[link] \in Seq(Range(Host[link]))
  /\ \A case \in Messages :
       /\ case.message.text \in Seq(DOMAIN Fold)
       /\ case.message.recent \in Seq(Range(case.message.recent))
       /\ case.message.stamps \in Seq(Int) /\ case.message.at \in Int
       /\ \A domain \in case.file.domains.allowed \cup DiscordDomains :
            domain \in Seq(Range(domain)) /\ WithoutWww(domain) = domain
       /\ \A c \in {"obscene", "literary"} :
            \A w \in Dictionary[c] \cup case.file.words[c] :
              w \in Seq(Range(w))

VARIABLES stage,     \* of the input
          input,
          settings,  \* the loaded rules, or None
          result     \* of the last stage: a context, matches, detections, ...

contentVars == <<stage, input, settings, result>>

ContentInit ==
  /\ \/ stage = "configured" /\ input \in Messages
     \/ stage = "seen" /\ input \in Images
     \/ stage = "read" /\ input \in SensitiveTexts
     \/ stage = "asked" /\ input \in Lookups
     \/ stage = "open" /\ input = None
  /\ settings = None
  /\ result = IF stage = "open"
              THEN [now |-> 0, history |-> <<>>, arrivals |-> <<>>] ELSE None

Yield(from, to, value) ==
  /\ stage = from /\ stage' = to /\ result' = value
  /\ UNCHANGED <<input, settings>>

-----------------------------------------------------------------------------
(* A message                                                               *)

\* The rule file is loaded, or refused, when the service starts.
Load ==
  /\ stage = "configured" /\ Compatible(Loaded(input.file), input.policy)
  /\ settings' = Loaded(input.file) /\ stage' = "loaded"
  /\ UNCHANGED <<input, result>>

Refuse ==
  /\ stage = "configured" /\ ~Compatible(Loaded(input.file), input.policy)
  /\ Yield("configured", "refused", None)

\* _count_recent_messages: both ends of the window count, the future does not.
SentWithin(message, seconds) ==
  Cardinality({i \in DOMAIN message.stamps :
                 message.at - message.stamps[i] \in 0..seconds})

\* _count_repeated_messages: a message without a stamp counts whenever it was.
Repeated(message, normalized) ==
  Cardinality({i \in DOMAIN message.recent :
                 /\ i \in DOMAIN message.stamps =>
                      message.at - message.stamps[i] \in 0..600
                 /\ Normalized(message.recent[i]) = normalized})

Activity(message, normalized) ==
  [in10s |-> SentWithin(message, 10),
   in60s |-> SentWithin(message, 60),
   in10m |-> SentWithin(message, 600),
   repeated |-> Repeated(message, normalized)]

LinksIn(message) == Range(message.text) \cap Links
DomainsOf(links) == {WithoutWww(Host[l]) : l \in {k \in links : Host[k] # <<>>}}
InvitesOf(links) == {Code[l] : l \in links} \ {None}

\* process, up to the rules
Context(message) ==
  LET normalized == Normalized(Addressed(message.text)) IN
  [normalized |-> normalized,
   features |-> Features(message.text),
   mentions |-> Max({message.mentions, Count(message.text, Mentions)}),
   domains |-> DomainsOf(LinksIn(message)),
   invites |-> InvitesOf(LinksIn(message)),
   activity |-> Activity(message, normalized)]

Process == Yield("loaded", "processed", Context(input.message))
Match == Yield("processed", "matched", Matched(result, settings))

-----------------------------------------------------------------------------
(* An image, and a text of the training data                               *)

Infer == Yield("seen", "inferred", Media!Inferred(input.rows, input.config))
ApplyPolicy ==
  Yield("inferred", "applied", Media!Applied(result, input.policy))
Signal ==
  Yield("applied", "signalled", Media!ImageSignals(result, input.policy))

Annotate == Yield("read", "annotated", Annotation(input))

-----------------------------------------------------------------------------
(* A request, and the policy of its message                                *)

Arrive(key, wait) ==
  /\ stage = "open" /\ Len(result.arrivals) < MaxArrivals
  /\ LET now    == result.now + wait
         answer == Rates!Allow(result.history, key, now) IN
     Yield("open", "open",
           [now |-> now, history |-> answer.history,
            arrivals |-> Append(result.arrivals,
                           [key |-> key, at |-> now,
                            allowed |-> answer.allowed])])

FromFiles == [source |-> "YAML"]

Query ==
  /\ stage = "asked"
  /\ LET rows == Policies!Found(input.store, input.context) IN
     /\ \A row \in rows : row.readable
     /\ Yield("asked", "queried", rows)

\* The query fails, or returns a row that cannot be read: the files decide,
\* whatever else is stored.
QueryFails == Yield("asked", "resolved", FromFiles)

NothingFound ==
  /\ stage = "queried" /\ result = {}
  /\ Yield("queried", "resolved", FromFiles)

\* The payload of the foremost row is not valid: no other one is tried.
Unusable(row) == /\ ~row.valid
                 /\ Yield("queried", "unavailable", row)

Chosen(row) ==
  /\ row.valid
  /\ Yield("queried", "resolved", [source |-> "DB", row |-> row])

Resolve ==
  \/ NothingFound
  \/ /\ stage = "queried"
     /\ \E row \in Policies!Foremost(result, input.context) :
          Unusable(row) \/ Chosen(row)

ContentNext ==
  \/ \E key \in Keys, wait \in Waits : Arrive(key, wait)
  \/ Query \/ QueryFails \/ Resolve
  \/ Load \/ Refuse \/ Process \/ Match
  \/ Infer \/ ApplyPolicy \/ Signal
  \/ Annotate

ContentSpec == ContentInit /\ [][ContentNext]_contentVars

-----------------------------------------------------------------------------
(* Properties                                                              *)

On(id) == settings.rule[id].enabled

\* What a reader sees of a text, in small letters.
Shown(text) == Visible(Mapped(text, Fold))

\* w is in s as the beginning of a word.
WrittenIn(s, w) ==
  \E i \in 0..Len(s) - Len(w) :
    /\ SubSeq(s, i + 1, i + Len(w)) = w
    /\ i > 0 => s[i] \notin TokenChars

\* w is spelled out by the first letters of s, one at a time, and s has no more
\* letters than a spelled-out word may have.
SpelledFirst(s, w) ==
  LET letters == PositionsOf(s, Cyrillic)
      first   == {p \in letters :
                    Cardinality({q \in letters : q < p}) < Len(w)} IN
  /\ Cardinality(letters) <= 32
  /\ At(s, first) = w /\ \A p \in first : p + 1 \notin letters
  /\ \A i \in DOMAIN s :
       (\E p, q \in first : p < i /\ i < q) => s[i] \in Cyrillic \cup Separators

\* The words of the file, or of the dictionary when it has none.
Listed ==
  UNION {IF input.file.words[c] = {} THEN Dictionary[c]
         ELSE input.file.words[c] : c \in {"obscene", "literary"}}

\* A listed word of three characters or more, without one three times in a
\* row, is found however it is written: in capitals, with invisible characters
\* inside, or spelled out with separators; and spelling it out is itself
\* reported as an evasion.
WordsFound ==
  (stage = "matched" /\ On("obscene") /\ On("literary") /\ On("unicode")) =>
    \A w \in Listed :
      (/\ Len(w) >= 3 /\ Collapsed(w) = w /\ Range(w) \subseteq TokenChars) =>
        LET shown == Shown(input.message.text) IN
        /\ WrittenIn(shown, w) => result \cap {"obscene", "literary"} # {}
        /\ SpelledFirst(shown, w) =>
             /\ result \cap {"obscene", "literary"} # {}
             /\ "unicode" \in result

Trusted(domain) == MatchesAny(domain, input.file.domains.allowed)

\* Links are neither lost nor reported without reason: a link to a domain that
\* is not allowed is reported unless it only leads to Discord and every invite
\* of the message is allowed; an invite that is not allowed is reported
\* whatever else the message has; allowed domains and invites are not.
LinksAccounted ==
  stage = "matched" =>
    LET links   == LinksIn(input.message)
        foreign == {l \in links : Host[l] # <<>> /\ ~Trusted(Host[l])}
        blocked == {l \in links :
                      Code[l] # None /\ Code[l] \notin input.file.codes}
        discord == {l \in foreign : MatchesAny(Host[l], DiscordDomains)} IN
    /\ On("detect_any_url") =>
         /\ foreign \ discord # {} => "detect_any_url" \in result
         /\ (foreign # {} /\ blocked # {} /\ On("invite")) =>
              "detect_any_url" \in result
    /\ On("invite") => (blocked # {} <=> "invite" \in result)
    /\ foreign = {} => result \cap {"detect_any_url", "shortener"} = {}

\* The counts of a user's activity agree with each other and with what was
\* sent: the windows are nested, every former copy of the text (as it was
\* sent, without mentions) sent in the last ten minutes counts as repeated,
\* and no more are repeated than were sent, when all have a time.
ActivityCounted ==
  stage = "processed" =>
    LET message == input.message
        same == {i \in DOMAIN message.recent \cap DOMAIN message.stamps :
                   /\ message.recent[i] = message.text
                   /\ message.at - message.stamps[i] \in 0..600}
        activity == result.activity IN
    /\ activity.in10s <= activity.in60s /\ activity.in60s <= activity.in10m
    /\ Count(message.text, Mentions) = 0 =>
         activity.repeated >= Cardinality(same)
    /\ Len(message.recent) <= Len(message.stamps) =>
         activity.repeated <= activity.in10m

\* What is in a message and around it is read as it is.
MessageRead == WordsFound /\ LinksAccounted /\ ActivityCounted

\* The least confidence of the rule engine (moderation_signal_normalizer.py).
EngineMinimum(minimum, label) ==
  IF minimum.label[label] # Unset THEN minimum.label[label]
  ELSE IF minimum.source # Unset THEN minimum.source ELSE minimum.default

\* What the check at start-up is for: no signal of a rule it let pass is
\* filtered out by the rule engine under the same policy.
EvidenceSurvives ==
  stage = "matched" =>
    \A id \in result \cap Checked :
      \A label \in settings.rule[id].labels :
        settings.rule[id].confidence
        >= EngineMinimum(input.policy.minimum, label)

\* The most confident detection of every class that the policy enables reaches
\* the decision with its confidence, unless more confident ones took all the
\* places; and no two signals of a class are about the same box.
DetectionsAccounted ==
  stage = "signalled" =>
    LET found  == Media!Candidates(input.rows, input.config)
        policy == input.policy
        seen(class) == {i \in DOMAIN found : found[i].class = class}
        best(class) == Max({found[i].confidence : i \in seen(class)})
        ahead(class) == {i \in DOMAIN found \ seen(class) :
                           found[i].confidence >= best(class)} IN
    /\ \A class \in Range(ClassNames) :
         (/\ Media!Enabled(class, policy) /\ seen(class) # {}
          /\ best(class) >= Media!Threshold(class, policy)
          /\ Cardinality(ahead(class)) < Min({input.config.most, policy.most}))
         => \E i \in DOMAIN result : /\ result[i].class = class
                                     /\ result[i].confidence = best(class)
    /\ \A i, j \in DOMAIN result :
         (i # j /\ result[i].class = result[j].class) =>
           ~Media!Overlap(result[i].box, result[j].box, policy.iou)

\* HATE is reserved for attacks on protected groups, whatever is said of a
\* family, and no label comes from harm that is far from every target.
TopicsJudged ==
  stage = "annotated" =>
    /\ "HATE" \in result.labels => result.topics \cap GroupTopics # {}
    /\ result.labels # {} =>
         \E topic \in result.topics, harm \in Harms :
           Attacked(input, topic, harm)
    /\ input.counter => result.labels = {}

\* A request is refused just when its key was admitted RateLimit times within
\* the window; an admission is forgotten only when, between two uses of its key,
\* at least MaxKeys others were used.  So a client that keeps to the limit is
\* never refused, and one that does not is not let in by a refused attempt.
RatesKept ==
  stage = "open" =>
    LET arrivals == result.arrivals
        uses(n) == {m \in 1..n : arrivals[m].key = arrivals[n].key}
        between(a, b) == {arrivals[m].key : m \in a + 1..b - 1}
        forgotten(m, n) ==
          \E a, b \in uses(n) :
            /\ m <= a /\ a < b
            /\ arrivals[n].key \notin between(a, b)
            /\ Cardinality(between(a, b)) >= MaxKeys
        counted(n) == {m \in uses(n) \ {n} :
                         /\ arrivals[m].allowed
                         /\ arrivals[n].at - arrivals[m].at < RateWindow
                         /\ ~forgotten(m, n)} IN
    \A n \in DOMAIN arrivals :
      arrivals[n].allowed <=> Cardinality(counted(n)) < RateLimit

\* The policies that are meant for a message, whatever the query says.
MeantFor(context) ==
  {row \in input.store :
     /\ row.enabled
     /\ row.kind # "GLOBAL" =>
          row.platform \in {Policies!Nothing, context.platform}
     /\ CASE row.kind = "USER"     -> row.id = context.user
          [] row.kind = "ROLE"     -> row.id \in Range(context.roles)
          [] row.kind = "CHANNEL"  -> row.id = context.channel
          [] row.kind = "GUILD"    -> row.id = context.guild
          [] row.kind = "PLATFORM" -> row.platform # Policies!Nothing
          [] row.kind = "CHAT"     -> /\ context.guild = Policies!Nothing
                                      /\ row.id = context.chat
          [] OTHER                 -> row.kind = "GLOBAL"}

\* The scopes the API is not asked for.
Unshown == {"USER", "ROLE", "CHAT"}

\* How wide a scope is; a chat counts only where there is no guild.
Breadth == [USER |-> 1, ROLE |-> 2, CHANNEL |-> 3, GUILD |-> 4, CHAT |-> 4,
            PLATFORM |-> 5, GLOBAL |-> 6]

\* A message gets the policy of the narrowest scope it is in, on its platform,
\* and the files decide only when nothing is stored for it or the store cannot
\* be read; and what the API shows for a channel is what holds there, but for
\* those who have a policy of their own, or of their chat.
PolicyFits ==
  stage \in {"queried", "resolved", "unavailable"} =>
    LET context == input.context
        meant   == MeantFor(context)
        shown   == Policies!ShownFor(context)
        effective(c) ==
          Policies!Foremost(Policies!Found(input.store, c), c) IN
    /\ (stage = "resolved" /\ result # FromFiles) =>
         /\ result.row \in meant
         /\ \A row \in meant :
              /\ Breadth[result.row.kind] <= Breadth[row.kind]
              /\ (row.kind = result.row.kind /\ row.id = result.row.id) =>
                   row.priority <= result.row.priority
    /\ stage = "queried" => (result = {} <=> meant = {})
    /\ (\A row \in meant : row.kind \notin Unshown) =>
         effective(shown) = effective(context)
=============================================================================
