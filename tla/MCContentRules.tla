---------------------------- MODULE MCContentRules ----------------------------
(* Constants of the TLC run of ContentRules.                               *)
EXTENDS ContentRules

MCCyrillic == {"a", "A", "b", "B", "d", "s"}
MCLatin == {"l", "L"}
MCUppercase == {"A", "B", "L"}
MCBlanks == {" ", "tab"}
MCZeroWidth == {"zw"}
MCControls == {"zw", "rlo"}
MCSeparators == {" ", "tab", ".", "-", "_"}
MCMentions == {"@"}
MCLinks == {"evil", "tube", "short", "invited", "uninvited", "spelled"}
MCChars == MCCyrillic \cup MCLatin \cup MCControls \cup MCSeparators
           \cup MCMentions \cup MCLinks \cup {"1", "em"}
MCFold == [c \in MCChars |->
             CASE c = "A" -> "a" [] c = "B" -> "b" [] c = "L" -> "l"
               [] OTHER -> c]
MCAddress == <<" ", "d", "d", " ">>
MCTypos == {"d"}
MCStems == {<<"b", "b", "a">>}

MCHost == [l \in MCLinks |->
             CASE l = "evil" -> <<"www", "evil", "com">>
               [] l = "tube" -> <<"m", "tube", "com">>
               [] l = "short" -> <<"go", "ly">>
               [] l = "spelled" -> <<>>
               [] OTHER -> <<"discord", "gg">>]
MCCode == [l \in MCLinks |->
             CASE l = "invited" -> "ours" [] l = "uninvited" -> "theirs"
               [] l = "spelled" -> "others" [] OTHER -> "none"]
MCDiscordDomains == {<<"discord", "gg">>, <<"discord", "com">>}

Word == <<"a", "b", "a">>
Soft == <<"b", "a", "s">>
MCDictionary == [obscene |-> {Word}, literary |-> {Soft}]

-----------------------------------------------------------------------------
(* Rule files and moderation policies                                      *)

Words == [id \in {"obscene", "literary", "blacklist_words", "hate", "nsfw",
                  "politics"} |-> {}]
\* No file: everything is as by default.
NoFile == [given |-> <<>>, legacy |-> <<>>, words |-> Words, codes |-> {},
           domains |-> [allowed |-> {<<"tube", "com">>},
                        shortener |-> {<<"go", "ly">>}]]
Enable == [enabled |-> TRUE]
Everything ==
  [NoFile EXCEPT
     !.given = [id \in {"obscene", "literary", "hate", "nsfw", "politics"} |->
                  Enable]
               @@ [repeated_words |-> [tokens |-> 2, threshold |-> 2],
                   mass_mentions |-> [threshold |-> 2],
                   targeted_mass_mentions |-> [threshold |-> 1]],
     !.words.blacklist_words = {<<"l", "1">>}, !.words.hate = {<<"l", "l">>},
     !.words.nsfw = {<<"l", " ", "l">>}, !.words.politics = {<<"s", "s">>},
     !.codes = {"ours"}]
Former ==
  [NoFile EXCEPT
     !.legacy = [detect_any_url |-> FALSE, max_messages_10s |-> 1,
                 max_messages_60s |-> 2, max_repeated_messages_10m |-> 1,
                 profanity |-> Enable],
     !.given = [literary |-> Enable, invite |-> [enabled |-> FALSE]],
     !.words.literary = {Word, Soft}]
Weak == [NoFile EXCEPT
           !.given = [invite |-> [confidence |-> 350],
                      shortener |-> [severity |-> 5]]]

MCLabels == {"URL", "SPAM", "FLOOD", "TOXIC", "HATE", "NSFW", "POLITICS_IRL",
             "PROFANITY", "INVITE", "EVASION"}
Policy(source, label) ==
  [sourceWeight |-> 100, severities |-> 0..5, ceiling |-> 100,
   priority |-> MCLabels, labelWeight |-> [l \in MCLabels |-> 10],
   minimum |-> [default |-> 400, source |-> source,
                label |-> label @@ [l \in MCLabels |-> Unset]]]
Usual == Policy(300, "HATE" :> 300)
Demanding == Policy(300, "URL" :> 600)
Relaxed == Policy(600, [l \in MCLabels |-> 100])
Narrow == [Usual EXCEPT !.severities = 0..4]

Cases(files, policies, messages) ==
  [file : files, policy : policies, message : messages]

-----------------------------------------------------------------------------
(* Messages                                                                *)

Now == 1000
Message(text) ==
  [text |-> text, at |-> Now, mentions |-> 0, recent |-> <<>>, stamps |-> <<>>]

\* Ways to write the word: in capitals, with characters between its letters,
\* after and before other text.
Gaps == {<<>>, <<"zw">>, <<".">>, <<"tab", "zw">>, <<"-", "_">>}
Before == {<<>>, <<"l", " ">>, <<"b", "b", "zw", " ">>, <<"@">>, <<"-">>}
After == {<<>>, <<"a", "a">>, <<" ", "b">>, <<"zw">>}
Written ==
  {p \o <<x>> \o g \o <<y>> \o h \o <<"a">> \o q :
     p \in Before, q \in After, g \in Gaps, h \in Gaps,
     x \in {"a", "A"}, y \in {"b", "B"}}

Linking == {SetToSeq(S) : S \in SUBSET MCLinks}

Copies == {<<"a", "A">>, <<"a", "a">>, <<"l">>, <<"@", "l">>}
Active ==
  {[text |-> t, at |-> Now, mentions |-> 0, recent |-> r, stamps |-> s] :
     t \in {<<"a", "A">>, <<"@", "l">>}, r \in BoundedSeq(Copies, 2),
     s \in BoundedSeq({Now + 1, Now, Now - 10, Now - 11, Now - 600, Now - 601},
                      2)}

\* Words on the lists, shouting, emoji, repetitions and mentions.
Loud ==
  {<<"l", "1">>, <<"l", "l">>, <<"l", " ", "l">>, <<"s", "s", " ", "s", "s">>,
   <<"@", "a", "b", "a", "@">>, <<"rlo", "l", "a">>, <<"b", "a", "d">>,
   <<"l", "b", "b", "a">>, <<"em", "em", "em", "l">>,
   <<"l", "L", "l", "l", "L", "l", "l">>,
   <<"A", "B", "A", "B", "A", "B", "A", "B", " ", "A">>}

MCMessages ==
  Cases({Everything, Former}, {Usual},
        {Message(t) : t \in Written \cup Linking \cup Loud})
  \cup Cases({NoFile}, {Usual, Demanding, Relaxed},
             {Message(t) : t \in Linking})
  \cup Cases({Weak}, {Usual, Narrow}, {Message(t) : t \in Linking})
  \cup Cases({Former}, {Usual}, Active)

-----------------------------------------------------------------------------
(* Images and texts                                                        *)

MCClassNames == <<"gun", "nude">>
Boxes == {<<0, 0, 10, 10>>, <<1, 0, 11, 10>>, <<20, 20, 30, 30>>}
Row(scores, objectness, box) ==
  [scores |-> scores, objectness |-> objectness, box |-> box]
Rows ==
  {Row(s, 100, b) : s \in {<<90, 10>>, <<60, 10>>, <<60, 60>>, <<20, 70>>},
                    b \in Boxes}
  \cup {Row(<<10, 90>>, 50, b) : b \in Boxes}
ImageClass(enabled, confidence) ==
  [enabled |-> enabled, confidence |-> confidence, label |-> "NSFW",
   severity |-> 4]
ImagePolicy(gun, nude, most) ==
  [classes |-> [gun |-> gun, nude |-> nude], confidence |-> 50, iou |-> 50,
   most |-> most]
MCImages ==
  [rows : BoundedSeq(Rows, 3),
   config : {[confidence |-> 40, iou |-> 60, most |-> 2]},
   policy : {ImagePolicy(ImageClass(TRUE, 60), ImageClass(TRUE, 40), 2),
             ImagePolicy(ImageClass(FALSE, 60), ImageClass(TRUE, 70), 1)}]

MCHarmDistance == [h \in Harms |-> IF h = "hate_action" THEN 10 ELSE 20]
Spans == {{}, {<<0, 4>>}, {<<30, 34>>}}
MCTexts ==
  {[topics |-> t, harms |-> h @@ [x \in Harms |-> {}],
    group_context |-> g, counter |-> c] :
     t \in [Topics -> Spans], g \in Spans, c \in BOOLEAN,
     h \in {x :> {s} : x \in Harms, s \in {<<9, 12>>, <<22, 28>>, <<60, 62>>}}}

-----------------------------------------------------------------------------
(* Stored policies                                                         *)

PolicyRow(kind, id, platform) ==
  [kind |-> kind, id |-> id, platform |-> platform, enabled |-> TRUE,
   priority |-> 0, updated |-> 0, readable |-> TRUE, valid |-> TRUE]
Stored(kind, id) == PolicyRow(kind, id, "discord")
Anywhere == Policies!Nothing
StoredRows ==
  {Stored("USER", "u"), Stored("ROLE", "r"), Stored("ROLE", "q"),
   Stored("CHANNEL", "c"), Stored("GUILD", "g"), Stored("CHAT", "h"),
   Stored("PLATFORM", Anywhere), PolicyRow("GLOBAL", Anywhere, Anywhere),
   PolicyRow("GUILD", "g", Anywhere), PolicyRow("GUILD", "g", "telegram"),
   PolicyRow("PLATFORM", Anywhere, "telegram"), Stored("CHANNEL", "d")}
  \cup {[Stored("GUILD", "g") EXCEPT !.priority = 1],
        [Stored("GUILD", "g") EXCEPT !.updated = 1],
        [Stored("CHANNEL", "c") EXCEPT !.valid = FALSE],
        [Stored("USER", "u") EXCEPT !.enabled = FALSE],
        [Stored("GUILD", "g") EXCEPT !.readable = FALSE]}
From(guild, channel, user, roles) ==
  [platform |-> "discord", guild |-> guild, channel |-> channel,
   chat |-> "h", user |-> user, roles |-> roles]
MCLookups ==
  [store : UNION {kSubset(k, StoredRows) : k \in 0..3},
   context : {From("g", "c", "u", <<"r", "q">>), From("g", "c", "v", <<"q">>),
              From("g", "e", "v", <<>>), From(Anywhere, "c", "v", <<"q">>)}
             \cup {[From("g", "c", Anywhere, <<>>) EXCEPT !.chat = Anywhere],
                   [Policies!ShownFor(From(Anywhere, Anywhere, "u", <<>>))
                      EXCEPT !.platform = Anywhere]}]
=============================================================================
