--------------------------- MODULE SensitiveTopics ---------------------------
(***************************************************************************)
(* How the curation tools annotate a text (sensitive_topic_matcher.py).    *)
(* A text is abstracted to what the patterns find in its normalized form:  *)
(* the spans <<start, end>> of each topic, of each kind of harm and of     *)
(* group context, and whether a counter-speech pattern matches.            *)
(***************************************************************************)
EXTENDS Integers, FiniteSetsExt

CONSTANT HarmDistance  \* by harm: harm_proximity_chars, or proximity_chars

Topics == {"race", "gender", "family"}
GroupTopics == {"race", "gender"}
Harms == {"threat", "sexual", "sexual_abuse", "degradation", "hate_action",
          "profanity"}
Direct == 8  \* the distance at which an attack is aimed at the target itself

Distance(a, b) == Max({a[1] - b[2], b[1] - a[2], 0})
Near(targets, spans, d) ==
  \E a \in targets, b \in spans : Distance(a, b) <= d

-----------------------------------------------------------------------------
Mentioned(text) == {topic \in Topics : text.topics[topic] # {}}

Attacked(text, topic, harm) ==
  Near(text.topics[topic], text.harms[harm], HarmDistance[harm])
Aimed(text, topic, harm) == Near(text.topics[topic], text.harms[harm], Direct)
InGroupContext(text, topic) ==
  Near(text.topics[topic], text.group_context, HarmDistance["hate_action"])

\* Mutant: a threat against anybody is hate.
HateThreatAny(text, topic) ==
  Aimed(text, topic, "threat") \/ InGroupContext(text, topic)

HateThreat(text, topic) ==
  /\ topic \in GroupTopics
  /\ Aimed(text, topic, "threat") \/ InGroupContext(text, topic)

\* A degradation of a group counts in a group context, or aimed at it;
\* a hateful action against the family only aimed at it.
Degraded(text, topic) ==
  /\ Attacked(text, topic, "degradation")
  /\ \/ topic \notin GroupTopics \/ InGroupContext(text, topic)
     \/ Aimed(text, topic, "degradation")
Hated(text, topic) ==
  /\ Attacked(text, topic, "hate_action")
  /\ topic \in GroupTopics \/ Aimed(text, topic, "hate_action")

Found(holds, labels, severity) ==
  IF holds THEN {[labels |-> labels, severity |-> severity]} ELSE {}

Findings(text, topic) ==
  LET group == topic \in GroupTopics IN
  Found(Attacked(text, topic, "threat"),
        {"THREAT", "TOXIC"}
        \cup (IF HateThreat(text, topic) THEN {"HATE"} ELSE {}), 5)
  \cup Found(Attacked(text, topic, "sexual"), {"NSFW"}, 4)
  \cup Found(Attacked(text, topic, "sexual_abuse"), {"NSFW", "TOXIC"}, 5)
  \cup Found(Degraded(text, topic) \/ Hated(text, topic),
             IF group THEN {"TOXIC", "HATE"} ELSE {"TOXIC"},
             IF group THEN 4 ELSE 3)
  \cup Found(Attacked(text, topic, "profanity"), {"PROFANITY"}, 1)

\* annotate
Annotation(text) ==
  LET findings == IF text.counter THEN {}
                  ELSE UNION {Findings(text, topic) : topic \in Topics}
      labels == UNION {f.labels : f \in findings} IN
  [topics |-> Mentioned(text),
   labels |-> labels,
   severity |-> Max({0} \cup {f.severity : f \in findings}),
   review |-> /\ Mentioned(text) # {} /\ labels = {}
              /\ text.counter => \E harm \in Harms : text.harms[harm] # {}]
=============================================================================
