-------------------------- MODULE MCDatasetCuration --------------------------
(* Constants of the TLC run of DatasetCuration.                            *)
EXTENDS DatasetCuration, TLC

Text(topics, harms, context) ==
  [topics |-> topics @@ [t \in Topics |-> {}],
   harms |-> harms @@ [h \in Harms |-> {}],
   group_context |-> context, counter |-> FALSE]

MCHarmDistance == [h \in Harms |-> 20]

\* A threat to the family, a group degraded in a group context, an invite.
MCTexts == {"threat", "slur", "invite"}
MCContent ==
  [t \in MCTexts |->
     CASE t = "threat" -> Text("family" :> {<<0, 4>>}, "threat" :> {<<9, 12>>},
                               {})
       [] t = "slur" -> Text("race" :> {<<0, 4>>},
                             "degradation" :> {<<16, 20>>}, {<<22, 24>>})
       [] OTHER -> Text(<<>>, <<>>, {})]

OfRow(t, labels, severity) ==
  [text |-> t, labels |-> labels, severity |-> severity]
MCInviteTexts == {"invite"}
MCFamilyTemplates == {"threat"}
MCOwnRows ==
  {OfRow("threat", {"SAFE"}, 0), OfRow("threat", {"SAFE", "SPAM"}, 2),
   OfRow("slur", {"PROFANITY"}, 5), OfRow("invite", {"INVITE"}, 1)}
MCLocalRows == {OfRow("threat", {}, 3), OfRow("slur", {"PROFANITY"}, 1)}
MCMaxOwn == [train |-> 2, validation |-> 1]
MCRequired == [invite_train |-> 1, invite_validation |-> 0,
               family_threat |-> 1]
=============================================================================
