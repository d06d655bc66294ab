--------------------------- MODULE PolicyResolution ---------------------------
(***************************************************************************)
(* Which of the stored policies a message gets                             *)
(* (src/src/modules/policy/policy_resolver.py over                         *)
(* postgresql_policy_repository.py): the scopes of its context, from the   *)
(* narrowest to the widest, the rows that one query finds in them, and the *)
(* foremost of those rows.                                                 *)
(*                                                                         *)
(* The rows are those of one policy type; what a row says is a value, of   *)
(* which only matters whether the query can read it and whether it passes  *)
(* the validation of its type.                                             *)
(***************************************************************************)
EXTENDS Integers, FiniteSets, SequencesExt

Nothing == "nothing"

Scope(kind, id) == [kind |-> kind, id |-> id]
Given(kind, id) == IF id = Nothing THEN <<>> ELSE <<Scope(kind, id)>>

\* A chat counts only where there is no guild.
ScopeChain(context) ==
  Given("USER", context.user)
  \o [i \in DOMAIN context.roles |-> Scope("ROLE", context.roles[i])]
  \o Given("CHANNEL", context.channel)
  \o (IF context.guild # Nothing THEN Given("GUILD", context.guild)
      ELSE Given("CHAT", context.chat))
  \o Given("PLATFORM", context.platform)
  \o <<Scope("GLOBAL", Nothing)>>

\* PolicyScope.matches looks at the platform of a platform's policy only, and
\* at nothing of a global one.
Matches(scope, row) ==
  /\ row.kind = scope.kind
  /\ row.kind = "PLATFORM" => row.platform = scope.id
  /\ row.kind \notin {"PLATFORM", "GLOBAL"} => row.id = scope.id

\* Mutant: a policy of another platform is found by its id.
FoundOnAnyPlatform(store, context) ==
  {row \in store : /\ row.enabled
                   /\ \E scope \in Range(ScopeChain(context)) :
                        Matches(scope, row)}

\* get_enabled_policies also compares the platform, which a row may leave open.
Found(store, context) ==
  {row \in store :
     /\ row.enabled
     /\ \E scope \in Range(ScopeChain(context)) : Matches(scope, row)
     /\ row.kind \notin {"PLATFORM", "GLOBAL"} =>
          row.platform \in {Nothing, context.platform}}

Rank(row, chain) ==
  CHOOSE i \in DOMAIN chain :
    /\ Matches(chain[i], row)
    /\ \A j \in 1..i - 1 : ~Matches(chain[j], row)

\* By scope, then priority, then age; rows that agree in all come as they may.
Precedes(row, other, chain) ==
  LET a == Rank(row, chain)
      b == Rank(other, chain) IN
  \/ a < b
  \/ a = b /\ row.priority > other.priority
  \/ a = b /\ row.priority = other.priority /\ row.updated > other.updated

Foremost(rows, context) ==
  {row \in rows :
     \A other \in rows : ~Precedes(other, row, ScopeChain(context))}

\* effective_policies shows what holds in a channel, for nobody in particular.
ShownFor(context) ==
  [platform |-> context.platform, guild |-> context.guild,
   channel |-> context.channel,
   user |-> Nothing, roles |-> <<>>, chat |-> Nothing]
=============================================================================
