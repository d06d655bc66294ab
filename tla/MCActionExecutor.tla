-------------------------- MODULE MCActionExecutor --------------------------
(* Constants of the TLC run of ActionExecutor.                             *)
EXTENDS ActionExecutor

\* One action, two in order, an action beside its own review, an action no
\* client has a method for, and plans that are empty or of nothing.
MCPlans == {<<>>, <<"IGNORE">>, <<"BAN">>, <<"DELETE", "BAN">>,
            <<"BAN", "REVIEW">>, <<"DELETE", "DELETE_WARN">>}

\* Everything allowed, no reviews, and deletion alone; reviews of bans, and of
\* reviews as well; with all timeouts and with none.
MCPolicies ==
  [enabled : BOOLEAN, dryRun : BOOLEAN,
   allowed : {Actions, Actions \ {"REVIEW"}, {"DELETE"}},
   review : {{}, {"BAN"}, {"BAN", "REVIEW"}},
   timed : {{}, Executable}, logs : BOOLEAN]
=============================================================================
