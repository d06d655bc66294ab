--------------------------- MODULE RequestService ---------------------------
(***************************************************************************)
(* What `ModerationRequestQueue.moderate` promises to the coroutine that   *)
(* awaits it, without any queue or worker: a request is turned away or     *)
(* accepted; an accepted one is evaluated by the moderation service at     *)
(* most MaxAttempts times; it is answered at most once, with a result      *)
(* after some evaluation or with the error of the last allowed one; and    *)
(* nothing is evaluated for it after the answer.  A caller that gives up   *)
(* is never answered, but the work already accepted for it may go on.      *)
(***************************************************************************)
EXTENDS Naturals

CONSTANTS Requests,     \* the calls of moderate(), one member per call
          MaxAttempts   \* evaluations the service may spend on one call

VARIABLES status,       \* what the caller of each request has seen
          evaluations   \* how often each request was evaluated

serviceVars == <<status, evaluations>>

ServiceInit ==
  /\ status = [r \in Requests |-> "none"]
  /\ evaluations = [r \in Requests |-> 0]

Answer(r, from, to) ==
  /\ status[r] = from
  /\ status' = [status EXCEPT ![r] = to]
  /\ UNCHANGED evaluations

Evaluate(r) ==
  /\ status[r] \in {"pending", "cancelled"}
  /\ evaluations[r] < MaxAttempts
  /\ evaluations' = [evaluations EXCEPT ![r] = @ + 1]
  /\ UNCHANGED status

ServiceNext ==
  \E r \in Requests :
    \/ Answer(r, "none", "rejected")
    \/ Answer(r, "none", "pending")
    \/ Answer(r, "pending", "cancelled")
    \/ Evaluate(r)
    \/ evaluations[r] > 0 /\ Answer(r, "pending", "result")
    \/ evaluations[r] = MaxAttempts /\ Answer(r, "pending", "exception")

ServiceSpec == ServiceInit /\ [][ServiceNext]_serviceVars
=============================================================================
