------------------------------ MODULE AgentContract ------------------------------
(***************************************************************************)
(* The contract between IncomeReviewOrchestrator and an agent it calls: a  *)
(* request is answered once, with one of the replies the request allows.   *)
(* How the agent comes to its answer (model calls, tools, retries) does    *)
(* not show.  VerificationAgent and CriticAgent implement it.              *)
(***************************************************************************)
CONSTANTS
  Request,       \* the requests an agent may be given
  NoReply,       \* the call has not returned
  Replies(_)     \* the answers a request allows, returned or raised

VARIABLES request, reply
vars == <<request, reply>>

Init == request \in Request /\ reply = NoReply

Answer ==
  /\ reply = NoReply
  /\ reply' \in Replies(request)
  /\ UNCHANGED request

Spec == Init /\ [][Answer]_vars /\ WF_vars(Answer)
=============================================================================
