------------------------------- MODULE CriticAgent -------------------------------
(***************************************************************************)
(* Agent 3, IncomeReviewCriticAgent: one call of critique(), which asks    *)
(* the language model for a decision and accepts only the one that the     *)
(* deterministic table pairs with Agent 2's status; a rejected answer is   *)
(* repaired at most MAX_CRITIC_REPAIR_ATTEMPTS times.  The model is an     *)
(* arbitrary environment.                                                  *)
(***************************************************************************)
EXTENDS CriticResults, LocalModel, Sequences

CONSTANT CriticRequestGiven    \* the request objects critique() may be called with

ASSUME CriticRequestAssumption == CriticRequestGiven \subseteq CriticRequest

VARIABLES
  request,
  pc,                 \* "revalidate", "attempt" or "done"
  attempt_number,     \* the loop counter, 0 before the loop
  repair_reason,      \* what the next prompt says of the last answer
  answers,            \* history: the answers of the model
  result,
  outcome             \* how critique() ended

vars == <<request, pc, attempt_number, repair_reason, answers, result, outcome>>

\* A decision the parser or the revalidation rejects, and any other exception.
Unusable == {"invalid", "raised"}
Raises == [unusable |-> "raised"]
Invalid == [unusable |-> "invalid"]

\* The text of the model: a decision, or what is none.
Garbled == [garbled : {"duplicate_key", "malformed", "schema_violation", "long_number",
                       "too_deep"}]

\* decide(): only the exchange's own errors pass through it, but a number with too
\* many digits and JSON too deep for the parser leave it as other exceptions than
\* malformed JSON does.
Decide(generation, text) ==
  IF generation # "text" THEN Raises
  ELSE IF text \notin Garbled THEN text
  ELSE IF text.garbled \in {"long_number", "too_deep"} THEN Raises ELSE Invalid

\* What one call of decide() can come to.
Answer == {Decide(generation, text) :
             generation \in Generations, text \in CriticDecision \cup Garbled}

Init ==
  /\ request \in CriticRequestGiven
  /\ pc = "revalidate"
  /\ attempt_number = 0
  /\ repair_reason = "none"
  /\ answers = <<>>
  /\ result = NoCriticResult
  /\ outcome = "running"

Finish(kind, r) ==
  /\ pc' = "done"
  /\ outcome' = kind
  /\ result' = r

\* A request that was constructed or mutated past its validators raises
\* CriticInputError; a failed verification is passed on without a model call.
RequestRejected ==
  /\ pc = "revalidate"
  /\ ~ValidCriticRequest(request)
  /\ Finish("input_error", NoCriticResult)
  /\ UNCHANGED <<request, attempt_number, repair_reason, answers>>

UpstreamFailed ==
  /\ pc = "revalidate"
  /\ ValidCriticRequest(request)
  /\ request.verification_status = "failed"
  /\ Finish("returned", FailedCritic("upstream_verification_failed", 0, 0))
  /\ UNCHANGED <<request, attempt_number, repair_reason, answers>>

EnterLoop ==
  /\ pc = "revalidate"
  /\ ValidCriticRequest(request)
  /\ request.verification_status # "failed"
  /\ pc' = "attempt"
  /\ attempt_number' = 1
  /\ UNCHANGED <<request, repair_reason, answers, result, outcome>>

\* CriticDecisionContext.validate_attempt_kind; a context that does not validate
\* would raise out of critique(), RepairNamesTheCause says that it never does.
ContextValid == attempt_number = 1 <=> repair_reason = "none"

AttemptsLeft == attempt_number < MAX_CRITIC_MODEL_ATTEMPTS

\* The next attempt, or the end of the loop.
Repair(reason) ==
  /\ repair_reason' = reason
  /\ \/ /\ AttemptsLeft
        /\ attempt_number' = attempt_number + 1
        /\ UNCHANGED <<pc, result, outcome>>
     \/ /\ ~AttemptsLeft
        /\ Finish("returned", FailedCritic("repair_exhausted", MAX_CRITIC_MODEL_ATTEMPTS,
                                           MAX_CRITIC_REPAIR_ATTEMPTS))
        /\ UNCHANGED attempt_number

Compatible(a) == a = CompatibleDecision(request.verification_status)

ModelRaises(a) ==
  /\ a = Raises
  /\ Finish("returned", FailedCritic("model_decision_failed", attempt_number,
                                     attempt_number - 1))
  /\ UNCHANGED <<attempt_number, repair_reason>>

\* Mutant: the prompt blames the decision for output that did not parse.
OutputInvalidMisreported(a) == a = Invalid /\ Repair("contradictory_decision")

OutputInvalid(a) == a = Invalid /\ Repair("invalid_model_output")

\* Mutant: the reason code is not compared.
AcceptedByDisposition(a) ==
  /\ a \in CriticDecision
  /\ a.outcome = CompatibleDecision(request.verification_status).outcome
  /\ Finish("returned", CompletedCritic(a, attempt_number))
  /\ UNCHANGED <<attempt_number, repair_reason>>

Accepted(a) ==
  /\ Compatible(a)
  /\ Finish("returned", CompletedCritic(a, attempt_number))
  /\ UNCHANGED <<attempt_number, repair_reason>>

\* Mutant: a compatible answer may be sent back for repair.
ContradictoryAnyDecision(a) ==
  /\ a \in CriticDecision
  /\ Repair("contradictory_decision")

Contradictory(a) ==
  /\ a \in CriticDecision
  /\ ~Compatible(a)
  /\ Repair("contradictory_decision")

Attempt ==
  /\ pc = "attempt"
  /\ ContextValid
  /\ \E a \in Answer :
       /\ answers' = Append(answers, a)
       /\ ModelRaises(a) \/ OutputInvalid(a) \/ Accepted(a) \/ Contradictory(a)
  /\ UNCHANGED request

Terminated == pc = "done" /\ UNCHANGED vars

Next == RequestRejected \/ UpstreamFailed \/ EnterLoop \/ Attempt \/ Terminated

\* The loop runs in the calling thread, and a model call returns or raises.
Spec == Init /\ [][Next]_vars /\ WF_vars(Next)

-----------------------------------------------------------------------------
(***************************************************************************)
(* Properties.                                                             *)
(***************************************************************************)

\* Types of the loop's state.
TypeOK ==
  /\ request \in CriticRequestGiven
  /\ pc \in {"revalidate", "attempt", "done"}
  /\ attempt_number \in 0 .. MAX_CRITIC_MODEL_ATTEMPTS
  /\ repair_reason \in CriticRepairReason \cup {"none"}
  /\ answers \in Seq(Answer)
  /\ result \in CriticResult
  /\ outcome \in {"running", "returned", "input_error"}

\* The repair prompt tells the model why its last answer was rejected: a reason
\* of an earlier attempt is never carried over, and a context always validates.
RepairNamesTheCause ==
  pc = "attempt" =>
    /\ ContextValid
    /\ Len(answers) = attempt_number - 1
    /\ attempt_number > 1 =>
         repair_reason = IF answers[Len(answers)] = Invalid
                         THEN "invalid_model_output" ELSE "contradictory_decision"

\* A result tells the model calls that were really made, and a failure is reported
\* for what happened last: repair_exhausted only when every permitted call was
\* answered with something unusable or contradictory, and an answer that could be
\* accepted is never passed over for a repair.
ResultTellsTheAnswers ==
  outcome = "returned" =>
    /\ result.attempt_count = Len(answers)
    /\ result.status = "failed" =>
         /\ \A i \in 1 .. Len(answers) : ~Compatible(answers[i])
         /\ result.failure_code = "model_decision_failed" <=>
              \E i \in 1 .. Len(answers) : answers[i] = Raises
         /\ result.failure_code = "repair_exhausted" =>
              Len(answers) = MAX_CRITIC_MODEL_ATTEMPTS

\* critique() keeps the contract its caller relies on: one answer, and it is
\* either the only decision compatible with Agent 2's status or a failure.
Contract ==
  INSTANCE AgentContract WITH
    Request <- CriticRequestGiven, NoReply <- NoCriticReply,
    Replies <- CriticReplies, reply <- [kind |-> outcome, result |-> result]
KeepsContract == Contract!Spec
=============================================================================
