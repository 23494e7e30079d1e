------------------------------ MODULE CriticResults ------------------------------
(***************************************************************************)
(* Agent 3's amount-free request and its result contract                   *)
(* (financial_reviewer/agents/agent3_critic.py).                           *)
(***************************************************************************)
EXTENDS IncomeDomain

CONSTANTS
  MAX_CRITIC_MODEL_ATTEMPTS,
  MAX_CRITIC_REPAIR_ATTEMPTS

\* critique() reports MAX_CRITIC_REPAIR_ATTEMPTS repairs when every attempt was
\* rejected, and the result validates only when that is one less.
ASSUME CriticBudgetAssumption ==
  /\ MAX_CRITIC_MODEL_ATTEMPTS \in Nat \ {0}
  /\ MAX_CRITIC_REPAIR_ATTEMPTS = MAX_CRITIC_MODEL_ATTEMPTS - 1

CriticDisposition == {"grounded", "refuse", "escalate"}
CriticReasonCode ==
  {"evidence_consistent", "income_inconsistent", "income_not_comparable",
   "insufficient_evidence"}
CriticFailureCode ==
  {"upstream_verification_failed", "model_decision_failed", "repair_exhausted"}
CriticRepairReason == {"invalid_model_output", "contradictory_decision"}

CriticDecision == [outcome : CriticDisposition, reason_code : CriticReasonCode]
NoCriticDecision == [outcome |-> "none", reason_code |-> "none"]

\* _COMPATIBLE_DECISIONS: the one decision each domain status admits.
CompatibleDecision(status) ==
  IF status = "consistent"
    THEN [outcome |-> "grounded", reason_code |-> "evidence_consistent"]
  ELSE IF status = "inconsistent"
    THEN [outcome |-> "escalate", reason_code |-> "income_inconsistent"]
  ELSE IF status = "not_comparable"
    THEN [outcome |-> "escalate", reason_code |-> "income_not_comparable"]
  ELSE IF status = "insufficient_evidence"
    THEN [outcome |-> "refuse", reason_code |-> "insufficient_evidence"]
  ELSE NoCriticDecision

-----------------------------------------------------------------------------
(***************************************************************************)
(* The request: sources are reduced to the document types they have, the   *)
(* comparison to its result and reason.                                    *)
(***************************************************************************)
NoComparison == [result |-> "none", reason |-> "none"]

CriticRequest ==
  [verification_status : VerificationStatus,
   evidence_complete : BOOLEAN,
   source_types : SUBSET DocumentType,
   comparison : [result : ComparisonStatus, reason : VerificationReason]
                  \cup {NoComparison},
   verification_failure_code : VerificationFailureCode \cup {"none"}]

\* CriticComparisonSummary.validate_result_reason_pair.
ReasonAgrees(c) ==
  /\ c.reason \in {"exact_match", "income_values_inconsistent"} \cup NotComparableReason
  /\ c.result = ResultOf(c.reason)

\* CriticReviewRequest.validate_upstream_contract.
ValidCriticRequest(r) ==
  /\ r.comparison # NoComparison => ReasonAgrees(r.comparison)
  /\ r.verification_status = "failed" =>
       /\ r.verification_failure_code # "none"
       /\ ~r.evidence_complete
       /\ r.comparison = NoComparison
  /\ r.verification_status # "failed" => r.verification_failure_code = "none"
  /\ r.verification_status \in ComparisonStatus =>
       /\ r.evidence_complete
       /\ r.comparison.result = r.verification_status
       /\ SupportedPair(r.source_types)
  /\ r.verification_status = "insufficient_evidence" =>
       /\ ~r.evidence_complete
       /\ r.comparison = NoComparison

-----------------------------------------------------------------------------
(***************************************************************************)
(* The result, and what critique() may answer: the one compatible decision *)
(* or a failure, with the number of model calls it took.                   *)
(***************************************************************************)
CriticResult ==
  [status : {"none", "completed", "failed"},
   decision : CriticDecision \cup {NoCriticDecision},
   attempt_count : Nat,
   repair_count : Nat,
   failure_code : CriticFailureCode \cup {"none"}]

NoCriticResult ==
  [status |-> "none", decision |-> NoCriticDecision, attempt_count |-> 0,
   repair_count |-> 0, failure_code |-> "none"]

CompletedCritic(decision, attempts) ==
  [status |-> "completed", decision |-> decision, attempt_count |-> attempts,
   repair_count |-> attempts - 1, failure_code |-> "none"]

FailedCritic(code, attempts, repairs) ==
  [status |-> "failed", decision |-> NoCriticDecision, attempt_count |-> attempts,
   repair_count |-> repairs, failure_code |-> code]

\* CriticResult.validate_result_contract and its field bounds.
ValidCriticResult(r) ==
  /\ r.attempt_count <= MAX_CRITIC_MODEL_ATTEMPTS
  /\ r.repair_count <= MAX_CRITIC_REPAIR_ATTEMPTS
  /\ r.status = "completed" => /\ r.decision # NoCriticDecision
                               /\ r.failure_code = "none"
                               /\ r.attempt_count >= 1
  /\ r.status = "failed" => /\ r.decision = NoCriticDecision
                            /\ r.failure_code # "none"
  /\ r.repair_count = IF r.attempt_count = 0 THEN 0 ELSE r.attempt_count - 1

NoCriticReply == [kind |-> "running", result |-> NoCriticResult]
CriticInputError == [kind |-> "input_error", result |-> NoCriticResult]
CriticReturned(r) == [kind |-> "returned", result |-> r]

CriticReplies(request) ==
  LET Attempts == 1 .. MAX_CRITIC_MODEL_ATTEMPTS IN
  IF ~ValidCriticRequest(request) THEN {CriticInputError}
  ELSE IF request.verification_status = "failed"
    THEN {CriticReturned(FailedCritic("upstream_verification_failed", 0, 0))}
  ELSE
    {CriticReturned(CompletedCritic(CompatibleDecision(request.verification_status), n)) :
       n \in Attempts} \cup
    {CriticReturned(FailedCritic("model_decision_failed", n, n - 1)) : n \in Attempts} \cup
    {CriticReturned(FailedCritic("repair_exhausted", MAX_CRITIC_MODEL_ATTEMPTS,
                                 MAX_CRITIC_REPAIR_ATTEMPTS))}
=============================================================================
