---------------------------- MODULE CriticAgentProofs ----------------------------
(***************************************************************************)
(* Agent 3's safety properties and its contract, for every request and     *)
(* every number of attempts.                                               *)
(*                                                                         *)
(* The inductive invariant adds to the properties what the loop knows of   *)
(* the answers it went on after: none was compatible, none was an error of *)
(* the exchange (Loop).                                                    *)
(***************************************************************************)
EXTENDS CriticAgent, TLAPS

Entry ==
  pc = "revalidate" => attempt_number = 0 /\ repair_reason = "none" /\ answers = <<>>

Loop ==
  pc = "attempt" =>
    /\ attempt_number >= 1
    /\ Len(answers) = attempt_number - 1
    /\ ContextValid
    /\ attempt_number > 1 =>
         repair_reason = IF answers[Len(answers)] = Invalid
                         THEN "invalid_model_output" ELSE "contradictory_decision"
    /\ ValidCriticRequest(request) /\ request.verification_status # "failed"
    /\ \A i \in 1 .. Len(answers) : ~Compatible(answers[i]) /\ answers[i] # Raises

Open == pc # "done" => outcome = "running" /\ result = NoCriticResult

\* The result model of the code never refuses what critique() puts into it.
ResultValidates == outcome = "returned" => ValidCriticResult(result)

IInv == TypeOK /\ Entry /\ Loop /\ Open /\ ResultTellsTheAnswers /\ ResultValidates

-----------------------------------------------------------------------------
(***************************************************************************)
(* Decisions and what is none.                                             *)
(***************************************************************************)
LEMMA UnusableIsNoDecision ==
  /\ Raises \notin CriticDecision /\ Invalid \notin CriticDecision /\ Raises # Invalid
<1>1. Raises.unusable = "raised" /\ Invalid.unusable = "invalid"
  BY DEF Raises, Invalid
<1>2. DOMAIN Raises = {"unusable"} /\ DOMAIN Invalid = {"unusable"}
  BY DEF Raises, Invalid
<1>3. \A d \in CriticDecision : DOMAIN d = {"outcome", "reason_code"}
  BY DEF CriticDecision
<1>4. "outcome" \notin {"unusable"}
  OBVIOUS
<1>5. QED
  BY <1>1, <1>2, <1>3, <1>4

LEMMA CompatibleIsADecision ==
  ASSUME NEW status \in VerificationStatus, status # "failed"
  PROVE  CompatibleDecision(status) \in CriticDecision
<1>1. status \in {"consistent", "inconsistent", "not_comparable", "insufficient_evidence"}
  BY DEF VerificationStatus, ComparisonStatus
<1>2. QED
  BY <1>1 DEF CompatibleDecision, CriticDecision, CriticDisposition, CriticReasonCode

LEMMA NoDecisionIsNone == NoCriticDecision \notin CriticDecision
BY DEF NoCriticDecision, CriticDecision, CriticDisposition

LEMMA FailedCriticType ==
  ASSUME NEW code \in CriticFailureCode, NEW n \in Nat, NEW m \in Nat
  PROVE  FailedCritic(code, n, m) \in CriticResult
BY DEF FailedCritic, CriticResult

LEMMA CompletedCriticType ==
  ASSUME NEW d \in CriticDecision, NEW n \in Nat \ {0}
  PROVE  CompletedCritic(d, n) \in CriticResult
BY DEF CompletedCritic, CriticResult

-----------------------------------------------------------------------------
LEMMA InitInvariant == Init => IInv
<1> SUFFICES ASSUME Init PROVE IInv
  OBVIOUS
<1>1. NoCriticResult \in CriticResult
  BY DEF NoCriticResult, CriticResult
<1>2. <<>> \in Seq(Answer)
  OBVIOUS
<1>3. TypeOK
  BY <1>1, <1>2, CriticBudgetAssumption DEF Init, TypeOK
<1>4. QED
  BY <1>3 DEF Init, IInv, Entry, Loop, Open, ResultTellsTheAnswers, ResultValidates

LEMMA RevalidateInvariant ==
  IInv /\ (RequestRejected \/ UpstreamFailed \/ EnterLoop) => IInv'
<1> SUFFICES ASSUME IInv, RequestRejected \/ UpstreamFailed \/ EnterLoop PROVE IInv'
  OBVIOUS
<1>1. /\ TypeOK /\ pc = "revalidate" /\ attempt_number = 0 /\ repair_reason = "none"
      /\ answers = <<>> /\ outcome = "running" /\ result = NoCriticResult
      /\ UNCHANGED <<request, repair_reason, answers>>
  BY DEF IInv, Entry, Open, RequestRejected, UpstreamFailed, EnterLoop
<1>2. CASE RequestRejected
  <2>1. pc' = "done" /\ outcome' = "input_error" /\ result' = NoCriticResult
        /\ attempt_number' = attempt_number
    BY <1>2 DEF RequestRejected, Finish
  <2>2. QED
    BY <1>1, <2>1 DEF IInv, TypeOK, Entry, Loop, Open, ResultTellsTheAnswers,
       ResultValidates
<1>3. CASE UpstreamFailed
  <2> DEFINE r == FailedCritic("upstream_verification_failed", 0, 0)
  <2>1. pc' = "done" /\ outcome' = "returned" /\ result' = r
        /\ attempt_number' = attempt_number
    BY <1>3 DEF UpstreamFailed, Finish
  <2>2. "upstream_verification_failed" \in CriticFailureCode
    BY DEF CriticFailureCode
  <2>3. r \in CriticResult
    BY <2>2, FailedCriticType
  <2>4. ValidCriticResult(r)
    BY CriticBudgetAssumption DEF ValidCriticResult, FailedCritic
  <2>5. /\ r.status = "failed" /\ r.attempt_count = 0
        /\ r.failure_code = "upstream_verification_failed"
    BY DEF FailedCritic
  <2> HIDE DEF r
  <2>6. ResultTellsTheAnswers'
    BY <1>1, <2>1, <2>5 DEF ResultTellsTheAnswers
  <2>7. TypeOK'
    BY <1>1, <2>1, <2>3 DEF TypeOK
  <2>8. QED
    BY <1>1, <2>1, <2>4, <2>6, <2>7 DEF IInv, Entry, Loop, Open, ResultValidates
<1>4. CASE EnterLoop
  <2>1. /\ pc' = "attempt" /\ attempt_number' = 1 /\ UNCHANGED <<result, outcome>>
        /\ ValidCriticRequest(request) /\ request.verification_status # "failed"
    BY <1>4 DEF EnterLoop
  <2>2. Len(answers) = 0
    BY <1>1
  <2>3. TypeOK'
    BY <1>1, <2>1, CriticBudgetAssumption DEF TypeOK
  <2>4. Loop'
    BY <1>1, <2>1, <2>2 DEF Loop, ContextValid
  <2>5. QED
    BY <1>1, <2>1, <2>3, <2>4 DEF IInv, Entry, Open, ResultTellsTheAnswers,
       ResultValidates
<1>5. QED
  BY <1>2, <1>3, <1>4

-----------------------------------------------------------------------------
(***************************************************************************)
(* One attempt.                                                            *)
(***************************************************************************)
\* What the loop knows when the model has answered.
LEMMA Answered ==
  ASSUME IInv, pc = "attempt", NEW a \in Answer, answers' = Append(answers, a)
  PROVE  /\ TypeOK /\ attempt_number \in 1 .. MAX_CRITIC_MODEL_ATTEMPTS
         /\ MAX_CRITIC_MODEL_ATTEMPTS \in Nat
         /\ MAX_CRITIC_REPAIR_ATTEMPTS = MAX_CRITIC_MODEL_ATTEMPTS - 1
         /\ outcome = "running" /\ result = NoCriticResult
         /\ ValidCriticRequest(request) /\ request.verification_status # "failed"
         /\ CompatibleDecision(request.verification_status) \in CriticDecision
         /\ answers' \in Seq(Answer) /\ Len(answers') = attempt_number
         /\ answers'[attempt_number] = a
         /\ \A i \in 1 .. attempt_number : i # attempt_number =>
              ~Compatible(answers'[i]) /\ answers'[i] # Raises
<1>1. /\ TypeOK /\ attempt_number \in 1 .. MAX_CRITIC_MODEL_ATTEMPTS
      /\ Len(answers) = attempt_number - 1 /\ answers \in Seq(Answer)
      /\ ValidCriticRequest(request) /\ request.verification_status # "failed"
      /\ outcome = "running" /\ result = NoCriticResult
      /\ \A i \in 1 .. Len(answers) : ~Compatible(answers[i]) /\ answers[i] # Raises
  BY DEF IInv, TypeOK, Loop, Open
<1>2. request.verification_status \in VerificationStatus
  BY <1>1, CriticRequestAssumption DEF TypeOK, CriticRequest
<1>3. CompatibleDecision(request.verification_status) \in CriticDecision
  BY <1>1, <1>2, CompatibleIsADecision
<1>4. /\ answers' \in Seq(Answer) /\ Len(answers') = attempt_number
      /\ answers'[attempt_number] = a
      /\ \A i \in 1 .. attempt_number : i # attempt_number =>
           i \in 1 .. Len(answers) /\ answers'[i] = answers[i]
  BY <1>1
<1>5. \A i \in 1 .. attempt_number : i # attempt_number =>
        ~Compatible(answers'[i]) /\ answers'[i] # Raises
  BY <1>1, <1>4
<1>6. QED
  BY <1>1, <1>3, <1>4, <1>5, CriticBudgetAssumption

\* An answer that is neither accepted nor an error of the exchange: the next prompt
\* tells why, or the loop ends.
LEMMA RepairInvariant ==
  ASSUME IInv, pc = "attempt", NEW a \in Answer, answers' = Append(answers, a),
         UNCHANGED request, NEW reason \in CriticRepairReason, Repair(reason),
         ~Compatible(a), a # Raises,
         reason = IF a = Invalid THEN "invalid_model_output" ELSE "contradictory_decision"
  PROVE  IInv'
<1>1. /\ TypeOK /\ attempt_number \in 1 .. MAX_CRITIC_MODEL_ATTEMPTS
      /\ MAX_CRITIC_MODEL_ATTEMPTS \in Nat
      /\ MAX_CRITIC_REPAIR_ATTEMPTS = MAX_CRITIC_MODEL_ATTEMPTS - 1
      /\ outcome = "running" /\ result = NoCriticResult
      /\ ValidCriticRequest(request) /\ request.verification_status # "failed"
      /\ answers' \in Seq(Answer) /\ Len(answers') = attempt_number
      /\ answers'[attempt_number] = a
      /\ \A i \in 1 .. attempt_number : i # attempt_number =>
           ~Compatible(answers'[i]) /\ answers'[i] # Raises
  BY Answered
<1>2. \A i \in 1 .. attempt_number : ~Compatible(answers'[i]) /\ answers'[i] # Raises
  BY <1>1
<1>c. CompatibleDecision(request'.verification_status)
        = CompatibleDecision(request.verification_status)
  OBVIOUS
<1>3. repair_reason' = reason /\ reason # "none"
  BY DEF Repair, CriticRepairReason
<1>4. CASE AttemptsLeft /\ attempt_number' = attempt_number + 1
           /\ UNCHANGED <<pc, result, outcome>>
  <2>1. attempt_number' \in 2 .. MAX_CRITIC_MODEL_ATTEMPTS
    BY <1>1, <1>4 DEF AttemptsLeft
  <2>2. TypeOK'
    BY <1>1, <1>3, <1>4, <2>1 DEF TypeOK
  <2>3. Loop'
    BY <1>1, <1>2, <1>c, <1>3, <1>4, <2>1 DEF Loop, ContextValid, Compatible
  <2>4. QED
    BY <1>1, <1>4, <2>2, <2>3 DEF IInv, Entry, Open, ResultTellsTheAnswers, ResultValidates
<1>5. CASE ~AttemptsLeft /\ UNCHANGED attempt_number
           /\ Finish("returned", FailedCritic("repair_exhausted", MAX_CRITIC_MODEL_ATTEMPTS,
                                              MAX_CRITIC_REPAIR_ATTEMPTS))
  <2> DEFINE r == FailedCritic("repair_exhausted", MAX_CRITIC_MODEL_ATTEMPTS,
                               MAX_CRITIC_REPAIR_ATTEMPTS)
  <2>1. attempt_number = MAX_CRITIC_MODEL_ATTEMPTS
    BY <1>1, <1>5 DEF AttemptsLeft
  <2>2. pc' = "done" /\ outcome' = "returned" /\ result' = r
    BY <1>5 DEF Finish
  <2>3. "repair_exhausted" \in CriticFailureCode /\ MAX_CRITIC_REPAIR_ATTEMPTS \in Nat
    BY <1>1, CriticBudgetAssumption DEF CriticFailureCode
  <2>4. r \in CriticResult
    BY <1>1, <2>3, FailedCriticType
  <2>5. ValidCriticResult(r)
    BY <1>1, <2>1 DEF ValidCriticResult, FailedCritic
  <2>6. /\ r.status = "failed" /\ r.attempt_count = MAX_CRITIC_MODEL_ATTEMPTS
        /\ r.failure_code = "repair_exhausted"
    BY DEF FailedCritic
  <2> HIDE DEF r
  <2>7. ResultTellsTheAnswers'
    BY <1>1, <1>2, <1>c, <2>1, <2>2, <2>6 DEF ResultTellsTheAnswers, Compatible
  <2>8. TypeOK'
    BY <1>1, <1>3, <1>5, <2>2, <2>4 DEF TypeOK
  <2>9. QED
    BY <2>2, <2>5, <2>7, <2>8 DEF IInv, Entry, Loop, Open, ResultValidates
<1>6. QED
  BY <1>4, <1>5 DEF Repair

LEMMA AttemptInvariant == IInv /\ Attempt => IInv'
<1> SUFFICES ASSUME IInv, Attempt PROVE IInv'
  OBVIOUS
<1>1. PICK a \in Answer :
        /\ answers' = Append(answers, a)
        /\ ModelRaises(a) \/ OutputInvalid(a) \/ Accepted(a) \/ Contradictory(a)
  BY DEF Attempt
<1>2. pc = "attempt" /\ UNCHANGED request
  BY DEF Attempt
<1>3. /\ TypeOK /\ attempt_number \in 1 .. MAX_CRITIC_MODEL_ATTEMPTS
      /\ MAX_CRITIC_MODEL_ATTEMPTS \in Nat
      /\ MAX_CRITIC_REPAIR_ATTEMPTS = MAX_CRITIC_MODEL_ATTEMPTS - 1
      /\ CompatibleDecision(request.verification_status) \in CriticDecision
      /\ answers' \in Seq(Answer) /\ Len(answers') = attempt_number
      /\ answers'[attempt_number] = a
      /\ \A i \in 1 .. attempt_number : i # attempt_number =>
           ~Compatible(answers'[i]) /\ answers'[i] # Raises
  BY <1>1, <1>2, Answered
<1>4. \A d : Compatible(d)' = Compatible(d)
  BY <1>2 DEF Compatible
<1>5. CASE ModelRaises(a)
  <2> DEFINE r == FailedCritic("model_decision_failed", attempt_number, attempt_number - 1)
  <2>1. /\ a = Raises /\ pc' = "done" /\ outcome' = "returned" /\ result' = r
        /\ UNCHANGED <<attempt_number, repair_reason>>
    BY <1>5 DEF ModelRaises, Finish
  <2>2. /\ "model_decision_failed" \in CriticFailureCode
        /\ attempt_number \in Nat /\ attempt_number - 1 \in Nat
    BY <1>3 DEF CriticFailureCode
  <2>3. r \in CriticResult
    BY <2>2, FailedCriticType
  <2>4. ValidCriticResult(r)
    BY <1>3 DEF ValidCriticResult, FailedCritic
  <2>5. /\ r.status = "failed" /\ r.attempt_count = attempt_number
        /\ r.failure_code = "model_decision_failed"
    BY DEF FailedCritic
  <2> HIDE DEF r
  <2>6. ~Compatible(a)
    BY <1>3, <2>1, UnusableIsNoDecision DEF Compatible
  <2>7. ResultTellsTheAnswers'
    BY <1>3, <1>4, <2>1, <2>5, <2>6 DEF ResultTellsTheAnswers
  <2>8. TypeOK'
    BY <1>2, <1>3, <2>1, <2>3 DEF TypeOK
  <2>9. QED
    BY <2>1, <2>4, <2>7, <2>8 DEF IInv, Entry, Loop, Open, ResultValidates
<1>6. CASE OutputInvalid(a)
  <2>1. a = Invalid /\ Repair("invalid_model_output")
    BY <1>6 DEF OutputInvalid
  <2>2. ~Compatible(a) /\ a # Raises /\ "invalid_model_output" \in CriticRepairReason
    BY <1>3, <2>1, UnusableIsNoDecision DEF Compatible, CriticRepairReason
  <2>3. QED
    BY <1>1, <1>2, <2>1, <2>2, RepairInvariant
<1>7. CASE Accepted(a)
  <2> DEFINE r == CompletedCritic(a, attempt_number)
  <2>1. /\ Compatible(a) /\ pc' = "done" /\ outcome' = "returned" /\ result' = r
        /\ UNCHANGED <<attempt_number, repair_reason>>
    BY <1>7 DEF Accepted, Finish
  <2>2. a \in CriticDecision /\ attempt_number \in Nat \ {0}
    BY <1>3, <2>1 DEF Compatible
  <2>3. r \in CriticResult
    BY <2>2, CompletedCriticType
  <2>4. a # NoCriticDecision
    BY <2>2, NoDecisionIsNone
  <2>5. ValidCriticResult(r)
    BY <1>3, <2>4 DEF ValidCriticResult, CompletedCritic
  <2>6. r.status = "completed" /\ r.attempt_count = attempt_number
    BY DEF CompletedCritic
  <2> HIDE DEF r
  <2>7. ResultTellsTheAnswers'
    BY <1>3, <2>1, <2>6 DEF ResultTellsTheAnswers
  <2>8. TypeOK'
    BY <1>2, <1>3, <2>1, <2>3 DEF TypeOK
  <2>9. QED
    BY <2>1, <2>5, <2>7, <2>8 DEF IInv, Entry, Loop, Open, ResultValidates
<1>8. CASE Contradictory(a)
  <2>1. a \in CriticDecision /\ ~Compatible(a) /\ Repair("contradictory_decision")
    BY <1>8 DEF Contradictory
  <2>2. a # Invalid /\ a # Raises /\ "contradictory_decision" \in CriticRepairReason
    BY <2>1, UnusableIsNoDecision DEF CriticRepairReason
  <2>3. QED
    BY <1>1, <1>2, <2>1, <2>2, RepairInvariant
<1>9. QED
  BY <1>1, <1>5, <1>6, <1>7, <1>8

LEMMA NextInvariant == IInv /\ [Next]_vars => IInv'
<1> SUFFICES ASSUME IInv, [Next]_vars PROVE IInv'
  OBVIOUS
<1>1. CASE RequestRejected \/ UpstreamFailed \/ EnterLoop
  BY <1>1, RevalidateInvariant
<1>2. CASE Attempt
  BY <1>2, AttemptInvariant
<1>3. CASE UNCHANGED vars
  BY <1>3 DEF IInv, vars, TypeOK, Entry, Loop, ContextValid, Compatible, Open,
     ResultTellsTheAnswers, ResultValidates
<1>4. QED
  BY <1>1, <1>2, <1>3 DEF Next, Terminated

\* The inductive invariant holds of every execution.
THEOREM Invariance == Spec => []IInv
BY InitInvariant, NextInvariant, PTL DEF Spec

\* The loop's state keeps its types.
THEOREM TypeCorrectness == Spec => []TypeOK
<1>1. IInv => TypeOK
  BY DEF IInv
<1>2. QED
  BY <1>1, Invariance, PTL

\* Whatever the model answers, the prompt of a further attempt names why the last
\* answer was rejected, and the decision context of every attempt validates.
THEOREM RepairsNameTheCause == Spec => []RepairNamesTheCause
<1>1. IInv => RepairNamesTheCause
  BY DEF IInv, Loop, RepairNamesTheCause
<1>2. QED
  BY <1>1, Invariance, PTL

\* A result counts the model calls that were made, no answer that could be
\* accepted was passed over, and a failure is reported for what happened last.
THEOREM ResultsTellTheAnswers == Spec => []ResultTellsTheAnswers
<1>1. IInv => ResultTellsTheAnswers
  BY DEF IInv
<1>2. QED
  BY <1>1, Invariance, PTL

\* The validators of CriticResult never refuse what critique() builds, at any
\* number of attempts.
THEOREM ResultsValidate == Spec => []ResultValidates
<1>1. IInv => ResultValidates
  BY DEF IInv
<1>2. QED
  BY <1>1, Invariance, PTL

-----------------------------------------------------------------------------
(***************************************************************************)
(* The contract.                                                           *)
(***************************************************************************)
LEMMA RevalidateAnswers ==
  IInv /\ (RequestRejected \/ UpstreamFailed \/ EnterLoop)
    => [Contract!Answer]_(Contract!vars)
<1> SUFFICES ASSUME IInv, RequestRejected \/ UpstreamFailed \/ EnterLoop
             PROVE  Contract!Answer \/ UNCHANGED <<request, outcome, result>>
  BY DEF Contract!vars
<1>1. /\ pc = "revalidate" /\ outcome = "running" /\ result = NoCriticResult
      /\ UNCHANGED request
  BY DEF IInv, Open, RequestRejected, UpstreamFailed, EnterLoop
<1>2. CASE RequestRejected
  BY <1>1, <1>2 DEF RequestRejected, Finish, Contract!Answer, CriticReplies, NoCriticReply,
     CriticInputError
<1>3. CASE UpstreamFailed
  BY <1>1, <1>3 DEF UpstreamFailed, Finish, Contract!Answer, CriticReplies, NoCriticReply,
     CriticReturned
<1>4. CASE EnterLoop
  BY <1>1, <1>4 DEF EnterLoop
<1>5. QED
  BY <1>2, <1>3, <1>4

\* The answers the contract allows to a request that is put to the model.
LEMMA RepliesOfTheLoop ==
  ASSUME NEW r, ValidCriticRequest(r), r.verification_status # "failed",
         NEW n \in 1 .. MAX_CRITIC_MODEL_ATTEMPTS
  PROVE  /\ CriticReturned(CompletedCritic(CompatibleDecision(r.verification_status), n))
              \in CriticReplies(r)
         /\ CriticReturned(FailedCritic("model_decision_failed", n, n - 1))
              \in CriticReplies(r)
         /\ CriticReturned(FailedCritic("repair_exhausted", MAX_CRITIC_MODEL_ATTEMPTS,
                                        MAX_CRITIC_REPAIR_ATTEMPTS)) \in CriticReplies(r)
BY DEF CriticReplies

LEMMA AttemptAnswers == IInv /\ Attempt => [Contract!Answer]_(Contract!vars)
<1> SUFFICES ASSUME IInv, Attempt
             PROVE  Contract!Answer \/ UNCHANGED <<request, outcome, result>>
  BY DEF Contract!vars
<1>1. PICK a \in Answer :
        /\ answers' = Append(answers, a)
        /\ ModelRaises(a) \/ OutputInvalid(a) \/ Accepted(a) \/ Contradictory(a)
  BY DEF Attempt
<1>2. pc = "attempt" /\ UNCHANGED request
  BY DEF Attempt
<1>3. /\ attempt_number \in 1 .. MAX_CRITIC_MODEL_ATTEMPTS
      /\ outcome = "running" /\ result = NoCriticResult
      /\ ValidCriticRequest(request) /\ request.verification_status # "failed"
  BY <1>1, <1>2, Answered
<1> DEFINE Allowed(r) == CriticReturned(r) \in CriticReplies(request)
<1>4. \A r : Allowed(r) /\ Finish("returned", r) => Contract!Answer
  BY <1>2, <1>3 DEF Finish, Contract!Answer, NoCriticReply, CriticReturned
<1>5. /\ Allowed(CompletedCritic(CompatibleDecision(request.verification_status),
                               attempt_number))
      /\ Allowed(FailedCritic("model_decision_failed", attempt_number, attempt_number - 1))
      /\ Allowed(FailedCritic("repair_exhausted", MAX_CRITIC_MODEL_ATTEMPTS,
                            MAX_CRITIC_REPAIR_ATTEMPTS))
  BY <1>3, RepliesOfTheLoop
<1> HIDE DEF Allowed
<1>6. CASE ModelRaises(a)
  BY <1>4, <1>5, <1>6 DEF ModelRaises
<1>7. CASE Accepted(a)
  BY <1>4, <1>5, <1>7 DEF Accepted, Compatible
<1>8. CASE OutputInvalid(a) \/ Contradictory(a)
  <2>1. PICK reason : Repair(reason)
    BY <1>8 DEF OutputInvalid, Contradictory
  <2>2. QED
    BY <1>2, <1>4, <1>5, <2>1 DEF Repair
<1>9. QED
  BY <1>1, <1>6, <1>7, <1>8

LEMMA StepRefines == IInv /\ [Next]_vars => [Contract!Answer]_(Contract!vars)
<1> SUFFICES ASSUME IInv, [Next]_vars PROVE [Contract!Answer]_(Contract!vars)
  OBVIOUS
<1>1. CASE RequestRejected \/ UpstreamFailed \/ EnterLoop
  BY <1>1, RevalidateAnswers
<1>2. CASE Attempt
  BY <1>2, AttemptAnswers
<1>3. CASE UNCHANGED vars
  BY <1>3 DEF vars, Contract!vars
<1>4. QED
  BY <1>1, <1>2, <1>3 DEF Next, Terminated

\* Agent 3 keeps the contract its caller relies on, for every request and every
\* number of attempts: one answer, and it is a failure or the one decision that
\* the table pairs with Agent 2's status.
THEOREM ContractKept == Spec => Contract!Init /\ [][Contract!Answer]_(Contract!vars)
<1>1. Init => Contract!Init
  BY DEF Init, Contract!Init, NoCriticReply
<1>2. QED
  BY <1>1, StepRefines, Invariance, PTL DEF Spec
=============================================================================
