--------------------------- MODULE IncomeReviewProofs ---------------------------
(***************************************************************************)
(* Safety of the whole review for every budget, every pair of documents    *)
(* and every answer of the three agents.                                   *)
(*                                                                         *)
(* The inductive invariant follows the chain of artifacts: each flag of    *)
(* the state vouches for one artifact and for the artifacts before it.     *)
(* The proofs begin with the two handoffs, whose answers it stands on.     *)
(***************************************************************************)
EXTENDS IncomeReview, HandoffCheck, FiniteSetTheorems, TLAPS

-----------------------------------------------------------------------------
(***************************************************************************)
(* What the handoff operators return.                                      *)
(***************************************************************************)
\* The comparison policy does not depend on the side a fact is on.
LEMMA ComparisonSymmetric ==
  ASSUME NEW l, NEW r
  PROVE  CompareIncome(l, r) = CompareIncome(r, l)
BY DEF CompareIncome, ComparisonReason, ResultOf

\* A pair that passes the first handoff: everything its checks establish.
LEMMA HandoffPassed ==
  ASSUME NEW xs, VerificationHandoffCode(xs) = "none"
  PROVE  /\ Len(xs) = 2
         /\ \A i \in 1 .. 2 : /\ xs[i].valid /\ xs[i].evidence_guard_passed
                              /\ IncomeUsable(xs[i])
         /\ xs[1].document_id # xs[2].document_id
         /\ SupportedPair({xs[1].document_type, xs[2].document_type})
BY DEF VerificationHandoffCode

\* One of the two is the pay stub, the other the W-2.
LEMMA PairCases ==
  ASSUME NEW t, NEW u, SupportedPair({t, u})
  PROVE  (t = "pay_stub" /\ u = "tax_form") \/ (t = "tax_form" /\ u = "pay_stub")
BY DEF SupportedPair

\* The request has the pay stub's fact and the W-2's, whatever their order.
LEMMA RequestFacts ==
  ASSUME NEW xs, VerificationHandoffCode(xs) = "none"
  PROVE  LET ev == VerificationRequest(xs) IN
         /\ DOMAIN ev = Source
         /\ \/ ev["pay_stub"] = EvidenceOf(xs[1]) /\ ev["tax_form"] = EvidenceOf(xs[2])
               /\ xs[1].document_type = "pay_stub" /\ xs[2].document_type = "tax_form"
            \/ ev["pay_stub"] = EvidenceOf(xs[2]) /\ ev["tax_form"] = EvidenceOf(xs[1])
               /\ xs[1].document_type = "tax_form" /\ xs[2].document_type = "pay_stub"
<1>1. SupportedPair({xs[1].document_type, xs[2].document_type})
  BY HandoffPassed
<1>2. \/ xs[1].document_type = "pay_stub" /\ xs[2].document_type = "tax_form"
      \/ xs[1].document_type = "tax_form" /\ xs[2].document_type = "pay_stub"
  BY <1>1, PairCases
<1>3. QED
  BY <1>2, SourceAssumption DEF VerificationRequest

\* A fact taken from an extraction is a well-typed income fact.
LEMMA EvidenceTyped ==
  ASSUME NEW x \in Extraction PROVE EvidenceOf(x) \in IncomeEvidence
BY DEF Extraction, EvidenceOf, IncomeEvidence, DocumentType, IncomePeriod, IncomeBasis

LEMMA RequestTyped ==
  ASSUME NEW xs \in Seq(Extraction), VerificationHandoffCode(xs) = "none"
  PROVE  VerificationRequest(xs) \in [Source -> IncomeEvidence]
<1>0. Len(xs) = 2
  BY HandoffPassed
<1>1. xs[1] \in Extraction /\ xs[2] \in Extraction
  BY <1>0
<1>2. \A s \in Source : EvidenceOf(IF xs[1].document_type = s THEN xs[1] ELSE xs[2])
                        \in IncomeEvidence
  BY <1>1, EvidenceTyped
<1>3. QED
  BY <1>2 DEF VerificationRequest

\* A verdict about a request that was assembled from two extractions is the exact
\* policy's verdict on the two facts they carry.
LEMMA VerdictOfExtractions ==
  ASSUME NEW xs, VerificationHandoffCode(xs) = "none",
         NEW r \in Verdicts(VerificationRequest(xs))
  PROVE  r.status = CompareIncome(EvidenceOf(xs[1]), EvidenceOf(xs[2])).result
<1> DEFINE ev == VerificationRequest(xs)
<1>1. PICK S \in SUBSET Usable(ev) :
        \E pair \in {p \in S \X S : p[1] # p[2]} : \E calls, invalid :
          r = Verdict(ev, S, pair, calls, invalid)
  BY DEF Verdicts
<1>2. PICK pair \in {p \in S \X S : p[1] # p[2]} :
        r.status = CompareIncome(ev[pair[1]], ev[pair[2]]).result
  BY <1>1 DEF Verdict, ComparisonOf
<1>3. pair[1] \in Source /\ pair[2] \in Source /\ pair[1] # pair[2]
  BY <1>2 DEF Usable
<1>4. r.status = CompareIncome(ev["pay_stub"], ev["tax_form"]).result
  BY <1>2, <1>3, SourceAssumption, ComparisonSymmetric
<1>5. QED
  BY <1>4, RequestFacts, ComparisonSymmetric

-----------------------------------------------------------------------------
\* What Agent 2 may answer is a well-typed result that validates.
LEMMA SourceFinite == IsFiniteSet(Source)
<1>1. IsFiniteSet({"pay_stub"})
  BY FS_Singleton
<1>2. IsFiniteSet({"pay_stub"} \cup {"tax_form"})
  BY <1>1, FS_AddElement
<1>3. QED
  BY <1>2, SourceAssumption

LEMMA ComparisonTyped ==
  ASSUME NEW ev, NEW l \in Source, NEW r \in Source
  PROVE  ComparisonOf(ev, l, r) \in Comparison
BY DEF ComparisonOf, Comparison, CompareIncome, ComparisonReason, ResultOf,
   ComparisonStatus, VerificationReason, NotComparableReason

LEMMA VerdictTyped ==
  ASSUME NEW ev, NEW r \in Verdicts(ev)
  PROVE  r \in Result /\ r.status \in ComparisonStatus /\ ValidResult(r)
<1>1. PICK S \in SUBSET Usable(ev) :
        \E pair \in {p \in S \X S : p[1] # p[2]},
           calls \in (Cardinality(S) + 1) .. MAX_VERIFICATION_TOOL_CALLS,
           invalid \in 0 .. MAX_INVALID_DECISIONS :
          r = Verdict(ev, S, pair, calls, invalid)
  BY DEF Verdicts
<1>2. PICK pair \in {p \in S \X S : p[1] # p[2]},
           calls \in (Cardinality(S) + 1) .. MAX_VERIFICATION_TOOL_CALLS,
           invalid \in 0 .. MAX_INVALID_DECISIONS :
          r = Verdict(ev, S, pair, calls, invalid)
  BY <1>1
<1>3. S \in SUBSET Source /\ pair[1] \in Source /\ pair[2] \in Source
  BY <1>1, <1>2 DEF Usable
<1>4. Cardinality(S) \in Nat
  BY <1>3, SourceFinite, FS_Subset, FS_CardinalityType
<1>5. calls \in Nat /\ invalid \in Nat
  BY <1>2, <1>4, BudgetAssumption
<1> DEFINE c == ComparisonOf(ev, pair[1], pair[2])
<1>6. c \in Comparison
  BY <1>3, ComparisonTyped
<1>7. c.result \in ComparisonStatus /\ c.reason \in VerificationReason
  BY <1>6 DEF Comparison
<1>8. r \in Result /\ r.status \in ComparisonStatus
  BY <1>2, <1>3, <1>5, <1>6, <1>7 DEF Verdict, Result, VerificationStatus
<1>9. Cardinality(r.comparisons) = 1
  BY <1>2, FS_Singleton DEF Verdict
<1>10. /\ r.tool_call_count <= MAX_VERIFICATION_TOOL_CALLS
       /\ r.invalid_decision_count <= MAX_INVALID_DECISIONS + 1
       /\ r.failure_code = "none"
  BY <1>2, <1>4, BudgetAssumption DEF Verdict
<1>11. QED
  BY <1>8, <1>9, <1>10 DEF ValidResult, ComparisonStatus

LEMMA InsufficiencyTyped ==
  ASSUME NEW ev, NEW r \in Insufficiencies(ev)
  PROVE  r \in Result /\ r.status = "insufficient_evidence" /\ ValidResult(r)
<1>1. PICK S \in SUBSET Usable(ev) :
        \E calls \in Cardinality(S) .. MAX_VERIFICATION_TOOL_CALLS,
           invalid \in 0 .. MAX_INVALID_DECISIONS :
          r = InsufficientEvidence(S, calls, invalid)
  BY DEF Insufficiencies
<1>2. PICK calls \in Cardinality(S) .. MAX_VERIFICATION_TOOL_CALLS,
           invalid \in 0 .. MAX_INVALID_DECISIONS :
          r = InsufficientEvidence(S, calls, invalid)
  BY <1>1
<1>3. S \in SUBSET Source
  BY <1>1 DEF Usable
<1>4. Cardinality(S) \in Nat
  BY <1>3, SourceFinite, FS_Subset, FS_CardinalityType
<1>5. calls \in Nat /\ invalid \in Nat
  BY <1>2, <1>4, BudgetAssumption
<1>6. QED
  BY <1>2, <1>3, <1>4, <1>5, BudgetAssumption DEF InsufficientEvidence, Result,
     VerificationStatus, VerificationReason, ValidResult, ComparisonStatus

LEMMA FailureTyped ==
  ASSUME NEW r \in Failures
  PROVE  r \in Result /\ r.status = "failed" /\ ValidResult(r)
BY BudgetAssumption DEF Failures, FailedResult, Result, VerificationStatus,
   VerificationFailureCode, ValidResult, ComparisonStatus

LEMMA ReplyTyped ==
  ASSUME NEW ev, NEW reply \in VerificationReplies(ev), reply.kind = "returned"
  PROVE  /\ reply.result \in Result
         /\ reply.result.status \in ComparisonStatus => reply.result \in Verdicts(ev)
         /\ reply.result.status # "none"
         /\ ValidResult(reply.result)
<1>1. reply.result \in Verdicts(ev) \cup Insufficiencies(ev) \cup Failures
  BY DEF VerificationReplies, Raised
<1>2. QED
  BY <1>1, VerdictTyped, InsufficiencyTyped, FailureTyped DEF ComparisonStatus

-----------------------------------------------------------------------------
\* What Agent 3 is asked, and may answer, is well typed.
LEMMA CriticRequestTyped ==
  ASSUME NEW ev \in [Source -> IncomeEvidence], NEW r \in Result, r.status # "none"
  PROVE  CriticRequestOf(ev, r) \in CriticRequest
<1>1. SourceTypes(ev, r) \in SUBSET DocumentType
  BY DEF SourceTypes, Result, IncomeEvidence
<1>2. CASE r.comparisons = {}
  BY <1>1, <1>2 DEF CriticRequestOf, CriticRequest, EvidenceComplete, Result, NoComparison
<1>3. CASE r.comparisons # {}
  <2> DEFINE c == CHOOSE d \in r.comparisons : TRUE
  <2>1. c \in Comparison
    BY <1>3 DEF Result
  <2>2. [result |-> c.result, reason |-> c.reason] \in
          [result : ComparisonStatus, reason : VerificationReason]
    BY <2>1 DEF Comparison
  <2>3. QED
    BY <1>1, <1>3, <2>2 DEF CriticRequestOf, CriticRequest, EvidenceComplete, Result
<1>4. QED
  BY <1>2, <1>3

LEMMA CriticReplyTyped ==
  ASSUME NEW request, NEW reply \in CriticReplies(request), reply.kind = "returned"
  PROVE  /\ reply.result \in CriticResult
         /\ reply.result.status \in {"completed", "failed"}
         /\ reply.result.status = "completed" =>
              /\ reply.result.decision = CompatibleDecision(request.verification_status)
              /\ reply.result.failure_code = "none"
         /\ reply.result.attempt_count <= MAX_CRITIC_MODEL_ATTEMPTS
         /\ reply.result.repair_count <= MAX_CRITIC_REPAIR_ATTEMPTS
<1> DEFINE Attempts == 1 .. MAX_CRITIC_MODEL_ATTEMPTS
<1>1. \/ reply = CriticReturned(FailedCritic("upstream_verification_failed", 0, 0))
      \/ \E n \in Attempts :
           reply = CriticReturned(
                     CompletedCritic(CompatibleDecision(request.verification_status), n))
      \/ \E n \in Attempts :
           reply = CriticReturned(FailedCritic("model_decision_failed", n, n - 1))
      \/ reply = CriticReturned(
                   FailedCritic("repair_exhausted", MAX_CRITIC_MODEL_ATTEMPTS,
                                MAX_CRITIC_REPAIR_ATTEMPTS))
  BY DEF CriticReplies, CriticInputError
<1>2. /\ MAX_CRITIC_MODEL_ATTEMPTS \in Nat
      /\ MAX_CRITIC_REPAIR_ATTEMPTS = MAX_CRITIC_MODEL_ATTEMPTS - 1
      /\ MAX_CRITIC_REPAIR_ATTEMPTS \in Nat
      /\ \A n \in Attempts : n \in Nat /\ n - 1 \in Nat
  BY CriticBudgetAssumption
<1>3. CompatibleDecision(request.verification_status)
        \in CriticDecision \cup {NoCriticDecision}
  BY DEF CompatibleDecision, CriticDecision, CriticDisposition, CriticReasonCode
<1>4. CASE \E n \in Attempts :
             reply = CriticReturned(
                       CompletedCritic(CompatibleDecision(request.verification_status), n))
  BY <1>2, <1>3, <1>4 DEF CriticReturned, CompletedCritic, CriticResult
<1>5. ASSUME NEW code \in CriticFailureCode, NEW n \in Nat, NEW m \in Nat,
             n <= MAX_CRITIC_MODEL_ATTEMPTS, m <= MAX_CRITIC_REPAIR_ATTEMPTS,
             reply = CriticReturned(FailedCritic(code, n, m))
      PROVE  /\ reply.result \in CriticResult
             /\ reply.result.status = "failed"
             /\ reply.result.attempt_count <= MAX_CRITIC_MODEL_ATTEMPTS
             /\ reply.result.repair_count <= MAX_CRITIC_REPAIR_ATTEMPTS
  BY <1>5 DEF CriticReturned, FailedCritic, CriticResult
<1>6. CASE reply = CriticReturned(FailedCritic("upstream_verification_failed", 0, 0))
  BY <1>2, <1>5, <1>6 DEF CriticFailureCode
<1>7. CASE \E n \in Attempts :
             reply = CriticReturned(FailedCritic("model_decision_failed", n, n - 1))
  <2>1. PICK n \in Attempts :
          reply = CriticReturned(FailedCritic("model_decision_failed", n, n - 1))
    BY <1>7
  <2>2. n <= MAX_CRITIC_MODEL_ATTEMPTS /\ n - 1 <= MAX_CRITIC_REPAIR_ATTEMPTS
    BY <1>2
  <2>3. QED
    BY <1>2, <1>5, <2>1, <2>2 DEF CriticFailureCode
<1>8. CASE reply = CriticReturned(
                     FailedCritic("repair_exhausted", MAX_CRITIC_MODEL_ATTEMPTS,
                                  MAX_CRITIC_REPAIR_ATTEMPTS))
  BY <1>2, <1>5, <1>8 DEF CriticFailureCode
<1>9. QED
  BY <1>1, <1>4, <1>6, <1>7, <1>8

LEMMA CriticReplyValid ==
  ASSUME NEW request \in CriticRequest, NEW reply \in CriticReplies(request),
         reply.kind = "returned", reply.result.status = "completed"
  PROVE  ValidCriticResult(reply.result)
<1> DEFINE status == request.verification_status
           Attempts == 1 .. MAX_CRITIC_MODEL_ATTEMPTS
<1>1. PICK n \in Attempts :
        reply = CriticReturned(CompletedCritic(CompatibleDecision(status), n))
        /\ status # "failed"
  BY DEF CriticReplies, CriticInputError, CriticReturned, FailedCritic
<1>2. status \in ComparisonStatus \cup {"insufficient_evidence"}
  BY <1>1 DEF CriticRequest, VerificationStatus
<1>3. CompatibleDecision(status) # NoCriticDecision
  BY <1>2 DEF CompatibleDecision, NoCriticDecision, ComparisonStatus
<1>4. /\ n \in Nat /\ n >= 1 /\ n <= MAX_CRITIC_MODEL_ATTEMPTS
      /\ n - 1 <= MAX_CRITIC_REPAIR_ATTEMPTS /\ n # 0
  BY CriticBudgetAssumption
<1>5. QED
  BY <1>1, <1>3, <1>4 DEF CriticReturned, CompletedCritic, ValidCriticResult

-----------------------------------------------------------------------------
(***************************************************************************)
(* Both handoffs, for everything they may be given: each answer is the     *)
(* operators' answer for the inputs still at hand.                         *)
(***************************************************************************)
HandoffIInv ==
  /\ boundary \in {"none", "verification", "critic"}
  /\ extractions \in Seq(Extraction)
  /\ boundary = "verification" =>
       /\ answer = VerificationHandoffCode(extractions)
       /\ answer = "none" => evidence = VerificationRequest(extractions)
  /\ boundary = "critic" =>
       /\ result \in Result /\ result.status \in VerificationStatus
       /\ defect \in Defect
       /\ answer = CriticHandoffCode(evidence, result, defect)

LEMMA HandoffStarts == HandoffInit => HandoffIInv
<1> SUFFICES ASSUME HandoffInit PROVE HandoffIInv
  OBVIOUS
<1>1. extractions \in [1 .. 1 -> ExtractionGiven] \cup [1 .. 2 -> ExtractionGiven]
  BY DEF HandoffInit
<1>2. \E n \in Nat : extractions \in [1 .. n -> Extraction]
  <2>1. CASE extractions \in [1 .. 1 -> ExtractionGiven]
    BY <2>1, GivenAssumption
  <2>2. CASE extractions \in [1 .. 2 -> ExtractionGiven]
    BY <2>2, GivenAssumption
  <2>3. QED
    BY <1>1, <2>1, <2>2
<1>3. extractions \in Seq(Extraction)
  BY <1>2
<1>4. QED
  BY <1>3 DEF HandoffInit, HandoffIInv

LEMMA HandoffSteps == HandoffIInv /\ [HandoffNext]_handoff_vars => HandoffIInv'
<1> SUFFICES ASSUME HandoffIInv, [HandoffNext]_handoff_vars PROVE HandoffIInv'
  OBVIOUS
<1>1. CASE AssembleVerification
  BY <1>1 DEF HandoffIInv, AssembleVerification
<1>2. CASE AssembleCritic
  BY <1>2, GivenAssumption DEF HandoffIInv, AssembleCritic
<1>3. CASE UNCHANGED handoff_vars
  BY <1>3 DEF HandoffIInv, handoff_vars
<1>4. QED
  BY <1>1, <1>2, <1>3 DEF HandoffNext

\* Whatever the assemblers are given, their answers stay those of their checks.
THEOREM HandoffInvariance == HandoffSpec => []HandoffIInv
BY HandoffStarts, HandoffSteps, PTL DEF HandoffSpec

\* The request does not depend on which of the two documents comes first.
LEMMA RequestOfSwapped ==
  ASSUME NEW xs, VerificationHandoffCode(xs) = "none"
  PROVE  VerificationRequest(<<xs[2], xs[1]>>) = VerificationRequest(xs)
<1>1. \/ xs[1].document_type = "pay_stub" /\ xs[2].document_type = "tax_form"
      \/ xs[1].document_type = "tax_form" /\ xs[2].document_type = "pay_stub"
  BY HandoffPassed, PairCases
<1>2. \A s \in Source :
        EvidenceOf(IF xs[2].document_type = s THEN xs[2] ELSE xs[1])
          = EvidenceOf(IF xs[1].document_type = s THEN xs[1] ELSE xs[2])
  BY <1>1, SourceAssumption
<1>3. QED
  BY <1>2 DEF VerificationRequest

\* Nor does the error.
LEMMA CodeOfSwapped ==
  ASSUME NEW xs, Len(xs) = 2
  PROVE  VerificationHandoffCode(<<xs[2], xs[1]>>) = VerificationHandoffCode(xs)
<1> DEFINE ys == <<xs[2], xs[1]>>
<1>1. Len(ys) = 2 /\ ys[1] = xs[2] /\ ys[2] = xs[1]
  OBVIOUS
<1>2. /\ (\E i \in 1 .. 2 : ~ys[i].valid) <=> (\E i \in 1 .. 2 : ~xs[i].valid)
      /\ (\E i \in 1 .. 2 : ~ys[i].evidence_guard_passed)
           <=> (\E i \in 1 .. 2 : ~xs[i].evidence_guard_passed)
      /\ (\E i \in 1 .. 2 : ~IncomeUsable(ys[i]))
           <=> (\E i \in 1 .. 2 : ~IncomeUsable(xs[i]))
  <2>1. \A i \in 1 .. 2 : i = 1 \/ i = 2
    OBVIOUS
  <2>2. 1 \in 1 .. 2 /\ 2 \in 1 .. 2
    OBVIOUS
  <2> HIDE DEF ys
  <2>3. QED
    BY <1>1, <2>1, <2>2, Zenon
<1>3. {ys[1].document_type, ys[2].document_type}
        = {xs[1].document_type, xs[2].document_type}
  BY <1>1
<1>4. ys[1].document_id = ys[2].document_id <=> xs[1].document_id = xs[2].document_id
  BY <1>1
<1>5. VerificationHandoffCode(ys) = VerificationHandoffCode(xs)
  <2> HIDE DEF ys
  <2>1. QED
    BY <1>1, <1>2, <1>3, <1>4 DEF VerificationHandoffCode
<1>6. QED
  BY <1>5

\* The orchestrator may hand the documents over in either order.
THEOREM OrderIsFree == HandoffSpec => []OrderDoesNotMatter
<1>1. HandoffIInv => OrderDoesNotMatter
  BY CodeOfSwapped, RequestOfSwapped DEF HandoffIInv, OrderDoesNotMatter
<1>2. QED
  BY <1>1, HandoffInvariance, PTL

\* One fact of a request that passed: its document, its tool, its bounds.
LEMMA FactDecidable ==
  ASSUME NEW xs \in Seq(Extraction), VerificationHandoffCode(xs) = "none",
         NEW s \in Source
  PROVE  LET e == VerificationRequest(xs)[s] IN
         /\ e \in IncomeEvidence
         /\ e.calendar_year \in EvidenceYear
         /\ e.document_type = s
         /\ Normalizable(e)
<1> DEFINE e == VerificationRequest(xs)[s]
<1>1. e \in IncomeEvidence
  BY RequestTyped
<1>2. PICK i \in 1 .. 2 : e = EvidenceOf(xs[i]) /\ xs[i].document_type = s
  BY RequestFacts, SourceAssumption
<1>3. IncomeUsable(xs[i])
  BY HandoffPassed
<1>4. /\ e.document_type = s
      /\ e.period = IF s = "pay_stub" THEN "monthly" ELSE "annual"
      /\ e.calendar_year \in EvidenceYear
  BY <1>2, <1>3 DEF EvidenceOf, IncomeUsable
<1>5. Normalizable(e)
  BY <1>4, SourceAssumption DEF Normalizable, NormalizablePaystub, NormalizableW2
<1>6. QED
  BY <1>1, <1>4, <1>5

\* What passes the first handoff is a request Agent 2 can decide.
THEOREM RequestsAreDecidable == HandoffSpec => []RequestIsDecidable
<1>1. HandoffIInv => RequestIsDecidable
  <2> SUFFICES ASSUME HandoffIInv, boundary = "verification", answer = "none"
               PROVE  /\ extractions[1].document_id # extractions[2].document_id
                      /\ \A i \in 1 .. 2 :
                           /\ extractions[i].evidence_guard_passed
                           /\ extractions[i].targets = {extractions[i].document_id}
                      /\ HasSupportedPair(evidence)
                      /\ \A s \in Source : /\ evidence[s] \in IncomeEvidence
                                           /\ evidence[s].calendar_year \in EvidenceYear
                                           /\ evidence[s].document_type = s
                                           /\ Normalizable(evidence[s])
    BY DEF RequestIsDecidable
  <2>1. /\ extractions \in Seq(Extraction)
        /\ VerificationHandoffCode(extractions) = "none"
        /\ evidence = VerificationRequest(extractions)
    BY DEF HandoffIInv
  <2>2. \A s \in Source : /\ evidence[s] \in IncomeEvidence
                          /\ evidence[s].calendar_year \in EvidenceYear
                          /\ evidence[s].document_type = s
                          /\ Normalizable(evidence[s])
    BY <2>1, FactDecidable
  <2>3. {evidence[s].document_type : s \in Source} = Source
    BY <2>2
  <2>4. HasSupportedPair(evidence)
    BY <2>3, SourceAssumption DEF HasSupportedPair, SupportedPair
  <2>5. \A i \in 1 .. 2 : /\ extractions[i].evidence_guard_passed
                          /\ extractions[i].targets = {extractions[i].document_id}
    BY <2>1, HandoffPassed DEF IncomeUsable
  <2>6. QED
    BY <2>1, <2>2, <2>4, <2>5, HandoffPassed
<1>2. QED
  BY <1>1, HandoffInvariance, PTL

\* The one comparison of a result whose linkage holds is what the request tells.
LEMMA ComparisonTold ==
  ASSUME NEW ev, NEW r \in Result, r.status \in ComparisonStatus, LinkageOK(r)
  PROVE  \E c \in r.comparisons :
           /\ CriticRequestOf(ev, r).comparison = [result |-> c.result, reason |-> c.reason]
           /\ {c.left, c.right} = r.sources
           /\ c.result = r.status
           /\ ReasonAgrees(c)
<1>1. Cardinality(r.comparisons) = 1
  BY DEF LinkageOK
<1>2. r.comparisons # {}
  BY <1>1, FS_EmptySet
<1> DEFINE c == CHOOSE d \in r.comparisons : TRUE
<1>3. c \in r.comparisons
  BY <1>2
<1>4. CriticRequestOf(ev, r).comparison = [result |-> c.result, reason |-> c.reason]
  BY <1>2 DEF CriticRequestOf
<1>5. {c.left, c.right} = r.sources /\ c.result = r.status /\ ReasonAgrees(c)
  BY <1>3 DEF LinkageOK
<1>6. QED
  BY <1>3, <1>4, <1>5

\* Without a verdict there is no comparison to tell of.
LEMMA NoComparisonTold ==
  ASSUME NEW ev, NEW r \in Result, r.status = "insufficient_evidence", LinkageOK(r)
  PROVE  CriticRequestOf(ev, r).comparison = NoComparison
BY DEF LinkageOK, CriticRequestOf

\* A result that passes the checks of the second handoff makes a valid request.
LEMMA CheckedResultAsks ==
  ASSUME NEW ev, NEW r \in Result, r.status \in VerificationStatus \ {"failed"},
         SourceSetOK(ev, r), LinkageOK(r)
  PROVE  ValidCriticRequest(CriticRequestOf(ev, r))
<1> DEFINE q == CriticRequestOf(ev, r)
<1>1. /\ q.verification_status = r.status /\ q.verification_failure_code = "none"
      /\ q.evidence_complete = (r.status \in ComparisonStatus)
      /\ q.source_types = SourceTypes(ev, r)
  BY DEF CriticRequestOf, EvidenceComplete
<1>2. CASE r.status \in ComparisonStatus
  <2>1. PICK c \in r.comparisons :
          /\ q.comparison = [result |-> c.result, reason |-> c.reason]
          /\ c.result = r.status
          /\ ReasonAgrees(c)
    BY <1>2, ComparisonTold
  <2>2. q.comparison.result = r.status /\ ReasonAgrees(q.comparison)
    BY <2>1 DEF ReasonAgrees
  <2>3. SupportedPair(q.source_types)
    BY <1>1, <1>2 DEF SourceSetOK
  <2> HIDE DEF q
  <2>4. ValidCriticRequest(q)
    BY <1>1, <1>2, <2>2, <2>3 DEF ValidCriticRequest, ComparisonStatus
  <2>5. QED
    BY <2>4 DEF q
<1>3. CASE r.status = "insufficient_evidence"
  <2>1. q.comparison = NoComparison
    BY <1>3, NoComparisonTold
  <2> HIDE DEF q
  <2>2. ValidCriticRequest(q)
    BY <1>1, <1>3, <2>1 DEF ValidCriticRequest, ComparisonStatus
  <2>3. QED
    BY <2>2 DEF q
<1>4. QED
  BY <1>2, <1>3 DEF VerificationStatus

\* An answered critic handoff went through the checks before its answer.
LEMMA ChecksPassed ==
  ASSUME NEW ev, NEW r, NEW d,
         CriticHandoffCode(ev, r, d) \in {"none", "invalid_critic_request"}
  PROVE  /\ r.status # "failed" /\ SourceSetOK(ev, r) /\ LinkageOK(r)
         /\ CriticHandoffCode(ev, r, d) = "invalid_critic_request" =>
              \/ d = "provenance_uncountable"
              \/ ~ValidCriticRequest(CriticRequestOf(ev, r))
BY DEF CriticHandoffCode

\* A critic request is refused as such only for provenance beyond its count.
THEOREM CriticRequestsValidate == HandoffSpec => []CriticRequestValidates
<1>1. HandoffIInv => CriticRequestValidates
  BY ChecksPassed, CheckedResultAsks DEF HandoffIInv, CriticRequestValidates
<1>2. QED
  BY <1>1, HandoffInvariance, PTL

\* What Agent 3 is told is backed by the result it does not see.
THEOREM CriticHearsTheTruth == HandoffSpec => []CriticIsToldTheTruth
<1>1. HandoffIInv => CriticIsToldTheTruth
  <2> SUFFICES ASSUME HandoffIInv, boundary = "critic", answer = "none"
               PROVE  CriticIsToldTheTruth
    BY DEF CriticIsToldTheTruth
  <2>1. /\ result \in Result
        /\ result.status \in VerificationStatus \ {"failed"}
        /\ LinkageOK(result)
    BY ChecksPassed DEF HandoffIInv
  <2> DEFINE q == CriticRequestOf(evidence, result)
  <2>2. /\ q.verification_status = result.status
        /\ q.evidence_complete = (result.status \in ComparisonStatus)
        /\ q.source_types = {evidence[s].document_type : s \in result.sources}
    BY DEF CriticRequestOf, EvidenceComplete, SourceTypes
  <2>3. CASE result.status \in ComparisonStatus
    <3>1. PICK c \in result.comparisons :
            /\ q.comparison = [result |-> c.result, reason |-> c.reason]
            /\ {c.left, c.right} = result.sources
            /\ c.result = result.status
            /\ ReasonAgrees(c)
      BY <2>1, <2>3, ComparisonTold
    <3>2. q.comparison # NoComparison
      BY <2>3, <3>1 DEF NoComparison, ComparisonStatus
    <3>3. c.result = ResultOf(c.reason)
      BY <3>1 DEF ReasonAgrees
    <3> HIDE DEF q
    <3>4. /\ q.verification_status # "failed"
          /\ q.evidence_complete <=> q.comparison # NoComparison
          /\ q.source_types = {evidence[s].document_type : s \in result.sources}
      BY <2>1, <2>2, <2>3, <3>2
    <3>5. \E k \in result.comparisons :
            /\ {k.left, k.right} = result.sources
            /\ q.comparison = [result |-> k.result, reason |-> k.reason]
            /\ q.verification_status = k.result
            /\ k.result = ResultOf(k.reason)
      BY <2>2, <3>1, <3>3
    <3>6. QED
      BY <3>4, <3>5 DEF CriticIsToldTheTruth, q
  <2>4. CASE result.status = "insufficient_evidence"
    <3>1. q.comparison = NoComparison
      BY <2>1, <2>4, NoComparisonTold
    <3>2. ~(result.status \in ComparisonStatus)
      BY <2>4 DEF ComparisonStatus
    <3> HIDE DEF q
    <3>3. /\ q.verification_status # "failed"
          /\ q.evidence_complete <=> q.comparison # NoComparison
          /\ q.source_types = {evidence[s].document_type : s \in result.sources}
          /\ ~q.evidence_complete
      BY <2>1, <2>2, <3>1, <3>2
    <3>4. QED
      BY <3>3 DEF CriticIsToldTheTruth, q
  <2>5. QED
    BY <2>1, <2>3, <2>4 DEF VerificationStatus
<1>2. QED
  BY <1>1, HandoffInvariance, PTL

-----------------------------------------------------------------------------
(***************************************************************************)
(* The review: what holds at each step of the call.                        *)
(***************************************************************************)

Running == pc \in Node6 \cup {"outcome"}

\* What the two documents must be for Agent 2 to have run on them.
SoundPair ==
  /\ agent1 \in [1 .. 2 -> Agent1Given]
  /\ agent1[1].released /\ agent1[2].released
  /\ VerificationHandoffCode(<<Extracted(1), Extracted(2)>>) = "none"

\* Before the graph there is nothing; after it, no artifact is left.
Fresh ==
  /\ pc \in {"configuration", "bundle", "extract_documents"} =>
       state = InitialState /\ artifact = NoArtifact
  /\ pc \in {"close", "done"} => artifact = NoArtifact

\* A node runs with exactly the flags of the nodes before it.
Extracting == {"extractions_ready"}
Assembling == Extracting \cup {"verification_request_ready"}
Verifying == Assembling \cup {"verification_result_ready", "ready_for_critic"}
Asking == Verifying \cup {"critic_request_ready"}

Placed ==
  /\ pc \in Node6 \ {"final_gate"} => state.failure_code = "none"
  /\ pc = "verification_input_assemble" => state.flags = Extracting
  /\ pc = "verification" => state.flags = Assembling
  /\ pc = "critic_input_assemble" => state.flags = Verifying
  /\ pc = "critic" => state.flags = Asking
  /\ pc = "final_gate" /\ state.failure_code = "none" => state.flags = Flag

\* What each flag vouches for.
Extracts ==
  /\ agent1 \in [1 .. 2 -> Agent1Given]
  /\ agent1[1].released /\ agent1[2].released
  /\ artifact.extractions = <<Extracted(1), Extracted(2)>>
  /\ state.document_types = {Extracted(1).document_type, Extracted(2).document_type}

Requests ==
  /\ VerificationHandoffCode(artifact.extractions) = "none"
  /\ artifact.verification_request = VerificationRequest(artifact.extractions)

Verifies ==
  LET v == artifact.verification_result IN
  /\ v.status \in ComparisonStatus \cup {"insufficient_evidence"}
  /\ state.verification_status = v.status
  /\ state.tool_call_count = v.tool_call_count
  /\ state.invalid_decision_count = v.invalid_decision_count

Asks ==
  /\ CriticAssemblyCode = "none"
  /\ artifact.critic_request = ExpectedCriticRequest

Decides ==
  LET c == artifact.critic_result IN
  /\ ValidCriticResult(c)
  /\ c.status = "completed"
  /\ c.decision = CompatibleDecision(artifact.verification_result.status)
  /\ state.critic_status = c.status
  /\ state.critic_decision = c.decision
  /\ state.critic_attempt_count = c.attempt_count
  /\ state.critic_repair_count = c.repair_count

Chain ==
  Running =>
    /\ "extractions_ready" \in state.flags => Extracts
    /\ "verification_request_ready" \in state.flags => Requests
    /\ "verification_result_ready" \in state.flags => Verifies
    /\ "critic_request_ready" \in state.flags => Asks
    /\ "critic_result_ready" \in state.flags => Decides

\* Without a failure there is no lineage; two failures never occur.
Lineage ==
  /\ state.failure_code = "none" => NoFailureLineage(state)
  /\ state.failure_code \notin {"internal_failure", "final_gate_failed"}

Truthful ==
  state.verification_status \in ComparisonStatus =>
    SoundPair /\ state.verification_status = Policy.result

\* The outcome is that of the state, or a closed review without a verdict.
Reported ==
  \/ outcome.review = InitialState
  \/ \E code \in IncomeReviewFailureCode : outcome.review = HumanReview(code)
  \/ pc \in {"close", "done"} /\ outcome.review = state /\ TerminalContract(state)

IInv ==
  /\ TypeOK /\ Fresh /\ Placed /\ Chain /\ Lineage /\ CountsInBounds(state)
  /\ Truthful /\ Reported /\ OutcomeValidates

-----------------------------------------------------------------------------
LEMMA StatesTyped ==
  /\ InitialState \in ReviewState
  /\ NoArtifact \in Artifact
  /\ \A code \in IncomeReviewFailureCode : HumanReview(code) \in ReviewState
<1>1. InitialState \in ReviewState
  BY DEF InitialState, ReviewState
<1>2. NoArtifact \in Artifact
  BY DEF NoArtifact, Artifact, NoResult, Result, NoCriticResult, CriticResult
<1>3. \A code \in IncomeReviewFailureCode : HumanReview(code) \in ReviewState
  BY DEF HumanReview, InitialState, ReviewState, IncomeReviewReasonCode
<1>4. QED
  BY <1>1, <1>2, <1>3

\* A closed review carries no verdict and permits nothing.
LEMMA ClosedReview ==
  ASSUME NEW code
  PROVE  /\ HumanReview(code).release_allowed = FALSE
         /\ HumanReview(code).verification_status = "none"
         /\ HumanReview(code).failure_code = code
         /\ InitialState.release_allowed = FALSE
         /\ InitialState.verification_status = "none"
         /\ InitialState.failure_code = "none"
BY DEF HumanReview, InitialState

LEMMA InitInvariant == Init => IInv
<1> SUFFICES ASSUME Init PROVE IInv
  OBVIOUS
<1>1. TypeOK
  BY StatesTyped DEF Init, TypeOK
<1>2. Fresh /\ Placed /\ Chain
  BY DEF Init, Fresh, Placed, Chain, Running, Node6
<1>3. Lineage /\ CountsInBounds(state) /\ Truthful
  BY BudgetAssumption, CriticBudgetAssumption DEF Init, Lineage, NoFailureLineage,
     InitialState, CountsInBounds, Truthful, ComparisonStatus
<1>4. Reported /\ OutcomeValidates
  BY DEF Init, Reported, OutcomeValidates
<1>5. QED
  BY <1>1, <1>2, <1>3, <1>4 DEF IInv

LEMMA StutterInvariant == IInv /\ UNCHANGED vars => IInv'
BY DEF IInv, vars, TypeOK, Fresh, Placed, Chain, Running, Extracts, Requests,
   Verifies, Asks, Decides, CriticAssemblyCode, ExpectedCriticRequest, Lineage,
   Truthful, SoundPair, Policy, Extracted, Reported, OutcomeValidates

-----------------------------------------------------------------------------
(***************************************************************************)
(* The steps of review() around the graph: the state does not change.      *)
(***************************************************************************)

\* Everything that is said of the state alone survives a step that keeps it.
LEMMA StateKept ==
  ASSUME IInv, UNCHANGED <<state, agent1>>
  PROVE  Lineage' /\ CountsInBounds(state)' /\ Truthful'
BY DEF IInv, Lineage, Truthful, SoundPair, Policy, Extracted, CountsInBounds,
   NoFailureLineage

LEMMA OutsideInvariant ==
  ASSUME IInv, ConfigurationCheck \/ BundleRejected \/ BundleAccepted \/ Close
  PROVE  IInv'
<1>1. UNCHANGED <<state, agent1, artifact, span_open>>
  BY DEF ConfigurationCheck, BundleRejected, BundleAccepted, Close
<1>2. /\ pc' \in {"bundle", "extract_documents", "close", "done"}
      /\ pc \in {"configuration", "bundle", "close"}
      /\ \/ pc' \in {"close", "done"}
         \/ pc' \in {"bundle", "extract_documents"} /\ pc \in {"configuration", "bundle"}
  BY DEF ConfigurationCheck, BundleRejected, BundleAccepted, Close, Raise
<1>3. \/ outcome'.review = outcome.review
      \/ outcome'.review = InitialState
      \/ \E code \in IncomeReviewFailureCode : outcome'.review = HumanReview(code)
  BY DEF ConfigurationCheck, BundleRejected, BundleAccepted, Close, Raise, IInv, TypeOK,
     IncomeReviewFailureCode
<1>4. outcome' \in [kind : {"running", "returned", "raised"}, review : ReviewState]
  <2>1. CASE ConfigurationCheck
    BY <2>1, StatesTyped DEF ConfigurationCheck, IInv, TypeOK, IncomeReviewFailureCode
  <2>2. CASE BundleRejected
    BY <2>2, StatesTyped DEF BundleRejected, Raise, IInv, TypeOK, IncomeReviewFailureCode
  <2>3. CASE BundleAccepted
    BY <2>3, StatesTyped DEF BundleAccepted, Raise, IInv, TypeOK
  <2>4. CASE Close
    BY <2>4, StatesTyped DEF Close, Raise, IInv, TypeOK
  <2>5. QED
    BY <2>1, <2>2, <2>3, <2>4
<1>5. TypeOK'
  BY <1>1, <1>2, <1>4 DEF IInv, TypeOK, Node6
<1>6. Fresh' /\ Placed' /\ Chain'
  <2>1. Fresh'
    BY <1>1, <1>2 DEF IInv, Fresh
  <2>2. CASE pc' = "extract_documents"
    <3>1. pc \in {"configuration", "bundle"}
      BY <1>2, <2>2
    <3>2. state' = InitialState
      BY <1>1, <3>1 DEF IInv, Fresh
    <3>3. QED
      BY <2>1, <2>2, <3>2 DEF Placed, Chain, Running, InitialState
  <2>3. CASE pc' # "extract_documents"
    BY <1>2, <2>1, <2>3 DEF Placed, Chain, Running, Node6
  <2>4. QED
    BY <2>1, <2>2, <2>3
<1>7. Lineage' /\ CountsInBounds(state)' /\ Truthful'
  BY <1>1, StateKept
<1>8. Reported' /\ OutcomeValidates'
  BY <1>1, <1>2, <1>3 DEF IInv, Reported, OutcomeValidates
<1>9. QED
  BY <1>5, <1>6, <1>7, <1>8 DEF IInv

LEMMA GraphLeftInvariant ==
  ASSUME IInv, GraphEnded \/ GraphEscaped
  PROVE  IInv'
<1>1. /\ UNCHANGED <<state, agent1, span_open>>
      /\ artifact' = NoArtifact /\ pc' = "close"
  BY DEF GraphEnded, GraphEscaped
<1>2. \/ outcome'.review = state /\ TerminalContract(state)
      \/ \E code \in IncomeReviewFailureCode : outcome'.review = HumanReview(code)
  BY DEF GraphEnded, GraphEscaped, IInv, TypeOK, IncomeReviewFailureCode
<1>3. TypeOK'
  <2>1. outcome' \in [kind : {"running", "returned", "raised"}, review : ReviewState]
    BY StatesTyped DEF GraphEnded, GraphEscaped, IInv, TypeOK, IncomeReviewFailureCode
  <2>2. QED
    BY <1>1, <2>1, StatesTyped DEF IInv, TypeOK
<1>4. Fresh' /\ Placed' /\ Chain'
  BY <1>1 DEF Fresh, Placed, Chain, Running, Node6
<1>5. Lineage' /\ CountsInBounds(state)' /\ Truthful'
  BY <1>1, StateKept
<1>6. Reported' /\ OutcomeValidates'
  BY <1>1, <1>2 DEF Reported, OutcomeValidates
<1>7. QED
  BY <1>3, <1>4, <1>5, <1>6 DEF IInv

-----------------------------------------------------------------------------
(***************************************************************************)
(* The nodes.  An exception loses the update: the state is as before.      *)
(***************************************************************************)
LEMMA EscapeInvariant ==
  ASSUME IInv, pc \in Node6, pc' = "escaped", artifact' \in Artifact,
         span_open' \in BOOLEAN, UNCHANGED <<state, outcome>>,
         \/ UNCHANGED agent1
         \/ pc = "extract_documents" /\ agent1' \in [1 .. 2 -> Agent1Given]
  PROVE  IInv'
<1>1. TypeOK'
  BY DEF IInv, TypeOK
<1>2. Fresh' /\ Placed' /\ Chain' /\ OutcomeValidates'
  BY DEF Fresh, Placed, Chain, Running, Node6, OutcomeValidates
<1>3. Lineage' /\ CountsInBounds(state)'
  BY DEF IInv, Lineage, CountsInBounds, NoFailureLineage
<1>4. Truthful'
  <2>1. CASE UNCHANGED agent1
    BY <2>1, StateKept
  <2>2. CASE pc = "extract_documents"
    BY <2>2, ClosedReview DEF IInv, Fresh, Truthful, ComparisonStatus
  <2>3. QED
    BY <2>1, <2>2
<1>5. Reported'
  BY DEF IInv, Reported, Node6
<1>6. QED
  BY <1>1, <1>2, <1>3, <1>4, <1>5 DEF IInv

\* The outcome while the graph runs.
LEMMA NothingReported ==
  ASSUME IInv, pc \in Node6, UNCHANGED outcome
  PROVE  Reported'
BY DEF IInv, Reported, Node6

\* What Agent 1 may have answered for the two documents.
LEMMA RepliesOfAgent1 ==
  ASSUME NEW replies \in [1 .. 2 -> Agent1Given]
  PROVE  /\ {replies[i].extraction.document_type : i \in 1 .. 2} \in SUBSET DocumentType
         /\ {replies[i].failure_code : i \in 1 .. 2} \ {"none"} \in SUBSET FailureCode
         /\ \A i \in 1 .. 2 : replies[i].failure_code = "none" =>
              replies[i].released /\ replies[i].extraction \in Extraction
<1>1. \A i \in 1 .. 2 : replies[i] \in Agent1Reply
  BY Agent1Assumption
<1>2. \A reply \in Agent1Reply :
        /\ reply.failure_code \in FailureCode \cup {"none"}
        /\ reply.extraction.document_type \in DocumentType
        /\ reply.failure_code = "none" => reply.released /\ reply.extraction \in Extraction
  <2> SUFFICES ASSUME NEW reply \in Agent1Reply
               PROVE  /\ reply.failure_code \in FailureCode \cup {"none"}
                      /\ reply.extraction.document_type \in DocumentType
                      /\ reply.failure_code = "none" =>
                           reply.released /\ reply.extraction \in Extraction
    OBVIOUS
  <2>1. CASE reply.failure_code = "none" /\ reply.released /\ reply.extraction \in Extraction
    BY <2>1 DEF Extraction, DocumentType
  <2>2. CASE reply.failure_code \in FailureCode
             /\ reply.extraction \in [document_type : DocumentType]
    BY <2>2 DEF FailureCode
  <2>3. QED
    BY <2>1, <2>2 DEF Agent1Reply
<1>3. QED
  BY <1>1, <1>2

LEMMA ExtractInvariant == IInv /\ ExtractDocuments => IInv'
<1> SUFFICES ASSUME IInv, ExtractDocuments PROVE IInv'
  OBVIOUS
<1>1. PICK replies \in [1 .. 2 -> Agent1Given] :
        LET s == ExtractionUpdate(replies) IN
        /\ agent1' = replies
        /\ Node(s,
                [artifact EXCEPT !.extractions =
                   IF s.failure_code = "none"
                   THEN <<replies[1].extraction, replies[2].extraction>> ELSE <<>>],
                Route(s, {"extractions_ready"}, "verification_input_assemble"))
  BY DEF ExtractDocuments
<1> DEFINE s == ExtractionUpdate(replies)
           types == {replies[i].extraction.document_type : i \in 1 .. 2}
           failures == {replies[i].failure_code : i \in 1 .. 2} \ {"none"}
           xs == IF s.failure_code = "none"
                 THEN <<replies[1].extraction, replies[2].extraction>> ELSE <<>>
           a == [artifact EXCEPT !.extractions = xs]
           next == Route(s, {"extractions_ready"}, "verification_input_assemble")
<1>2. pc = "extract_documents" /\ state = InitialState /\ artifact = NoArtifact
  BY DEF ExtractDocuments, IInv, Fresh
<1>3. types \in SUBSET DocumentType /\ failures \in SUBSET FailureCode
  BY RepliesOfAgent1
<1>4. CASE failures # {}
  <2>1. s = [InitialState EXCEPT !.failure_code = "extraction_failed",
                                 !.document_types = types,
                                 !.upstream_failure_codes = failures]
    BY <1>2, <1>4 DEF ExtractionUpdate, Blocked, InitialState
  <2> HIDE DEF types, failures, s
  <2>2. /\ s.flags = {} /\ s.failure_code = "extraction_failed"
        /\ s.verification_status = "none" /\ s \in ReviewState
    BY <1>3, <2>1 DEF InitialState, ReviewState, IncomeReviewFailureCode
  <2>3. CountsInBounds(s)
    BY <2>1, BudgetAssumption, CriticBudgetAssumption DEF CountsInBounds, InitialState
  <2>7. xs = <<>> /\ xs \in Seq(Extraction)
    BY <2>2
  <2> HIDE DEF xs
  <2>4. a \in Artifact
    BY <1>2, <2>7, StatesTyped DEF Artifact
  <2>5. CASE state' = s /\ pc' = next /\ UNCHANGED span_open /\ artifact' = a
             /\ UNCHANGED outcome
    <3>1. pc' = "final_gate"
      BY <2>2, <2>5 DEF Route
    <3>2. TypeOK'
      BY <1>1, <2>2, <2>4, <2>5, <3>1 DEF IInv, TypeOK, Node6
    <3>3. Fresh' /\ Placed' /\ Chain' /\ Lineage' /\ Truthful' /\ OutcomeValidates'
      BY <2>2, <2>5, <3>1 DEF Fresh, Placed, Chain, Lineage, Truthful, OutcomeValidates,
         ComparisonStatus
    <3>4. QED
      BY <1>2, <2>3, <2>5, <3>2, <3>3, NothingReported DEF IInv, Node6
  <2>6. QED
    BY <1>1, <1>2, <2>4, <2>5, EscapeInvariant DEF Node, s, xs, Node6, IInv, TypeOK
<1>5. CASE failures = {}
  <2>1. s = [InitialState EXCEPT !.document_types = types, !.flags = {"extractions_ready"}]
    BY <1>2, <1>5 DEF ExtractionUpdate, InitialState
  <2>2. \A i \in 1 .. 2 : replies[i].released /\ replies[i].extraction \in Extraction
    BY <1>5, RepliesOfAgent1
  <2>9. types = {replies[1].extraction.document_type, replies[2].extraction.document_type}
    OBVIOUS
  <2> HIDE DEF types, failures, s
  <2>3. /\ s.flags = {"extractions_ready"} /\ s.failure_code = "none"
        /\ s.document_types = types
        /\ s.verification_status = "none" /\ s \in ReviewState
    BY <1>3, <2>1 DEF InitialState, ReviewState, Flag
  <2>4. CountsInBounds(s) /\ NoFailureLineage(s)
    BY <2>1, BudgetAssumption, CriticBudgetAssumption DEF CountsInBounds, InitialState,
       NoFailureLineage
  <2>5. xs = <<replies[1].extraction, replies[2].extraction>> /\ xs \in Seq(Extraction)
    BY <2>2, <2>3
  <2> HIDE DEF xs
  <2>6. a \in Artifact /\ a.extractions = xs
    BY <1>2, <2>5, StatesTyped DEF Artifact
  <2>7. CASE state' = s /\ pc' = next /\ UNCHANGED span_open /\ artifact' = a
             /\ UNCHANGED outcome
    <3>1. pc' = "verification_input_assemble"
      BY <2>3, <2>7 DEF Route
    <3>2. TypeOK'
      BY <1>1, <2>3, <2>6, <2>7, <3>1 DEF IInv, TypeOK, Node6
    <3>3. Extracts'
      BY <1>1, <2>2, <2>3, <2>9, <2>5, <2>6, <2>7 DEF Extracts, Extracted
    <3>4. Fresh' /\ Placed' /\ Chain' /\ Lineage' /\ Truthful' /\ OutcomeValidates'
      BY <2>3, <2>4, <2>7, <3>1, <3>3 DEF Fresh, Placed, Chain, Lineage, Truthful,
         OutcomeValidates, ComparisonStatus, Extracting
    <3>5. QED
      BY <1>2, <2>4, <2>7, <3>2, <3>4, NothingReported DEF IInv, Node6
  <2>8. QED
    BY <1>1, <1>2, <2>6, <2>7, EscapeInvariant DEF Node, s, xs, Node6, IInv, TypeOK
<1>6. QED
  BY <1>4, <1>5

LEMMA ExtractionRaisesInvariant == IInv /\ ExtractionRaises => IInv'
<1> SUFFICES ASSUME IInv, ExtractionRaises PROVE IInv'
  OBVIOUS
<1> DEFINE s == [Blocked(state, "extraction_failed") EXCEPT
                   !.upstream_failure_codes = {"internal_failure"}]
<1>1. /\ pc = "extract_documents" /\ state = InitialState /\ artifact = NoArtifact
      /\ UNCHANGED agent1
  BY DEF ExtractionRaises, IInv, Fresh
<1>2. /\ s.flags = {} /\ s.failure_code = "extraction_failed"
      /\ s.verification_status = "none" /\ s \in ReviewState
  BY <1>1 DEF Blocked, InitialState, ReviewState, IncomeReviewFailureCode, FailureCode
<1>3. CountsInBounds(s)
  BY <1>1, BudgetAssumption, CriticBudgetAssumption DEF CountsInBounds, Blocked, InitialState
<1> HIDE DEF s
<1>4. CASE /\ state' = s /\ pc' = "final_gate" /\ UNCHANGED <<span_open, artifact, outcome>>
  <2>1. TypeOK'
    BY <1>1, <1>2, <1>4 DEF IInv, TypeOK, Node6
  <2>2. Fresh' /\ Placed' /\ Chain' /\ Lineage' /\ Truthful' /\ OutcomeValidates'
    BY <1>2, <1>4 DEF Fresh, Placed, Chain, Lineage, Truthful, OutcomeValidates,
       ComparisonStatus
  <2>3. QED
    BY <1>1, <1>3, <1>4, <2>1, <2>2, NothingReported DEF IInv, Node6
<1>5. CASE pc' = "escaped" /\ UNCHANGED <<state, artifact, outcome>> /\ span_open' \in BOOLEAN
  BY <1>1, <1>5, EscapeInvariant DEF IInv, TypeOK, Node6
<1>6. span_open \in BOOLEAN
  BY DEF IInv, TypeOK
<1>7. QED
  BY <1>1, <1>4, <1>5, <1>6 DEF ExtractionRaises, Node, s

\* Recording a failure touches the failure code only.
LEMMA BlockedTyped ==
  ASSUME NEW s \in ReviewState, NEW code \in IncomeReviewFailureCode
  PROVE  /\ Blocked(s, code) \in ReviewState
         /\ Blocked(s, code).flags = s.flags
         /\ Blocked(s, code).document_types = s.document_types
         /\ Blocked(s, code).failure_code = code
         /\ Blocked(s, code).verification_status = s.verification_status
         /\ Blocked(s, code).tool_call_count = s.tool_call_count
         /\ Blocked(s, code).invalid_decision_count = s.invalid_decision_count
BY DEF ReviewState, Blocked

\* What the state holds of Agent 2's result is typed, and the rest is as before.
LEMMA VerificationReportTyped ==
  ASSUME NEW v, state \in ReviewState,
         v.status \in VerificationStatus,
         v.failure_code \in VerificationFailureCode \cup {"none"},
         v.tool_call_count \in Nat, v.invalid_decision_count \in Nat
  PROVE  VerificationReported(v) \in ReviewState
<1> DEFINE p == [state EXCEPT !.verification_status = v.status]
           r == [p EXCEPT !.verification_failure_code = v.failure_code]
           q == [r EXCEPT !.tool_call_count = v.tool_call_count]
<1>1. p \in ReviewState
  BY DEF ReviewState
<1> HIDE DEF p
<1>2. r \in ReviewState
  BY <1>1 DEF ReviewState
<1> HIDE DEF r
<1>3. q \in ReviewState
  BY <1>2 DEF ReviewState
<1> HIDE DEF q
<1>4. [q EXCEPT !.invalid_decision_count = v.invalid_decision_count] \in ReviewState
  BY <1>3 DEF ReviewState
<1>5. VerificationReported(v) = [q EXCEPT !.invalid_decision_count = v.invalid_decision_count]
  BY DEF p, q, r, VerificationReported, ReviewState
<1>6. QED
  BY <1>4, <1>5

LEMMA AssembleInvariant == IInv /\ AssembleInput => IInv'
<1> SUFFICES ASSUME IInv, AssembleInput PROVE IInv'
  OBVIOUS
<1> DEFINE code == VerificationHandoffCode(artifact.extractions)
           s == IF code = "none"
                THEN [state EXCEPT !.flags = @ \cup {"verification_request_ready"}]
                ELSE [Blocked(state, "handoff_failed") EXCEPT !.handoff_failure_code = code]
           q == IF code = "none" THEN VerificationRequest(artifact.extractions)
                ELSE artifact.verification_request
           a == [artifact EXCEPT !.verification_request = q]
           next == Route(s, {"verification_request_ready"}, "verification")
<1>1. /\ pc = "verification_input_assemble" /\ UNCHANGED agent1
      /\ Node(s, a, next)
  BY DEF AssembleInput
<1>2. /\ state \in ReviewState /\ artifact \in Artifact /\ span_open \in BOOLEAN
      /\ state.failure_code = "none" /\ state.flags = Extracting /\ NoFailureLineage(state)
      /\ Extracts
  BY <1>1 DEF IInv, TypeOK, Placed, Lineage, Chain, Running, Node6, Extracting
<1>3. code \in VerificationHandoffFailureCode \cup {"none"}
  BY DEF VerificationHandoffCode, VerificationHandoffFailureCode
<1>4. q \in [Source -> IncomeEvidence] \cup {NoRequest}
  BY <1>2, RequestTyped DEF Artifact
<1>5. /\ s \in ReviewState
      /\ s.document_types = state.document_types
      /\ s.verification_status = state.verification_status
      /\ s.flags = IF code = "none" THEN Assembling ELSE Extracting
      /\ s.failure_code = IF code = "none" THEN "none" ELSE "handoff_failed"
      /\ code = "none" => NoFailureLineage(s)
  <2>1. /\ Assembling \in SUBSET Flag
        /\ Assembling = Extracting \cup {"verification_request_ready"}
    BY DEF Assembling, Extracting, Flag
  <2>2. CASE code = "none"
    BY ONLY <1>2, <2>1, <2>2 DEF s, ReviewState, NoFailureLineage
  <2>3. CASE code # "none"
    <3> DEFINE b == Blocked(state, "handoff_failed")
    <3>1. /\ b \in ReviewState /\ b.flags = state.flags
          /\ b.document_types = state.document_types
          /\ b.failure_code = "handoff_failed"
          /\ b.verification_status = state.verification_status
          /\ b.tool_call_count = state.tool_call_count
          /\ b.invalid_decision_count = state.invalid_decision_count
      BY ONLY <1>2, BlockedTyped DEF IncomeReviewFailureCode
    <3>2. s = [b EXCEPT !.handoff_failure_code = code]
      BY <2>3
    <3> HIDE DEF b, s, code
    <3>3. QED
      BY ONLY <1>2, <1>3, <2>3, <3>1, <3>2 DEF ReviewState
  <2>4. QED
    BY <2>2, <2>3
<1>6. CountsInBounds(s)
  BY <1>2 DEF IInv, CountsInBounds, Blocked, ReviewState
<1>7. code = "none" => q = VerificationRequest(artifact.extractions)
  OBVIOUS
<1> HIDE DEF s, q
<1>8. a \in Artifact /\ a.verification_request = q /\ a.extractions = artifact.extractions
  BY <1>2, <1>4 DEF Artifact
<1> HIDE DEF a
<1>9. CASE state' = s /\ pc' = next /\ UNCHANGED <<span_open, outcome>> /\ artifact' = a
  <2>1. pc' = IF code = "none" THEN "verification" ELSE "final_gate"
    BY <1>5, <1>9 DEF Route, Assembling, Extracting
  <2> HIDE DEF next
  <2>2. TypeOK'
    BY <1>1, <1>2, <1>5, <1>8, <1>9, <2>1 DEF IInv, TypeOK, Node6
  <2>3. Extracts'
    BY <1>1, <1>2, <1>5, <1>8, <1>9 DEF Extracts, Extracted
  <2>4. code = "none" => Requests'
    BY <1>7, <1>8, <1>9 DEF Requests
  <2>5. Chain'
    BY <1>5, <1>9, <2>3, <2>4 DEF Chain, Assembling, Extracting
  <2>6. Fresh' /\ Placed' /\ Lineage' /\ OutcomeValidates'
    BY <1>5, <1>9, <2>1 DEF Fresh, Placed, Lineage, OutcomeValidates
  <2>7. Truthful'
    BY <1>1, <1>5, <1>9 DEF IInv, Truthful, SoundPair, Policy, Extracted
  <2>8. QED
    BY <1>1, <1>6, <1>9, <2>2, <2>5, <2>6, <2>7, NothingReported DEF IInv, Node6
<1>10. CASE pc' = "escaped" /\ UNCHANGED <<state, outcome>> /\ artifact' = a
            /\ span_open' \in BOOLEAN
  BY <1>1, <1>8, <1>10, EscapeInvariant DEF Node6
<1>11. QED
  BY <1>1, <1>2, <1>9, <1>10 DEF Node

LEMMA VerifyInvariant == IInv /\ Verify => IInv'
<1> SUFFICES ASSUME IInv, Verify PROVE IInv'
  OBVIOUS
<1>1. PICK reply \in VerificationReplies(artifact.verification_request) :
        LET s == IF reply.kind = "returned" THEN VerificationUpdate(reply.result)
                 ELSE Blocked(state, "verification_failed")
        IN Node(s,
                [artifact EXCEPT !.verification_result =
                   IF reply.kind = "returned" THEN reply.result
                   ELSE artifact.verification_result],
                Route(s, {"verification_result_ready", "ready_for_critic"},
                      "critic_input_assemble"))
  BY DEF Verify
<1> DEFINE v == reply.result
           s == IF reply.kind = "returned" THEN VerificationUpdate(v)
                ELSE Blocked(state, "verification_failed")
           w == IF reply.kind = "returned" THEN v ELSE artifact.verification_result
           a == [artifact EXCEPT !.verification_result = w]
           next == Route(s, {"verification_result_ready", "ready_for_critic"},
                         "critic_input_assemble")
           verdict == reply.kind = "returned" /\ v.status # "failed"
<1>2. /\ pc = "verification" /\ UNCHANGED agent1
      /\ state \in ReviewState /\ artifact \in Artifact /\ span_open \in BOOLEAN
      /\ state.failure_code = "none" /\ state.flags = Assembling /\ NoFailureLineage(state)
      /\ CountsInBounds(state)
      /\ Extracts /\ Requests
  BY DEF Verify, IInv, TypeOK, Placed, Lineage, Chain, Running, Node6, Assembling, Extracting
<1>3. reply.kind = "returned" =>
        /\ v \in Result /\ ValidResult(v)
        /\ v.status \in VerificationStatus
        /\ v.status \in ComparisonStatus => v \in Verdicts(artifact.verification_request)
  BY ReplyTyped DEF Result
<1>4. /\ s \in ReviewState
      /\ s.document_types = state.document_types
      /\ s.flags = IF verdict THEN Verifying ELSE Assembling
      /\ s.failure_code = IF verdict THEN "none" ELSE "verification_failed"
      /\ s.verification_status =
           IF reply.kind = "returned" THEN v.status ELSE state.verification_status
  <2>1. CASE reply.kind = "returned"
    <3> DEFINE r == VerificationReported(v)
    <3>1. /\ v.status \in VerificationStatus
          /\ v.failure_code \in VerificationFailureCode \cup {"none"}
          /\ v.tool_call_count \in Nat /\ v.invalid_decision_count \in Nat
      BY <1>3, <2>1 DEF Result
    <3>2. /\ r \in ReviewState /\ r.flags = Assembling /\ r.failure_code = "none"
          /\ r.document_types = state.document_types
          /\ r.verification_status = v.status
      <4>1. r \in ReviewState
        BY <1>2, <3>1, VerificationReportTyped
      <4>2. QED
        BY ONLY <1>2, <4>1 DEF ReviewState, VerificationReported
    <3>3. CASE v.status = "failed"
      <4>1. s = Blocked(r, "verification_failed")
        BY <2>1, <3>3 DEF VerificationUpdate
      <4> HIDE DEF s, r, v
      <4>2. QED
        BY <2>1, <3>2, <3>3, <4>1 DEF ReviewState, Blocked, IncomeReviewFailureCode
    <3>4. CASE v.status # "failed"
      <4>1. s = [r EXCEPT !.flags = @ \cup {"verification_result_ready",
                                            "ready_for_critic"}]
        BY <2>1, <3>4 DEF VerificationUpdate
      <4>2. Verifying \in SUBSET Flag
            /\ Verifying = Assembling \cup {"verification_result_ready", "ready_for_critic"}
        BY DEF Verifying, Assembling, Extracting, Flag
      <4> HIDE DEF s, r, v
      <4>3. QED
        BY <2>1, <3>2, <3>4, <4>1, <4>2 DEF ReviewState
    <3>5. QED
      BY <3>3, <3>4
  <2>2. CASE reply.kind # "returned"
    BY <1>2, <2>2 DEF ReviewState, Blocked, IncomeReviewFailureCode, Assembling
  <2>3. QED
    BY <2>1, <2>2
<1>5. verdict => NoFailureLineage(s) /\ s.tool_call_count = v.tool_call_count
                 /\ s.invalid_decision_count = v.invalid_decision_count
  BY <1>2, <1>3 DEF ReviewState, VerificationUpdate, VerificationReported, NoFailureLineage,
     ValidResult
<1>6. CountsInBounds(s)
  <2>1. CASE reply.kind = "returned"
    BY <1>2, <1>3, <2>1 DEF CountsInBounds, ReviewState, VerificationUpdate,
       VerificationReported, Blocked, ValidResult
  <2>2. CASE reply.kind # "returned"
    BY <1>2, <2>2 DEF CountsInBounds, ReviewState, Blocked
  <2>3. QED
    BY <2>1, <2>2
<1>7. w \in Result /\ (reply.kind = "returned" => w = v)
  BY <1>2, <1>3 DEF Artifact
<1> HIDE DEF s, w, v
<1>8. /\ a \in Artifact /\ a.extractions = artifact.extractions
      /\ a.verification_request = artifact.verification_request
      /\ a.verification_result = w
  BY <1>2, <1>7 DEF Artifact
<1> HIDE DEF a
<1>9. CASE state' = s /\ pc' = next /\ UNCHANGED <<span_open, outcome>> /\ artifact' = a
  <2>1. pc' = IF verdict THEN "critic_input_assemble" ELSE "final_gate"
    BY <1>4, <1>9 DEF Route, Verifying, Assembling, Extracting
  <2> HIDE DEF next
  <2>2. TypeOK'
    BY <1>2, <1>4, <1>8, <1>9, <2>1 DEF IInv, TypeOK, Node6
  <2>3. Extracts' /\ Requests'
    BY <1>2, <1>4, <1>8, <1>9 DEF Extracts, Extracted, Requests
  <2>4. verdict => Verifies'
    BY <1>3, <1>4, <1>5, <1>7, <1>8, <1>9 DEF Verifies, VerificationStatus
  <2>5. Chain'
    BY <1>4, <1>9, <2>3, <2>4 DEF Chain, Verifying, Assembling, Extracting
  <2>6. Fresh' /\ Placed' /\ Lineage' /\ OutcomeValidates'
    BY <1>4, <1>5, <1>9, <2>1 DEF Fresh, Placed, Lineage, OutcomeValidates
  <2>7. Truthful'
    <3>1. CASE reply.kind # "returned"
      BY <1>2, <1>4, <1>9, <3>1 DEF IInv, Truthful, SoundPair, Policy, Extracted
    <3>2. CASE reply.kind = "returned" /\ v.status \in ComparisonStatus
      <4> DEFINE xs == <<Extracted(1), Extracted(2)>>
      <4>1. /\ VerificationHandoffCode(xs) = "none"
            /\ v \in Verdicts(VerificationRequest(xs))
        BY <1>2, <1>3, <3>2 DEF Extracts, Requests
      <4>2. v.status = CompareIncome(EvidenceOf(xs[1]), EvidenceOf(xs[2])).result
        BY <4>1, VerdictOfExtractions
      <4>3. v.status = Policy.result
        BY <4>2 DEF Policy
      <4>4. SoundPair
        BY <1>2, <4>1 DEF SoundPair, Extracts
      <4>5. SoundPair' /\ Policy' = Policy
        BY <1>2, <4>4 DEF SoundPair, Policy, Extracted
      <4>6. QED
        BY <1>4, <1>9, <3>2, <4>3, <4>5 DEF Truthful
    <3>3. CASE reply.kind = "returned" /\ v.status \notin ComparisonStatus
      BY <1>4, <1>9, <3>3 DEF Truthful
    <3>4. QED
      BY <3>1, <3>2, <3>3
  <2>8. QED
    BY <1>2, <1>6, <1>9, <2>2, <2>5, <2>6, <2>7, NothingReported DEF IInv, Node6
<1>10. CASE pc' = "escaped" /\ UNCHANGED <<state, outcome>> /\ artifact' = a
            /\ span_open' \in BOOLEAN
  BY <1>2, <1>8, <1>10, EscapeInvariant DEF Node6
<1>11. QED
  BY <1>1, <1>2, <1>9, <1>10 DEF Node, s, w, a, v

LEMMA AssembleCriticInvariant == IInv /\ AssembleCriticInput => IInv'
<1> SUFFICES ASSUME IInv, AssembleCriticInput PROVE IInv'
  OBVIOUS
<1> DEFINE code == CriticAssemblyCode
           s == IF code = "none"
                THEN [state EXCEPT !.flags = @ \cup {"critic_request_ready"}]
                ELSE [Blocked(state, "critic_handoff_failed") EXCEPT
                        !.critic_handoff_failure_code = code]
           q == IF code = "none" THEN ExpectedCriticRequest ELSE artifact.critic_request
           a == [artifact EXCEPT !.critic_request = q]
           next == Route(s, {"critic_request_ready"}, "critic")
<1>1. /\ pc = "critic_input_assemble" /\ UNCHANGED agent1
      /\ Node(s, a, next)
  BY DEF AssembleCriticInput
<1>2. /\ state \in ReviewState /\ artifact \in Artifact /\ span_open \in BOOLEAN
      /\ state.failure_code = "none" /\ state.flags = Verifying /\ NoFailureLineage(state)
      /\ Extracts /\ Requests /\ Verifies
  BY <1>1 DEF IInv, TypeOK, Placed, Lineage, Chain, Running, Node6, Verifying, Assembling,
     Extracting
<1>3. code \in CriticHandoffFailureCode \cup {"none"}
  BY DEF CriticAssemblyCode, CriticHandoffCode, CriticHandoffFailureCode
<1>4. q \in CriticRequest \cup {NoRequest}
  <2>1. artifact.extractions \in Seq(Extraction) /\ artifact.verification_result \in Result
        /\ artifact.critic_request \in CriticRequest \cup {NoRequest}
    BY <1>2 DEF Artifact
  <2>2. artifact.verification_request \in [Source -> IncomeEvidence]
    BY <1>2, <2>1, RequestTyped DEF Requests
  <2>3. artifact.verification_result.status # "none"
    BY <1>2 DEF Verifies, ComparisonStatus
  <2>4. ExpectedCriticRequest \in CriticRequest
    BY <2>1, <2>2, <2>3, CriticRequestTyped DEF ExpectedCriticRequest
  <2>5. QED
    BY <2>1, <2>4
<1>5. /\ s \in ReviewState
      /\ s.document_types = state.document_types
      /\ s.verification_status = state.verification_status
      /\ s.tool_call_count = state.tool_call_count
      /\ s.invalid_decision_count = state.invalid_decision_count
      /\ s.flags = IF code = "none" THEN Asking ELSE Verifying
      /\ s.failure_code = IF code = "none" THEN "none" ELSE "critic_handoff_failed"
      /\ code = "none" => NoFailureLineage(s)
  <2>1. Asking \in SUBSET Flag /\ Asking = Verifying \cup {"critic_request_ready"}
    BY DEF Asking, Verifying, Assembling, Extracting, Flag
  <2>2. CASE code = "none"
    BY ONLY <1>2, <2>1, <2>2 DEF s, ReviewState, NoFailureLineage
  <2>3. CASE code # "none"
    <3> DEFINE b == Blocked(state, "critic_handoff_failed")
    <3>1. /\ b \in ReviewState /\ b.flags = state.flags
          /\ b.document_types = state.document_types
          /\ b.failure_code = "critic_handoff_failed"
          /\ b.verification_status = state.verification_status
          /\ b.tool_call_count = state.tool_call_count
          /\ b.invalid_decision_count = state.invalid_decision_count
      BY ONLY <1>2, BlockedTyped DEF IncomeReviewFailureCode
    <3>2. s = [b EXCEPT !.critic_handoff_failure_code = code]
      BY <2>3
    <3> HIDE DEF b, s, code
    <3>3. QED
      BY ONLY <1>2, <1>3, <2>3, <3>1, <3>2 DEF ReviewState
  <2>4. QED
    BY <2>2, <2>3
<1>6. CountsInBounds(s)
  BY <1>2 DEF IInv, CountsInBounds, Blocked, ReviewState
<1>7. code = "none" => q = ExpectedCriticRequest
  OBVIOUS
<1> HIDE DEF s, q
<1>8. /\ a \in Artifact /\ a.critic_request = q
      /\ a.extractions = artifact.extractions
      /\ a.verification_request = artifact.verification_request
      /\ a.verification_result = artifact.verification_result
  BY <1>2, <1>4 DEF Artifact
<1> HIDE DEF a
<1>9. CASE state' = s /\ pc' = next /\ UNCHANGED <<span_open, outcome>> /\ artifact' = a
  <2>1. pc' = IF code = "none" THEN "critic" ELSE "final_gate"
    BY <1>5, <1>9 DEF Route, Asking, Verifying, Assembling, Extracting
  <2> HIDE DEF next
  <2>2. TypeOK'
    BY <1>1, <1>2, <1>5, <1>8, <1>9, <2>1 DEF IInv, TypeOK, Node6
  <2>3. Extracts' /\ Requests' /\ Verifies'
    BY <1>1, <1>2, <1>5, <1>8, <1>9 DEF Extracts, Extracted, Requests, Verifies
  <2>4. code = "none" => Asks'
    BY <1>7, <1>8, <1>9 DEF Asks, CriticAssemblyCode, ExpectedCriticRequest
  <2>5. Chain'
    BY <1>5, <1>9, <2>3, <2>4 DEF Chain, Asking, Verifying, Assembling, Extracting
  <2>6. Fresh' /\ Placed' /\ Lineage' /\ OutcomeValidates'
    BY <1>5, <1>9, <2>1 DEF Fresh, Placed, Lineage, OutcomeValidates
  <2>7. Truthful'
    BY <1>1, <1>5, <1>9 DEF IInv, Truthful, SoundPair, Policy, Extracted
  <2>8. QED
    BY <1>1, <1>6, <1>9, <2>2, <2>5, <2>6, <2>7, NothingReported DEF IInv, Node6
<1>10. CASE pc' = "escaped" /\ UNCHANGED <<state, outcome>> /\ artifact' = a
            /\ span_open' \in BOOLEAN
  BY <1>1, <1>8, <1>10, EscapeInvariant DEF Node6
<1>11. QED
  BY <1>1, <1>2, <1>9, <1>10 DEF Node

\* The updates that set several fields at once.
LEMMA CriticReportTyped ==
  ASSUME NEW c, state \in ReviewState,
         c.status \in {"completed", "failed"},
         c.failure_code \in CriticFailureCode \cup {"none"},
         c.attempt_count \in Nat, c.repair_count \in Nat
  PROVE  CriticReported(c) \in ReviewState
<1> DEFINE p == [state EXCEPT !.critic_status = c.status]
           r == [p EXCEPT !.critic_failure_code = c.failure_code]
           q == [r EXCEPT !.critic_attempt_count = c.attempt_count]
<1>1. p \in ReviewState
  BY DEF ReviewState
<1> HIDE DEF p
<1>2. r \in ReviewState
  BY <1>1 DEF ReviewState
<1> HIDE DEF r
<1>3. q \in ReviewState
  BY <1>2 DEF ReviewState
<1> HIDE DEF q
<1>4. [q EXCEPT !.critic_repair_count = c.repair_count] \in ReviewState
  BY <1>3 DEF ReviewState
<1>5. CriticReported(c) = [q EXCEPT !.critic_repair_count = c.repair_count]
  BY DEF p, q, r, CriticReported, ReviewState
<1>6. QED
  BY <1>4, <1>5

LEMMA DecisionTyped ==
  ASSUME state \in ReviewState, NEW status \in {"released", "human_review"},
         NEW allowed \in BOOLEAN, NEW code \in IncomeReviewReasonCode
  PROVE  [state EXCEPT !.review_status = status, !.release_allowed = allowed,
                       !.final_reason_code = code] \in ReviewState
<1> DEFINE r == [state EXCEPT !.review_status = status]
           q == [r EXCEPT !.final_reason_code = code]
<1>1. r \in ReviewState
  BY DEF ReviewState
<1> HIDE DEF r
<1>2. q \in ReviewState
  BY <1>1 DEF ReviewState
<1> HIDE DEF q
<1>3. [q EXCEPT !.release_allowed = allowed] \in ReviewState
  BY <1>2 DEF ReviewState
<1>4. [q EXCEPT !.release_allowed = allowed]
        = [state EXCEPT !.review_status = status, !.release_allowed = allowed,
                        !.final_reason_code = code]
  BY DEF q, r, ReviewState
<1>5. QED
  BY <1>3, <1>4

LEMMA CritiqueInvariant == IInv /\ Critique => IInv'
<1> SUFFICES ASSUME IInv, Critique PROVE IInv'
  OBVIOUS
<1>1. PICK reply \in CriticReplies(artifact.critic_request) :
        Node(IF reply.kind = "returned" THEN CriticUpdate(reply.result)
             ELSE Blocked(state, "critic_failed"),
             [artifact EXCEPT !.critic_result =
                IF reply.kind = "returned" THEN reply.result ELSE artifact.critic_result],
             "final_gate")
  BY DEF Critique
<1> DEFINE c == reply.result
           s == IF reply.kind = "returned" THEN CriticUpdate(c)
                ELSE Blocked(state, "critic_failed")
           w == IF reply.kind = "returned" THEN c ELSE artifact.critic_result
           a == [artifact EXCEPT !.critic_result = w]
           decided == reply.kind = "returned" /\ c.status = "completed"
<1>2. /\ pc = "critic" /\ UNCHANGED agent1
      /\ state \in ReviewState /\ artifact \in Artifact /\ span_open \in BOOLEAN
      /\ state.failure_code = "none" /\ state.flags = Asking /\ NoFailureLineage(state)
      /\ CountsInBounds(state)
      /\ Extracts /\ Requests /\ Verifies /\ Asks
  BY DEF Critique, IInv, TypeOK, Placed, Lineage, Chain, Running, Node6, Asking, Verifying,
     Assembling, Extracting
<1>3. artifact.critic_request \in CriticRequest
      /\ artifact.critic_request.verification_status = artifact.verification_result.status
  <2>1. artifact.extractions \in Seq(Extraction) /\ artifact.verification_result \in Result
    BY <1>2 DEF Artifact
  <2>2. artifact.verification_request \in [Source -> IncomeEvidence]
    BY <1>2, <2>1, RequestTyped DEF Requests
  <2>3. artifact.verification_result.status # "none"
    BY <1>2 DEF Verifies, ComparisonStatus
  <2>4. ExpectedCriticRequest \in CriticRequest
    BY <2>1, <2>2, <2>3, CriticRequestTyped DEF ExpectedCriticRequest
  <2>5. QED
    BY <1>2, <2>4 DEF Asks, ExpectedCriticRequest, CriticRequestOf
<1>4. reply.kind = "returned" =>
        /\ c \in CriticResult
        /\ c.status \in {"completed", "failed"}
        /\ c.status = "completed" =>
             /\ c.decision = CompatibleDecision(artifact.verification_result.status)
             /\ c.failure_code = "none"
             /\ ValidCriticResult(c)
        /\ c.attempt_count <= MAX_CRITIC_MODEL_ATTEMPTS
        /\ c.repair_count <= MAX_CRITIC_REPAIR_ATTEMPTS
  BY <1>3, CriticReplyTyped, CriticReplyValid
<1>5. /\ s \in ReviewState
      /\ s.document_types = state.document_types
      /\ s.verification_status = state.verification_status
      /\ s.tool_call_count = state.tool_call_count
      /\ s.invalid_decision_count = state.invalid_decision_count
      /\ s.flags = IF decided THEN Flag ELSE Asking
      /\ s.failure_code = IF decided THEN "none" ELSE "critic_failed"
      /\ decided => NoFailureLineage(s)
      /\ decided => /\ s.critic_status = c.status /\ s.critic_decision = c.decision
                    /\ s.critic_attempt_count = c.attempt_count
                    /\ s.critic_repair_count = c.repair_count
      /\ CountsInBounds(s)
  <2>1. Flag = Asking \cup {"critic_result_ready"} /\ Flag \in SUBSET Flag
    BY DEF Asking, Verifying, Assembling, Extracting, Flag
  <2>2. CASE reply.kind = "returned"
    <3> DEFINE r == CriticReported(c)
    <3>1. /\ c.status \in {"completed", "failed"}
          /\ c.failure_code \in CriticFailureCode \cup {"none"}
          /\ c.decision \in CriticDecision \cup {NoCriticDecision}
          /\ c.attempt_count \in Nat /\ c.repair_count \in Nat
      BY <1>4, <2>2 DEF CriticResult
    <3>2. /\ r \in ReviewState /\ r.flags = Asking /\ r.failure_code = "none"
          /\ r.document_types = state.document_types
          /\ r.verification_status = state.verification_status
          /\ r.tool_call_count = state.tool_call_count
          /\ r.invalid_decision_count = state.invalid_decision_count
          /\ r.critic_status = c.status
          /\ r.critic_attempt_count = c.attempt_count
          /\ r.critic_repair_count = c.repair_count
      <4> HIDE DEF c
      <4>1. r \in ReviewState
        BY <1>2, <3>1, CriticReportTyped
      <4>2. QED
        BY <1>2, <4>1 DEF ReviewState, CriticReported
    <3>3. CountsInBounds(r)
      BY <1>2, <1>4, <2>2, <3>2 DEF CountsInBounds
    <3>4. c.status = "completed" => NoFailureLineage(r)
      BY <1>2, <1>4, <2>2 DEF ReviewState, CriticReported, NoFailureLineage
    <3>5. CASE c.status = "failed"
      <4>1. s = Blocked(r, "critic_failed")
        BY <2>2, <3>5 DEF CriticUpdate
      <4> HIDE DEF s, r, c
      <4>2. QED
        BY <2>2, <3>2, <3>3, <3>5, <4>1 DEF ReviewState, Blocked, IncomeReviewFailureCode,
           CountsInBounds
    <3>6. CASE c.status # "failed"
      <4>1. s = [r EXCEPT !.flags = @ \cup {"critic_result_ready"},
                          !.critic_decision = c.decision]
        BY <2>2, <3>6 DEF CriticUpdate
      <4> HIDE DEF s, r, c
      <4>2. s \in ReviewState
        <5> DEFINE d == [r EXCEPT !.critic_decision = c.decision]
        <5>1. d \in ReviewState /\ d.flags = r.flags
          BY ONLY <2>1, <3>1, <3>2, <3>6 DEF ReviewState
        <5>2. s = [d EXCEPT !.flags = d.flags \cup {"critic_result_ready"}]
          BY ONLY <3>2, <4>1 DEF ReviewState
        <5> HIDE DEF d
        <5>3. QED
          BY ONLY <5>1, <5>2 DEF ReviewState, Flag
      <4>3. CountsInBounds(s)
        BY <3>2, <3>3, <4>1 DEF ReviewState, CountsInBounds
      <4>4. NoFailureLineage(s)
        BY <3>2, <3>4, <3>6, <2>2, <3>1, <4>1 DEF ReviewState, NoFailureLineage
      <4>5. QED
        BY <2>1, <2>2, <3>1, <3>2, <3>6, <4>1, <4>2, <4>3, <4>4 DEF ReviewState
    <3>7. QED
      BY <3>5, <3>6
  <2>3. CASE reply.kind # "returned"
    BY <1>2, <2>3 DEF ReviewState, Blocked, IncomeReviewFailureCode, CountsInBounds
  <2>4. QED
    BY <2>2, <2>3
<1>6. w \in CriticResult /\ (reply.kind = "returned" => w = c)
  BY <1>2, <1>4 DEF Artifact
<1> HIDE DEF s, w, c
<1>7. /\ a \in Artifact /\ a.extractions = artifact.extractions
      /\ a.verification_request = artifact.verification_request
      /\ a.verification_result = artifact.verification_result
      /\ a.critic_request = artifact.critic_request
      /\ a.critic_result = w
  BY <1>2, <1>6 DEF Artifact
<1> HIDE DEF a
<1>8. CASE state' = s /\ pc' = "final_gate" /\ UNCHANGED <<span_open, outcome>>
           /\ artifact' = a
  <2>1. TypeOK'
    BY <1>2, <1>5, <1>7, <1>8 DEF IInv, TypeOK, Node6
  <2>2. Extracts' /\ Requests' /\ Verifies' /\ Asks'
    BY <1>2, <1>5, <1>7, <1>8 DEF Extracts, Extracted, Requests, Verifies, Asks,
       CriticAssemblyCode, ExpectedCriticRequest
  <2>3. decided => Decides'
    BY <1>4, <1>5, <1>6, <1>7, <1>8 DEF Decides
  <2>4. Chain'
    BY <1>5, <1>8, <2>2, <2>3 DEF Chain, Asking, Verifying, Assembling, Extracting
  <2>5. Fresh' /\ Placed' /\ Lineage' /\ OutcomeValidates'
    BY <1>5, <1>8 DEF Fresh, Placed, Lineage, OutcomeValidates
  <2>6. Truthful'
    BY <1>2, <1>5, <1>8 DEF IInv, Truthful, SoundPair, Policy, Extracted
  <2>7. QED
    BY <1>2, <1>5, <1>8, <2>1, <2>4, <2>5, <2>6, NothingReported DEF IInv, Node6
<1>9. CASE pc' = "escaped" /\ UNCHANGED <<state, outcome>> /\ artifact' = a
           /\ span_open' \in BOOLEAN
  BY <1>2, <1>7, <1>9, EscapeInvariant DEF Node6
<1>10. QED
  BY <1>1, <1>2, <1>8, <1>9 DEF Node, s, w, a, c

\* With every flag set the gate finds what it recomputes.
LEMMA CompleteChainAccepted ==
  ASSUME IInv, pc = "final_gate", state.failure_code = "none"
  PROVE  /\ GateAccepts
         /\ NoFailureLineage(state)
         /\ SupportedPair(state.document_types)
         /\ state.verification_status = artifact.verification_result.status
         /\ state.verification_status \in ComparisonStatus \cup {"insufficient_evidence"}
         /\ state.critic_status = "completed"
         /\ state.critic_decision = CompatibleDecision(state.verification_status)
<1>1. state.flags = Flag
  BY DEF IInv, Placed
<1>2. Extracts /\ Requests /\ Verifies /\ Asks /\ Decides
  BY <1>1 DEF IInv, Chain, Running, Node6, Flag
<1>3. SupportedPair(state.document_types)
  <2> DEFINE xs == <<Extracted(1), Extracted(2)>>
  <2>1. VerificationHandoffCode(xs) = "none"
    BY <1>2 DEF Extracts, Requests
  <2>2. SupportedPair({xs[1].document_type, xs[2].document_type})
    BY <2>1, HandoffPassed
  <2>3. QED
    BY <1>2, <2>2 DEF Extracts
<1>4. GateAccepts
  BY <1>1, <1>2, <1>3 DEF GateAccepts, StateMatchesCompletedArtifacts, Verifies, Asks, Decides
<1>5. QED
  BY <1>2, <1>3, <1>4 DEF IInv, Lineage, Verifies, Decides

LEMMA GateInvariant == IInv /\ FinalGate => IInv'
<1> SUFFICES ASSUME IInv, FinalGate PROVE IInv'
  OBVIOUS
<1> DEFINE s == GateUpdate
           status == artifact.verification_result.status
<1>1. /\ pc = "final_gate" /\ UNCHANGED agent1 /\ Node(s, artifact, "outcome")
      /\ state \in ReviewState /\ artifact \in Artifact /\ span_open \in BOOLEAN
      /\ CountsInBounds(state)
  BY DEF FinalGate, IInv, TypeOK
<1>2. /\ s \in ReviewState /\ TerminalContract(s)
      /\ s.failure_code = state.failure_code
      /\ s.flags = state.flags /\ s.document_types = state.document_types
      /\ s.verification_status = state.verification_status
      /\ s.tool_call_count = state.tool_call_count
      /\ s.invalid_decision_count = state.invalid_decision_count
      /\ s.critic_status = state.critic_status
      /\ s.critic_decision = state.critic_decision
      /\ s.critic_attempt_count = state.critic_attempt_count
      /\ s.critic_repair_count = state.critic_repair_count
      /\ CountsInBounds(s)
      /\ NoFailureLineage(state) => NoFailureLineage(s)
  <2>1. CASE state.failure_code # "none"
    <3>1. s = [state EXCEPT !.review_status = "human_review", !.release_allowed = FALSE,
                            !.final_reason_code = "processing_failure"]
      BY <2>1 DEF GateUpdate
    <3> HIDE DEF s
    <3>2. s \in ReviewState
      BY <1>1, <3>1, DecisionTyped DEF IncomeReviewReasonCode
    <3>3. CountsInBounds(s) /\ (NoFailureLineage(state) => NoFailureLineage(s))
      BY <1>1, <3>1 DEF ReviewState, CountsInBounds, NoFailureLineage
    <3>4. QED
      BY <1>1, <2>1, <3>1, <3>2, <3>3 DEF ReviewState, TerminalContract
  <2>2. CASE state.failure_code = "none"
    <3>1. s = [state EXCEPT !.review_status = FinalStatus(status),
                            !.release_allowed = FinalStatus(status) = "released",
                            !.final_reason_code = FinalReason(status)]
      BY <1>1, <2>2, CompleteChainAccepted DEF GateUpdate
    <3>2. /\ NoFailureLineage(state) /\ SupportedPair(state.document_types)
          /\ state.verification_status = status
          /\ status \in ComparisonStatus \cup {"insufficient_evidence"}
          /\ state.critic_status = "completed"
          /\ state.critic_decision = CompatibleDecision(status)
      BY <1>1, <2>2, CompleteChainAccepted
    <3>3. /\ FinalStatus(status) \in {"released", "human_review"}
          /\ FinalReason(status) \in IncomeReviewReasonCode
          /\ (FinalStatus(status) = "released") \in BOOLEAN
      BY DEF FinalStatus, FinalReason, IncomeReviewReasonCode
    <3>4. s \in ReviewState
      BY <1>1, <3>1, <3>3, DecisionTyped
    <3> HIDE DEF s, status
    <3>5. /\ s.review_status = FinalStatus(status)
          /\ s.release_allowed = (FinalStatus(status) = "released")
          /\ s.final_reason_code = FinalReason(status)
      BY ONLY <1>1, <3>1 DEF ReviewState
    <3>6. /\ s.failure_code = state.failure_code
          /\ s.flags = state.flags /\ s.document_types = state.document_types
          /\ s.verification_status = state.verification_status
          /\ s.tool_call_count = state.tool_call_count
          /\ s.invalid_decision_count = state.invalid_decision_count
          /\ s.critic_status = state.critic_status
          /\ s.critic_decision = state.critic_decision
          /\ s.critic_attempt_count = state.critic_attempt_count
          /\ s.critic_repair_count = state.critic_repair_count
          /\ NoFailureLineage(s)
      BY <1>1, <3>1, <3>2 DEF ReviewState, NoFailureLineage
    <3>7. CountsInBounds(s)
      BY <1>1, <3>6 DEF CountsInBounds
    <3>8. TerminalContract(s)
      <4>1. CASE status = "consistent"
        BY <3>2, <3>5, <3>6, <3>7, <4>1 DEF TerminalContract, FinalStatus
      <4>2. CASE status \in {"inconsistent", "not_comparable", "insufficient_evidence"}
        BY <3>2, <3>5, <3>6, <3>7, <4>2 DEF TerminalContract, FinalStatus
      <4>3. QED
        BY <3>2, <4>1, <4>2 DEF ComparisonStatus
    <3>9. QED
      BY <3>4, <3>6, <3>7, <3>8
  <2>3. QED
    BY <2>1, <2>2
<1> HIDE DEF s
<1>3. CASE state' = s /\ pc' = "outcome" /\ UNCHANGED <<span_open, outcome, artifact>>
  <2>1. TypeOK'
    BY <1>1, <1>2, <1>3 DEF IInv, TypeOK
  <2>2. Chain'
    <3>1. Chain /\ Running
      BY <1>1 DEF IInv, Running, Node6
    <3>2. QED
      BY <1>1, <1>2, <1>3, <3>1 DEF Chain, Extracts, Extracted, Requests, Verifies, Asks,
         Decides, CriticAssemblyCode, ExpectedCriticRequest
  <2>3. Fresh' /\ Placed' /\ OutcomeValidates'
    BY <1>2, <1>3 DEF Fresh, Placed, OutcomeValidates, Node6
  <2>4. Lineage' /\ CountsInBounds(state)'
    BY <1>2, <1>3 DEF IInv, Lineage
  <2>5. Truthful'
    BY <1>1, <1>2, <1>3 DEF IInv, Truthful, SoundPair, Policy, Extracted
  <2>6. QED
    BY <1>1, <1>3, <2>1, <2>2, <2>3, <2>4, <2>5, NothingReported DEF IInv, Node6
<1>4. CASE pc' = "escaped" /\ UNCHANGED <<state, outcome, artifact>> /\ span_open' \in BOOLEAN
  BY <1>1, <1>4, EscapeInvariant DEF Node6
<1>5. QED
  BY <1>1, <1>3, <1>4 DEF Node

LEMMA NextInvariant == IInv /\ [Next]_vars => IInv'
<1> SUFFICES ASSUME IInv, [Next]_vars PROVE IInv'
  OBVIOUS
<1>1. CASE ConfigurationCheck \/ BundleRejected \/ BundleAccepted \/ Close
  BY <1>1, OutsideInvariant
<1>2. CASE GraphEnded \/ GraphEscaped
  BY <1>2, GraphLeftInvariant
<1>3. CASE ExtractDocuments
  BY <1>3, ExtractInvariant
<1>4. CASE ExtractionRaises
  BY <1>4, ExtractionRaisesInvariant
<1>5. CASE AssembleInput
  BY <1>5, AssembleInvariant
<1>6. CASE Verify
  BY <1>6, VerifyInvariant
<1>7. CASE AssembleCriticInput
  BY <1>7, AssembleCriticInvariant
<1>8. CASE Critique
  BY <1>8, CritiqueInvariant
<1>9. CASE FinalGate
  BY <1>9, GateInvariant
<1>10. CASE UNCHANGED vars
  BY <1>10, StutterInvariant
<1>11. QED
  BY <1>1, <1>2, <1>3, <1>4, <1>5, <1>6, <1>7, <1>8, <1>9, <1>10 DEF Next, Terminated

LEMMA Invariance == Spec => []IInv
BY InitInvariant, NextInvariant, PTL DEF Spec

-----------------------------------------------------------------------------
(***************************************************************************)
(* The theorems.                                                           *)
(***************************************************************************)

\* Every variable keeps its type: an update of the graph state never leaves the
\* fields and the enumerations that the state and the outcome declare.
THEOREM TypeCorrectness == Spec => []TypeOK
<1>1. IInv => TypeOK
  BY DEF IInv
<1>2. QED
  BY <1>1, Invariance, PTL

\* The state the graph ends with satisfies the outcome's own validator, whatever
\* the agents answered and wherever a span could not be finished.
THEOREM OutcomesValidate == Spec => []OutcomeValidates
<1>1. IInv => OutcomeValidates
  BY DEF IInv
<1>2. QED
  BY <1>1, Invariance, PTL

\* final_gate_failed is never recorded: the gate recomputes what the handoffs
\* computed and finds it again.
THEOREM GateIsNeverSurprised == Spec => []GateNeverSurprised
<1>1. IInv => GateNeverSurprised
  BY DEF IInv, Lineage, GateNeverSurprised
<1>2. QED
  BY <1>1, Invariance, PTL

\* No private artifact outlives the graph.
THEOREM ArtifactsAreDropped == Spec => []ArtifactsDropped
<1>1. IInv => ArtifactsDropped
  BY DEF IInv, Fresh, ArtifactsDropped
<1>2. QED
  BY <1>1, Invariance, PTL

\* What the public outcome can be, given the invariant.
LEMMA OutcomeCases ==
  ASSUME IInv
  PROVE  \/ /\ outcome.review = state
            /\ TerminalContract(outcome.review) /\ Truthful
         \/ /\ outcome.review.release_allowed = FALSE
            /\ outcome.review.verification_status = "none"
BY ClosedReview DEF IInv, Reported

\* The comparison policy calls two facts consistent only when the years and the
\* monthly cents agree.
LEMMA ConsistentMeansEqual ==
  ASSUME NEW l, NEW r, CompareIncome(l, r).result = "consistent"
  PROVE  l.calendar_year = r.calendar_year /\ MonthlyCents(l) = MonthlyCents(r)
<1>1. ResultOf(ComparisonReason(l, r)) = "consistent"
  BY DEF CompareIncome
<1>2. ComparisonReason(l, r) = "exact_match"
  BY <1>1 DEF ResultOf, ComparisonReason
<1>3. QED
  BY <1>2 DEF ComparisonReason

\* The release is earned: a released review rests on two guarded documents of the
\* required kinds whose years and monthly cents agree, for every pair of documents
\* and every behaviour of the agents and of the tracing.
THEOREM ReleasesAreEarned == Spec => []ReleaseIsEarned
<1>1. IInv => ReleaseIsEarned
  <2> SUFFICES ASSUME IInv, outcome.review.release_allowed
               PROVE  /\ agent1 # <<>> /\ \A i \in 1 .. 2 : agent1[i].released
                      /\ Extracted(1).document_id # Extracted(2).document_id
                      /\ SupportedPair({Extracted(1).document_type,
                                        Extracted(2).document_type})
                      /\ Extracted(1).calendar_year = Extracted(2).calendar_year
                      /\ Extracted(1).calendar_year \in EvidenceYear
                      /\ MonthlyCents(EvidenceOf(Extracted(1)))
                           = MonthlyCents(EvidenceOf(Extracted(2)))
                      /\ outcome.review.critic_decision.outcome = "grounded"
                      /\ NoFailureLineage(outcome.review)
    BY DEF ReleaseIsEarned
  <2>1. outcome.review = state /\ TerminalContract(outcome.review) /\ Truthful
    BY OutcomeCases
  <2>2. /\ NoFailureLineage(outcome.review)
        /\ outcome.review.verification_status = "consistent"
        /\ outcome.review.critic_decision = CompatibleDecision("consistent")
    BY <2>1 DEF TerminalContract
  <2>3. SoundPair /\ Policy.result = "consistent"
    BY <2>1, <2>2 DEF Truthful, ComparisonStatus
  <2> DEFINE xs == <<Extracted(1), Extracted(2)>>
  <2>4. /\ \A i \in 1 .. 2 : IncomeUsable(xs[i])
        /\ xs[1].document_id # xs[2].document_id
        /\ SupportedPair({xs[1].document_type, xs[2].document_type})
    <3>1. VerificationHandoffCode(xs) = "none"
      BY <2>3 DEF SoundPair
    <3> HIDE DEF xs
    <3>2. QED
      BY <3>1, HandoffPassed
  <2>5. Extracted(1).calendar_year \in EvidenceYear
    BY <2>4 DEF IncomeUsable
  <2>6. /\ Extracted(1).calendar_year = Extracted(2).calendar_year
        /\ MonthlyCents(EvidenceOf(Extracted(1))) = MonthlyCents(EvidenceOf(Extracted(2)))
    <3> DEFINE l == EvidenceOf(Extracted(1))
               r == EvidenceOf(Extracted(2))
    <3>1. l.calendar_year = Extracted(1).calendar_year
          /\ r.calendar_year = Extracted(2).calendar_year
      BY DEF EvidenceOf
    <3>2. CompareIncome(l, r).result = "consistent"
      BY <2>3 DEF Policy
    <3> HIDE DEF l, r
    <3>3. l.calendar_year = r.calendar_year /\ MonthlyCents(l) = MonthlyCents(r)
      BY <3>2, ConsistentMeansEqual
    <3>4. QED
      BY <3>1, <3>3 DEF l, r
  <2>7. agent1 # <<>> /\ \A i \in 1 .. 2 : agent1[i].released
    <3>1. DOMAIN agent1 = 1 .. 2 /\ agent1[1].released /\ agent1[2].released
      BY <2>3 DEF SoundPair
    <3>2. 1 \in DOMAIN agent1 /\ 1 \notin DOMAIN <<>>
      BY <3>1
    <3>3. \A i \in 1 .. 2 : i = 1 \/ i = 2
      OBVIOUS
    <3>4. QED
      BY <3>1, <3>2, <3>3
  <2>8. outcome.review.critic_decision.outcome = "grounded"
    BY <2>2 DEF CompatibleDecision
  <2>9. QED
    BY <2>2, <2>4, <2>5, <2>6, <2>7, <2>8
<1>2. QED
  BY <1>1, Invariance, PTL

\* A verdict in the outcome is the exact policy's on the facts Agent 1 released,
\* and it alone decides the reason the review is given.
THEOREM VerdictsAreThePolicys == Spec => []VerdictIsThePolicys
<1>1. IInv => VerdictIsThePolicys
  <2> SUFFICES ASSUME IInv, outcome.review.verification_status \in ComparisonStatus
               PROVE  /\ outcome.review.verification_status = Policy.result
                      /\ outcome.review.failure_code = "none" =>
                           outcome.review.final_reason_code = FinalReason(Policy.result)
    BY DEF VerdictIsThePolicys
  <2>1. outcome.review = state /\ TerminalContract(outcome.review) /\ Truthful
    BY OutcomeCases DEF ComparisonStatus
  <2>2. outcome.review.verification_status = Policy.result
    BY <2>1 DEF Truthful
  <2>3. outcome.review.failure_code = "none" =>
          outcome.review.final_reason_code
            = FinalReason(outcome.review.verification_status)
    BY <2>1 DEF TerminalContract
  <2>4. QED
    BY <2>2, <2>3
<1>2. QED
  BY <1>1, Invariance, PTL

\* The steps outside the graph report nothing but closed reviews.
LEMMA OutsideReports ==
  ASSUME IInv, ConfigurationCheck \/ BundleRejected \/ BundleAccepted \/ Close
  PROVE  \/ outcome'.review = outcome.review
         \/ /\ ~outcome'.review.release_allowed
            /\ outcome'.review.failure_code # "internal_failure"
<1>1. \/ outcome'.review = outcome.review
      \/ outcome'.review = InitialState
      \/ \E code \in {"invalid_bundle", "unsafe_configuration"} :
           outcome'.review = HumanReview(code)
  BY DEF ConfigurationCheck, BundleRejected, BundleAccepted, Close, Raise, IInv, TypeOK
<1>2. QED
  BY <1>1, ClosedReview

\* An internal failure appears only when an exception left the graph.
THEOREM InternalFailuresAreTraceFaults == Spec => InternalFailureIsATraceFault
<1> DEFINE A == outcome'.review # outcome.review
                  /\ outcome'.review.failure_code = "internal_failure" => pc = "escaped"
<1>1. IInv /\ [Next]_vars => [A]_vars
  <2> SUFFICES ASSUME IInv, Next, outcome'.review # outcome.review,
                      outcome'.review.failure_code = "internal_failure"
               PROVE  pc = "escaped"
    OBVIOUS
  <2>1. CASE ConfigurationCheck \/ BundleRejected \/ BundleAccepted \/ Close
    BY <2>1, OutsideReports
  <2>2. CASE GraphEnded
    BY <2>2 DEF GraphEnded, IInv, TypeOK, OutcomeValidates, Lineage
  <2>3. CASE GraphEscaped
    BY <2>3 DEF GraphEscaped
  <2>4. CASE ExtractDocuments \/ ExtractionRaises \/ AssembleInput \/ Verify
             \/ AssembleCriticInput \/ Critique \/ FinalGate \/ Terminated
    BY <2>4 DEF ExtractDocuments, ExtractionRaises, AssembleInput, Verify,
       AssembleCriticInput, Critique, FinalGate, Terminated, Node, vars
  <2>5. QED
    BY <2>1, <2>2, <2>3, <2>4 DEF Next
<1>2. QED
  BY <1>1, Invariance, PTL DEF Spec, InternalFailureIsATraceFault

\* No node but the gate touches the permission.
LEMMA NodesKeepPermission ==
  ASSUME state \in ReviewState, pc # "final_gate",
         \/ ExtractDocuments \/ ExtractionRaises \/ AssembleInput \/ Verify
         \/ AssembleCriticInput \/ Critique \/ FinalGate \/ Terminated
  PROVE  state'.release_allowed = state.release_allowed
<1>1. CASE ExtractDocuments
  BY <1>1 DEF ExtractDocuments, Node, ExtractionUpdate, Blocked, ReviewState
<1>2. CASE ExtractionRaises
  BY <1>2 DEF ExtractionRaises, Node, Blocked, ReviewState
<1>3. CASE AssembleInput
  BY <1>3 DEF AssembleInput, Node, Blocked, ReviewState
<1>4. CASE Verify
  BY <1>4 DEF Verify, Node, VerificationUpdate, VerificationReported, Blocked, ReviewState
<1>5. CASE AssembleCriticInput
  BY <1>5 DEF AssembleCriticInput, Node, Blocked, ReviewState
<1>6. CASE Critique
  BY <1>6 DEF Critique, Node, CriticUpdate, CriticReported, Blocked, ReviewState
<1>7. CASE FinalGate \/ Terminated
  BY <1>7 DEF FinalGate, Terminated, vars
<1>8. QED
  BY <1>1, <1>2, <1>3, <1>4, <1>5, <1>6, <1>7

\* Only the gate turns the permission on, and only a graph that ended with that
\* permission gives a released outcome.
THEOREM OnlyTheGateReleasesIt == Spec => OnlyTheGateReleases
<1> DEFINE A == /\ state'.release_allowed /\ ~state.release_allowed => pc = "final_gate"
                /\ outcome'.review.release_allowed /\ ~outcome.review.release_allowed =>
                     pc = "outcome" /\ state.release_allowed
<1>1. IInv /\ [Next]_vars => [A]_vars
  <2> SUFFICES ASSUME IInv, Next PROVE A
    OBVIOUS
  <2>0. state \in ReviewState /\ outcome.review \in ReviewState
    BY DEF IInv, TypeOK
  <2>1. CASE ConfigurationCheck \/ BundleRejected \/ BundleAccepted \/ Close
    <3>1. state' = state
      BY <2>1 DEF ConfigurationCheck, BundleRejected, BundleAccepted, Close
    <3>2. QED
      BY <2>1, <3>1, OutsideReports
  <2>2. CASE GraphEnded \/ GraphEscaped
    <3>1. state' = state
      BY <2>2 DEF GraphEnded, GraphEscaped
    <3>2. \/ pc = "outcome" /\ outcome'.review = state
          \/ outcome'.review = HumanReview("internal_failure")
      BY <2>2 DEF GraphEnded, GraphEscaped, IInv, TypeOK
    <3>3. QED
      BY <3>1, <3>2, ClosedReview
  <2>3. CASE ExtractDocuments \/ ExtractionRaises \/ AssembleInput \/ Verify
             \/ AssembleCriticInput \/ Critique \/ FinalGate \/ Terminated
    <3>1. outcome' = outcome
      BY <2>3 DEF ExtractDocuments, ExtractionRaises, AssembleInput, Verify,
         AssembleCriticInput, Critique, FinalGate, Terminated, Node, vars
    <3>2. pc # "final_gate" => state'.release_allowed = state.release_allowed
      BY <2>0, <2>3, NodesKeepPermission
    <3>3. QED
      BY <3>1, <3>2
  <2>4. QED
    BY <2>1, <2>2, <2>3 DEF Next
<1>2. QED
  BY <1>1, Invariance, PTL DEF Spec, OnlyTheGateReleases

-----------------------------------------------------------------------------
(***************************************************************************)
(* The stage that failed.  No stage leaves a trace before it is reached.   *)
(***************************************************************************)
Untouched ==
  /\ pc \in {"verification_input_assemble", "verification"} =>
       artifact.verification_result = NoResult /\ state.tool_call_count = 0
  /\ pc \in {"verification_input_assemble", "verification", "critic_input_assemble",
             "critic"} =>
       artifact.critic_result = NoCriticResult /\ state.critic_status = "none"

\* The conclusion of FailureNamesTheStage, for any state and artifacts.
Named(s, a) ==
  /\ s.failure_code = "extraction_failed" <=> s.upstream_failure_codes # {}
  /\ s.failure_code = "handoff_failed" <=> s.handoff_failure_code # "none"
  /\ s.failure_code = "critic_handoff_failed" <=> s.critic_handoff_failure_code # "none"
  /\ s.critic_failure_code # "none" => s.failure_code = "critic_failed"
  /\ s.verification_failure_code # "none" => s.failure_code = "verification_failed"
  /\ s.failure_code \in {"extraction_failed", "handoff_failed"} =>
       a.verification_result = NoResult /\ s.tool_call_count = 0
  /\ s.failure_code \in {"extraction_failed", "handoff_failed",
                         "verification_failed", "critic_handoff_failed"} =>
       a.critic_result = NoCriticResult /\ s.critic_status = "none"

Staged == Untouched /\ (pc \in {"final_gate", "outcome"} => Named(state, artifact))

\* What a node finds: no lineage, and nothing of its own stage or a later one.
LEMMA NodeFinds ==
  ASSUME IInv, Staged, pc \in Node6 \ {"final_gate"}
  PROVE  /\ state \in ReviewState /\ artifact \in Artifact
         /\ state.failure_code = "none" /\ NoFailureLineage(state)
         /\ artifact.critic_result = NoCriticResult /\ state.critic_status = "none"
         /\ pc \in {"extract_documents", "verification_input_assemble", "verification"} =>
              artifact.verification_result = NoResult /\ state.tool_call_count = 0
<1>1. /\ state \in ReviewState /\ artifact \in Artifact
      /\ state.failure_code = "none" /\ NoFailureLineage(state)
  BY DEF IInv, TypeOK, Placed, Lineage
<1>2. CASE pc = "extract_documents"
  BY <1>1, <1>2 DEF IInv, Fresh, InitialState, NoArtifact
<1>3. CASE pc # "extract_documents"
  BY <1>1, <1>3 DEF Staged, Untouched, Node6
<1>4. QED
  BY <1>2, <1>3

\* A node's update need only be looked at where it fails.
LEMMA NodeStaged ==
  ASSUME IInv', NEW s, NEW a, NEW next, Node(s, a, next),
         next \in Node6 \cup {"outcome"}, next # "extract_documents",
         next \in {"verification_input_assemble", "verification"} =>
           a.verification_result = NoResult /\ s.tool_call_count = 0,
         next \in {"verification_input_assemble", "verification",
                   "critic_input_assemble", "critic"} =>
           a.critic_result = NoCriticResult /\ s.critic_status = "none",
         next \in {"final_gate", "outcome"} /\ s.failure_code # "none" => Named(s, a)
  PROVE  Staged'
<1>1. CASE state' = s /\ pc' = next
  <2>1. artifact' = a
    BY DEF Node
  <2>2. Untouched'
    BY <1>1, <2>1 DEF Untouched
  <2>3. s.failure_code = "none" => Named(s, a)
    BY <1>1 DEF IInv, Lineage, NoFailureLineage, Named
  <2>4. QED
    BY <1>1, <2>1, <2>2, <2>3 DEF Staged
<1>2. CASE pc' = "escaped"
  BY <1>2 DEF Staged, Untouched
<1>3. QED
  BY <1>1, <1>2 DEF Node

\* Where a route may lead.
LEMMA RouteLeads ==
  ASSUME NEW s, NEW flags, NEW next
  PROVE  /\ Route(s, flags, next) \in {next, "final_gate"}
         /\ Route(s, flags, next) = next => next = "final_gate" \/ s.failure_code = "none"
BY DEF Route

LEMMA StageStep == IInv /\ IInv' /\ Staged /\ [Next]_vars => Staged'
<1> SUFFICES ASSUME IInv, IInv', Staged, [Next]_vars PROVE Staged'
  OBVIOUS
<1>1. CASE ConfigurationCheck \/ BundleRejected \/ BundleAccepted \/ Close
           \/ GraphEnded \/ GraphEscaped
  BY <1>1 DEF ConfigurationCheck, BundleRejected, BundleAccepted, Close, GraphEnded,
     GraphEscaped, Raise, Staged, Untouched
<1>2. CASE ExtractDocuments
  <2>1. PICK replies \in [1 .. 2 -> Agent1Given] :
          LET s == ExtractionUpdate(replies) IN
          Node(s, [artifact EXCEPT !.extractions =
                     IF s.failure_code = "none"
                     THEN <<replies[1].extraction, replies[2].extraction>> ELSE <<>>],
               Route(s, {"extractions_ready"}, "verification_input_assemble"))
    BY <1>2 DEF ExtractDocuments
  <2> DEFINE s == ExtractionUpdate(replies)
             xs == IF s.failure_code = "none"
                   THEN <<replies[1].extraction, replies[2].extraction>> ELSE <<>>
             a == [artifact EXCEPT !.extractions = xs]
             next == Route(s, {"extractions_ready"}, "verification_input_assemble")
  <2>2. Node(s, a, next)
    BY <2>1
  <2>3. /\ state \in ReviewState /\ artifact \in Artifact
        /\ NoFailureLineage(state) /\ state.critic_status = "none"
        /\ state.tool_call_count = 0
        /\ artifact.critic_result = NoCriticResult
        /\ artifact.verification_result = NoResult
    BY <1>2, NodeFinds DEF ExtractDocuments, Node6
  <2> HIDE DEF xs
  <2>4. a.verification_result = NoResult /\ a.critic_result = NoCriticResult
    BY <2>3 DEF Artifact
  <2>5. /\ s.tool_call_count = 0 /\ s.critic_status = "none"
        /\ s.failure_code # "none" => s.upstream_failure_codes # {}
                                      /\ s.failure_code = "extraction_failed"
        /\ s.handoff_failure_code = "none" /\ s.critic_handoff_failure_code = "none"
        /\ s.critic_failure_code = "none" /\ s.verification_failure_code = "none"
    BY <2>3 DEF ExtractionUpdate, Blocked, ReviewState, NoFailureLineage
  <2> HIDE DEF a, s
  <2>6. s.failure_code # "none" => Named(s, a)
    BY <2>4, <2>5 DEF Named
  <2>7. next \in {"verification_input_assemble", "final_gate"}
    BY RouteLeads
  <2> HIDE DEF next
  <2>8. QED
    BY <2>2, <2>4, <2>5, <2>6, <2>7, NodeStaged DEF Node6
<1>3. CASE ExtractionRaises
  <2> DEFINE s == [Blocked(state, "extraction_failed") EXCEPT
                     !.upstream_failure_codes = {"internal_failure"}]
  <2>1. CASE Node(s, artifact, "final_gate")
    <3>1. /\ state \in ReviewState /\ NoFailureLineage(state)
          /\ state.critic_status = "none" /\ state.tool_call_count = 0
          /\ artifact.critic_result = NoCriticResult
          /\ artifact.verification_result = NoResult
      BY <1>3, NodeFinds DEF ExtractionRaises, Node6
    <3>2. Named(s, artifact)
      BY <3>1 DEF Named, Blocked, ReviewState, NoFailureLineage
    <3> HIDE DEF s
    <3>3. QED
      BY <2>1, <3>2, NodeStaged DEF Node6
  <2>2. CASE pc' = "escaped"
    BY <2>2 DEF Staged, Untouched
  <2>3. QED
    BY <1>3, <2>1, <2>2 DEF ExtractionRaises
<1>4. CASE AssembleInput
  <2> DEFINE code == VerificationHandoffCode(artifact.extractions)
             s == IF code = "none"
                  THEN [state EXCEPT !.flags = @ \cup {"verification_request_ready"}]
                  ELSE [Blocked(state, "handoff_failed") EXCEPT
                          !.handoff_failure_code = code]
             request == IF code = "none" THEN VerificationRequest(artifact.extractions)
                        ELSE artifact.verification_request
             a == [artifact EXCEPT !.verification_request = request]
             next == Route(s, {"verification_request_ready"}, "verification")
  <2>1. Node(s, a, next)
    BY <1>4 DEF AssembleInput
  <2>2. /\ state \in ReviewState /\ artifact \in Artifact
        /\ NoFailureLineage(state) /\ state.critic_status = "none"
        /\ state.tool_call_count = 0
        /\ artifact.critic_result = NoCriticResult
        /\ artifact.verification_result = NoResult
    BY <1>4, NodeFinds DEF AssembleInput, Node6
  <2> HIDE DEF request, code
  <2>3. a.verification_result = NoResult /\ a.critic_result = NoCriticResult
    BY <2>2 DEF Artifact
  <2>4. /\ s.tool_call_count = 0 /\ s.critic_status = "none"
        /\ s.failure_code # "none" => s.handoff_failure_code # "none"
                                      /\ s.failure_code = "handoff_failed"
        /\ s.upstream_failure_codes = {} /\ s.critic_handoff_failure_code = "none"
        /\ s.critic_failure_code = "none" /\ s.verification_failure_code = "none"
    BY <2>2 DEF Blocked, ReviewState, NoFailureLineage
  <2> HIDE DEF a, s
  <2>5. s.failure_code # "none" => Named(s, a)
    BY <2>3, <2>4 DEF Named
  <2>6. next \in {"verification", "final_gate"}
    BY RouteLeads
  <2> HIDE DEF next
  <2>7. QED
    BY <2>1, <2>3, <2>4, <2>5, <2>6, NodeStaged DEF Node6
<1>5. CASE Verify
  <2>1. PICK reply \in VerificationReplies(artifact.verification_request) :
          LET returned == reply.kind = "returned"
              s == IF returned THEN VerificationUpdate(reply.result)
                   ELSE Blocked(state, "verification_failed") IN
          Node(s, [artifact EXCEPT !.verification_result =
                     IF returned THEN reply.result ELSE @],
               Route(s, {"verification_result_ready", "ready_for_critic"},
                     "critic_input_assemble"))
    BY <1>5 DEF Verify
  <2> DEFINE returned == reply.kind = "returned"
             s == IF returned THEN VerificationUpdate(reply.result)
                  ELSE Blocked(state, "verification_failed")
             answered == IF returned THEN reply.result ELSE artifact.verification_result
             a == [artifact EXCEPT !.verification_result = answered]
             next == Route(s, {"verification_result_ready", "ready_for_critic"},
                           "critic_input_assemble")
  <2>2. Node(s, a, next)
    BY <2>1
  <2>3. /\ state \in ReviewState /\ artifact \in Artifact
        /\ state.failure_code = "none" /\ NoFailureLineage(state)
        /\ state.critic_status = "none" /\ artifact.critic_result = NoCriticResult
    BY <1>5, NodeFinds DEF Verify, Node6
  <2> HIDE DEF answered
  <2>4. a.critic_result = NoCriticResult
    BY <2>3 DEF Artifact
  <2>5. /\ s.critic_status = "none"
        /\ s.failure_code # "none" => s.failure_code = "verification_failed"
        /\ s.upstream_failure_codes = {} /\ s.handoff_failure_code = "none"
        /\ s.critic_handoff_failure_code = "none" /\ s.critic_failure_code = "none"
    BY <2>3 DEF VerificationUpdate, VerificationReported, Blocked, ReviewState,
       NoFailureLineage
  <2> HIDE DEF a, s
  <2>6. s.failure_code # "none" => Named(s, a)
    BY <2>4, <2>5 DEF Named
  <2>7. next \in {"critic_input_assemble", "final_gate"}
    BY RouteLeads
  <2> HIDE DEF next
  <2>8. QED
    BY <2>2, <2>4, <2>5, <2>6, <2>7, NodeStaged DEF Node6
<1>6. CASE AssembleCriticInput
  <2> DEFINE code == CriticAssemblyCode
             s == IF code = "none"
                  THEN [state EXCEPT !.flags = @ \cup {"critic_request_ready"}]
                  ELSE [Blocked(state, "critic_handoff_failed") EXCEPT
                          !.critic_handoff_failure_code = code]
             request == IF code = "none" THEN ExpectedCriticRequest
                        ELSE artifact.critic_request
             a == [artifact EXCEPT !.critic_request = request]
             next == Route(s, {"critic_request_ready"}, "critic")
  <2>1. Node(s, a, next)
    BY <1>6 DEF AssembleCriticInput
  <2>2. /\ state \in ReviewState /\ artifact \in Artifact
        /\ NoFailureLineage(state) /\ state.critic_status = "none"
        /\ artifact.critic_result = NoCriticResult
    BY <1>6, NodeFinds DEF AssembleCriticInput, Node6
  <2> HIDE DEF request, code
  <2>3. a.critic_result = NoCriticResult
    BY <2>2 DEF Artifact
  <2>4. /\ s.critic_status = "none"
        /\ s.failure_code # "none" => s.critic_handoff_failure_code # "none"
                                      /\ s.failure_code = "critic_handoff_failed"
        /\ s.upstream_failure_codes = {} /\ s.handoff_failure_code = "none"
        /\ s.critic_failure_code = "none" /\ s.verification_failure_code = "none"
    BY <2>2 DEF Blocked, ReviewState, NoFailureLineage
  <2> HIDE DEF a, s
  <2>5. s.failure_code # "none" => Named(s, a)
    BY <2>3, <2>4 DEF Named
  <2>6. next \in {"critic", "final_gate"}
    BY RouteLeads
  <2> HIDE DEF next
  <2>7. QED
    BY <2>1, <2>3, <2>4, <2>5, <2>6, NodeStaged DEF Node6
<1>7. CASE Critique
  <2>1. PICK reply \in CriticReplies(artifact.critic_request) :
          LET returned == reply.kind = "returned" IN
          Node(IF returned THEN CriticUpdate(reply.result)
               ELSE Blocked(state, "critic_failed"),
               [artifact EXCEPT !.critic_result = IF returned THEN reply.result ELSE @],
               "final_gate")
    BY <1>7 DEF Critique
  <2> DEFINE returned == reply.kind = "returned"
             s == IF returned THEN CriticUpdate(reply.result)
                  ELSE Blocked(state, "critic_failed")
             a == [artifact EXCEPT !.critic_result = IF returned THEN reply.result ELSE @]
  <2>2. Node(s, a, "final_gate")
    BY <2>1
  <2>3. /\ state \in ReviewState /\ state.failure_code = "none" /\ NoFailureLineage(state)
    BY <1>7, NodeFinds DEF Critique, Node6
  <2>4. /\ s.failure_code # "none" => s.failure_code = "critic_failed"
        /\ s.upstream_failure_codes = {} /\ s.handoff_failure_code = "none"
        /\ s.critic_handoff_failure_code = "none" /\ s.verification_failure_code = "none"
    BY <2>3 DEF CriticUpdate, CriticReported, Blocked, ReviewState, NoFailureLineage
  <2> HIDE DEF a, s
  <2>5. s.failure_code # "none" => Named(s, a)
    BY <2>4 DEF Named
  <2>6. QED
    BY <2>2, <2>5, NodeStaged DEF Node6
<1>8. CASE FinalGate
  <2>1. Node(GateUpdate, artifact, "outcome") /\ Named(state, artifact)
        /\ state \in ReviewState
    BY <1>8 DEF FinalGate, Staged, IInv, TypeOK
  <2>2. CASE pc' = "escaped"
    BY <2>2 DEF Staged, Untouched
  <2>3. CASE state' = GateUpdate /\ pc' = "outcome"
    <3>1. state.failure_code # "none" => Named(GateUpdate, artifact)
      BY <2>1 DEF GateUpdate, Named, ReviewState
    <3>2. state.failure_code = "none" /\ GateUpdate.failure_code # "none" =>
            GateUpdate.failure_code = "final_gate_failed"
      BY <2>1 DEF GateUpdate, Blocked, ReviewState
    <3>3. state'.failure_code # "final_gate_failed"
      BY DEF IInv, Lineage
    <3>4. GateUpdate.failure_code # "none" => Named(GateUpdate, artifact)
      BY <2>3, <3>1, <3>2, <3>3
    <3>5. QED
      BY <2>1, <3>4, NodeStaged DEF Node6
  <2>4. QED
    BY <2>1, <2>2, <2>3 DEF Node
<1>9. CASE UNCHANGED vars
  BY <1>9 DEF vars, Staged, Untouched
<1>10. QED
  BY <1>1, <1>2, <1>3, <1>4, <1>5, <1>6, <1>7, <1>8, <1>9 DEF Next, Terminated

\* The failure code the review ends with is that of the first stage that failed:
\* its own lineage is there, and no later stage has left a result or a count.
THEOREM FailuresNameTheStage == Spec => []FailureNamesTheStage
<1>1. Init => Staged
  BY DEF Init, Staged, Untouched
<1>2. Spec => []Staged
  BY <1>1, StageStep, Invariance, PTL DEF Spec
<1>3. Staged => FailureNamesTheStage
  BY DEF Staged, Named, FailureNamesTheStage
<1>4. QED
  BY <1>2, <1>3, PTL
=============================================================================
