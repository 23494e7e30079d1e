--------------------------- MODULE VerificationResults ---------------------------
(***************************************************************************)
(* Agent 2's request and result contracts: what IncomeReviewOrchestrator   *)
(* hands to verify() and what may come back                                *)
(* (financial_reviewer/agents/agent2_verification.py).                     *)
(***************************************************************************)
EXTENDS IncomeDomain, FiniteSets

CONSTANTS
  Source,                           \* the evidence references of the request
  Offer,                            \* the income facts a source may carry
  MAX_VERIFICATION_TOOL_CALLS,
  MAX_VERIFICATION_MODEL_DECISIONS,
  MAX_INVALID_DECISIONS

ASSUME OfferAssumption == Offer \subseteq IncomeEvidence

ASSUME BudgetAssumption ==
  /\ MAX_VERIFICATION_TOOL_CALLS \in Nat
  /\ MAX_VERIFICATION_MODEL_DECISIONS \in Nat \ {0}
  /\ MAX_INVALID_DECISIONS \in Nat

Comparison ==
  [left : Source, right : Source, result : ComparisonStatus,
   reason : VerificationReason]

\* The comparison the tool makes of two normalized sources.
ComparisonOf(evidence, l, r) ==
  [left |-> l, right |-> r,
   result |-> CompareIncome(evidence[l], evidence[r]).result,
   reason |-> CompareIncome(evidence[l], evidence[r]).reason]

Result ==
  [status : VerificationStatus \cup {"none"},
   sources : SUBSET Source,
   comparisons : SUBSET Comparison,
   unsupported_reasons : SUBSET VerificationReason,
   failure_code : VerificationFailureCode \cup {"none"},
   tool_call_count : Nat,
   invalid_decision_count : Nat]

NoResult ==
  [status |-> "none", sources |-> {}, comparisons |-> {},
   unsupported_reasons |-> {}, failure_code |-> "none",
   tool_call_count |-> 0, invalid_decision_count |-> 0]

FailedResult(code, calls, invalid) ==
  [status |-> "failed", sources |-> {}, comparisons |-> {},
   unsupported_reasons |-> {}, failure_code |-> code,
   tool_call_count |-> calls, invalid_decision_count |-> invalid]

\* IncomeVerificationResult.validate_result_consistency and its field bounds.
ValidResult(r) ==
  /\ r.tool_call_count <= MAX_VERIFICATION_TOOL_CALLS
  /\ r.invalid_decision_count <= MAX_INVALID_DECISIONS + 1
  /\ r.status = "failed" <=> r.failure_code # "none"
  /\ r.status \in ComparisonStatus => Cardinality(r.comparisons) = 1
  /\ r.status = "insufficient_evidence" => r.comparisons = {}

HasSupportedPair(evidence) ==
  SupportedPair({evidence[s].document_type : s \in Source})

-----------------------------------------------------------------------------
(***************************************************************************)
(* What verify() may answer: a verdict that the evidence alone determines, *)
(* or a failure that says which budget or which call failed.  The model's  *)
(* proposals and the five-node graph do not appear.  VerificationAgent is  *)
(* shown to answer nothing else, and IncomeReview relies on it.            *)
(***************************************************************************)
Usable(ev) == {s \in Source : Normalizable(ev[s]) /\ Quantizes(ev[s])}

\* The verdict on two of the normalized sources S; each normalization and the
\* comparison cost one tool call.
Verdict(ev, S, pair, calls, invalid) ==
  LET c == ComparisonOf(ev, pair[1], pair[2]) IN
  [status |-> c.result, sources |-> S, comparisons |-> {c},
   unsupported_reasons |-> IF c.result = "not_comparable" THEN {c.reason} ELSE {},
   failure_code |-> "none",
   tool_call_count |-> calls, invalid_decision_count |-> invalid]

Verdicts(ev) ==
  UNION {{Verdict(ev, S, pair, calls, invalid) :
            pair \in {p \in S \X S : p[1] # p[2]},
            calls \in (Cardinality(S) + 1) .. MAX_VERIFICATION_TOOL_CALLS,
            invalid \in 0 .. MAX_INVALID_DECISIONS} : S \in SUBSET Usable(ev)}

\* Without one pay stub and one W-2 the model may give up at once.
InsufficientEvidence(S, calls, invalid) ==
  [status |-> "insufficient_evidence", sources |-> S, comparisons |-> {},
   unsupported_reasons |-> {"unsupported_document_combination"},
   failure_code |-> "none",
   tool_call_count |-> calls, invalid_decision_count |-> invalid]

Insufficiencies(ev) ==
  UNION {{InsufficientEvidence(S, calls, invalid) :
            calls \in Cardinality(S) .. MAX_VERIFICATION_TOOL_CALLS,
            invalid \in 0 .. MAX_INVALID_DECISIONS} :
         S \in {T \in SUBSET Usable(ev) : ~HasSupportedPair(ev)}}

\* The tool limit is reported only when the tool calls, or the decisions that
\* could have asked for more, are spent.
Failures ==
  LET Calls == 0 .. MAX_VERIFICATION_TOOL_CALLS
      Retries == 0 .. MAX_INVALID_DECISIONS IN
  {FailedResult("model_decision_failed", calls, invalid) :
     calls \in Calls, invalid \in Retries} \cup
  {FailedResult("invalid_model_decision", calls, MAX_INVALID_DECISIONS + 1) :
     calls \in Calls} \cup
  {FailedResult("tool_call_limit_reached", spent[1], spent[2]) :
     spent \in {s \in Calls \X Retries :
                  \/ s[1] = MAX_VERIFICATION_TOOL_CALLS
                  \/ s[1] + s[2] >= MAX_VERIFICATION_MODEL_DECISIONS}}

-----------------------------------------------------------------------------
NoReply == [kind |-> "running", result |-> NoResult]
Raised(kind) == [kind |-> kind, result |-> NoResult]

VerificationReplies(ev) ==
  {[kind |-> "returned", result |-> r] :
     r \in Verdicts(ev) \cup Insufficiencies(ev) \cup Failures} \cup
  {Raised("input_error")} \cup
  {Raised("decimal_overflow") :
     s \in {t \in Source : Normalizable(ev[t]) /\ ~Quantizes(ev[t])}}
=============================================================================
