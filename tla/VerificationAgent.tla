---------------------------- MODULE VerificationAgent ----------------------------
(***************************************************************************)
(* Agent 2, IncomeVerificationAgent: one call of verify(), which runs the  *)
(* five-node decision/tool graph of                                        *)
(* financial_reviewer/agents/agent2_verification.py.  The language model   *)
(* proposes the next action; the guard, the tool executor and the budgets  *)
(* decide.  The model is an arbitrary environment: at every call it may    *)
(* answer anything, fail, or be malformed.                                 *)
(*                                                                         *)
(* The reference of a normalized income is a digest of its evidence        *)
(* reference and of the rule that made it.  A source has one rule at most, *)
(* so a normalized income is named by the source it comes from, and its    *)
(* value is MonthlyCents of that source.                                   *)
(***************************************************************************)
EXTENDS VerificationResults

CONSTANTS
  UnknownRef,                       \* any reference that names nothing
  AGENT2_GRAPH_RECURSION_LIMIT

ASSUME RequestAssumption == UnknownRef \notin Source

ASSUME GraphAssumption ==
  /\ AGENT2_GRAPH_RECURSION_LIMIT \in Nat
  /\ AGENT2_GRAPH_RECURSION_LIMIT >=
       2 + 2 * MAX_VERIFICATION_MODEL_DECISIONS + MAX_VERIFICATION_TOOL_CALLS

VARIABLES
  evidence,                \* the request: source -> income fact
  pc,                      \* the node the graph runs next, "return" or "done"
  nodes,                   \* nodes executed so far (graph supersteps)
  model_decision_count,
  tool_call_count,
  invalid_decision_count,
  input_error,             \* private artifact: the request did not validate
  proposed_decision,       \* private artifact
  decision_error,          \* private artifact
  normalized,              \* private artifact: the sources normalized so far
  comparisons,             \* private artifact: at most one comparison
  observations,            \* private artifact: how often each code was observed
  result,                  \* the terminal result
  outcome                  \* how verify() ended

private == <<input_error, proposed_decision, decision_error, normalized,
             comparisons, observations>>
counters == <<model_decision_count, tool_call_count, invalid_decision_count>>
vars == <<evidence, pc, nodes, counters, private, result, outcome>>

-----------------------------------------------------------------------------
Ref == Source \cup {UnknownRef}

Complete == [tool |-> "complete", left |-> UnknownRef, right |-> UnknownRef]
Malformed == [tool |-> "malformed", left |-> UnknownRef, right |-> UnknownRef]
NoDecision == [tool |-> "none", left |-> UnknownRef, right |-> UnknownRef]

\* What decide() may return.  A comparison of a reference with itself does not
\* validate, so it is malformed; a normalization carries one reference.
ToolDecision ==
  [tool : NormalizationTool, left : Ref, right : {UnknownRef}] \cup
  {d \in [tool : {"compare_income_sources"}, left : Ref, right : Ref] :
     d.left # d.right}
Proposal == ToolDecision \cup {Complete, Malformed}

RejectionCode ==
  {"invalid_decision", "invalid_tool_arguments", "premature_completion"}
ObservationCode == RejectionCode \cup {"tool_completed"}

\* The status comes from the comparison, never from the model.
CompleteResult ==
  [status |-> IF comparisons = {} THEN "insufficient_evidence"
              ELSE (CHOOSE c \in comparisons : TRUE).result,
   sources |-> normalized,
   comparisons |-> comparisons,
   unsupported_reasons |->
     IF comparisons = {} THEN {"unsupported_document_combination"}
     ELSE {c.reason : c \in {d \in comparisons : d.result = "not_comparable"}},
   failure_code |-> "none",
   tool_call_count |-> tool_call_count,
   invalid_decision_count |-> invalid_decision_count]

-----------------------------------------------------------------------------
Init ==
  /\ evidence \in [Source -> Offer]
  /\ pc = "validate_request"
  /\ nodes = 0
  /\ model_decision_count = 0
  /\ tool_call_count = 0
  /\ invalid_decision_count = 0
  /\ input_error = FALSE
  /\ proposed_decision = NoDecision
  /\ decision_error = "none"
  /\ normalized = {}
  /\ comparisons = {}
  /\ observations = [c \in ObservationCode |-> 0]
  /\ result = NoResult
  /\ outcome = "running"

\* The graph runs node n: one superstep.  LangGraph raises when there are more
\* than AGENT2_GRAPH_RECURSION_LIMIT of them; NodeBudget says that there never are.
Enter(n) ==
  /\ pc = n
  /\ nodes' = nodes + 1
  /\ UNCHANGED <<evidence, outcome>>

\* verify() pops the private artifacts on every exit path.
DropArtifacts ==
  /\ input_error' = FALSE
  /\ proposed_decision' = NoDecision
  /\ decision_error' = "none"
  /\ normalized' = {}
  /\ comparisons' = {}
  /\ observations' = [c \in ObservationCode |-> 0]

\* An exception leaves the graph and verify().
Escape(cause) ==
  /\ outcome' = cause
  /\ pc' = "done"
  /\ result' = NoResult
  /\ DropArtifacts
  /\ UNCHANGED <<evidence, counters>>

-----------------------------------------------------------------------------
(***************************************************************************)
(* A terminal failure, and the rejection of a proposal, which is observed  *)
(* by the model and may be retried while both budgets last.                *)
(***************************************************************************)
FailureUpdate(code, calls, invalid) ==
  /\ proposed_decision' = NoDecision
  /\ decision_error' = "none"
  /\ result' = FailedResult(code, calls, invalid)
  /\ tool_call_count' = calls
  /\ invalid_decision_count' = invalid
  /\ pc' = "finalize"

\* Mutant: the retry is refused.
RetrySpentTooSoon(invalid) == invalid >= MAX_INVALID_DECISIONS

RetrySpent(invalid) == invalid > MAX_INVALID_DECISIONS
DecisionsSpent == model_decision_count >= MAX_VERIFICATION_MODEL_DECISIONS

RejectionUpdate(code, calls) ==
  LET invalid == invalid_decision_count + 1 IN
  /\ observations' = [observations EXCEPT ![code] = @ + 1]
  /\ UNCHANGED <<input_error, normalized, comparisons, model_decision_count>>
  /\ \/ /\ RetrySpent(invalid)
        /\ FailureUpdate("invalid_model_decision", calls, invalid)
     \/ /\ ~RetrySpent(invalid) /\ DecisionsSpent
        /\ FailureUpdate("tool_call_limit_reached", calls, invalid)
     \/ /\ ~RetrySpent(invalid) /\ ~DecisionsSpent
        /\ proposed_decision' = NoDecision
        /\ decision_error' = "none"
        /\ tool_call_count' = calls
        /\ invalid_decision_count' = invalid
        /\ pc' = "model_decision"
        /\ UNCHANGED result

-----------------------------------------------------------------------------
(***************************************************************************)
(* The five nodes.                                                         *)
(***************************************************************************)

\* The handoff is revalidated; one that was constructed or mutated past its
\* validators is an input error and reaches no model call.
ValidateRequest ==
  /\ Enter("validate_request")
  /\ \/ input_error' = TRUE /\ pc' = "finalize"
     \/ input_error' = FALSE /\ pc' = "model_decision"
  /\ UNCHANGED <<counters, proposed_decision, decision_error, normalized,
                 comparisons, observations, result>>

\* The node raises when the decision ceiling was bypassed, and its context does
\* not validate when remaining_tool_calls is negative; CeilingsHold says that
\* neither ever happens.
WithinCeilings ==
  /\ model_decision_count + 1 <= MAX_VERIFICATION_MODEL_DECISIONS
  /\ MAX_VERIFICATION_TOOL_CALLS - tool_call_count >= 0

\* Mutant: the decision is not counted.
ModelDecisionUncounted ==
  /\ Enter("model_decision")
  /\ WithinCeilings
  /\ \/ /\ decision_error' \in {"invalid", "operational"}
        /\ proposed_decision' = NoDecision
     \/ /\ decision_error' = "none"
        /\ proposed_decision' \in Proposal
  /\ pc' = "decision_guard"
  /\ UNCHANGED <<counters, input_error, normalized, comparisons, observations,
                 result>>

ModelDecision ==
  /\ Enter("model_decision")
  /\ WithinCeilings
  /\ model_decision_count' = model_decision_count + 1
  /\ \/ /\ decision_error' \in {"invalid", "operational"}
        /\ proposed_decision' = NoDecision
     \/ /\ decision_error' = "none"
        /\ proposed_decision' \in Proposal
  /\ pc' = "decision_guard"
  /\ UNCHANGED <<tool_call_count, invalid_decision_count, input_error,
                 normalized, comparisons, observations, result>>

ModelFailed ==
  /\ decision_error = "operational"
  /\ FailureUpdate("model_decision_failed", tool_call_count,
                   invalid_decision_count)
  /\ UNCHANGED <<model_decision_count, input_error, normalized, comparisons,
                 observations>>

DecisionInvalid ==
  /\ decision_error # "operational"
  /\ decision_error = "invalid" \/ proposed_decision = Malformed
  /\ RejectionUpdate("invalid_decision", tool_call_count)

\* Mutant: one normalized income is taken for enough.
CompletionAllowedEarly == normalized # {} \/ ~HasSupportedPair(evidence)

CompletionAllowed == comparisons # {} \/ ~HasSupportedPair(evidence)

CompletionAccepted ==
  /\ decision_error = "none"
  /\ proposed_decision = Complete
  /\ CompletionAllowed
  /\ result' = CompleteResult
  /\ pc' = "finalize"
  /\ UNCHANGED <<counters, private>>

CompletionPremature ==
  /\ decision_error = "none"
  /\ proposed_decision = Complete
  /\ ~CompletionAllowed
  /\ RejectionUpdate("premature_completion", tool_call_count)

ToolBudgetSpent ==
  /\ decision_error = "none"
  /\ proposed_decision \in ToolDecision
  /\ tool_call_count >= MAX_VERIFICATION_TOOL_CALLS
  /\ FailureUpdate("tool_call_limit_reached", tool_call_count,
                   invalid_decision_count)
  /\ UNCHANGED <<model_decision_count, input_error, normalized, comparisons,
                 observations>>

\* Mutant: one tool call too many.
ToolAllowedOnceMore ==
  /\ decision_error = "none"
  /\ proposed_decision \in ToolDecision
  /\ tool_call_count <= MAX_VERIFICATION_TOOL_CALLS
  /\ pc' = "execute_tool"
  /\ UNCHANGED <<counters, private, result>>

ToolAllowed ==
  /\ decision_error = "none"
  /\ proposed_decision \in ToolDecision
  /\ tool_call_count < MAX_VERIFICATION_TOOL_CALLS
  /\ pc' = "execute_tool"
  /\ UNCHANGED <<counters, private, result>>

DecisionGuard ==
  /\ Enter("decision_guard")
  /\ \/ ModelFailed
     \/ DecisionInvalid
     \/ CompletionAccepted
     \/ CompletionPremature
     \/ ToolBudgetSpent
     \/ ToolAllowed

\* The executor resolves the model's references against the private maps; a
\* comparison needs both sides normalized.
ArgumentsAuthorized(d) ==
  \/ /\ d.tool \in NormalizationTool
     /\ d.left \in Source
     /\ ToolAccepts(d.tool, evidence[d.left])
  \/ /\ d.tool = "compare_income_sources"
     /\ {d.left, d.right} \subseteq normalized

ToolRejected ==
  /\ ~ArgumentsAuthorized(proposed_decision)
  /\ RejectionUpdate("invalid_tool_arguments", tool_call_count + 1)

\* A Decimal that cannot be quantized raises out of the node.
ToolOverflows(d) == d.tool \in NormalizationTool /\ ~Quantizes(evidence[d.left])

ToolExecuted ==
  LET d == proposed_decision IN
  /\ ArgumentsAuthorized(d)
  /\ ~ToolOverflows(d)
  /\ \/ /\ d.tool \in NormalizationTool
        /\ normalized' = normalized \cup {d.left}
        /\ UNCHANGED comparisons
     \/ /\ d.tool = "compare_income_sources"
        /\ comparisons' = {ComparisonOf(evidence, d.left, d.right)}
        /\ UNCHANGED normalized
  /\ observations' = [observations EXCEPT !["tool_completed"] = @ + 1]
  /\ UNCHANGED <<model_decision_count, input_error>>
  /\ \/ /\ DecisionsSpent
        /\ FailureUpdate("tool_call_limit_reached", tool_call_count + 1,
                         invalid_decision_count)
     \/ /\ ~DecisionsSpent
        /\ proposed_decision' = NoDecision
        /\ tool_call_count' = tool_call_count + 1
        /\ pc' = "model_decision"
        /\ UNCHANGED <<invalid_decision_count, decision_error, result>>

ExecuteTool ==
  /\ Enter("execute_tool")
  /\ ToolRejected \/ ToolExecuted

ExecuteToolOverflow ==
  /\ pc = "execute_tool"
  /\ ArgumentsAuthorized(proposed_decision)
  /\ ToolOverflows(proposed_decision)
  /\ nodes' = nodes + 1
  /\ Escape("decimal_overflow")

\* The result is revalidated; without one, or with one that does not validate,
\* a failure is substituted.  A rejected request keeps no result.
Finalized ==
  IF input_error THEN NoResult
  ELSE IF result # NoResult /\ ValidResult(result) THEN result
  ELSE FailedResult("model_decision_failed", tool_call_count,
                    invalid_decision_count)

Finalize ==
  /\ Enter("finalize")
  /\ proposed_decision' = NoDecision
  /\ decision_error' = "none"
  /\ result' = Finalized
  /\ pc' = "return"
  /\ UNCHANGED <<counters, input_error, normalized, comparisons, observations>>

\* verify() returns the result or raises VerificationInputError.
Return ==
  /\ pc = "return"
  /\ outcome' = IF input_error THEN "input_error" ELSE "returned"
  /\ pc' = "done"
  /\ DropArtifacts
  /\ UNCHANGED <<evidence, nodes, counters, result>>

Terminated == pc = "done" /\ UNCHANGED vars

Next ==
  \/ ValidateRequest
  \/ ModelDecision
  \/ DecisionGuard
  \/ ExecuteTool
  \/ ExecuteToolOverflow
  \/ Finalize
  \/ Return
  \/ Terminated

\* The graph is run by the calling thread, and every model call returns or
\* raises (the adapter's HTTP client has a timeout), so a run never pauses
\* forever.
Spec == Init /\ [][Next]_vars /\ WF_vars(Next)
-----------------------------------------------------------------------------
(***************************************************************************)
(* Properties.                                                             *)
(***************************************************************************)

\* Types of the graph's state and of the private artifacts.
TypeOK ==
  /\ evidence \in [Source -> Offer]
  /\ pc \in {"validate_request", "model_decision", "decision_guard",
             "execute_tool", "finalize", "return", "done"}
  /\ nodes \in Nat
  /\ model_decision_count \in Nat
  /\ tool_call_count \in Nat
  /\ invalid_decision_count \in Nat
  /\ input_error \in BOOLEAN
  /\ proposed_decision \in Proposal \cup {NoDecision}
  /\ decision_error \in {"none", "invalid", "operational"}
  /\ normalized \subseteq Source
  /\ comparisons \subseteq Comparison
  /\ observations \in [ObservationCode -> Nat]
  /\ result \in Result
  /\ outcome \in {"running", "returned", "input_error", "decimal_overflow"}

\* The three budgets bound the graph itself: whatever the model answers, a run
\* executes at most 16 nodes (1 + 5 + 5 + 4 + 1), four under the recursion
\* limit, so LangGraph's own ceiling never cuts a legal run short.
NodeBudget ==
  /\ nodes <= 2 + 2 * MAX_VERIFICATION_MODEL_DECISIONS
              + MAX_VERIFICATION_TOOL_CALLS
  /\ nodes <= AGENT2_GRAPH_RECURSION_LIMIT

\* When the decision node runs, a decision is left and the remaining tool calls
\* it shows to the model are not negative: neither its RuntimeError nor a
\* context that does not validate can end a run.
CeilingsHold ==
  pc = "model_decision" => model_decision_count + 1 <= MAX_VERIFICATION_MODEL_DECISIONS
                        /\ tool_call_count <= MAX_VERIFICATION_TOOL_CALLS

\* The model is told of everything that was charged to it: each executed or
\* refused tool call and each rejected decision is one observation.
ObservationsExplainCounters ==
  pc # "done" =>
    /\ observations["tool_completed"] + observations["invalid_tool_arguments"]
         = tool_call_count
    /\ observations["invalid_decision"] + observations["invalid_tool_arguments"]
         + observations["premature_completion"] = invalid_decision_count

\* A domain verdict is a function of the evidence, whatever the model proposed,
\* repeated, swapped or got rejected on the way: a comparison status needs every
\* source normalized and is the exact policy's answer for the two, and a
\* supported pair is never declared insufficient.
VerdictFollowsEvidence ==
  /\ result.status \in ComparisonStatus =>
       \E l, r \in Source :
         /\ l # r
         /\ {l, r} \subseteq result.sources
         /\ Normalizable(evidence[l]) /\ Normalizable(evidence[r])
         /\ result.status = CompareIncome(evidence[l], evidence[r]).result
         /\ result.unsupported_reasons =
              IF result.status = "not_comparable"
              THEN {CompareIncome(evidence[l], evidence[r]).reason} ELSE {}
  /\ result.status = "insufficient_evidence" =>
       ~HasSupportedPair(evidence) /\ result.comparisons = {}

\* Each failure code has its cause, and a failure carries no partial value:
\* an invalid decision is reported only after the retry was spent, the limit
\* only when a budget is used up, a model failure only with retries left.
FailureHasCause ==
  result.status = "failed" =>
    /\ result.sources = {} /\ result.comparisons = {}
    /\ result.failure_code = "invalid_model_decision"
         <=> result.invalid_decision_count = MAX_INVALID_DECISIONS + 1
    /\ result.failure_code = "tool_call_limit_reached" =>
         \/ result.tool_call_count = MAX_VERIFICATION_TOOL_CALLS
         \/ model_decision_count = MAX_VERIFICATION_MODEL_DECISIONS

\* verify() raises out of the graph for one reason only: an amount whose
\* monthly value does not fit the decimal context.
OnlyOverflowEscapes ==
  /\ outcome = "decimal_overflow" =>
       \E s \in Source : Normalizable(evidence[s]) /\ ~Quantizes(evidence[s])
  /\ outcome = "returned" => result # NoResult /\ ValidResult(result)
  /\ outcome = "input_error" => result = NoResult /\ model_decision_count = 0

\* Finalization never has to invent a result: the fallback that reports
\* model_decision_failed for a missing or inconsistent result is dead code.
FinalizeKeepsResult ==
  pc = "finalize" => input_error \/ (result # NoResult /\ ValidResult(result))

\* verify() keeps the contract its caller relies on: seen from outside, a run is
\* one answer, and the answer is one the evidence and the budgets allow.
Reply == [kind |-> outcome, result |-> IF pc = "done" THEN result ELSE NoResult]
Contract ==
  INSTANCE AgentContract WITH
    Request <- [Source -> Offer], Replies <- VerificationReplies,
    request <- evidence, reply <- Reply
KeepsContract == Contract!Spec
=============================================================================
