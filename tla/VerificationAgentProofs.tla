------------------------- MODULE VerificationAgentProofs -------------------------
(***************************************************************************)
(* Agent 2's safety properties for every request, every set of facts and   *)
(* every value of the budgets.                                             *)
(***************************************************************************)
EXTENDS VerificationAgent, FiniteSetTheorems, TLAPS

Deciding == {"validate_request", "model_decision", "decision_guard", "execute_tool"}

\* Where the run stands determines how many nodes it may have executed.
NodeAccount ==
  /\ pc = "validate_request" =>
       nodes = 0 /\ model_decision_count = 0 /\ tool_call_count = 0
  /\ pc \in {"model_decision", "execute_tool", "finalize"} =>
       nodes <= 1 + 2 * model_decision_count + tool_call_count
  /\ pc = "decision_guard" => nodes <= 2 * model_decision_count + tool_call_count
  /\ nodes <= 2 + 2 * model_decision_count + tool_call_count

\* Each budget, and the room left where a node is about to spend from it.
Budgets ==
  /\ model_decision_count <= MAX_VERIFICATION_MODEL_DECISIONS
  /\ tool_call_count <= MAX_VERIFICATION_TOOL_CALLS
  /\ invalid_decision_count <= MAX_INVALID_DECISIONS + 1
  /\ pc \in Deciding => invalid_decision_count <= MAX_INVALID_DECISIONS
  /\ pc = "model_decision" => model_decision_count < MAX_VERIFICATION_MODEL_DECISIONS
  /\ pc = "execute_tool" =>
       /\ tool_call_count < MAX_VERIFICATION_TOOL_CALLS
       /\ decision_error = "none"
       /\ proposed_decision \in ToolDecision

\* The private maps hold what the tools computed from the evidence.
Evidenced(c) ==
  /\ c.left # c.right
  /\ {c.left, c.right} \subseteq normalized
  /\ c.result = CompareIncome(evidence[c.left], evidence[c.right]).result
  /\ c.reason = CompareIncome(evidence[c.left], evidence[c.right]).reason

Artifacts ==
  /\ \A s \in normalized : Normalizable(evidence[s])
  /\ \A c \in comparisons : Evidenced(c)
  /\ \A c, d \in comparisons : c = d

\* The result exists exactly from the step that decides it on.
ResultPlace ==
  /\ pc \in Deciding => result = NoResult /\ ~input_error
  /\ pc \in Deciding \cup {"finalize", "return"} => outcome = "running"
  /\ input_error => /\ pc \in {"finalize", "return"}
                    /\ result = NoResult
                    /\ model_decision_count = 0
  /\ pc \in {"finalize", "return"} /\ ~input_error =>
       result.status # "none" /\ ValidResult(result)

IInv ==
  /\ TypeOK
  /\ NodeAccount
  /\ Budgets
  /\ ObservationsExplainCounters
  /\ Artifacts
  /\ ResultPlace
  /\ VerdictFollowsEvidence
  /\ FailureHasCause
  /\ OnlyOverflowEscapes

-----------------------------------------------------------------------------
(***************************************************************************)
(* The arithmetic and comparison operators.                                *)
(***************************************************************************)

\* Comparing two facts always yields one of the three statuses, and a reason
\* that belongs to it.
LEMMA CompareIncomeType ==
  ASSUME NEW l, NEW r
  PROVE  /\ CompareIncome(l, r).result \in ComparisonStatus
         /\ CompareIncome(l, r).reason \in VerificationReason
         /\ CompareIncome(l, r).reason \in NotComparableReason
              <=> CompareIncome(l, r).result = "not_comparable"
  BY DEF CompareIncome, ComparisonReason, ResultOf, ComparisonStatus,
     VerificationReason, NotComparableReason

\* Which side the model puts first does not change the verdict of the policy.
LEMMA CompareIncomeSymmetric ==
  ASSUME NEW l, NEW r
  PROVE  CompareIncome(l, r) = CompareIncome(r, l)
  BY DEF CompareIncome, ComparisonReason

\* A complete result validates and says what the only comparison says.
LEMMA CompleteResultValid ==
  ASSUME TypeOK, Budgets, Artifacts, CompletionAllowed
  PROVE  /\ CompleteResult \in Result
         /\ CompleteResult.status \notin {"none", "failed"}
         /\ ValidResult(CompleteResult)
         /\ CompleteResult.status \in ComparisonStatus =>
              \E c \in comparisons :
                /\ comparisons = {c}
                /\ CompleteResult.status = c.result
                /\ CompleteResult.unsupported_reasons =
                     IF c.result = "not_comparable" THEN {c.reason} ELSE {}
         /\ CompleteResult.status = "insufficient_evidence" =>
              ~HasSupportedPair(evidence) /\ comparisons = {}
<1>1. CASE comparisons = {}
  BY <1>1 DEF TypeOK, Budgets, CompletionAllowed, CompleteResult, Result, ValidResult,
     VerificationStatus, ComparisonStatus, VerificationReason
<1>2. CASE comparisons # {}
  <2>1. PICK c \in comparisons : comparisons = {c}
    BY <1>2 DEF Artifacts
  <2>2. Cardinality(comparisons) = 1
    BY <2>1, FS_Singleton
  <2>3. c \in Comparison /\ c.result \in ComparisonStatus /\ c.reason \in VerificationReason
    BY <2>1 DEF TypeOK, Comparison
  <2>4. (CHOOSE d \in comparisons : TRUE) = c
    BY <2>1
  <2>5. CompleteResult.status = c.result
    BY <1>2, <2>4 DEF CompleteResult
  <2>6. CompleteResult.unsupported_reasons =
          IF c.result = "not_comparable" THEN {c.reason} ELSE {}
    BY <1>2, <2>1 DEF CompleteResult
  <2>7. CompleteResult \in Result
    BY <1>2, <2>3, <2>4, <2>5, <2>6 DEF CompleteResult, Result, TypeOK, VerificationStatus
  <2>8. ValidResult(CompleteResult)
    BY <2>2, <2>3, <2>5 DEF ValidResult, CompleteResult, Budgets, ComparisonStatus
  <2>9. QED
    BY <2>1, <2>3, <2>5, <2>6, <2>7, <2>8 DEF ComparisonStatus
<1>3. QED
  BY <1>1, <1>2

-----------------------------------------------------------------------------
(***************************************************************************)
(* Each action preserves the inductive invariant.                          *)
(***************************************************************************)

LEMMA InitInvariant == Init => IInv
<1> SUFFICES ASSUME Init PROVE IInv
  OBVIOUS
<1> USE DEF Init
<1>1. TypeOK
  BY DEF TypeOK, Result, NoResult, ObservationCode, RejectionCode
<1>2. NodeAccount /\ Budgets
  BY BudgetAssumption DEF NodeAccount, Budgets
<1>3. ObservationsExplainCounters
  BY DEF ObservationsExplainCounters, ObservationCode, RejectionCode
<1>4. Artifacts /\ ResultPlace
  BY DEF Artifacts, ResultPlace, Deciding
<1>5. VerdictFollowsEvidence /\ FailureHasCause /\ OnlyOverflowEscapes
  BY DEF VerdictFollowsEvidence, FailureHasCause, OnlyOverflowEscapes, NoResult, ComparisonStatus
<1>6. QED
  BY <1>1, <1>2, <1>3, <1>4, <1>5 DEF IInv

\* A rejection, whichever node makes it, charges one invalid decision, shows it
\* to the model and either leaves room for a retry or fails.
LEMMA RejectionPreserves ==
  ASSUME IInv, NEW code \in RejectionCode, NEW calls \in Nat,
         pc \in {"decision_guard", "execute_tool"},
         nodes' = nodes + 1, UNCHANGED <<evidence, outcome>>,
         RejectionUpdate(code, calls),
         calls = tool_call_count + (IF code = "invalid_tool_arguments" THEN 1 ELSE 0),
         calls <= MAX_VERIFICATION_TOOL_CALLS,
         nodes + 1 <= 1 + 2 * model_decision_count + calls
  PROVE  IInv'
<1> USE BudgetAssumption DEF IInv, RejectionUpdate, RetrySpent, DecisionsSpent, FailureUpdate
<1>0. /\ pc' \in {"finalize", "model_decision"}
      /\ tool_call_count' = calls
      /\ invalid_decision_count' = invalid_decision_count + 1
      /\ proposed_decision' = NoDecision /\ decision_error' = "none"
      /\ pc' = "model_decision" => result' = result
                                /\ invalid_decision_count' <= MAX_INVALID_DECISIONS
                                /\ model_decision_count < MAX_VERIFICATION_MODEL_DECISIONS
      /\ pc' = "finalize" =>
           \E f \in {"invalid_model_decision", "tool_call_limit_reached"} :
             /\ result' = FailedResult(f, calls, invalid_decision_count')
             /\ f = "invalid_model_decision" <=> invalid_decision_count' > MAX_INVALID_DECISIONS
             /\ f = "tool_call_limit_reached" =>
                  model_decision_count >= MAX_VERIFICATION_MODEL_DECISIONS
      /\ UNCHANGED <<evidence, input_error, normalized, comparisons, model_decision_count>>
      /\ observations' = [observations EXCEPT ![code] = @ + 1]
      /\ result = NoResult /\ ~input_error
      /\ invalid_decision_count <= MAX_INVALID_DECISIONS
  BY DEF ResultPlace, Deciding, TypeOK, Budgets
<1>1. TypeOK'
  BY <1>0 DEF TypeOK, Result, FailedResult, VerificationFailureCode, VerificationStatus, ObservationCode
<1>2. NodeAccount'
  BY <1>0 DEF TypeOK, NodeAccount
<1>3. Budgets'
  BY <1>0 DEF TypeOK, Budgets, Deciding
<1>4. ObservationsExplainCounters'
  BY <1>0 DEF TypeOK, ObservationsExplainCounters, ObservationCode, RejectionCode
<1>5. Artifacts'
  BY <1>0 DEF Artifacts, Evidenced
<1>6. ResultPlace'
  BY <1>0 DEF ResultPlace, Deciding, TypeOK, FailedResult, ValidResult, ComparisonStatus
<1>7. VerdictFollowsEvidence'
  BY <1>0 DEF VerdictFollowsEvidence, FailedResult, NoResult, ComparisonStatus
<1>8. FailureHasCause'
  BY <1>0 DEF FailureHasCause, FailedResult, NoResult, TypeOK, Budgets
<1>9. OnlyOverflowEscapes'
  BY <1>0 DEF OnlyOverflowEscapes, ResultPlace, Deciding
<1>10. QED
  BY <1>1, <1>2, <1>3, <1>4, <1>5, <1>6, <1>7, <1>8, <1>9

\* A failure that charges nothing but the tool call it may follow.
LEMMA FailurePreserves ==
  ASSUME IInv, NEW code \in {"model_decision_failed", "tool_call_limit_reached"},
         NEW calls \in Nat,
         pc \in {"decision_guard", "execute_tool"},
         nodes' = nodes + 1,
         UNCHANGED <<evidence, outcome, model_decision_count, input_error>>,
         FailureUpdate(code, calls, invalid_decision_count),
         TypeOK', Artifacts', ObservationsExplainCounters',
         calls <= MAX_VERIFICATION_TOOL_CALLS,
         nodes + 1 <= 1 + 2 * model_decision_count + calls,
         code = "tool_call_limit_reached" =>
           \/ calls = MAX_VERIFICATION_TOOL_CALLS
           \/ model_decision_count = MAX_VERIFICATION_MODEL_DECISIONS
  PROVE  IInv'
<1> USE BudgetAssumption DEF IInv, FailureUpdate
<1>0. invalid_decision_count <= MAX_INVALID_DECISIONS /\ ~input_error
  BY DEF Budgets, ResultPlace, Deciding
<1>1. NodeAccount' /\ Budgets'
  BY <1>0 DEF TypeOK, NodeAccount, Budgets, Deciding
<1>2. ResultPlace'
  BY <1>0 DEF ResultPlace, Deciding, TypeOK, FailedResult, ValidResult, ComparisonStatus
<1>3. VerdictFollowsEvidence'
  BY DEF VerdictFollowsEvidence, FailedResult, ComparisonStatus
<1>4. FailureHasCause'
  BY <1>0 DEF FailureHasCause, FailedResult, TypeOK
<1>5. OnlyOverflowEscapes'
  BY DEF OnlyOverflowEscapes, ResultPlace, Deciding
<1>6. QED
  BY <1>1, <1>2, <1>3, <1>4, <1>5

LEMMA ValidateRequestPreserves == IInv /\ ValidateRequest => IInv'
<1> SUFFICES ASSUME IInv, ValidateRequest PROVE IInv'
  OBVIOUS
<1> USE BudgetAssumption DEF IInv, ValidateRequest, Enter, counters
<1>1. TypeOK'
  <2>1. input_error' \in BOOLEAN
    BY Zenon
  <2>2. pc' \in {"finalize", "model_decision"}
    OBVIOUS
  <2>3. QED
    BY <2>1, <2>2 DEF TypeOK
<1>2. NodeAccount' /\ Budgets'
  BY DEF NodeAccount, Budgets, TypeOK, Deciding
<1>3. ObservationsExplainCounters' /\ Artifacts'
  BY DEF ObservationsExplainCounters, Artifacts, Evidenced
<1>4. ResultPlace'
  BY DEF ResultPlace, Deciding, NodeAccount
<1>5. VerdictFollowsEvidence' /\ FailureHasCause' /\ OnlyOverflowEscapes'
  BY DEF ResultPlace, Deciding, VerdictFollowsEvidence, FailureHasCause,
     OnlyOverflowEscapes, NoResult, ComparisonStatus
<1>6. QED
  BY <1>1, <1>2, <1>3, <1>4, <1>5

LEMMA ModelDecisionPreserves == IInv /\ ModelDecision => IInv'
<1> SUFFICES ASSUME IInv, ModelDecision PROVE IInv'
  OBVIOUS
<1> USE BudgetAssumption DEF IInv, ModelDecision, Enter, WithinCeilings
<1>1. TypeOK'
  BY DEF TypeOK
<1>2. NodeAccount' /\ Budgets'
  BY DEF NodeAccount, Budgets, TypeOK, Deciding
<1>3. ObservationsExplainCounters' /\ Artifacts'
  BY DEF ObservationsExplainCounters, Artifacts, Evidenced
<1>4. ResultPlace'
  BY DEF ResultPlace, Deciding
<1>5. VerdictFollowsEvidence' /\ FailureHasCause' /\ OnlyOverflowEscapes'
  BY DEF ResultPlace, Deciding, VerdictFollowsEvidence, FailureHasCause,
     OnlyOverflowEscapes, NoResult, ComparisonStatus
<1>6. QED
  BY <1>1, <1>2, <1>3, <1>4, <1>5

LEMMA CompletionPreserves ==
  ASSUME IInv, Enter("decision_guard"), CompletionAccepted
  PROVE  IInv'
<1> USE BudgetAssumption DEF IInv, CompletionAccepted, Enter, counters, private
<1>0. /\ CompleteResult \in Result
      /\ CompleteResult.status \notin {"none", "failed"}
      /\ ValidResult(CompleteResult)
  BY CompleteResultValid
<1>1. TypeOK'
  BY <1>0 DEF TypeOK
<1>2. NodeAccount' /\ Budgets'
  BY DEF NodeAccount, Budgets, TypeOK, Deciding
<1>3. ObservationsExplainCounters' /\ Artifacts'
  BY DEF ObservationsExplainCounters, Artifacts, Evidenced
<1>4. ResultPlace'
  BY <1>0 DEF ResultPlace, Deciding, ValidResult
<1>5. VerdictFollowsEvidence'
  <2>1. CASE CompleteResult.status \in ComparisonStatus
    <3>1. PICK c \in comparisons :
            /\ CompleteResult.status = c.result
            /\ CompleteResult.unsupported_reasons =
                 IF c.result = "not_comparable" THEN {c.reason} ELSE {}
      BY <2>1, CompleteResultValid
    <3>2. /\ c.left \in Source /\ c.right \in Source /\ c.left # c.right
          /\ {c.left, c.right} \subseteq normalized
          /\ Normalizable(evidence[c.left]) /\ Normalizable(evidence[c.right])
          /\ c.result = CompareIncome(evidence[c.left], evidence[c.right]).result
          /\ c.reason = CompareIncome(evidence[c.left], evidence[c.right]).reason
      BY <3>1 DEF Artifacts, Evidenced, TypeOK, Comparison
    <3>3. CompleteResult.sources = normalized
      BY DEF CompleteResult
    <3>4. UNCHANGED evidence /\ result' = CompleteResult
      OBVIOUS
    <3>5. QED
      BY ONLY <2>1, <3>1, <3>2, <3>3, <3>4 DEF VerdictFollowsEvidence, ComparisonStatus
  <2>2. CASE CompleteResult.status \notin ComparisonStatus
    BY <2>2, CompleteResultValid DEF VerdictFollowsEvidence, HasSupportedPair, CompleteResult
  <2>3. QED
    BY <2>1, <2>2
<1>6. FailureHasCause' /\ OnlyOverflowEscapes'
  BY <1>0 DEF FailureHasCause, OnlyOverflowEscapes, ResultPlace, Deciding
<1>7. QED
  BY <1>1, <1>2, <1>3, <1>4, <1>5, <1>6

LEMMA DecisionGuardPreserves == IInv /\ DecisionGuard => IInv'
<1> SUFFICES ASSUME IInv, DecisionGuard PROVE IInv'
  OBVIOUS
<1> USE BudgetAssumption
<1>0. /\ pc = "decision_guard" /\ nodes' = nodes + 1
      /\ UNCHANGED <<evidence, outcome>>
      /\ tool_call_count \in Nat
      /\ tool_call_count <= MAX_VERIFICATION_TOOL_CALLS
      /\ nodes + 1 <= 1 + 2 * model_decision_count + tool_call_count
  BY DEF DecisionGuard, Enter, IInv, TypeOK, NodeAccount, Budgets
<1>1. ASSUME NEW code \in RejectionCode, code # "invalid_tool_arguments",
             RejectionUpdate(code, tool_call_count)
      PROVE  IInv'
  BY <1>0, <1>1, RejectionPreserves DEF IInv, TypeOK
<1>2. ASSUME NEW code \in {"model_decision_failed", "tool_call_limit_reached"},
             FailureUpdate(code, tool_call_count, invalid_decision_count),
             UNCHANGED <<model_decision_count, input_error, normalized,
                         comparisons, observations>>,
             code = "tool_call_limit_reached" =>
               tool_call_count = MAX_VERIFICATION_TOOL_CALLS
      PROVE  IInv'
  <2>1. TypeOK'
    BY <1>0, <1>2 DEF IInv, TypeOK, FailureUpdate, Result, FailedResult,
       VerificationFailureCode, VerificationStatus
  <2>2. Artifacts' /\ ObservationsExplainCounters'
    BY <1>0, <1>2 DEF IInv, Artifacts, Evidenced, ObservationsExplainCounters, FailureUpdate
  <2>3. QED
    BY <1>0, <1>2, <2>1, <2>2, FailurePreserves
<1>3. CASE ModelFailed
  BY <1>2, <1>3 DEF ModelFailed
<1>4. CASE DecisionInvalid
  BY <1>1, <1>4 DEF DecisionInvalid, RejectionCode
<1>5. CASE CompletionAccepted
  BY <1>5, CompletionPreserves DEF DecisionGuard
<1>6. CASE CompletionPremature
  BY <1>1, <1>6 DEF CompletionPremature, RejectionCode
<1>7. CASE ToolBudgetSpent
  BY <1>0, <1>2, <1>7 DEF ToolBudgetSpent
<1>8. CASE ToolAllowed
  <2> USE <1>0, <1>8 DEF IInv, ToolAllowed, counters, private
  <2>1. TypeOK' /\ NodeAccount' /\ Budgets'
    BY DEF TypeOK, NodeAccount, Budgets, Deciding
  <2>2. ObservationsExplainCounters' /\ Artifacts'
    BY DEF ObservationsExplainCounters, Artifacts, Evidenced
  <2>3. ResultPlace'
    BY DEF ResultPlace, Deciding
  <2>4. VerdictFollowsEvidence' /\ FailureHasCause' /\ OnlyOverflowEscapes'
    BY DEF ResultPlace, Deciding, VerdictFollowsEvidence, FailureHasCause,
       OnlyOverflowEscapes, NoResult, ComparisonStatus
  <2>5. QED
    BY <2>1, <2>2, <2>3, <2>4
<1>9. QED
  BY <1>3, <1>4, <1>5, <1>6, <1>7, <1>8 DEF DecisionGuard

\* An authorized tool leaves only facts that follow from the evidence.
LEMMA ToolExecutedArtifacts ==
  ASSUME IInv, pc = "execute_tool", ToolExecuted, UNCHANGED evidence
  PROVE  Artifacts' /\ normalized' \subseteq Source /\ comparisons' \subseteq Comparison
<1> DEFINE d == proposed_decision
<1> USE DEF IInv
<1>0. d \in ToolDecision /\ ArgumentsAuthorized(d) /\ UnknownRef \notin Source
  BY RequestAssumption DEF Budgets, ToolExecuted, DecisionsSpent
<1>1. CASE d.tool \in NormalizationTool /\ normalized' = normalized \cup {d.left}
           /\ UNCHANGED comparisons
  <2>1. d.left \in Source /\ Normalizable(evidence[d.left])
    BY <1>0, <1>1 DEF ArgumentsAuthorized, NormalizationTool, ToolAccepts, Normalizable
  <2>2. QED
    BY <1>1, <2>1 DEF Artifacts, Evidenced, TypeOK
<1>2. CASE d.tool = "compare_income_sources" /\ UNCHANGED normalized
           /\ comparisons' = {ComparisonOf(evidence, d.left, d.right)}
  <2>1. d.left # d.right /\ {d.left, d.right} \subseteq normalized
    BY <1>0, <1>2 DEF ToolDecision, ArgumentsAuthorized, NormalizationTool
  <2>2. normalized \subseteq Source
    BY DEF TypeOK
  <2>3. comparisons' \subseteq Comparison
    BY <1>2, <2>1, <2>2, CompareIncomeType DEF Comparison, ComparisonOf
  <2>4. QED
    BY <1>2, <2>1, <2>2, <2>3 DEF Artifacts, Evidenced, ComparisonOf
<1>3. QED
  BY <1>1, <1>2 DEF ToolExecuted, DecisionsSpent

LEMMA ExecuteToolPreserves == IInv /\ ExecuteTool => IInv'
<1> SUFFICES ASSUME IInv, ExecuteTool PROVE IInv'
  OBVIOUS
<1> USE BudgetAssumption
<1>0. /\ pc = "execute_tool" /\ nodes' = nodes + 1
      /\ UNCHANGED <<evidence, outcome>>
      /\ tool_call_count + 1 \in Nat
      /\ tool_call_count + 1 <= MAX_VERIFICATION_TOOL_CALLS
      /\ nodes + 1 <= 1 + 2 * model_decision_count + (tool_call_count + 1)
  BY DEF ExecuteTool, Enter, IInv, TypeOK, NodeAccount, Budgets
<1>1. CASE ToolRejected
  BY <1>0, <1>1, RejectionPreserves DEF ToolRejected, RejectionCode
<1>2. CASE ToolExecuted
  <2>1. /\ Artifacts' /\ normalized' \subseteq Source /\ comparisons' \subseteq Comparison
        /\ UNCHANGED <<model_decision_count, input_error, invalid_decision_count>>
        /\ tool_call_count' = tool_call_count + 1
        /\ observations' = [observations EXCEPT !["tool_completed"] = @ + 1]
    BY <1>0, <1>2, ToolExecutedArtifacts DEF ToolExecuted, DecisionsSpent, FailureUpdate
  <2>2. ObservationsExplainCounters'
    BY <1>0, <2>1 DEF IInv, ObservationsExplainCounters, TypeOK, ObservationCode, RejectionCode
  <2>3. CASE FailureUpdate("tool_call_limit_reached", tool_call_count + 1,
                           invalid_decision_count)
             /\ model_decision_count >= MAX_VERIFICATION_MODEL_DECISIONS
    <3>1. TypeOK'
      BY <1>0, <2>1, <2>3 DEF IInv, TypeOK, FailureUpdate, Result, FailedResult,
         VerificationFailureCode, VerificationStatus, ObservationCode
    <3>2. model_decision_count = MAX_VERIFICATION_MODEL_DECISIONS
      BY <2>3 DEF IInv, Budgets, TypeOK
    <3>3. QED
      BY <1>0, <2>1, <2>2, <2>3, <3>1, <3>2, FailurePreserves
  <2>4. CASE /\ ~DecisionsSpent
             /\ proposed_decision' = NoDecision
             /\ pc' = "model_decision"
             /\ UNCHANGED <<decision_error, result>>
    <3> USE <1>0, <2>1, <2>4 DEF IInv
    <3>1. TypeOK' /\ NodeAccount' /\ Budgets'
      BY BudgetAssumption DEF DecisionsSpent, TypeOK, NodeAccount, Budgets, Deciding, ObservationCode
    <3>2. ResultPlace'
      BY DEF ResultPlace, Deciding
    <3>3. VerdictFollowsEvidence' /\ FailureHasCause' /\ OnlyOverflowEscapes'
      BY DEF ResultPlace, Deciding, VerdictFollowsEvidence, FailureHasCause,
         OnlyOverflowEscapes, NoResult, ComparisonStatus
    <3>4. QED
      BY <2>2, <3>1, <3>2, <3>3
  <2>5. QED
    BY <1>2, <2>3, <2>4 DEF ToolExecuted, DecisionsSpent
<1>3. QED
  BY <1>1, <1>2 DEF ExecuteTool

LEMMA OverflowPreserves == IInv /\ ExecuteToolOverflow => IInv'
<1> SUFFICES ASSUME IInv, ExecuteToolOverflow PROVE IInv'
  OBVIOUS
<1> USE BudgetAssumption
        DEF IInv, ExecuteToolOverflow, Escape, DropArtifacts, counters
<1>1. TypeOK'
  <2>1. NoResult \in Result
    BY DEF Result, NoResult
  <2>2. [c \in ObservationCode |-> 0] \in [ObservationCode -> Nat]
    OBVIOUS
  <2>3. /\ UNCHANGED <<evidence, model_decision_count, tool_call_count,
                       invalid_decision_count>>
        /\ nodes' = nodes + 1 /\ pc' = "done" /\ result' = NoResult
        /\ outcome' = "decimal_overflow"
        /\ proposed_decision' = NoDecision /\ decision_error' = "none"
        /\ normalized' = {} /\ comparisons' = {}
        /\ observations' = [c \in ObservationCode |-> 0]
    OBVIOUS
  <2>4. input_error' \in BOOLEAN
    BY Zenon
  <2>5. TypeOK
    OBVIOUS
  <2>6. QED
    BY ONLY <2>1, <2>2, <2>3, <2>4, <2>5 DEF TypeOK
<1>2. NodeAccount' /\ Budgets'
  BY DEF NodeAccount, Budgets, TypeOK, Deciding
<1>3. ObservationsExplainCounters' /\ Artifacts' /\ ResultPlace'
  BY DEF ObservationsExplainCounters, Artifacts, ResultPlace, Deciding
<1>4. VerdictFollowsEvidence' /\ FailureHasCause'
  BY DEF VerdictFollowsEvidence, FailureHasCause, NoResult, ComparisonStatus
<1>5. OnlyOverflowEscapes'
  <2>1. /\ proposed_decision.left \in Source
        /\ Normalizable(evidence[proposed_decision.left])
        /\ ~Quantizes(evidence[proposed_decision.left])
    BY DEF ToolOverflows, ArgumentsAuthorized, NormalizationTool, ToolAccepts, Normalizable
  <2>2. outcome' = "decimal_overflow" /\ UNCHANGED evidence
    OBVIOUS
  <2>3. QED
    BY ONLY <2>1, <2>2 DEF OnlyOverflowEscapes
<1>6. QED
  BY <1>1, <1>2, <1>3, <1>4, <1>5

\* Finalization keeps the result it finds: it exists and validates.
LEMMA FinalizePreserves == IInv /\ Finalize => IInv'
<1> SUFFICES ASSUME IInv, Finalize PROVE IInv'
  OBVIOUS
<1> USE BudgetAssumption DEF IInv, Finalize, Enter, counters
<1>0. result' = result
  BY DEF Finalized, ResultPlace, NoResult
<1>1. TypeOK'
  BY <1>0 DEF TypeOK
<1>2. NodeAccount' /\ Budgets'
  BY DEF NodeAccount, Budgets, TypeOK, Deciding
<1>3. ObservationsExplainCounters' /\ Artifacts'
  BY DEF ObservationsExplainCounters, Artifacts, Evidenced
<1>4. ResultPlace'
  BY <1>0 DEF ResultPlace, Deciding, ValidResult
<1>5. VerdictFollowsEvidence'
  <2>1. VerdictFollowsEvidence /\ UNCHANGED <<evidence, result>>
    BY <1>0
  <2>2. QED
    BY ONLY <2>1 DEF VerdictFollowsEvidence, HasSupportedPair
<1>6. FailureHasCause' /\ OnlyOverflowEscapes'
  BY <1>0 DEF FailureHasCause, OnlyOverflowEscapes, ResultPlace, Deciding
<1>7. QED
  BY <1>1, <1>2, <1>3, <1>4, <1>5, <1>6

LEMMA ReturnPreserves == IInv /\ Return => IInv'
<1> SUFFICES ASSUME IInv, Return PROVE IInv'
  OBVIOUS
<1> USE BudgetAssumption DEF IInv, Return, DropArtifacts, counters
<1>1. TypeOK'
  BY DEF TypeOK, ObservationCode, RejectionCode
<1>2. NodeAccount' /\ Budgets'
  BY DEF NodeAccount, Budgets, TypeOK, Deciding
<1>3. ObservationsExplainCounters' /\ Artifacts' /\ ResultPlace'
  BY DEF ObservationsExplainCounters, Artifacts, ResultPlace, Deciding
<1>4. VerdictFollowsEvidence' /\ FailureHasCause'
  BY DEF VerdictFollowsEvidence, FailureHasCause, HasSupportedPair
<1>5. OnlyOverflowEscapes'
  BY DEF OnlyOverflowEscapes, ResultPlace, ValidResult, NoResult
<1>6. QED
  BY <1>1, <1>2, <1>3, <1>4, <1>5

LEMMA StutterPreserves == IInv /\ UNCHANGED vars => IInv'
<1> SUFFICES ASSUME IInv, UNCHANGED vars PROVE IInv'
  OBVIOUS
<1> USE DEF IInv, vars, counters, private
<1>1. TypeOK' /\ NodeAccount' /\ Budgets'
  BY DEF TypeOK, NodeAccount, Budgets
<1>2. ObservationsExplainCounters' /\ Artifacts' /\ ResultPlace'
  BY DEF ObservationsExplainCounters, Artifacts, Evidenced, ResultPlace, ValidResult
<1>3. VerdictFollowsEvidence' /\ FailureHasCause' /\ OnlyOverflowEscapes'
  BY DEF VerdictFollowsEvidence, FailureHasCause, OnlyOverflowEscapes,
     HasSupportedPair, ValidResult
<1>4. QED
  BY <1>1, <1>2, <1>3

LEMMA StepInvariant == IInv /\ [Next]_vars => IInv'
  BY ValidateRequestPreserves, ModelDecisionPreserves, DecisionGuardPreserves,
     ExecuteToolPreserves, OverflowPreserves, FinalizePreserves, ReturnPreserves,
     StutterPreserves DEF Next, Terminated

-----------------------------------------------------------------------------
(***************************************************************************)
(* Theorems.                                                               *)
(***************************************************************************)

\* The inductive invariant holds of every run, for every request and budget.
THEOREM Invariance == Spec => []IInv
  BY InitInvariant, StepInvariant, PTL DEF Spec

\* Agent 2's state and private artifacts keep their types.
THEOREM TypeCorrectness == Spec => []TypeOK
  BY Invariance, PTL DEF IInv

\* Whatever the budgets are, they bound the graph: at most 2 + 2D + T nodes run
\* (16 for the source's D = 5 and T = 4), so the recursion limit is never hit,
\* and neither ceiling of the decision node is ever found bypassed.
THEOREM BudgetsBoundTheGraph == Spec => [](NodeBudget /\ CeilingsHold)
<1>1. IInv => NodeBudget /\ CeilingsHold
  BY BudgetAssumption, GraphAssumption DEF IInv, TypeOK, NodeAccount, Budgets, NodeBudget, CeilingsHold
<1>2. QED
  BY <1>1, Invariance, PTL

\* The model's proposals cannot change a verdict: a domain status is the exact
\* policy's answer for two normalizable sources of the request.
THEOREM VerdictIsEvidence == Spec => []VerdictFollowsEvidence
  BY Invariance, PTL DEF IInv

\* The counters returned with a result are what the model was shown.
THEOREM CountersAreObserved == Spec => []ObservationsExplainCounters
  BY Invariance, PTL DEF IInv

\* A failure names the budget or the model error that caused it and carries no
\* partial value.
THEOREM FailuresAreExplained == Spec => []FailureHasCause
  BY Invariance, PTL DEF IInv

\* The fallback of the finalize node is dead code, and only an amount beyond
\* the decimal context raises out of verify().
THEOREM ResultsAreDecided == Spec => [](FinalizeKeepsResult /\ OnlyOverflowEscapes)
<1>1. IInv => FinalizeKeepsResult /\ OnlyOverflowEscapes
  BY DEF IInv, ResultPlace, FinalizeKeepsResult, NoResult
<1>2. QED
  BY <1>1, Invariance, PTL

-----------------------------------------------------------------------------
(***************************************************************************)
(* Agent 2 implements AgentContract: every step of the five-node graph is  *)
(* a stutter of the contract, or its one answer.                           *)
(***************************************************************************)

\* Every normalization and the comparison were paid for with a tool call.
Priced ==
  /\ IsFiniteSet(normalized)
  /\ pc # "done" =>
       Cardinality(normalized) + (IF comparisons = {} THEN 0 ELSE 1) <= tool_call_count

\* Every decision so far was charged as a tool call, a rejection or both.
Charged ==
  /\ pc \in {"validate_request", "model_decision"} =>
       model_decision_count <= tool_call_count + invalid_decision_count
  /\ pc \in {"decision_guard", "execute_tool"} =>
       model_decision_count <= tool_call_count + invalid_decision_count + 1

\* The artifacts are those of the contract.
Exact ==
  /\ normalized \subseteq Usable(evidence)
  /\ \A c \in comparisons : c = ComparisonOf(evidence, c.left, c.right)

Promised(r) ==
  r \in Verdicts(evidence) \cup Insufficiencies(evidence)
          \cup Failures

Answered == pc \in {"finalize", "return"} /\ ~input_error => Promised(result)

CInv == IInv /\ Priced /\ Charged /\ Exact /\ Answered

-----------------------------------------------------------------------------
(***************************************************************************)
(* What the two kinds of result are, in the contract's terms.              *)
(***************************************************************************)

\* An accepted completion is a verdict, or an insufficiency, of the contract.
LEMMA CompletionPromised ==
  ASSUME IInv, Priced, Exact, pc = "decision_guard", CompletionAllowed
  PROVE  Promised(CompleteResult)
<1> USE BudgetAssumption
<1> DEFINE calls == tool_call_count
           invalid == invalid_decision_count
<1>0. /\ normalized \in SUBSET Usable(evidence)
      /\ calls \in Nat /\ calls <= MAX_VERIFICATION_TOOL_CALLS
      /\ invalid \in 0 .. MAX_INVALID_DECISIONS
      /\ Cardinality(normalized) \in Nat
  BY FS_CardinalityType DEF Exact, IInv, TypeOK, Budgets, Deciding, Priced
<1>1. CASE comparisons = {}
  <2>1. /\ calls \in Cardinality(normalized) .. MAX_VERIFICATION_TOOL_CALLS
        /\ ~HasSupportedPair(evidence)
    BY <1>0, <1>1 DEF Priced, CompletionAllowed
  <2>2. CompleteResult = InsufficientEvidence(normalized, calls, invalid)
    BY <1>1 DEF CompleteResult, InsufficientEvidence
  <2>3. CompleteResult \in Insufficiencies(evidence)
    BY <1>0, <2>1, <2>2 DEF Insufficiencies
  <2>4. QED
    BY <2>3 DEF Promised
<1>2. CASE comparisons # {}
  <2>1. PICK c \in comparisons : comparisons = {c}
    BY <1>2 DEF IInv, Artifacts
  <2> DEFINE pair == <<c.left, c.right>>
  <2>2. /\ c = ComparisonOf(evidence, pair[1], pair[2])
        /\ pair \in {p \in normalized \X normalized : p[1] # p[2]}
    BY <2>1 DEF Exact, IInv, Artifacts, Evidenced
  <2>3. calls \in (Cardinality(normalized) + 1) .. MAX_VERIFICATION_TOOL_CALLS
    BY <1>0, <1>2 DEF Priced
  <2>4. CompleteResult = Verdict(evidence, normalized, pair, calls, invalid)
    <3>1. (CHOOSE d \in comparisons : TRUE) = c
      BY <2>1
    <3>2. {d.reason : d \in {e \in comparisons : e.result = "not_comparable"}} =
            IF c.result = "not_comparable" THEN {c.reason} ELSE {}
      BY <2>1
    <3>3. QED
      BY <1>2, <2>1, <2>2, <3>1, <3>2 DEF CompleteResult, Verdict
  <2>5. CompleteResult \in Verdicts(evidence)
    BY <1>0, <2>2, <2>3, <2>4 DEF Verdicts
  <2>6. QED
    BY <2>5 DEF Promised
<1>3. QED
  BY <1>1, <1>2

\* So is a failure, when its code has its cause.
LEMMA FailurePromised ==
  ASSUME NEW code \in VerificationFailureCode,
         NEW calls \in 0 .. MAX_VERIFICATION_TOOL_CALLS,
         NEW invalid \in 0 .. (MAX_INVALID_DECISIONS + 1),
         code = "invalid_model_decision" <=> invalid = MAX_INVALID_DECISIONS + 1,
         code = "tool_call_limit_reached" =>
           \/ calls = MAX_VERIFICATION_TOOL_CALLS
           \/ calls + invalid >= MAX_VERIFICATION_MODEL_DECISIONS
  PROVE  Promised(FailedResult(code, calls, invalid))
<1> USE BudgetAssumption
<1>0. code # "invalid_model_decision" => invalid \in 0 .. MAX_INVALID_DECISIONS
  OBVIOUS
<1>1. FailedResult(code, calls, invalid) \in Failures
  <2>1. CASE code = "model_decision_failed"
    BY <1>0, <2>1 DEF Failures
  <2>2. CASE code = "invalid_model_decision"
    BY <2>2 DEF Failures
  <2>3. CASE code = "tool_call_limit_reached"
    <3> DEFINE spent == <<calls, invalid>>
    <3>1. spent \in {s \in (0 .. MAX_VERIFICATION_TOOL_CALLS) \X (0 .. MAX_INVALID_DECISIONS) :
                      \/ s[1] = MAX_VERIFICATION_TOOL_CALLS
                      \/ s[1] + s[2] >= MAX_VERIFICATION_MODEL_DECISIONS}
      BY <1>0, <2>3
    <3>2. FailedResult(code, calls, invalid) =
            FailedResult("tool_call_limit_reached", spent[1], spent[2])
      BY <2>3
    <3>3. QED
      BY <3>1, <3>2 DEF Failures
  <2>4. QED
    BY <2>1, <2>2, <2>3 DEF VerificationFailureCode
<1>2. QED
  BY <1>1 DEF Promised

-----------------------------------------------------------------------------
(***************************************************************************)
(* Each action preserves CInv; IInv' comes from the safety proof.          *)
(***************************************************************************)

LEMMA InitContract == Init => CInv
<1> SUFFICES ASSUME Init PROVE CInv
  OBVIOUS
<1>1. IInv
  BY InitInvariant
<1>2. Priced
  BY FS_EmptySet DEF Init, Priced
<1>3. Charged /\ Exact /\ Answered
  BY DEF Init, Charged, Exact, Answered
<1>4. QED
  BY <1>1, <1>2, <1>3 DEF CInv

\* A terminal failure is an answer of the contract.
LEMMA FailureAnswers ==
  ASSUME CInv, IInv', Priced', Exact', UNCHANGED <<evidence, input_error>>,
         NEW code \in VerificationFailureCode,
         FailureUpdate(code, tool_call_count', invalid_decision_count'),
         code = "invalid_model_decision" <=>
           invalid_decision_count' = MAX_INVALID_DECISIONS + 1,
         code = "tool_call_limit_reached" =>
           \/ tool_call_count' = MAX_VERIFICATION_TOOL_CALLS
           \/ tool_call_count' + invalid_decision_count'
                >= MAX_VERIFICATION_MODEL_DECISIONS
  PROVE  CInv'
<1>1. /\ tool_call_count' \in 0 .. MAX_VERIFICATION_TOOL_CALLS
      /\ invalid_decision_count' \in 0 .. (MAX_INVALID_DECISIONS + 1)
  BY BudgetAssumption DEF IInv, TypeOK, Budgets
<1>2. Promised(FailedResult(code, tool_call_count', invalid_decision_count'))
  BY <1>1, FailurePromised
<1>3. pc' = "finalize"
      /\ result' = FailedResult(code, tool_call_count', invalid_decision_count')
  BY DEF FailureUpdate
<1>4. Answered'
  BY <1>2, <1>3 DEF Answered, Promised
<1>5. Charged'
  BY <1>3 DEF Charged
<1>6. QED
  BY <1>4, <1>5 DEF CInv

LEMMA RejectionContract ==
  ASSUME CInv, IInv', NEW code \in RejectionCode, NEW calls \in Nat,
         pc \in {"decision_guard", "execute_tool"},
         UNCHANGED evidence,
         RejectionUpdate(code, calls),
         calls >= tool_call_count
  PROVE  CInv'
<1> DEFINE invalid == invalid_decision_count + 1
<1>0. /\ invalid_decision_count \in Nat /\ tool_call_count \in Nat
      /\ model_decision_count \in Nat
      /\ invalid_decision_count <= MAX_INVALID_DECISIONS
      /\ model_decision_count <= tool_call_count + invalid_decision_count + 1
      /\ MAX_INVALID_DECISIONS \in Nat
      /\ MAX_VERIFICATION_MODEL_DECISIONS \in Nat
  BY BudgetAssumption DEF CInv, IInv, TypeOK, Budgets, Deciding, Charged
<1>1. /\ UNCHANGED <<input_error, normalized, comparisons, model_decision_count>>
      /\ tool_call_count' = calls /\ invalid_decision_count' = invalid
  BY DEF RejectionUpdate, RetrySpent, DecisionsSpent, FailureUpdate
<1>2. Exact'
  BY <1>1 DEF CInv, Exact
<1>3. Priced'
  <2>1. pc # "done" /\ Cardinality(normalized) \in Nat
    BY FS_CardinalityType DEF CInv, Priced
  <2>2. QED
    BY <1>0, <1>1, <2>1 DEF CInv, Priced
<1>4. CASE FailureUpdate("invalid_model_decision", calls, invalid)
           /\ RetrySpent(invalid)
  BY <1>0, <1>1, <1>2, <1>3, <1>4, FailureAnswers DEF RetrySpent, VerificationFailureCode
<1>5. CASE FailureUpdate("tool_call_limit_reached", calls, invalid)
           /\ ~RetrySpent(invalid) /\ DecisionsSpent
  BY <1>0, <1>1, <1>2, <1>3, <1>5, FailureAnswers DEF RetrySpent, DecisionsSpent, VerificationFailureCode
<1>6. CASE pc' = "model_decision"
  <2>1. Charged' /\ Answered'
    BY <1>0, <1>1, <1>6 DEF Charged, Answered
  <2>2. QED
    BY <1>2, <1>3, <2>1 DEF CInv
<1>7. QED
  BY <1>4, <1>5, <1>6 DEF RejectionUpdate, RetrySpent, DecisionsSpent

LEMMA GuardContract == CInv /\ IInv' /\ DecisionGuard => CInv'
<1> SUFFICES ASSUME CInv, IInv', DecisionGuard PROVE CInv'
  OBVIOUS
<1>0. /\ pc = "decision_guard" /\ UNCHANGED evidence
      /\ tool_call_count \in Nat /\ invalid_decision_count \in Nat
      /\ tool_call_count <= MAX_VERIFICATION_TOOL_CALLS
      /\ MAX_VERIFICATION_TOOL_CALLS \in Nat /\ MAX_INVALID_DECISIONS \in Nat
      /\ invalid_decision_count <= MAX_INVALID_DECISIONS
  BY BudgetAssumption DEF DecisionGuard, Enter, CInv, IInv, TypeOK, Budgets, Deciding
<1>1. ASSUME NEW code \in RejectionCode, RejectionUpdate(code, tool_call_count)
      PROVE  CInv'
  BY <1>0, <1>1, RejectionContract
<1>2. ASSUME NEW code \in {"model_decision_failed", "tool_call_limit_reached"},
             FailureUpdate(code, tool_call_count, invalid_decision_count),
             UNCHANGED <<model_decision_count, input_error, normalized,
                         comparisons, observations>>,
             code = "tool_call_limit_reached" =>
               tool_call_count >= MAX_VERIFICATION_TOOL_CALLS
      PROVE  CInv'
  <2>1. tool_call_count' = tool_call_count
        /\ invalid_decision_count' = invalid_decision_count
    BY <1>2 DEF FailureUpdate
  <2>2. Priced' /\ Exact'
    BY <1>0, <1>2, <2>1 DEF CInv, Priced, Exact
  <2>3. QED
    BY <1>0, <1>2, <2>1, <2>2, FailureAnswers DEF VerificationFailureCode
<1>3. CASE ModelFailed
  BY <1>2, <1>3 DEF ModelFailed
<1>4. CASE DecisionInvalid
  BY <1>1, <1>4 DEF DecisionInvalid, RejectionCode
<1>5. CASE CompletionAccepted
  <2>1. Promised(CompleteResult)
    BY <1>0, <1>5, CompletionPromised DEF CInv, CompletionAccepted
  <2>2. /\ UNCHANGED <<counters, private>> /\ pc' = "finalize"
        /\ result' = CompleteResult
    BY <1>5 DEF CompletionAccepted
  <2>3. Answered'
    BY <1>0, <2>1, <2>2 DEF Answered, Promised
  <2>4. Priced' /\ Exact' /\ Charged'
    BY <1>0, <2>2 DEF CInv, Priced, Exact, Charged, counters, private
  <2>5. QED
    BY <2>3, <2>4 DEF CInv
<1>6. CASE CompletionPremature
  BY <1>1, <1>6 DEF CompletionPremature, RejectionCode
<1>7. CASE ToolBudgetSpent
  BY <1>0, <1>2, <1>7 DEF ToolBudgetSpent
<1>8. CASE ToolAllowed
  <2>1. Priced' /\ Exact' /\ Charged' /\ Answered'
    BY <1>0, <1>8 DEF ToolAllowed, CInv, Priced, Exact, Charged, Answered,
       counters, private
  <2>2. QED
    BY <2>1 DEF CInv
<1>9. QED
  BY <1>3, <1>4, <1>5, <1>6, <1>7, <1>8 DEF DecisionGuard

\* An executed tool call pays for what it adds.
LEMMA ToolContract ==
  ASSUME CInv, IInv', pc = "execute_tool", UNCHANGED evidence, ToolExecuted
  PROVE  CInv'
<1> DEFINE d == proposed_decision
<1>0. /\ d \in ToolDecision /\ ArgumentsAuthorized(d) /\ ~ToolOverflows(d)
      /\ tool_call_count \in Nat /\ model_decision_count \in Nat
      /\ invalid_decision_count \in Nat
      /\ invalid_decision_count <= MAX_INVALID_DECISIONS
      /\ MAX_INVALID_DECISIONS \in Nat /\ MAX_VERIFICATION_MODEL_DECISIONS \in Nat
      /\ Cardinality(normalized) \in Nat
      /\ model_decision_count <= tool_call_count + invalid_decision_count + 1
  BY BudgetAssumption, FS_CardinalityType
     DEF CInv, IInv, TypeOK, Budgets, Deciding, Charged, Priced, ToolExecuted, DecisionsSpent
<1>1. /\ UNCHANGED <<model_decision_count, input_error, invalid_decision_count>>
      /\ tool_call_count' = tool_call_count + 1
      /\ pc' \in {"finalize", "model_decision"}
  BY DEF ToolExecuted, DecisionsSpent, FailureUpdate
<1>2. Priced' /\ Exact'
  <2>1. CASE d.tool \in NormalizationTool /\ normalized' = normalized \cup {d.left}
             /\ UNCHANGED comparisons
    <3>1. d.left \in Usable(evidence)
      BY <1>0, <2>1 DEF ArgumentsAuthorized, ToolOverflows, NormalizationTool,
         ToolAccepts, Normalizable, Usable
    <3>2. IsFiniteSet(normalized')
          /\ Cardinality(normalized') \in Nat
          /\ Cardinality(normalized') <= Cardinality(normalized) + 1
      <4>1. IsFiniteSet(normalized) /\ normalized' = normalized \cup {d.left}
        BY <2>1 DEF CInv, Priced
      <4>2. Cardinality(normalized) \in Nat
        BY <1>0
      <4>3. QED
        BY ONLY <4>1, <4>2, FS_AddElement
    <3>3. QED
      BY <1>0, <1>1, <2>1, <3>1, <3>2 DEF CInv, Priced, Exact
  <2>2. CASE UNCHANGED normalized
             /\ comparisons' = {ComparisonOf(evidence, d.left, d.right)}
    BY <1>0, <1>1, <2>2 DEF CInv, Priced, Exact, ComparisonOf
  <2>3. QED
    BY <2>1, <2>2 DEF ToolExecuted, DecisionsSpent
<1>3. CASE FailureUpdate("tool_call_limit_reached", tool_call_count + 1,
                         invalid_decision_count)
           /\ model_decision_count >= MAX_VERIFICATION_MODEL_DECISIONS
  BY <1>0, <1>1, <1>2, <1>3, FailureAnswers DEF VerificationFailureCode
<1>4. CASE pc' = "model_decision"
  BY <1>0, <1>1, <1>2, <1>4 DEF CInv, Charged, Answered
<1>5. QED
  BY <1>3, <1>4 DEF ToolExecuted, DecisionsSpent

LEMMA StepContract == CInv /\ IInv' /\ [Next]_vars => CInv'
<1> SUFFICES ASSUME CInv, IInv', [Next]_vars PROVE CInv'
  OBVIOUS
<1>0. /\ tool_call_count \in Nat /\ model_decision_count \in Nat
      /\ invalid_decision_count \in Nat
  BY DEF CInv, IInv, TypeOK
<1>1. CASE ValidateRequest
  BY <1>1 DEF CInv, ValidateRequest, Enter, counters, Priced, Charged, Exact, Answered
<1>2. CASE ModelDecision
  BY <1>0, <1>2 DEF CInv, ModelDecision, Enter, Priced, Charged, Exact, Answered
<1>3. CASE DecisionGuard
  BY <1>3, GuardContract
<1>4. CASE ExecuteTool
  <2>1. pc = "execute_tool" /\ UNCHANGED evidence
    BY <1>4 DEF ExecuteTool, Enter
  <2>2. CASE ToolRejected
    BY <1>0, <2>1, <2>2, RejectionContract DEF ToolRejected, RejectionCode
  <2>3. CASE ToolExecuted
    BY <2>1, <2>3, ToolContract
  <2>4. QED
    BY <1>4, <2>2, <2>3 DEF ExecuteTool
<1>5. CASE ExecuteToolOverflow \/ Return
  <2>1. pc' = "done" /\ normalized' = {} /\ comparisons' = {}
    BY <1>5 DEF ExecuteToolOverflow, Escape, Return, DropArtifacts
  <2>2. QED
    BY <2>1, FS_EmptySet DEF CInv, Priced, Charged, Exact, Answered
<1>6. CASE Finalize
  <2>1. /\ pc = "finalize" /\ pc' = "return"
        /\ UNCHANGED <<evidence, counters, input_error, normalized, comparisons>>
    BY <1>6 DEF Finalize, Enter
  <2>2. result' = result
    BY <1>6, <2>1 DEF Finalize, Finalized, CInv, IInv, ResultPlace, NoResult
  <2>3. QED
    BY <2>1, <2>2 DEF CInv, Priced, Charged, Exact, Answered, Promised, counters
<1>7. CASE UNCHANGED vars
  BY <1>7 DEF CInv, Priced, Charged, Exact, Answered, Promised, vars, counters, private
<1>8. QED
  BY <1>1, <1>2, <1>3, <1>4, <1>5, <1>6, <1>7 DEF Next, Terminated

-----------------------------------------------------------------------------
(***************************************************************************)
(* The refinement.                                                         *)
(***************************************************************************)

\* A step changes what the caller sees only by answering.
LEMMA StepRefines == CInv /\ [Next]_vars => [Contract!Answer]_(Contract!vars)
<1> SUFFICES ASSUME CInv, [Next]_vars
             PROVE  Contract!Answer \/ UNCHANGED <<evidence, Reply>>
  BY DEF Contract!vars
<1>1. UNCHANGED evidence
  BY DEF Next, vars, ValidateRequest, ModelDecision, DecisionGuard, ExecuteTool,
     ExecuteToolOverflow, Finalize, Return, Terminated, Enter, Escape
<1>2. CASE Return
  <2>1. pc = "return" /\ outcome = "running"
    BY <1>2 DEF Return, CInv, IInv, ResultPlace
  <2>2. Reply = NoReply
    BY <2>1 DEF Reply, NoReply
  <2>3. CASE input_error
    <3>1. Reply' = Raised("input_error")
      BY <1>2, <2>1, <2>3 DEF Return, Reply, Raised, CInv, IInv, ResultPlace
    <3>2. QED
      BY <1>1, <2>2, <3>1 DEF Contract!Answer, VerificationReplies
  <2>4. CASE ~input_error
    <3>1. Reply' = [kind |-> "returned", result |-> result] /\ Promised(result)
      BY <1>2, <2>1, <2>4 DEF Return, Reply, CInv, Answered
    <3>2. QED
      BY <1>1, <2>2, <3>1 DEF Contract!Answer, VerificationReplies, Promised
  <2>5. QED
    BY <2>3, <2>4
<1>3. CASE ExecuteToolOverflow
  <2>1. Reply = NoReply
    BY <1>3 DEF ExecuteToolOverflow, CInv, IInv, ResultPlace, Deciding, Reply, NoReply,
       OnlyOverflowEscapes
  <2>2. Reply' = Raised("decimal_overflow")
    BY <1>3 DEF ExecuteToolOverflow, Escape, Reply, Raised
  <2>3. /\ proposed_decision.left \in Source
        /\ Normalizable(evidence[proposed_decision.left])
        /\ ~Quantizes(evidence[proposed_decision.left])
    BY <1>3 DEF ExecuteToolOverflow, ToolOverflows, ArgumentsAuthorized, NormalizationTool,
       ToolAccepts, Normalizable
  <2>4. QED
    BY <1>1, <2>1, <2>2, <2>3 DEF Contract!Answer, VerificationReplies
<1>4. CASE ~Return /\ ~ExecuteToolOverflow
  <2>1. \/ UNCHANGED vars
        \/ /\ UNCHANGED outcome /\ pc # "done" /\ pc' # "done"
    <3>1. CASE ValidateRequest \/ ModelDecision \/ Finalize
      BY <3>1 DEF ValidateRequest, ModelDecision, Finalize, Enter
    <3>2. CASE DecisionGuard
      BY <3>2 DEF DecisionGuard, Enter, ModelFailed, DecisionInvalid, CompletionAccepted,
         CompletionPremature, ToolBudgetSpent, ToolAllowed, RejectionUpdate, RetrySpent, DecisionsSpent, FailureUpdate
    <3>3. CASE ExecuteTool
      BY <3>3 DEF ExecuteTool, Enter, ToolRejected, ToolExecuted, RejectionUpdate, RetrySpent, DecisionsSpent, FailureUpdate
    <3>4. QED
      BY <1>4, <3>1, <3>2, <3>3 DEF Next, Terminated
  <2>2. UNCHANGED Reply
    BY <2>1 DEF Reply, vars
  <2>3. QED
    BY <1>1, <2>2
<1>5. QED
  BY <1>2, <1>3, <1>4

\* Agent 2 keeps the contract its caller relies on, for every request, every set
\* of facts and every budget: one answer, and one the evidence allows.
THEOREM ContractKept == Spec => Contract!Init /\ [][Contract!Answer]_(Contract!vars)
<1>1. Init => Contract!Init
  BY DEF Init, Contract!Init, Reply, NoReply
<1>2. Spec => []CInv
  BY InitContract, StepContract, Invariance, PTL DEF Spec
<1>3. QED
  BY <1>1, <1>2, StepRefines, PTL DEF Spec

\* When the decision budget is at least the tool calls plus the retries (5, 4
\* and 1 in the source), tool_call_limit_reached means what it says: every tool
\* call is spent, and running out of decisions alone is never reported as it.
THEOREM LimitMeansSpent ==
  ASSUME MAX_VERIFICATION_MODEL_DECISIONS
           >= MAX_VERIFICATION_TOOL_CALLS + MAX_INVALID_DECISIONS
  PROVE  \A r \in Failures :
           r.failure_code = "tool_call_limit_reached" =>
             r.tool_call_count = MAX_VERIFICATION_TOOL_CALLS
  BY BudgetAssumption DEF Failures, FailedResult
=============================================================================
