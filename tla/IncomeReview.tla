------------------------------ MODULE IncomeReview ------------------------------
(***************************************************************************)
(* IncomeReviewOrchestrator.review(): one call, from the configuration     *)
(* check to the returned outcome, with the six-node graph between          *)
(* (financial_reviewer/orchestration/income_review.py).                    *)
(*                                                                         *)
(* Agent 1 is the environment: it releases a guarded extraction, routes    *)
(* the document to human review or raises.  Agents 2 and 3 answer with any *)
(* reply their contracts allow (VerificationReplies, CriticReplies), which *)
(* VerificationAgent and CriticAgent are shown to implement.               *)
(***************************************************************************)
EXTENDS Handoffs

CONSTANT Agent1Given          \* the replies Agent 1 may give for a document

\* ReviewOutcome.enforce_release_boundary: a released document carries a guarded
\* extraction whose fields and provenance are its own, any other a failure code.
Agent1Reply ==
  [released : {TRUE},
   extraction : {x \in Extraction : /\ x.valid /\ x.supported
                                    /\ x.evidence_guard_passed
                                    /\ x.targets = {x.document_id}},
   failure_code : {"none"}] \cup
  [released : {FALSE}, extraction : [document_type : DocumentType],
   failure_code : FailureCode]

ASSUME Agent1Assumption == Agent1Given \subseteq Agent1Reply

IncomeReviewFailureCode ==
  {"invalid_bundle", "extraction_failed", "handoff_failed", "verification_failed",
   "critic_handoff_failed", "critic_failed", "final_gate_failed",
   "unsafe_configuration", "internal_failure"}
IncomeReviewReasonCode ==
  {"consistent_income_grounded", "income_inconsistent", "income_not_comparable",
   "insufficient_evidence", "processing_failure"}

VARIABLES
  pc,         \* where the call is: a step of review(), a node, or "done"
  agent1,     \* what Agent 1 answered for the two documents
  state,      \* the graph state visible to LangGraph and its callbacks
  artifact,   \* the private artifacts of the run
  span_open,  \* a child span was left active by an exception
  outcome     \* how review() ended

vars == <<pc, agent1, state, artifact, span_open, outcome>>

-----------------------------------------------------------------------------
(***************************************************************************)
(* The state, the private artifacts and the public outcome.                *)
(***************************************************************************)
Flag == {"extractions_ready", "verification_request_ready",
         "verification_result_ready", "ready_for_critic",
         "critic_request_ready", "critic_result_ready"}

\* The gate's and the outcome's fields; tuples whose order no one reads are sets.
InitialState ==
  [flags |-> {}, document_types |-> {}, failure_code |-> "none",
   upstream_failure_codes |-> {}, handoff_failure_code |-> "none",
   verification_status |-> "none", verification_failure_code |-> "none",
   critic_handoff_failure_code |-> "none", critic_status |-> "none",
   critic_decision |-> NoCriticDecision, critic_failure_code |-> "none",
   tool_call_count |-> 0, invalid_decision_count |-> 0,
   critic_attempt_count |-> 0, critic_repair_count |-> 0,
   review_status |-> "none", release_allowed |-> FALSE,
   final_reason_code |-> "none"]

NoRequest == [none |-> "none"]
NoArtifact ==
  [extractions |-> <<>>, verification_request |-> NoRequest,
   verification_result |-> NoResult, critic_request |-> NoRequest,
   critic_result |-> NoCriticResult]

Blocked(s, code) == [s EXCEPT !.failure_code = code]

\* _human_review_outcome: what review() answers when the graph gave no outcome.
HumanReview(code) ==
  [InitialState EXCEPT !.review_status = "human_review",
                       !.final_reason_code = "processing_failure",
                       !.failure_code = code]

\* _FINAL_DECISION_POLICY: status -> the only accepted decision, and what the
\* review then comes to.
FinalReason(status) ==
  IF status = "consistent" THEN "consistent_income_grounded"
  ELSE IF status = "inconsistent" THEN "income_inconsistent"
  ELSE IF status = "not_comparable" THEN "income_not_comparable"
  ELSE "insufficient_evidence"

FinalStatus(status) == IF status = "consistent" THEN "released" ELSE "human_review"

NoFailureLineage(s) ==
  /\ s.failure_code = "none" /\ s.upstream_failure_codes = {}
  /\ s.handoff_failure_code = "none" /\ s.verification_failure_code = "none"
  /\ s.critic_handoff_failure_code = "none" /\ s.critic_failure_code = "none"

\* Mutant: the bound of invalid decisions is the retry budget.
CountsInBoundsTooStrict(s) ==
  /\ s.tool_call_count <= MAX_VERIFICATION_TOOL_CALLS
  /\ s.invalid_decision_count <= MAX_INVALID_DECISIONS
  /\ s.critic_attempt_count <= MAX_CRITIC_MODEL_ATTEMPTS
  /\ s.critic_repair_count <= MAX_CRITIC_REPAIR_ATTEMPTS

\* The field bounds of IncomeReviewOutcome.
CountsInBounds(s) ==
  /\ s.tool_call_count <= MAX_VERIFICATION_TOOL_CALLS
  /\ s.invalid_decision_count <= MAX_INVALID_DECISIONS + 1
  /\ s.critic_attempt_count <= MAX_CRITIC_MODEL_ATTEMPTS
  /\ s.critic_repair_count <= MAX_CRITIC_REPAIR_ATTEMPTS

\* IncomeReviewOutcome.validate_terminal_contract and the bounds of its fields.
TerminalContract(s) ==
  LET Decided(status) ==
        /\ NoFailureLineage(s)
        /\ s.final_reason_code = FinalReason(status)
        /\ s.verification_status = status
        /\ s.critic_status = "completed"
        /\ s.critic_decision = CompatibleDecision(status)
        /\ SupportedPair(s.document_types) IN
  /\ CountsInBounds(s)
  /\ \/ /\ s.review_status = "released" /\ s.release_allowed
        /\ Decided("consistent")
     \/ /\ s.review_status = "human_review" /\ ~s.release_allowed
        /\ \/ s.final_reason_code = "processing_failure" /\ s.failure_code # "none"
           \/ \E status \in {"inconsistent", "not_comparable",
                             "insufficient_evidence"} : Decided(status)

-----------------------------------------------------------------------------
(***************************************************************************)
(* Steps of review() before and after the graph.                           *)
(***************************************************************************)
Init ==
  /\ pc = "configuration"
  /\ agent1 = <<>>
  /\ state = InitialState
  /\ artifact = NoArtifact
  /\ span_open = FALSE
  /\ outcome = [kind |-> "running", review |-> InitialState]

\* Cloud tracing is refused before a span or an agent exists.
ConfigurationCheck ==
  /\ pc = "configuration"
  /\ \/ pc' = "bundle" /\ UNCHANGED outcome
     \/ /\ pc' = "done"
        /\ outcome' = [kind |-> "returned", review |-> HumanReview("unsafe_configuration")]
  /\ UNCHANGED <<agent1, state, artifact, span_open>>

\* Finishing a span may raise: before it is removed from the active spans (its
\* end is earlier than its start on the wall clock, or a child is still active)
\* or after (the sink raised something other than ReviewTraceExportError).
\* Outside the graph the exception leaves review().
Raise ==
  /\ pc' = "done"
  /\ outcome' = [kind |-> "raised", review |-> InitialState]

\* A bundle that does not validate is answered before any agent runs.
BundleRejected ==
  /\ pc = "bundle"
  /\ \/ /\ pc' = "close"
        /\ outcome' = [outcome EXCEPT !.review = HumanReview("invalid_bundle")]
     \/ Raise
  /\ UNCHANGED <<agent1, state, artifact, span_open>>

BundleAccepted ==
  /\ pc = "bundle"
  /\ \/ pc' = "extract_documents" /\ UNCHANGED outcome
     \/ Raise
  /\ UNCHANGED <<agent1, state, artifact, span_open>>

\* invoke(): a graph that ran to its end gives the outcome its state describes,
\* unless the outcome does not validate; the artifacts go on every path.
GraphEnded ==
  /\ pc = "outcome"
  /\ pc' = "close"
  /\ outcome' = [outcome EXCEPT !.review =
                   IF TerminalContract(state) THEN state
                   ELSE HumanReview("internal_failure")]
  /\ artifact' = NoArtifact
  /\ UNCHANGED <<agent1, state, span_open>>

\* Any exception that escapes a node ends in a closed human review.
GraphEscaped ==
  /\ pc = "escaped"
  /\ pc' = "close"
  /\ outcome' = [outcome EXCEPT !.review = HumanReview("internal_failure")]
  /\ artifact' = NoArtifact
  /\ UNCHANGED <<agent1, state, span_open>>

\* Mutant: the root span waits for a child that nobody finishes.
CloseWaits ==
  /\ pc = "close"
  /\ \/ /\ ~span_open
        /\ pc' = "done"
        /\ outcome' = [outcome EXCEPT !.kind = "returned"]
        /\ UNCHANGED <<agent1, state, artifact, span_open>>
     \/ span_open /\ UNCHANGED vars

\* The root span is finished last; while a child is active it cannot be.
Close ==
  /\ pc = "close"
  /\ \/ ~span_open /\ pc' = "done" /\ outcome' = [outcome EXCEPT !.kind = "returned"]
     \/ Raise
  /\ UNCHANGED <<agent1, state, artifact, span_open>>

-----------------------------------------------------------------------------
(***************************************************************************)
(* The six nodes.  A node's span is finished after its operation; when     *)
(* that raises, the update is lost and the exception escapes the graph.    *)
(***************************************************************************)
Node(s, a, next) ==
  /\ artifact' = a
  /\ \/ state' = s /\ pc' = next /\ UNCHANGED span_open
     \/ UNCHANGED state /\ pc' = "escaped" /\ span_open' \in {span_open, TRUE}
  /\ UNCHANGED outcome

\* The conditional edges: on to the next node only with its flags set and no
\* failure recorded.
Route(s, flags, next) ==
  IF flags \subseteq s.flags /\ s.failure_code = "none" THEN next ELSE "final_gate"

ExtractionUpdate(replies) ==
  LET types == {replies[i].extraction.document_type : i \in 1 .. 2}
      failures == {replies[i].failure_code : i \in 1 .. 2} \ {"none"} IN
  IF failures # {}
  THEN [Blocked(state, "extraction_failed") EXCEPT
          !.document_types = types, !.upstream_failure_codes = failures]
  ELSE [state EXCEPT !.document_types = types,
                     !.flags = @ \cup {"extractions_ready"}]

ExtractDocuments ==
  /\ pc = "extract_documents"
  /\ \E replies \in [1 .. 2 -> Agent1Given] :
       LET s == ExtractionUpdate(replies) IN
       /\ agent1' = replies
       /\ Node(s,
               [artifact EXCEPT !.extractions =
                  IF s.failure_code = "none"
                  THEN <<replies[1].extraction, replies[2].extraction>> ELSE <<>>],
               Route(s, {"extractions_ready"}, "verification_input_assemble"))

\* Agent 1 raised for one of the documents, which is an extraction failure; when
\* it left a span of its own active, the node's span cannot be finished.
ExtractionRaises ==
  /\ pc = "extract_documents"
  /\ \/ Node([Blocked(state, "extraction_failed") EXCEPT
                !.upstream_failure_codes = {"internal_failure"}],
             artifact, "final_gate")
     \/ /\ pc' = "escaped"
        /\ span_open' = TRUE
        /\ UNCHANGED <<state, artifact, outcome>>
  /\ UNCHANGED agent1

\* The assembler raises VerificationHandoffError only, so that the handler of every
\* other exception is out of reach.
AssembleInput ==
  /\ pc = "verification_input_assemble"
  /\ LET code == VerificationHandoffCode(artifact.extractions)
         s == IF code = "none"
              THEN [state EXCEPT !.flags = @ \cup {"verification_request_ready"}]
              ELSE [Blocked(state, "handoff_failed") EXCEPT !.handoff_failure_code = code]
     IN Node(s,
             [artifact EXCEPT !.verification_request =
                IF code = "none" THEN VerificationRequest(artifact.extractions) ELSE @],
             Route(s, {"verification_request_ready"}, "verification"))
  /\ UNCHANGED agent1

VerificationReported(result) ==
  [state EXCEPT !.verification_status = result.status,
                !.verification_failure_code = result.failure_code,
                !.tool_call_count = result.tool_call_count,
                !.invalid_decision_count = result.invalid_decision_count]

\* Mutant: a failed verification leaves the failure code unset.
VerificationUpdateUnblocked(result) ==
  IF result.status = "failed" THEN VerificationReported(result)
  ELSE [VerificationReported(result) EXCEPT
          !.flags = @ \cup {"verification_result_ready", "ready_for_critic"}]

VerificationUpdate(result) ==
  IF result.status = "failed"
  THEN Blocked(VerificationReported(result), "verification_failed")
  ELSE [VerificationReported(result) EXCEPT
          !.flags = @ \cup {"verification_result_ready", "ready_for_critic"}]

\* An exception out of verify() is a verification failure without lineage.
Verify ==
  /\ pc = "verification"
  /\ \E reply \in VerificationReplies(artifact.verification_request) :
       LET returned == reply.kind = "returned"
           s == IF returned THEN VerificationUpdate(reply.result)
                ELSE Blocked(state, "verification_failed") IN
       Node(s,
            [artifact EXCEPT !.verification_result =
               IF returned THEN reply.result ELSE @],
            Route(s, {"verification_result_ready", "ready_for_critic"},
                  "critic_input_assemble"))
  /\ UNCHANGED agent1

\* Every field Agent 1 released has exactly one evidence pointer and Agent 2's
\* results pass their own contract, so the reply carries no defect ("none").
CriticAssemblyCode ==
  CriticHandoffCode(artifact.verification_request, artifact.verification_result, "none")
ExpectedCriticRequest ==
  CriticRequestOf(artifact.verification_request, artifact.verification_result)

\* Nor does this assembler raise anything but its CriticHandoffError.
AssembleCriticInput ==
  /\ pc = "critic_input_assemble"
  /\ LET s == IF CriticAssemblyCode = "none"
              THEN [state EXCEPT !.flags = @ \cup {"critic_request_ready"}]
              ELSE [Blocked(state, "critic_handoff_failed") EXCEPT
                      !.critic_handoff_failure_code = CriticAssemblyCode]
     IN Node(s,
             [artifact EXCEPT !.critic_request =
                IF CriticAssemblyCode = "none" THEN ExpectedCriticRequest ELSE @],
             Route(s, {"critic_request_ready"}, "critic"))
  /\ UNCHANGED agent1

CriticReported(result) ==
  [state EXCEPT !.critic_status = result.status,
                !.critic_failure_code = result.failure_code,
                !.critic_attempt_count = result.attempt_count,
                !.critic_repair_count = result.repair_count]

CriticUpdate(result) ==
  IF result.status = "failed" THEN Blocked(CriticReported(result), "critic_failed")
  ELSE [CriticReported(result) EXCEPT
          !.flags = @ \cup {"critic_result_ready"},
          !.critic_decision = result.decision]

Critique ==
  /\ pc = "critic"
  /\ \E reply \in CriticReplies(artifact.critic_request) :
       LET returned == reply.kind = "returned" IN
       Node(IF returned THEN CriticUpdate(reply.result)
            ELSE Blocked(state, "critic_failed"),
            [artifact EXCEPT !.critic_result = IF returned THEN reply.result ELSE @],
            "final_gate")
  /\ UNCHANGED agent1

\* The gate rebuilds Agent 3's request from Agent 2's result and compares both
\* results with what the callback-safe state says of them.
StateMatchesCompletedArtifacts ==
  LET v == artifact.verification_result
      c == artifact.critic_result IN
  /\ SupportedPair(state.document_types)
  /\ state.verification_status = v.status
  /\ state.tool_call_count = v.tool_call_count
  /\ state.invalid_decision_count = v.invalid_decision_count
  /\ state.critic_status = c.status
  /\ state.critic_decision = c.decision
  /\ state.critic_attempt_count = c.attempt_count
  /\ state.critic_repair_count = c.repair_count

GateAccepts ==
  LET v == artifact.verification_result
      c == artifact.critic_result IN
  /\ state.flags = Flag
  /\ CriticAssemblyCode = "none"
  /\ artifact.critic_request = ExpectedCriticRequest
  /\ ValidCriticResult(c)
  /\ c.status = "completed"
  /\ StateMatchesCompletedArtifacts
  /\ c.decision = CompatibleDecision(v.status)

GateUpdate ==
  LET status == artifact.verification_result.status
      closed == [state EXCEPT !.review_status = "human_review",
                              !.release_allowed = FALSE,
                              !.final_reason_code = "processing_failure"] IN
  IF state.failure_code # "none" THEN closed
  ELSE IF ~GateAccepts THEN Blocked(closed, "final_gate_failed")
  ELSE [state EXCEPT !.review_status = FinalStatus(status),
                     !.release_allowed = FinalStatus(status) = "released",
                     !.final_reason_code = FinalReason(status)]

FinalGate ==
  /\ pc = "final_gate"
  /\ Node(GateUpdate, artifact, "outcome")
  /\ UNCHANGED agent1

Terminated == pc = "done" /\ UNCHANGED vars

Next ==
  \/ ConfigurationCheck \/ BundleRejected \/ BundleAccepted
  \/ ExtractDocuments \/ ExtractionRaises
  \/ AssembleInput \/ Verify \/ AssembleCriticInput \/ Critique \/ FinalGate
  \/ GraphEnded \/ GraphEscaped \/ Close
  \/ Terminated

\* The graph and review() run in the calling thread, and every agent answers
\* (AgentContract's Answer is fair, and Agent 1 has no loop), so a call never
\* pauses forever.
Spec == Init /\ [][Next]_vars /\ WF_vars(Next)

-----------------------------------------------------------------------------
(***************************************************************************)
(* Properties.                                                             *)
(***************************************************************************)
Node6 == {"extract_documents", "verification_input_assemble", "verification",
          "critic_input_assemble", "critic", "final_gate"}

ReviewState ==
  [flags : SUBSET Flag,
   document_types : SUBSET DocumentType,
   failure_code : IncomeReviewFailureCode \cup {"none"},
   upstream_failure_codes : SUBSET FailureCode,
   handoff_failure_code : VerificationHandoffFailureCode \cup {"none"},
   verification_status : VerificationStatus \cup {"none"},
   verification_failure_code : VerificationFailureCode \cup {"none"},
   critic_handoff_failure_code : CriticHandoffFailureCode \cup {"none"},
   critic_status : {"none", "completed", "failed"},
   critic_decision : CriticDecision \cup {NoCriticDecision},
   critic_failure_code : CriticFailureCode \cup {"none"},
   tool_call_count : Nat,
   invalid_decision_count : Nat,
   critic_attempt_count : Nat,
   critic_repair_count : Nat,
   review_status : {"none", "released", "human_review"},
   release_allowed : BOOLEAN,
   final_reason_code : IncomeReviewReasonCode \cup {"none"}]

Artifact ==
  [extractions : Seq(Extraction),
   verification_request : [Source -> IncomeEvidence] \cup {NoRequest},
   verification_result : Result,
   critic_request : CriticRequest \cup {NoRequest},
   critic_result : CriticResult]

\* Types of the state, of the artifacts and of the outcome.
TypeOK ==
  /\ pc \in Node6 \cup {"configuration", "bundle", "outcome", "escaped", "close", "done"}
  /\ agent1 \in [1 .. 2 -> Agent1Given] \cup {<<>>}
  /\ state \in ReviewState
  /\ artifact \in Artifact
  /\ span_open \in BOOLEAN
  /\ outcome \in [kind : {"running", "returned", "raised"}, review : ReviewState]

\* The two facts the documents really carry, and what the exact policy says of
\* them, recomputed from Agent 1's answers alone.
Extracted(i) == agent1[i].extraction
Policy == CompareIncome(EvidenceOf(Extracted(1)), EvidenceOf(Extracted(2)))

\* A released review is backed by the whole chain: two different documents, one
\* pay stub and one W-2, each released by Agent 1 with its guard passed, the same
\* year within bounds and the same monthly cents; no model answer and no trace
\* failure can release anything else.
ReleaseIsEarned ==
  outcome.review.release_allowed =>
    /\ agent1 # <<>> /\ \A i \in 1 .. 2 : agent1[i].released
    /\ Extracted(1).document_id # Extracted(2).document_id
    /\ SupportedPair({Extracted(1).document_type, Extracted(2).document_type})
    /\ Extracted(1).calendar_year = Extracted(2).calendar_year
    /\ Extracted(1).calendar_year \in EvidenceYear
    /\ MonthlyCents(EvidenceOf(Extracted(1))) = MonthlyCents(EvidenceOf(Extracted(2)))
    /\ outcome.review.critic_decision.outcome = "grounded"
    /\ NoFailureLineage(outcome.review)

\* A domain verdict that is reported, released or escalated, is the verdict of
\* the exact policy on what Agent 1 extracted.
VerdictIsThePolicys ==
  outcome.review.verification_status \in ComparisonStatus =>
    /\ outcome.review.verification_status = Policy.result
    /\ outcome.review.failure_code = "none" =>
         outcome.review.final_reason_code = FinalReason(Policy.result)

\* The public outcome of a finished graph always validates: the terminal contract
\* never turns a decided review into an internal failure.
OutcomeValidates == pc = "outcome" => TerminalContract(state)

\* The gate's own failure is dead code: what the agents and the handoffs produced
\* always passes it, so every failure is one an earlier stage recorded.
GateNeverSurprised == state.failure_code # "final_gate_failed"

\* The failure code is that of the first stage that failed, with that stage's
\* lineage and nothing of the stages after it.
FailureNamesTheStage ==
  LET s == state IN
  pc \in {"final_gate", "outcome"} =>
    /\ s.failure_code = "extraction_failed" <=> s.upstream_failure_codes # {}
    /\ s.failure_code = "handoff_failed" <=> s.handoff_failure_code # "none"
    /\ s.failure_code = "critic_handoff_failed" <=> s.critic_handoff_failure_code # "none"
    /\ s.critic_failure_code # "none" => s.failure_code = "critic_failed"
    /\ s.verification_failure_code # "none" => s.failure_code = "verification_failed"
    /\ s.failure_code \in {"extraction_failed", "handoff_failed"} =>
         artifact.verification_result = NoResult /\ s.tool_call_count = 0
    /\ s.failure_code \in {"extraction_failed", "handoff_failed",
                           "verification_failed", "critic_handoff_failed"} =>
         artifact.critic_result = NoCriticResult /\ s.critic_status = "none"

\* An internal failure has one cause only, an exception of the trace calls; it
\* never stands for a decision of the agents.
InternalFailureIsATraceFault ==
  [][outcome'.review # outcome.review
       /\ outcome'.review.failure_code = "internal_failure" => pc = "escaped"]_vars

\* The gate is the only release authority: no other node allows a release, and
\* the outcome is released only when the graph ended with the gate's permission.
OnlyTheGateReleases ==
  [][/\ state'.release_allowed /\ ~state.release_allowed => pc = "final_gate"
     /\ outcome'.review.release_allowed /\ ~outcome.review.release_allowed =>
          pc = "outcome" /\ state.release_allowed]_vars

\* When review() ends, no private artifact of the run is left.
ArtifactsDropped == pc \in {"close", "done"} => artifact = NoArtifact

\* Every call ends: it returns an outcome or raises.
Termination == <>(pc = "done")
=============================================================================
