----------------------------- MODULE DocumentReview -----------------------------
(***************************************************************************)
(* DocumentExtractionReviewer.review(): one document, from the preflight   *)
(* to the returned outcome, with Agent 1's five-node graph between         *)
(* (financial_reviewer/workflow.py).                                       *)
(*                                                                         *)
(* The local audit is the environment: a record is written and verified,   *)
(* not written, or written although the caller is told that it was not     *)
(* (a failed fsync, a failed read-back).  So are the telemetry sink, the   *)
(* trace calls and the document parser, whose candidates the gates of the  *)
(* graph check.  The handler of AuditWriteError around the graph is left   *)
(* out: _record lets no exception escape, so nothing can raise it.         *)
(***************************************************************************)
EXTENDS Integers, Sequences, ReviewVocabulary

CONSTANTS
  DocumentId,
  StoredId,          \* the identifier the store gives to this document
  SubmissionGiven,   \* the submissions review() may be called with
  CandidateGiven     \* the extractions the document parser may return

\* A submission: "valid" says that SecureIntake accepts it, "header" is the type
\* its header line classifies it as.
Submission == [valid : BOOLEAN, header : DocumentType]

\* An extraction: "valid" says that it passes its own schema, "supported" that
\* every field carries a value, "targets" where the provenance points, "intact"
\* that every quoted line hashes and reads as claimed.
Candidate ==
  [valid : BOOLEAN,
   document_id : DocumentId,
   document_type : DocumentType \ {"unknown"},
   classification : DocumentType,
   extraction_method : {"deterministic_labels_v1", "other"},
   attempt_count : Nat,
   supported : BOOLEAN,
   targets : SUBSET DocumentId,
   intact : BOOLEAN,
   evidence_guard_passed : BOOLEAN]

ASSUME StoredAssumption == StoredId \in DocumentId
ASSUME SubmissionAssumption == SubmissionGiven \subseteq Submission
ASSUME CandidateAssumption == CandidateGiven \subseteq Candidate

VARIABLES
  submission,  \* what the caller submitted
  pc,          \* where the call is: a step of _review_with_trace, a node, "done"
  audit,       \* the records persisted for this review, and whether one failed
  emitted,     \* the telemetry events the sink has seen
  state,       \* the graph state visible to LangGraph and its callbacks
  artifact,    \* the private artifacts of the run
  span_open,   \* a child span was left active by an exception
  outcome      \* how review() ended

vars == <<submission, pc, audit, emitted, state, artifact, span_open, outcome>>

-----------------------------------------------------------------------------
(***************************************************************************)
(* Audit records, telemetry events, artifacts and outcomes.                *)
(***************************************************************************)
\* The actions of the closed list that this review records.
Action ==
  {"input_received", "input_validated", "input_rejected", "document_stored",
   "workflow_completed", "workflow_failed", "classification_started",
   "classification_completed", "extraction_started", "extraction_completed",
   "extraction_failed", "validation_started", "validation_completed",
   "evidence_check_started", "evidence_check_completed", "release_approved",
   "release_blocked"}

\* Mutant: the table of error codes lacks an entry.
EventUnmapped(action, status, error) ==
  [action |-> action, status |-> status,
   error |-> IF error = "schema_validation_failed" THEN "none" ELSE error]

\* SafeEventMetadata without its identifiers, versions and counts.
Event(action, status, error) == [action |-> action, status |-> status, error |-> error]

\* A call of _record or _record_boundary: what it answers, and whether the record
\* is in the file.  A sink of telemetry behaves alike.
Call == {c \in [ok : BOOLEAN, kept : BOOLEAN] : c.ok => c.kept}

Recorded(a, e, c) ==
  [trail |-> IF c.kept THEN Append(a.trail, e) ELSE a.trail,
   failed |-> a.failed \/ ~c.ok]

Seen(e, c) == IF c.kept THEN Append(emitted, e) ELSE emitted

NoExtraction == [none |-> "none"]
NoArtifact == [candidate |-> NoExtraction, validated |-> NoExtraction]

InitialState ==
  [document_type |-> "unknown", classified |-> FALSE,
   deterministic_candidate_ready |-> FALSE, schema_valid |-> FALSE,
   evidence_valid |-> FALSE, validated_extraction_ready |-> FALSE,
   release_allowed |-> FALSE, audit_healthy |-> TRUE, failure_code |-> "none"]

NoOutcome ==
  [released |-> FALSE, document_type |-> "unknown",
   extraction |-> NoExtraction, failure_code |-> "none"]

HumanReview(type, code) ==
  [NoOutcome EXCEPT !.document_type = type, !.failure_code = code]

Released(type, x) ==
  [released |-> TRUE, document_type |-> type, extraction |-> x,
   failure_code |-> "none"]

\* ReviewOutcome.enforce_release_boundary, for a released outcome.
CrossesBoundary(x, type) ==
  /\ x # NoExtraction
  /\ x.evidence_guard_passed
  /\ x.document_type = type /\ x.classification = type
  /\ x.supported
  /\ x.targets = {x.document_id}

-----------------------------------------------------------------------------
(***************************************************************************)
(* Steps of _review_with_trace before and after the graph.                 *)
(***************************************************************************)
Init ==
  /\ submission \in SubmissionGiven
  /\ pc = "preflight"
  /\ audit = [trail |-> <<>>, failed |-> FALSE]
  /\ emitted = <<>>
  /\ state = InitialState
  /\ artifact = NoArtifact
  /\ span_open = FALSE
  /\ outcome = [kind |-> "running", review |-> NoOutcome]

\* Finishing a span may raise, and does while a child of it is active; outside
\* the graph the exception leaves review() through its two handlers.
Raise ==
  /\ pc' = "done"
  /\ outcome' = [kind |-> "raised", review |-> NoOutcome]

Continue(next) == (pc' = next /\ UNCHANGED outcome) \/ Raise

Settle(type, code) ==
  \/ pc' = "close" /\ outcome' = [outcome EXCEPT !.review = HumanReview(type, code)]
  \/ Raise

\* A step that fails is recorded; when that fails too, the audit is the failure.
Told(c, code) == IF c.ok THEN code ELSE "audit_write_failed"

Preflight ==
  /\ pc = "preflight"
  /\ \/ Continue("intake") /\ UNCHANGED audit
     \/ \E c \in Call :
          /\ audit' = Recorded(audit, Event("workflow_failed", "failed",
                                            "unsafe_configuration"), c)
          /\ Settle("unknown", Told(c, "unsafe_configuration"))
  /\ UNCHANGED <<submission, emitted, state, artifact, span_open>>

\* Mutant: a rejected submission is stored all the same.
IntakeGoesOn ==
  /\ pc = "intake"
  /\ \E c, d \in Call :
       LET received == Recorded(audit, Event("input_received", "started", "none"), c)
           ended == IF submission.valid THEN Event("input_validated", "succeeded", "none")
                    ELSE Event("input_rejected", "rejected", "invalid_input") IN
       /\ audit' = IF c.ok THEN Recorded(received, ended, d) ELSE received
       /\ IF c.ok /\ d.ok THEN Continue("storage") ELSE Settle("unknown", "audit_write_failed")
  /\ UNCHANGED <<submission, emitted, state, artifact, span_open>>

\* Receipt is recorded before the submission is looked at.
Intake ==
  /\ pc = "intake"
  /\ \E c, d \in Call :
       LET received == Recorded(audit, Event("input_received", "started", "none"), c)
           ended == IF submission.valid THEN Event("input_validated", "succeeded", "none")
                    ELSE Event("input_rejected", "rejected", "invalid_input") IN
       /\ audit' = IF c.ok THEN Recorded(received, ended, d) ELSE received
       /\ IF c.ok /\ d.ok
          THEN Continue(IF submission.valid THEN "storage" ELSE "rejected")
          ELSE Settle("unknown", "audit_write_failed")
  /\ UNCHANGED <<submission, emitted, state, artifact, span_open>>

\* The rejection is told to the telemetry sink; a refusal of the sink replaces
\* the failure code, and nothing records that.
InputRejected ==
  /\ pc = "rejected"
  /\ \E c \in Call :
       /\ emitted' = Seen("input_rejected", c)
       /\ Settle("unknown", IF c.ok THEN "invalid_input" ELSE "unsafe_configuration")
  /\ UNCHANGED <<submission, audit, state, artifact, span_open>>

\* Storing the document, reading it back and comparing its bytes.
Storage ==
  /\ pc = "storage"
  /\ \E c \in Call :
       \/ /\ audit' = Recorded(audit, Event("document_stored", "succeeded", "none"), c)
          /\ IF c.ok THEN Continue("telemetry") ELSE Settle("unknown", "audit_write_failed")
       \/ /\ audit' = Recorded(audit, Event("workflow_failed", "failed",
                                            "local_storage_error"), c)
          /\ Settle("unknown", Told(c, "local_storage_error"))
  /\ UNCHANGED <<submission, emitted, state, artifact, span_open>>

\* Mutant: the refusal of the sink is not recorded.
TelemetryUnrecorded ==
  /\ pc = "telemetry"
  /\ \E c \in Call :
       /\ emitted' = Seen("input_validated", c)
       /\ IF c.ok THEN Continue("invoke") ELSE Settle("unknown", "unsafe_configuration")
  /\ UNCHANGED <<submission, audit, state, artifact, span_open>>

Telemetry ==
  /\ pc = "telemetry"
  /\ \E c, d \in Call :
       /\ emitted' = Seen("input_validated", c)
       /\ IF c.ok THEN Continue("invoke") /\ UNCHANGED audit
          ELSE /\ audit' = Recorded(audit, Event("release_blocked", "blocked",
                                                 "unsafe_configuration"), d)
               /\ Settle("unknown", Told(d, "unsafe_configuration"))
  /\ UNCHANGED <<submission, state, artifact, span_open>>

\* _Agent1Graph.invoke: its own preflight, then the private artifacts.
EnterGraph ==
  /\ pc = "invoke"
  /\ pc' = "classify"
  /\ UNCHANGED <<submission, audit, emitted, state, artifact, span_open, outcome>>

GraphRefused ==
  /\ pc = "invoke"
  /\ \E c \in Call :
       /\ audit' = Recorded(audit, Event("workflow_failed", "failed",
                                         "unsafe_configuration"), c)
       /\ Settle("unknown", Told(c, "unsafe_configuration"))
  /\ UNCHANGED <<submission, emitted, state, artifact, span_open>>

\* Mutant: the artifacts are dropped only after a graph that ended.
GraphEscapedKeepsArtifacts ==
  /\ pc = "escaped"
  /\ \E c \in Call :
       /\ audit' = Recorded(audit, Event("workflow_failed", "failed",
                                         "internal_failure"), c)
       /\ IF span_open THEN Raise ELSE Settle("unknown", Told(c, "internal_failure"))
  /\ UNCHANGED <<submission, emitted, state, artifact, span_open>>

\* An exception that escapes a node is an internal failure; while the node's span
\* is active, Agent 1's span cannot be finished and review() raises.
GraphEscaped ==
  /\ pc = "escaped"
  /\ artifact' = NoArtifact
  /\ \E c \in Call :
       /\ audit' = Recorded(audit, Event("workflow_failed", "failed",
                                         "internal_failure"), c)
       /\ IF span_open THEN Raise ELSE Settle("unknown", Told(c, "internal_failure"))
  /\ UNCHANGED <<submission, emitted, state, span_open>>

\* The graph ran to its end.  An outcome that does not validate raises.
GraphEnded ==
  /\ pc = "ended"
  /\ artifact' = NoArtifact
  /\ LET extraction == IF state.release_allowed /\ state.validated_extraction_ready
                       THEN artifact.validated ELSE NoExtraction IN
     IF state.release_allowed /\ extraction # NoExtraction
     THEN \/ /\ CrossesBoundary(extraction, state.document_type)
             /\ pc' = "close"
             /\ outcome' = [outcome EXCEPT !.review = Released(state.document_type,
                                                           extraction)]
          \/ Raise
     ELSE Settle(state.document_type,
                 IF state.failure_code = "none" THEN "internal_failure"
                 ELSE state.failure_code)
  /\ UNCHANGED <<submission, audit, emitted, state, span_open>>

\* The final-decision span and the root span are finished last.
Close ==
  /\ pc = "close"
  /\ \/ pc' = "done" /\ outcome' = [outcome EXCEPT !.kind = "returned"]
     \/ Raise
  /\ UNCHANGED <<submission, audit, emitted, state, artifact, span_open>>

-----------------------------------------------------------------------------
(***************************************************************************)
(* The five nodes.                                                         *)
(***************************************************************************)
\* _safe_stop and _audit_failure.
SafeStop(s, code) ==
  [s EXCEPT !.release_allowed = FALSE, !.validated_extraction_ready = FALSE,
            !.failure_code = code]

AuditFailure(s) ==
  [SafeStop(s, "audit_write_failed") EXCEPT !.audit_healthy = FALSE,
                                            !.deterministic_candidate_ready = FALSE]

\* A node's span is finished after its operation; when that raises, the update is
\* lost, what the node did to the artifacts and the audit is not, and the
\* exception escapes the graph.
Leave(s, next) ==
  /\ \/ state' = s /\ pc' = next /\ UNCHANGED span_open
     \/ UNCHANGED state /\ pc' = "escaped" /\ span_open' \in {span_open, TRUE}
  /\ UNCHANGED <<submission, outcome>>

\* The two records around a node's operation: "begun" before it, "ended" after
\* it.  The operation is not reached when the first is not verified, and its
\* update is replaced when the second is not.
Audited(c, begun, d, ended) ==
  audit' = IF c.ok THEN Recorded(Recorded(audit, begun, c), ended, d)
           ELSE Recorded(audit, begun, c)

\* Mutant: the second record is not looked at.
UpdateUnverified(c, d, s) == IF c.ok THEN s ELSE AuditFailure(state)

Update(c, d, s) == IF c.ok /\ d.ok THEN s ELSE AuditFailure(state)

\* No node meets the RuntimeError of a missing artifact: the artifact is there as
\* long as the graph runs.
Classify ==
  /\ pc = "classify"
  /\ \E c, d \in Call :
       LET known == submission.header # "unknown"
           s == Update(c, d, IF known
                             THEN [state EXCEPT !.document_type = submission.header,
                                                !.classified = TRUE,
                                                !.failure_code = "none"]
                             ELSE SafeStop(state, "unsupported_document_type")) IN
       /\ Audited(c, Event("classification_started", "started", "none"),
                  d, Event("classification_completed",
                           IF known THEN "succeeded" ELSE "unsupported", "none"))
       /\ Leave(s, IF s.failure_code # "none" \/ ~s.classified THEN "finalize"
                   ELSE "deterministic_extract")
  /\ UNCHANGED <<emitted, artifact>>

\* What a parser's refusal and an unsafe configuration found after it come to.
ExtractionFailure ==
  {"evidence_validation_failed", "schema_validation_failed",
   "unsupported_required_field", "unsupported_document_type", "unsafe_configuration"}

Extract ==
  /\ pc = "deterministic_extract"
  /\ \E c, d \in Call, x \in CandidateGiven :
       LET s == Update(c, d, [state EXCEPT !.deterministic_candidate_ready = TRUE,
                                           !.failure_code = "none",
                                           !.schema_valid = FALSE,
                                           !.evidence_valid = FALSE]) IN
       /\ Audited(c, Event("extraction_started", "started", "none"),
                  d, Event("extraction_completed", "succeeded", "none"))
       /\ artifact' = [artifact EXCEPT !.candidate =
                         IF ~c.ok THEN @ ELSE IF d.ok THEN x ELSE NoExtraction]
       /\ Leave(s, IF s.deterministic_candidate_ready THEN "schema_validate"
                   ELSE "finalize")
  /\ UNCHANGED emitted

ExtractFails ==
  /\ pc = "deterministic_extract"
  /\ \E d \in Call, code \in ExtractionFailure :
       /\ audit' = Recorded(Recorded(audit, Event("extraction_started", "started", "none"),
                                     [ok |-> TRUE, kept |-> TRUE]),
                            Event("extraction_failed",
                                  "blocked", code), d)
       /\ artifact' = [artifact EXCEPT !.candidate = NoExtraction]
       /\ LET s == [SafeStop(state, code) EXCEPT !.deterministic_candidate_ready = FALSE]
          IN Leave(IF d.ok THEN s ELSE AuditFailure(s), "finalize")
  /\ UNCHANGED emitted

\* The parser raises something its handlers do not name (an integer with too many
\* digits is a ValueError): the node records nothing more.
ExtractRaises ==
  /\ pc = "deterministic_extract"
  /\ audit' = Recorded(audit, Event("extraction_started", "started", "none"),
                       [ok |-> TRUE, kept |-> TRUE])
  /\ pc' = "escaped"
  /\ span_open' \in {span_open, TRUE}
  /\ UNCHANGED <<submission, emitted, state, artifact, outcome>>

\* Mutant: the gate does not compare the classification.
SchemaHoldsWithoutClassification(x) ==
  /\ state.deterministic_candidate_ready /\ state.classified
  /\ x # NoExtraction
  /\ x.document_type = state.document_type /\ x.valid
  /\ x.document_id = StoredId
  /\ x.extraction_method = "deterministic_labels_v1" /\ x.attempt_count = 0

SchemaHolds(x) ==
  /\ state.deterministic_candidate_ready /\ state.classified
  /\ x # NoExtraction
  /\ x.document_type = state.document_type /\ x.valid
  /\ x.document_id = StoredId /\ x.classification = state.document_type
  /\ x.extraction_method = "deterministic_labels_v1" /\ x.attempt_count = 0

\* When its last record fails, the candidate stays in the artifacts, and only the
\* state keeps it from the evidence guard.
SchemaValidate ==
  /\ pc = "schema_validate"
  /\ \E c, d \in Call :
       LET holds == SchemaHolds(artifact.candidate)
           s == Update(c, d, IF holds
                             THEN [state EXCEPT !.deterministic_candidate_ready = TRUE,
                                                !.schema_valid = TRUE,
                                                !.failure_code = "none"]
                             ELSE [SafeStop(state, "schema_validation_failed") EXCEPT
                                     !.deterministic_candidate_ready = FALSE,
                                     !.schema_valid = FALSE]) IN
       /\ Audited(c, Event("validation_started", "started", "none"),
                  d, IF holds THEN Event("validation_completed", "succeeded", "none")
                     ELSE Event("validation_completed", "failed",
                                "schema_validation_failed"))
       /\ artifact' = [artifact EXCEPT !.candidate =
                         IF c.ok /\ ~holds THEN NoExtraction ELSE @]
       /\ Leave(s, IF s.schema_valid /\ s.deterministic_candidate_ready
                   THEN "evidence_guard" ELSE "finalize")
  /\ UNCHANGED emitted

\* enforce_evidence_guard: the code of the first field that fails; which field
\* comes first is not modelled.  It is called with a candidate of the schema gate.
GuardFailures(x) ==
  IF x = NoExtraction THEN {"evidence_validation_failed"}
  ELSE {code \in {"unsupported_required_field", "evidence_validation_failed"} :
          \/ code = "unsupported_required_field" /\ ~x.supported
          \/ code = "evidence_validation_failed"
             /\ (~x.intact \/ x.targets # {x.document_id})}

Guarded(x) == [x EXCEPT !.evidence_guard_passed = TRUE]

GuardPasses ==
  /\ pc = "evidence_guard"
  /\ GuardFailures(artifact.candidate) = {}
  /\ \E c, d \in Call :
       /\ Audited(c, Event("evidence_check_started", "started", "none"),
                  d, Event("release_approved", "succeeded", "none"))
       /\ artifact' = IF c.ok THEN [candidate |-> NoExtraction,
                                    validated |-> Guarded(artifact.candidate)]
                      ELSE artifact
       /\ Leave(Update(c, d, [state EXCEPT !.validated_extraction_ready = TRUE,
                                           !.deterministic_candidate_ready = FALSE,
                                           !.evidence_valid = TRUE,
                                           !.release_allowed = TRUE,
                                           !.failure_code = "none"]),
                "finalize")
  /\ UNCHANGED emitted

GuardBlocks ==
  /\ pc = "evidence_guard"
  /\ \E c, d \in Call, code \in GuardFailures(artifact.candidate) :
       /\ Audited(c, Event("evidence_check_started", "started", "none"),
                  d, Event("evidence_check_completed", "blocked", code))
       /\ artifact' = IF c.ok THEN NoArtifact ELSE artifact
       /\ Leave(Update(c, d, [SafeStop(state, code) EXCEPT
                                !.deterministic_candidate_ready = FALSE,
                                !.evidence_valid = FALSE]),
                "finalize")
  /\ UNCHANGED emitted

\* What the terminal record says: a release needs the state's permission and a
\* guarded artifact; without it a failure code is always told.
Releasable ==
  /\ state.release_allowed /\ state.validated_extraction_ready
  /\ artifact.validated # NoExtraction

Completed ==
  IF Releasable THEN Event("workflow_completed", "succeeded", "none")
  ELSE Event("workflow_completed", "human_review",
             IF state.failure_code = "none" THEN "internal_failure"
             ELSE state.failure_code)

Final(release, code) ==
  [state EXCEPT !.deterministic_candidate_ready = FALSE,
                !.validated_extraction_ready = release, !.release_allowed = release,
                !.failure_code = code, !.audit_healthy = code # "audit_write_failed"]

\* Mutant: success is told to the sink before the terminal record is verified.
FinalizeEmitsFirst ==
  /\ pc = "finalize"
  /\ \E c, d \in Call :
       LET released == Releasable /\ c.ok /\ d.ok IN
       /\ audit' = Recorded(audit, Completed, c)
       /\ emitted' = IF Releasable THEN Seen("workflow_completed", d) ELSE emitted
       /\ artifact' = IF released THEN artifact ELSE NoArtifact
       /\ Leave(Final(released, IF released THEN "none" ELSE "audit_write_failed"), "ended")

\* The terminal record, then the telemetry of a success, then, when the sink
\* refuses it, the record that takes the release back.
Finalize ==
  /\ pc = "finalize"
  /\ \E c, d, e \in Call :
       LET recorded == Recorded(audit, Completed, c)
           telling == Releasable /\ c.ok
           refused == telling /\ ~d.ok
           released == telling /\ d.ok
           code == IF ~c.ok \/ (refused /\ ~e.ok) THEN "audit_write_failed"
                   ELSE IF refused THEN "unsafe_configuration" ELSE Completed.error IN
       /\ audit' = IF refused
                   THEN Recorded(recorded, Event("release_blocked", "blocked",
                                                 "unsafe_configuration"), e)
                   ELSE recorded
       /\ emitted' = IF telling THEN Seen("workflow_completed", d) ELSE emitted
       /\ artifact' = IF released THEN artifact ELSE NoArtifact
       /\ Leave(Final(released, code), "ended")

Terminated == pc = "done" /\ UNCHANGED vars

Next ==
  \/ Preflight \/ Intake \/ InputRejected \/ Storage \/ Telemetry
  \/ EnterGraph \/ GraphRefused
  \/ Classify \/ Extract \/ ExtractFails \/ ExtractRaises
  \/ SchemaValidate \/ GuardPasses \/ GuardBlocks \/ Finalize
  \/ GraphEnded \/ GraphEscaped \/ Close
  \/ Terminated

\* Everything runs in the calling thread, and no call the model abstracts waits
\* for another review longer than a file lock is held.
Spec == Init /\ [][Next]_vars /\ WF_vars(Next)

-----------------------------------------------------------------------------
(***************************************************************************)
(* Properties.                                                             *)
(***************************************************************************)
Node5 == {"classify", "deterministic_extract", "schema_validate", "evidence_guard",
          "finalize"}

\* require_sanitized_failure_code: a record of a failure carries its code.
Record ==
  {e \in [action : Action,
          status : {"started", "succeeded", "failed", "rejected", "blocked",
                    "unsupported", "human_review"},
          error : FailureCode \cup {"none"}] :
     e.status \in {"failed", "rejected", "blocked"} => e.error # "none"}

GraphState ==
  [document_type : DocumentType, classified : BOOLEAN,
   deterministic_candidate_ready : BOOLEAN, schema_valid : BOOLEAN,
   evidence_valid : BOOLEAN, validated_extraction_ready : BOOLEAN,
   release_allowed : BOOLEAN, audit_healthy : BOOLEAN,
   failure_code : FailureCode \cup {"none"}]

Outcome ==
  [released : BOOLEAN, document_type : DocumentType,
   extraction : Candidate \cup {NoExtraction}, failure_code : FailureCode \cup {"none"}]

\* Types of the state; every audit record is one that the audit's own schema
\* admits, so that no record is refused for what the workflow puts in it.
TypeOK ==
  /\ submission \in SubmissionGiven
  /\ pc \in Node5 \cup {"preflight", "intake", "rejected", "storage", "telemetry",
                       "invoke", "ended", "escaped", "close", "done"}
  /\ audit \in [trail : Seq(Record), failed : BOOLEAN]
  /\ emitted \in Seq({"input_rejected", "input_validated", "workflow_completed"})
  /\ state \in GraphState
  /\ artifact \in [candidate : Candidate \cup {NoExtraction},
                   validated : Candidate \cup {NoExtraction}]
  /\ span_open \in BOOLEAN
  /\ outcome \in [kind : {"running", "returned", "raised"}, review : Outcome]

\* The records of a document that is released, in their order.
Approved ==
  << Event("input_received", "started", "none"),
     Event("input_validated", "succeeded", "none"),
     Event("document_stored", "succeeded", "none"),
     Event("classification_started", "started", "none"),
     Event("classification_completed", "succeeded", "none"),
     Event("extraction_started", "started", "none"),
     Event("extraction_completed", "succeeded", "none"),
     Event("validation_started", "started", "none"),
     Event("validation_completed", "succeeded", "none"),
     Event("evidence_check_started", "started", "none"),
     Event("release_approved", "succeeded", "none"),
     Event("workflow_completed", "succeeded", "none") >>

\* A document is released only with its whole audit trail verified, record for
\* record, and nothing after it; and the telemetry sink never sees a success that
\* the audit file does not already tell.
ReleaseIsAudited ==
  /\ outcome.review.released =>
       /\ audit = [trail |-> Approved, failed |-> FALSE]
       /\ emitted = <<"input_validated", "workflow_completed">>
  /\ \A i \in 1 .. Len(emitted) :
       emitted[i] = "workflow_completed" =>
         Len(audit.trail) >= Len(Approved)
         /\ SubSeq(audit.trail, 1, Len(Approved)) = Approved

\* What the graph permits to release is the stored document's own extraction, of
\* the type its header says, guarded, and one the public outcome admits: the
\* outcome's validation never turns a release into an exception.
ReleaseCrossesTheBoundary ==
  pc = "ended" /\ state.release_allowed =>
    /\ state.document_type = submission.header
    /\ CrossesBoundary(artifact.validated, state.document_type)
    /\ artifact.validated.document_id = StoredId

\* While no record failed, the trail of a returned review ends in a decisive
\* record with the outcome's own code, and no other failure is told before it
\* unless an exception escaped the graph.  One exception: a sink that refuses the
\* news of a rejection changes the code, and no record tells that.
TrailTellsTheOutcome ==
  outcome.kind = "returned" /\ ~audit.failed =>
    LET trail == audit.trail
        last == trail[Len(trail)]
        code == outcome.review.failure_code
        codes == {trail[i].error : i \in 1 .. Len(trail)} \ {"none"} IN
    \/ /\ last.action \in {"workflow_completed", "workflow_failed", "release_blocked",
                           "input_rejected"}
       /\ last.error = code
       /\ codes \subseteq {code} \/ code = "internal_failure"
       /\ last.status = "succeeded" <=> outcome.review.released
    \/ last.action = "input_rejected" /\ code = "unsafe_configuration"

\* A record that failed is the outcome's failure, unless the failing node's update
\* was lost to an exception; and a failed audit is never blamed without one.
AuditFailureIsTold ==
  outcome.kind = "returned" =>
    /\ audit.failed =>
         outcome.review.failure_code \in {"audit_write_failed", "internal_failure"}
    /\ outcome.review.failure_code = "audit_write_failed" => audit.failed

\* When review() has an answer, no private artifact of the run is left.
ArtifactsDropped == pc \in {"close", "done"} => artifact = NoArtifact

\* What a caller may rely on: review() answers once or raises.  It releases only a
\* submission that intake accepts, as the type its header says, with a guarded
\* extraction of the parser; anything else is a human review with a code and no
\* extraction, and the code blames the submission only when it is at fault.
DocumentReplies(s) ==
  {[kind |-> "raised", review |-> NoOutcome]} \cup
  {[kind |-> "returned", review |-> HumanReview(type, code)] :
     type \in {s.header, "unknown"},
     code \in {c \in FailureCode : c = "invalid_input" => ~s.valid}} \cup
  {[kind |-> "returned", review |-> Released(s.header, Guarded(x))] :
     x \in {y \in CandidateGiven : s.valid /\ CrossesBoundary(Guarded(y), s.header)}}

NoReply == [kind |-> "running", review |-> NoOutcome]

Contract ==
  INSTANCE AgentContract WITH
    Request <- SubmissionGiven, request <- submission, NoReply <- NoReply,
    Replies <- DocumentReplies,
    reply <- IF pc = "done" THEN outcome ELSE NoReply
KeepsContract == Contract!Spec
=============================================================================
