-------------------------- MODULE DocumentReviewProofs --------------------------
(***************************************************************************)
(* Safety of Agent 1's review for every submission, every result of the    *)
(* parser and every fault of the audit, the sink and the trace calls.      *)
(*                                                                         *)
(* The inductive invariant says how much of the trail of a release is      *)
(* verified where the call stands (OnTrack), what the telemetry sink knows *)
(* (SinkIsTold), what the nodes executed so far have made sure of          *)
(* (Placed, Approval), and what is told of a failure on its way to the     *)
(* outcome (Blamed, Settled).                                              *)
(***************************************************************************)
EXTENDS DocumentReview, SequenceTheorems, TLAPS

\* The first n records of a release are verified, and nothing else was recorded.
Verified(a, n) ==
  /\ a.failed = FALSE
  /\ Len(a.trail) = n
  /\ \A i \in 1 .. n : a.trail[i] = Approved[i]

OnTrack ==
  /\ pc \in {"preflight", "intake"} => Verified(audit, 0)
  /\ pc = "storage" => Verified(audit, 2)
  /\ pc \in {"telemetry", "invoke", "classify"} => Verified(audit, 3)
  /\ pc = "deterministic_extract" => Verified(audit, 5)
  /\ pc = "schema_validate" => Verified(audit, 7)
  /\ pc = "evidence_guard" => Verified(audit, 9)
  /\ pc = "finalize" /\ state.release_allowed => Verified(audit, 11)
  /\ pc = "ended" /\ state.release_allowed => Verified(audit, 12)
  /\ outcome.review.released => Verified(audit, 12)

\* The sink knows of a success only when the whole trail of a release is there.
ToldLate(told, a) ==
  \A i \in 1 .. Len(told) : told[i] = "workflow_completed" =>
    Len(a.trail) >= 12 /\ \A j \in 1 .. 12 : a.trail[j] = Approved[j]

SinkIsTold ==
  /\ pc \in {"preflight", "intake", "rejected", "storage", "telemetry"} => emitted = <<>>
  /\ pc \in {"invoke"} \cup Node5 => emitted = <<"input_validated">>
  /\ (pc = "ended" /\ state.release_allowed) \/ outcome.review.released =>
       emitted = <<"input_validated", "workflow_completed">>
  /\ ToldLate(emitted, audit)

\* What each place has behind it.
BeforeClassification == {"preflight", "intake", "rejected", "storage", "telemetry",
                         "invoke", "classify"}
Later == {"deterministic_extract", "schema_validate", "evidence_guard"}

Placed ==
  /\ pc \in BeforeClassification => state = InitialState
  /\ pc \in BeforeClassification \cup {"close", "done"} => artifact = NoArtifact
  /\ pc = "rejected" =>
       /\ ~submission.valid
       /\ audit.failed = FALSE /\ Len(audit.trail) = 2
       /\ audit.trail[1] = Event("input_received", "started", "none")
       /\ audit.trail[2] = Event("input_rejected", "rejected", "invalid_input")
  /\ pc \in {"storage", "telemetry", "invoke", "ended"} \cup Node5 => submission.valid
  /\ pc \in Later =>
       /\ state.document_type = submission.header
       /\ ~state.release_allowed
  /\ pc \in {"schema_validate", "evidence_guard"} => artifact.candidate \in CandidateGiven
  /\ pc = "evidence_guard" => SchemaHolds(artifact.candidate)
  /\ state.document_type \in {"unknown", submission.header}
  /\ state.failure_code # "invalid_input"
  /\ pc \notin {"close", "done"} => outcome = [kind |-> "running", review |-> NoOutcome]
  /\ pc = "close" => outcome.kind = "running"
  /\ pc = "done" => outcome.kind # "running"
  /\ outcome.kind = "raised" => outcome.review = NoOutcome

\* What the private artifact of a permitted release is.
Sound(x) ==
  /\ \E y \in CandidateGiven : x = Guarded(y)
  /\ CrossesBoundary(x, submission.header)
  /\ x.document_id = StoredId

Approval ==
  pc \in {"finalize", "ended"} /\ state.release_allowed =>
    /\ state.document_type = submission.header
    /\ state.validated_extraction_ready
    /\ state.failure_code = "none"
    /\ Sound(artifact.validated)

\* A failed record is the failure, and nothing but it is told before.
Errors(a, codes) == \A i \in 1 .. Len(a.trail) : a.trail[i].error \in codes

AuditTold(a, code) ==
  /\ a.failed => code \in {"audit_write_failed", "internal_failure"}
  /\ code = "audit_write_failed" => a.failed

Decisive == {"workflow_completed", "workflow_failed", "release_blocked", "input_rejected"}

\* The last record is decisive and tells the code.
LastTells(a, code, released) ==
  LET last == a.trail[Len(a.trail)] IN
  /\ Len(a.trail) > 0
  /\ last.action \in Decisive
  /\ last.error = code
  /\ last.status = "succeeded" <=> released
  /\ Errors(a, {"none", code}) \/ code = "internal_failure"

TrailTold(a, code, released) ==
  ~a.failed =>
    \/ LastTells(a, code, released)
    \/ /\ Len(a.trail) > 0
       /\ a.trail[Len(a.trail)].action = "input_rejected"
       /\ code = "unsafe_configuration"

Blamed ==
  /\ pc = "finalize" =>
       /\ AuditTold(audit, state.failure_code)
       /\ ~audit.failed => Errors(audit, {"none", state.failure_code})
  /\ pc = "ended" /\ ~state.release_allowed =>
       /\ state.failure_code # "none"
       /\ AuditTold(audit, state.failure_code)
       /\ ~audit.failed => LastTells(audit, state.failure_code, FALSE)

Settled ==
  pc \in {"close", "done"} /\ outcome.kind # "raised" =>
    /\ AuditTold(audit, outcome.review.failure_code)
    /\ TrailTold(audit, outcome.review.failure_code, outcome.review.released)
    /\ [kind |-> "returned", review |-> outcome.review] \in DocumentReplies(submission)

IInv == TypeOK /\ OnTrack /\ SinkIsTold /\ Placed /\ Approval /\ Blamed /\ Settled

-----------------------------------------------------------------------------
(***************************************************************************)
(* Records.                                                                *)
(***************************************************************************)
Log == [trail : Seq(Record), failed : BOOLEAN]

\* The records of a are the first records of b.
Extends(a, b) ==
  /\ Len(a.trail) <= Len(b.trail)
  /\ \A i \in 1 .. Len(a.trail) : b.trail[i] = a.trail[i]

\* A record of one action is admitted by the audit's schema if its code fits its
\* status.
LEMMA EventTyped ==
  ASSUME NEW action \in Action,
         NEW status \in {"started", "succeeded", "failed", "rejected", "blocked",
                         "unsupported", "human_review"},
         NEW error \in FailureCode \cup {"none"},
         status \in {"failed", "rejected", "blocked"} => error # "none"
  PROVE  Event(action, status, error) \in Record
BY DEF Event, Record

\* The records of a failure.
LEMMA FailureRecorded ==
  ASSUME NEW code \in FailureCode, NEW action \in Action,
         NEW status \in {"failed", "rejected", "blocked", "human_review"}
  PROVE  Event(action, status, code) \in Record
<1>1. code # "none"
  BY DEF FailureCode
<1>2. QED
  BY <1>1, EventTyped

\* The records of progress.
LEMMA ProgressRecorded ==
  ASSUME NEW action \in Action, NEW status \in {"started", "succeeded", "unsupported"}
  PROVE  Event(action, status, "none") \in Record
BY EventTyped

LEMMA EventFields ==
  ASSUME NEW action, NEW status, NEW error
  PROVE  /\ Event(action, status, error).action = action
         /\ Event(action, status, error).status = status
         /\ Event(action, status, error).error = error
BY DEF Event

\* What one call of the audit leaves of the log.
LEMMA RecordedFacts ==
  ASSUME NEW a \in Log, NEW e \in Record, NEW c \in Call
  PROVE  LET r == Recorded(a, e, c) IN
         /\ r \in Log
         /\ Extends(a, r)
         /\ r.failed <=> a.failed \/ ~c.ok
         /\ c.ok => Len(r.trail) = Len(a.trail) + 1 /\ r.trail[Len(a.trail) + 1] = e
         /\ \A i \in 1 .. Len(r.trail) : i <= Len(a.trail) \/ r.trail[i] = e
<1> DEFINE t == IF c.kept THEN Append(a.trail, e) ELSE a.trail
<1>1. a.trail \in Seq(Record) /\ a.failed \in BOOLEAN
  BY DEF Log
<1>2. c.ok \in BOOLEAN /\ c.kept \in BOOLEAN /\ (c.ok => c.kept)
  BY DEF Call
<1>3. /\ Append(a.trail, e) \in Seq(Record)
      /\ Len(Append(a.trail, e)) = Len(a.trail) + 1
      /\ \A i \in 1 .. Len(a.trail) : Append(a.trail, e)[i] = a.trail[i]
      /\ Append(a.trail, e)[Len(a.trail) + 1] = e
  BY <1>1, AppendProperties
<1>4. Len(a.trail) \in Nat
  BY <1>1
<1>5. /\ t \in Seq(Record)
      /\ Len(a.trail) <= Len(t)
      /\ \A i \in 1 .. Len(a.trail) : t[i] = a.trail[i]
      /\ c.ok => Len(t) = Len(a.trail) + 1 /\ t[Len(a.trail) + 1] = e
      /\ \A i \in 1 .. Len(t) : i <= Len(a.trail) \/ t[i] = e
  BY <1>1, <1>2, <1>3, <1>4
<1>6. /\ Recorded(a, e, c).trail = t
      /\ Recorded(a, e, c).failed = (a.failed \/ ~c.ok)
      /\ Recorded(a, e, c) = [trail |-> t, failed |-> a.failed \/ ~c.ok]
  BY DEF Recorded
<1> HIDE DEF t
<1>7. Recorded(a, e, c) \in Log
  BY <1>1, <1>2, <1>5, <1>6, Zenon DEF Log
<1>8. Extends(a, Recorded(a, e, c))
  BY <1>5, <1>6 DEF Extends
<1>9. Recorded(a, e, c).failed <=> a.failed \/ ~c.ok
  BY <1>6
<1>10. QED
  BY <1>5, <1>6, <1>7, <1>8, <1>9

\* The records of a release are admitted and tell no error.
LEMMA ApprovedRecords ==
  /\ Len(Approved) = 12
  /\ \A i \in 1 .. 12 : Approved[i].error = "none"
BY DEF Approved, Event

LEMMA ExtendsTransitive ==
  ASSUME NEW a \in Log, NEW b \in Log, NEW c \in Log, Extends(a, b), Extends(b, c)
  PROVE  Extends(a, c)
<1>1. Len(a.trail) \in Nat /\ Len(b.trail) \in Nat /\ Len(c.trail) \in Nat
  BY DEF Log
<1>2. QED
  BY <1>1 DEF Extends

\* One more record of a release.
LEMMA VerifiedOneMore ==
  ASSUME NEW a \in Log, NEW n \in 0 .. 11, Verified(a, n), NEW c \in Call, c.ok,
         NEW e \in Record, e = Approved[n + 1]
  PROVE  Verified(Recorded(a, e, c), n + 1)
<1>1. Len(a.trail) = n /\ ~a.failed
  BY DEF Verified
<1>2. /\ Extends(a, Recorded(a, e, c)) /\ Recorded(a, e, c) \in Log
      /\ ~Recorded(a, e, c).failed
      /\ Len(Recorded(a, e, c).trail) = n + 1
      /\ Recorded(a, e, c).trail[n + 1] = e
  BY <1>1, RecordedFacts
<1>3. Recorded(a, e, c).failed = FALSE
  BY <1>2 DEF Log
<1>4. \A i \in 1 .. n : Recorded(a, e, c).trail[i] = Approved[i]
  BY <1>1, <1>2 DEF Extends, Verified
<1>5. QED
  BY <1>2, <1>3, <1>4 DEF Verified

\* Nothing is told of an error on the way to a release.
LEMMA VerifiedTellsNoError ==
  ASSUME NEW a, NEW n \in 0 .. 12, Verified(a, n)
  PROVE  ~a.failed /\ Errors(a, {"none"})
BY ApprovedRecords DEF Verified, Errors

LEMMA ErrorsRecorded ==
  ASSUME NEW a \in Log, NEW e \in Record, NEW c \in Call, NEW codes,
         Errors(a, codes), e.error \in codes
  PROVE  Errors(Recorded(a, e, c), codes)
<1>1. /\ Extends(a, Recorded(a, e, c))
      /\ \A i \in 1 .. Len(Recorded(a, e, c).trail) :
           i <= Len(a.trail) \/ Recorded(a, e, c).trail[i] = e
  BY RecordedFacts
<1>2. Len(a.trail) \in Nat
  BY DEF Log
<1>3. \A i \in 1 .. Len(Recorded(a, e, c).trail) : i <= Len(a.trail) => i \in 1 .. Len(a.trail)
  BY <1>2
<1>4. QED
  BY <1>1, <1>3 DEF Errors, Extends

\* What the sink knows stays true when records follow.
LEMMA ToldLateExtends ==
  ASSUME NEW a \in Log, NEW b \in Log, Extends(a, b), NEW told, ToldLate(told, a)
  PROVE  ToldLate(told, b)
<1>1. Len(a.trail) \in Nat /\ Len(b.trail) \in Nat
  BY DEF Log
<1> SUFFICES ASSUME NEW i \in 1 .. Len(told), told[i] = "workflow_completed"
             PROVE  Len(b.trail) >= 12 /\ \A j \in 1 .. 12 : b.trail[j] = Approved[j]
  BY DEF ToldLate
<1>2. Len(a.trail) >= 12 /\ \A j \in 1 .. 12 : a.trail[j] = Approved[j]
  BY DEF ToldLate
<1>3. \A j \in 1 .. 12 : j \in 1 .. Len(a.trail)
  BY <1>1, <1>2
<1>4. QED
  BY <1>1, <1>2, <1>3 DEF Extends

\* A verified trail of a release may be told.
LEMMA VerifiedMayBeTold ==
  ASSUME NEW a, Verified(a, 12), NEW told
  PROVE  ToldLate(told, a)
BY DEF ToldLate, Verified

\* The two records around a node's operation.
Pair(a, c, begun, d, ended) ==
  IF c.ok THEN Recorded(Recorded(a, begun, c), ended, d) ELSE Recorded(a, begun, c)

\* What they leave behind the first n records of a release.
PairLeaves(a, n, ok, ended, p) ==
  /\ p \in Log
  /\ Extends(a, p)
  /\ p.failed <=> ~ok
  /\ ok =>
       /\ Len(p.trail) = n + 2 /\ p.trail[n + 2] = ended
       /\ \A i \in 1 .. n + 1 : p.trail[i] = Approved[i]
       /\ ended = Approved[n + 2] => Verified(p, n + 2)
       /\ Errors(p, {"none", ended.error})

LEMMA PairFacts ==
  ASSUME NEW a \in Log, NEW n \in 0 .. 10, Verified(a, n), NEW c \in Call, NEW d \in Call,
         NEW begun \in Record, begun = Approved[n + 1], NEW ended \in Record
  PROVE  PairLeaves(a, n, c.ok /\ d.ok, ended, Pair(a, c, begun, d, ended))
<1> DEFINE b == Recorded(a, begun, c)
           p == Pair(a, c, begun, d, ended)
<1>1. ~a.failed /\ b \in Log /\ Extends(a, b) /\ (b.failed <=> ~c.ok)
  BY RecordedFacts, VerifiedTellsNoError
<1>2. CASE ~c.ok
  <2>1. p = b
    BY <1>2 DEF Pair
  <2>2. QED
    BY <1>1, <1>2, <2>1 DEF PairLeaves
<1>3. CASE c.ok
  <2>1. p = Recorded(b, ended, d)
    BY <1>3 DEF Pair
  <2>2. Verified(b, n + 1)
    BY <1>3, VerifiedOneMore
  <2> HIDE DEF b, p
  <2>3. p \in Log /\ Extends(b, p) /\ (p.failed <=> ~d.ok)
    BY <1>1, <1>3, <2>1, RecordedFacts
  <2>4. Extends(a, p)
    BY <1>1, <2>3, ExtendsTransitive
  <2>5. ASSUME d.ok
        PROVE  /\ Len(p.trail) = n + 2 /\ p.trail[n + 2] = ended
               /\ \A i \in 1 .. n + 1 : p.trail[i] = Approved[i]
               /\ ended = Approved[n + 2] => Verified(p, n + 2)
               /\ Errors(p, {"none", ended.error})
    <3>1. ended = Approved[n + 2] => Verified(p, n + 2)
      BY <1>1, <2>1, <2>2, <2>5, VerifiedOneMore
    <3>2. Errors(b, {"none"})
      BY <2>2, VerifiedTellsNoError
    <3>3. Errors(b, {"none", ended.error})
      BY <3>2 DEF Errors
    <3>4. Errors(p, {"none", ended.error})
      BY <1>1, <2>1, <3>3, ErrorsRecorded
    <3>5. Len(b.trail) = n + 1 /\ \A i \in 1 .. n + 1 : b.trail[i] = Approved[i]
      BY <2>2 DEF Verified
    <3>6. Len(p.trail) = n + 2 /\ p.trail[n + 2] = ended
      <4>1. Len(p.trail) = Len(b.trail) + 1 /\ p.trail[Len(b.trail) + 1] = ended
        <5>1. b \in Log
          BY <1>1
        <5>2. d.ok => /\ Len(Recorded(b, ended, d).trail) = Len(b.trail) + 1
                      /\ Recorded(b, ended, d).trail[Len(b.trail) + 1] = ended
          BY <5>1, RecordedFacts
        <5>3. QED
          BY <2>1, <2>5, <5>2
      <4>2. QED
        BY <3>5, <4>1
    <3>7. \A i \in 1 .. n + 1 : p.trail[i] = Approved[i]
      BY <2>3, <3>5 DEF Extends
    <3>8. QED
      BY <3>1, <3>4, <3>6, <3>7
  <2>6. QED
    BY <1>3, <2>3, <2>4, <2>5 DEF p, PairLeaves
<1>4. QED
  BY <1>2, <1>3

-----------------------------------------------------------------------------
(***************************************************************************)
(* What is told of a failure, and of a success to the sink.                *)
(***************************************************************************)
LEMMA FailureTold ==
  ASSUME NEW a \in Log, a.failed, NEW released
  PROVE  AuditTold(a, "audit_write_failed") /\ TrailTold(a, "audit_write_failed", released)
BY DEF AuditTold, TrailTold

\* A decisive record ends a trail that tells nothing else.
LEMMA DecisiveTold ==
  ASSUME NEW a \in Log, NEW e \in Record, NEW c \in Call, c.ok, NEW code,
         e.action \in Decisive, e.error = code, e.status # "succeeded",
         code = "internal_failure" \/ Errors(a, {"none", code})
  PROVE  LastTells(Recorded(a, e, c), code, FALSE)
<1> DEFINE r == Recorded(a, e, c)
<1>1. Len(r.trail) = Len(a.trail) + 1 /\ r.trail[Len(a.trail) + 1] = e
  BY RecordedFacts
<1>2. Errors(r, {"none", code}) \/ code = "internal_failure"
  BY ErrorsRecorded
<1>3. Len(a.trail) \in Nat
  BY DEF Log
<1> HIDE DEF r
<1>4. LastTells(r, code, FALSE)
  BY <1>1, <1>2, <1>3 DEF LastTells
<1>5. QED
  BY <1>4 DEF r

\* A decisive record ends a trail that tells no failure, or one of a review that an
\* exception ended.
LEMMA EndTold ==
  ASSUME NEW a \in Log, NEW e \in Record, NEW c \in Call, NEW code,
         e.action \in Decisive, e.error = code, e.status # "succeeded",
         code # "audit_write_failed",
         code = "internal_failure" \/ (~a.failed /\ Errors(a, {"none", code}))
  PROVE  LET r == Recorded(a, e, c) IN
         /\ r \in Log /\ Extends(a, r)
         /\ AuditTold(r, Told(c, code))
         /\ TrailTold(r, Told(c, code), FALSE)
<1> DEFINE r == Recorded(a, e, c)
<1>1. /\ r \in Log /\ Extends(a, r) /\ (r.failed <=> a.failed \/ ~c.ok)
      /\ c.ok => Len(r.trail) = Len(a.trail) + 1 /\ r.trail[Len(a.trail) + 1] = e
  BY RecordedFacts
<1>2. CASE ~c.ok
  BY <1>1, <1>2, FailureTold DEF Told
<1>3. CASE c.ok
  <2>1. Told(c, code) = code
    BY <1>3 DEF Told
  <2>2. LastTells(r, code, FALSE)
    BY <1>3, DecisiveTold
  <2> HIDE DEF r
  <2>3. AuditTold(r, code)
    BY <1>1, <1>3 DEF AuditTold
  <2>4. QED
    BY <1>1, <2>1, <2>2, <2>3 DEF TrailTold, r
<1>4. QED
  BY <1>2, <1>3

Sink == {"input_rejected", "input_validated", "workflow_completed"}

LEMMA SeenFacts ==
  ASSUME NEW e \in Sink, NEW c \in Call, emitted \in Seq(Sink)
  PROVE  /\ Seen(e, c) \in Seq(Sink)
         /\ c.ok => Seen(e, c) = Append(emitted, e)
         /\ \A a : e # "workflow_completed" /\ ToldLate(emitted, a) => ToldLate(Seen(e, c), a)
<1>1. c.ok \in BOOLEAN /\ c.kept \in BOOLEAN /\ (c.ok => c.kept)
  BY DEF Call
<1>2. /\ Append(emitted, e) \in Seq(Sink)
      /\ Len(Append(emitted, e)) = Len(emitted) + 1
      /\ \A i \in 1 .. Len(emitted) : Append(emitted, e)[i] = emitted[i]
      /\ Append(emitted, e)[Len(emitted) + 1] = e
  BY AppendProperties
<1>3. Seen(e, c) = Append(emitted, e) \/ Seen(e, c) = emitted
  BY DEF Seen
<1>4. ASSUME NEW a, e # "workflow_completed", ToldLate(emitted, a)
      PROVE  ToldLate(Seen(e, c), a)
  <2>1. Len(emitted) \in Nat
    OBVIOUS
  <2>2. ASSUME NEW i \in 1 .. Len(Seen(e, c)), Seen(e, c)[i] = "workflow_completed"
        PROVE  i \in 1 .. Len(emitted) /\ emitted[i] = "workflow_completed"
    BY <1>2, <1>3, <1>4, <2>1, <2>2
  <2>3. QED
    BY <1>4, <2>2 DEF ToldLate
<1>5. QED
  BY <1>1, <1>2, <1>3, <1>4 DEF Seen

-----------------------------------------------------------------------------
(***************************************************************************)
(* The steps around the graph.                                             *)
(***************************************************************************)
LEMMA Typed ==
  ASSUME TypeOK
  PROVE  /\ audit \in Log /\ emitted \in Seq(Sink)
         /\ submission.header \in DocumentType
         /\ submission.valid \in BOOLEAN
<1>1. submission \in Submission
  BY SubmissionAssumption DEF TypeOK
<1>2. QED
  BY <1>1 DEF TypeOK, Log, Sink, Submission

LEMMA OutcomesTyped ==
  ASSUME NEW type \in DocumentType, NEW code \in FailureCode
  PROVE  /\ NoOutcome \in Outcome /\ HumanReview(type, code) \in Outcome
         /\ ~NoOutcome.released /\ ~HumanReview(type, code).released
         /\ HumanReview(type, code).failure_code = code
BY DEF NoOutcome, HumanReview, Outcome, DocumentType

LEMMA InitInvariant == Init => IInv
<1> SUFFICES ASSUME Init PROVE IInv
  OBVIOUS
<1>1. TypeOK
  <2>1. state \in GraphState
    BY DEF Init, InitialState, GraphState, DocumentType
  <2>2. outcome \in [kind : {"running", "returned", "raised"}, review : Outcome]
    BY DEF Init, NoOutcome, Outcome, DocumentType
  <2>3. artifact \in [candidate : Candidate \cup {NoExtraction},
                     validated : Candidate \cup {NoExtraction}]
    BY DEF Init, NoArtifact
  <2>4. /\ audit \in [trail : Seq(Record), failed : BOOLEAN]
        /\ emitted \in Seq({"input_rejected", "input_validated", "workflow_completed"})
    BY DEF Init
  <2>5. QED
    BY <2>1, <2>2, <2>3, <2>4 DEF Init, TypeOK
<1>2. OnTrack
  BY DEF Init, OnTrack, Verified, NoOutcome
<1>3. SinkIsTold
  BY DEF Init, SinkIsTold, ToldLate, NoOutcome, Node5
<1>4. Placed
  BY DEF Init, Placed, InitialState, NoOutcome, Later, Node5
<1>5. Approval /\ Blamed /\ Settled
  BY DEF Init, Approval, Blamed, Settled
<1>6. QED
  BY <1>1, <1>2, <1>3, <1>4, <1>5 DEF IInv

LEMMA StutterInvariant == IInv /\ UNCHANGED vars => IInv'
<1> SUFFICES ASSUME IInv, UNCHANGED vars PROVE IInv'
  OBVIOUS
<1>1. TypeOK' /\ OnTrack' /\ SinkIsTold'
  BY DEF IInv, vars, TypeOK, OnTrack, SinkIsTold
<1>2. Placed'
  BY DEF IInv, vars, Placed, SchemaHolds
<1>3. Approval'
  BY DEF IInv, vars, Approval, Sound
<1>4. Blamed' /\ Settled'
  BY DEF IInv, vars, Blamed, Settled
<1>5. QED
  BY <1>1, <1>2, <1>3, <1>4 DEF IInv

\* An exception that leaves review().
LEMMA RaiseInvariant ==
  ASSUME IInv, Raise, UNCHANGED <<submission, state>>, span_open' \in BOOLEAN,
         artifact' = NoArtifact, audit' \in Log, emitted' \in Seq(Sink),
         ToldLate(emitted', audit')
  PROVE  IInv'
<1>1. pc' = "done" /\ outcome' = [kind |-> "raised", review |-> NoOutcome]
  BY DEF Raise
<1>2. TypeOK'
  BY <1>1 DEF IInv, TypeOK, Log, Sink, NoArtifact, NoOutcome, Outcome, DocumentType
<1>3. OnTrack' /\ SinkIsTold'
  BY <1>1 DEF OnTrack, SinkIsTold, NoOutcome, Node5
<1>4. Placed'
  BY <1>1 DEF IInv, Placed, Later, Node5, BeforeClassification
<1>5. Approval' /\ Blamed' /\ Settled'
  BY <1>1 DEF Approval, Blamed, Settled
<1>6. QED
  BY <1>2, <1>3, <1>4, <1>5 DEF IInv

\* A failure that becomes the outcome.
LEMMA SettleInvariant ==
  ASSUME IInv, pc \notin {"close", "done"}, NEW type \in {"unknown", submission.header},
         NEW code \in FailureCode, Settle(type, code),
         code = "invalid_input" => ~submission.valid,
         UNCHANGED <<submission, state>>, span_open' \in BOOLEAN,
         artifact' = NoArtifact, audit' \in Log, emitted' \in Seq(Sink),
         ToldLate(emitted', audit'),
         AuditTold(audit', code), TrailTold(audit', code, FALSE)
  PROVE  IInv'
<1>1. CASE Raise
  BY <1>1, RaiseInvariant
<1>2. CASE ~Raise
  <2> DEFINE review == HumanReview(type, code)
  <2>1. outcome = [kind |-> "running", review |-> NoOutcome]
    BY DEF IInv, Placed
  <2>2. pc' = "close" /\ outcome' = [kind |-> "running", review |-> review]
    BY <1>2, <2>1 DEF Settle
  <2>3. type \in DocumentType
    BY Typed DEF IInv, DocumentType
  <2>4. review \in Outcome /\ ~review.released /\ review.failure_code = code
        /\ review.released \in BOOLEAN
    BY <2>3, OutcomesTyped DEF Outcome
  <2>5. TypeOK'
    BY <2>2, <2>4 DEF IInv, TypeOK, Log, Sink, NoArtifact
  <2>6. OnTrack' /\ SinkIsTold'
    BY <2>2, <2>4 DEF OnTrack, SinkIsTold, Node5
  <2>7. Placed'
    BY <2>2 DEF IInv, Placed, Later, Node5, BeforeClassification
  <2>8. Approval' /\ Blamed'
    BY <2>2 DEF Approval, Blamed
  <2>9. Settled'
    <3>1. [kind |-> "returned", review |-> review] \in DocumentReplies(submission)
      BY DEF DocumentReplies
    <3>2. review.released = FALSE
      BY <2>4
    <3>3. QED
      BY <2>2, <2>4, <3>1, <3>2 DEF Settled
  <2>10. QED
    BY <2>5, <2>6, <2>7, <2>8, <2>9 DEF IInv
<1>3. QED
  BY <1>1, <1>2

\* A step that goes on towards the graph.
LEMMA ContinueInvariant ==
  ASSUME IInv, pc \in BeforeClassification, pc' \in BeforeClassification,
         UNCHANGED <<submission, state, artifact, span_open, outcome>>,
         audit' \in Log, emitted' \in Seq(Sink),
         pc' = "intake" => Verified(audit', 0),
         pc' = "storage" => Verified(audit', 2),
         pc' \in {"telemetry", "invoke", "classify"} => Verified(audit', 3),
         pc' # "preflight",
         emitted' = IF pc' \in {"invoke", "classify"} THEN <<"input_validated">> ELSE <<>>,
         pc' \in {"storage", "telemetry", "invoke", "classify"} => submission.valid,
         pc' = "rejected" =>
           /\ ~submission.valid
           /\ audit'.failed = FALSE /\ Len(audit'.trail) = 2
           /\ audit'.trail[1] = Event("input_received", "started", "none")
           /\ audit'.trail[2] = Event("input_rejected", "rejected", "invalid_input")
  PROVE  IInv'
<1>1. TypeOK'
  BY DEF IInv, TypeOK, Log, Sink, BeforeClassification, Node5
<1>2. outcome = [kind |-> "running", review |-> NoOutcome] /\ state = InitialState
      /\ artifact = NoArtifact
  BY DEF IInv, Placed, BeforeClassification
<1>3. OnTrack'
  BY <1>2 DEF OnTrack, BeforeClassification, NoOutcome
<1>4. ToldLate(emitted', audit')
  BY DEF ToldLate
<1>5. SinkIsTold'
  BY <1>2, <1>4 DEF SinkIsTold, BeforeClassification, NoOutcome, Node5
<1>6. Placed'
  BY <1>2 DEF IInv, Placed, BeforeClassification, Later, Node5
<1>7. Approval' /\ Blamed' /\ Settled'
  BY DEF Approval, Blamed, Settled, BeforeClassification
<1>8. QED
  BY <1>1, <1>3, <1>5, <1>6, <1>7 DEF IInv

\* Nothing is told to the sink of a step that only records.
LEMMA SinkUntouched ==
  ASSUME IInv, UNCHANGED emitted, audit' \in Log, Extends(audit, audit')
  PROVE  emitted' \in Seq(Sink) /\ ToldLate(emitted', audit')
BY Typed, ToldLateExtends DEF IInv, SinkIsTold

\* A decisive record of a failure before the graph, whose code is the outcome's.
LEMMA EndsInvariant ==
  ASSUME IInv, pc \in BeforeClassification, NEW e \in Record, NEW c \in Call,
         NEW code \in FailureCode, code \notin {"audit_write_failed", "invalid_input"},
         e.action \in Decisive, e.error = code, e.status # "succeeded",
         NEW n \in 0 .. 12, Verified(audit, n),
         audit' = Recorded(audit, e, c), Settle("unknown", Told(c, code)),
         emitted' \in Seq(Sink), ToldLate(emitted', audit),
         UNCHANGED <<submission, state, artifact, span_open>>
  PROVE  IInv'
<1>1. audit \in Log
  BY Typed DEF IInv
<1>2. ~audit.failed /\ Errors(audit, {"none"})
  BY VerifiedTellsNoError
<1>3. Errors(audit, {"none", code})
  BY <1>2 DEF Errors
<1>4. /\ audit' \in Log /\ Extends(audit, audit')
      /\ AuditTold(audit', Told(c, code))
      /\ TrailTold(audit', Told(c, code), FALSE)
  BY <1>1, <1>2, <1>3, EndTold
<1>5. ToldLate(emitted', audit')
  BY <1>1, <1>4, ToldLateExtends
<1>6. Told(c, code) \in FailureCode \ {"invalid_input"}
  BY DEF Told, FailureCode
<1>7. artifact' = NoArtifact /\ span_open' \in BOOLEAN
  BY DEF IInv, Placed, TypeOK
<1>8. pc \notin {"close", "done"}
  BY DEF BeforeClassification
<1>9. QED
  BY <1>4, <1>5, <1>6, <1>7, <1>8, SettleInvariant

\* A record that failed, and is the outcome's failure.
LEMMA FailsInvariant ==
  ASSUME IInv, pc \in BeforeClassification, audit' \in Log, Extends(audit, audit'),
         audit'.failed, Settle("unknown", "audit_write_failed"),
         UNCHANGED <<submission, emitted, state, artifact, span_open>>
  PROVE  IInv'
<1>1. emitted' \in Seq(Sink) /\ ToldLate(emitted', audit')
  BY SinkUntouched
<1>2. artifact' = NoArtifact /\ span_open' \in BOOLEAN
  BY DEF IInv, Placed, TypeOK
<1>3. "audit_write_failed" \in FailureCode
  BY DEF FailureCode
<1>4. AuditTold(audit', "audit_write_failed") /\ TrailTold(audit', "audit_write_failed", FALSE)
  BY FailureTold
<1>5. pc \notin {"close", "done"}
  BY DEF BeforeClassification
<1>6. QED
  BY <1>1, <1>2, <1>3, <1>4, <1>5, SettleInvariant

LEMMA PreflightInvariant == IInv /\ Preflight => IInv'
<1> SUFFICES ASSUME IInv, Preflight PROVE IInv'
  OBVIOUS
<1>1. /\ pc = "preflight" /\ pc \in BeforeClassification
      /\ Verified(audit, 0) /\ emitted = <<>> /\ ToldLate(emitted, audit)
      /\ UNCHANGED <<submission, emitted, state, artifact, span_open>>
      /\ artifact = NoArtifact /\ span_open \in BOOLEAN
      /\ audit \in Log /\ emitted \in Seq(Sink)
  BY Typed DEF Preflight, IInv, OnTrack, SinkIsTold, Placed, BeforeClassification, TypeOK
<1>2. CASE Continue("intake") /\ UNCHANGED audit
  <2>1. CASE Raise
    BY <1>1, <1>2, <2>1, RaiseInvariant
  <2>2. CASE pc' = "intake" /\ UNCHANGED outcome
    BY <1>1, <1>2, <2>2, ContinueInvariant DEF BeforeClassification
  <2>3. QED
    BY <1>2, <2>1, <2>2 DEF Continue
<1>3. CASE ~(Continue("intake") /\ UNCHANGED audit)
  <2> DEFINE e == Event("workflow_failed", "failed", "unsafe_configuration")
  <2>1. PICK c \in Call : /\ audit' = Recorded(audit, e, c)
                          /\ Settle("unknown", Told(c, "unsafe_configuration"))
    BY <1>3 DEF Preflight
  <2>2. "unsafe_configuration" \in FailureCode
    BY DEF FailureCode
  <2>4. e \in Record
    BY <2>2, FailureRecorded DEF Action
  <2>3. e.action \in Decisive /\ e.error = "unsafe_configuration" /\ e.status # "succeeded"
    BY DEF Event, Decisive
  <2> HIDE DEF e
  <2>5. QED
    BY <1>1, <2>1, <2>2, <2>3, <2>4, EndsInvariant
<1>4. QED
  BY <1>2, <1>3

LEMMA IntakeInvariant == IInv /\ Intake => IInv'
<1> SUFFICES ASSUME IInv, Intake PROVE IInv'
  OBVIOUS
<1> DEFINE begun == Event("input_received", "started", "none")
           ended == IF submission.valid THEN Event("input_validated", "succeeded", "none")
                    ELSE Event("input_rejected", "rejected", "invalid_input")
<1>1. /\ pc = "intake" /\ pc \in BeforeClassification
      /\ Verified(audit, 0) /\ emitted = <<>>
      /\ UNCHANGED <<submission, emitted, state, artifact, span_open>>
      /\ artifact = NoArtifact /\ span_open \in BOOLEAN
      /\ audit \in Log /\ emitted \in Seq(Sink)
  BY Typed DEF Intake, IInv, OnTrack, SinkIsTold, Placed, BeforeClassification, TypeOK
<1>2. PICK c \in Call, d \in Call :
        /\ audit' = Pair(audit, c, begun, d, ended)
        /\ IF c.ok /\ d.ok
           THEN Continue(IF submission.valid THEN "storage" ELSE "rejected")
           ELSE Settle("unknown", "audit_write_failed")
  BY DEF Intake, Pair
<1>3. begun \in Record /\ begun = Approved[0 + 1]
  <2>1. begun \in Record
    BY ProgressRecorded DEF Action
  <2>2. begun = Approved[0 + 1]
    BY DEF Approved
  <2>3. QED
    BY <2>1, <2>2
<1>4. ended \in Record
  <2>1. "invalid_input" \in FailureCode
    BY DEF FailureCode
  <2>2. Event("input_rejected", "rejected", "invalid_input") \in Record
    BY <2>1, FailureRecorded DEF Action
  <2>3. Event("input_validated", "succeeded", "none") \in Record
    BY ProgressRecorded DEF Action
  <2>4. QED
    BY <2>2, <2>3
<1>5. submission.valid => ended = Approved[0 + 2]
  BY DEF Approved
<1> HIDE DEF begun, ended
<1>6. /\ audit' \in Log /\ Extends(audit, audit')
      /\ audit'.failed <=> ~(c.ok /\ d.ok)
      /\ c.ok /\ d.ok =>
           /\ Len(audit'.trail) = 2 /\ audit'.trail[2] = ended
           /\ \A i \in 1 .. 1 : audit'.trail[i] = Approved[i]
           /\ ended = Approved[0 + 2] => Verified(audit', 2)
  <2> DEFINE p == Pair(audit, c, begun, d, ended)
             n == 0
  <2>1. n \in 0 .. 10 /\ Verified(audit, n) /\ begun = Approved[n + 1]
    BY <1>1, <1>3
  <2> HIDE DEF n
  <2>2. PairLeaves(audit, n, c.ok /\ d.ok, ended, p)
    BY <1>1, <1>3, <1>4, <2>1, PairFacts
  <2>3. audit' = p
    BY <1>2
  <2> HIDE DEF p
  <2>4. QED
    BY <2>2, <2>3 DEF n, PairLeaves
<1>7. emitted' \in Seq(Sink) /\ ToldLate(emitted', audit')
  BY <1>1, <1>6, SinkUntouched
<1>8. CASE Raise
  BY <1>1, <1>6, <1>7, <1>8, RaiseInvariant
<1>9. CASE c.ok /\ d.ok /\ ~Raise
  <2>1. pc' = (IF submission.valid THEN "storage" ELSE "rejected") /\ UNCHANGED outcome
    BY <1>2, <1>9 DEF Continue
  <2>2. audit'.failed = FALSE /\ audit'.trail[1] = begun
    BY <1>3, <1>6, <1>9 DEF Log
  <2>3. CASE submission.valid
    BY <1>1, <1>5, <1>6, <1>7, <1>9, <2>1, <2>3, ContinueInvariant DEF BeforeClassification
  <2>4. CASE ~submission.valid
    BY <1>1, <1>6, <1>7, <1>9, <2>1, <2>2, <2>4, ContinueInvariant
       DEF BeforeClassification, begun, ended
  <2>5. QED
    BY <2>3, <2>4
<1>10. CASE ~(c.ok /\ d.ok)
  BY <1>1, <1>2, <1>6, <1>10, FailsInvariant
<1>11. QED
  BY <1>8, <1>9, <1>10

LEMMA InputRejectedInvariant == IInv /\ InputRejected => IInv'
<1> SUFFICES ASSUME IInv, InputRejected PROVE IInv'
  OBVIOUS
<1>1. /\ pc = "rejected" /\ emitted = <<>> /\ ToldLate(emitted, audit)
      /\ UNCHANGED <<submission, audit, state, artifact, span_open>>
      /\ artifact = NoArtifact /\ span_open \in BOOLEAN
      /\ audit \in Log /\ emitted \in Seq(Sink)
      /\ ~submission.valid
      /\ ~audit.failed /\ Len(audit.trail) = 2
      /\ audit.trail[1] = Event("input_received", "started", "none")
      /\ audit.trail[2] = Event("input_rejected", "rejected", "invalid_input")
  BY Typed DEF InputRejected, IInv, OnTrack, SinkIsTold, Placed, BeforeClassification, TypeOK
<1>2. PICK c \in Call :
        /\ emitted' = Seen("input_rejected", c)
        /\ Settle("unknown", IF c.ok THEN "invalid_input" ELSE "unsafe_configuration")
  BY DEF InputRejected
<1>3. emitted' \in Seq(Sink) /\ ToldLate(emitted', audit')
  BY <1>1, <1>2, SeenFacts DEF Sink
<1>4. /\ audit.trail[1].error = "none" /\ audit.trail[2].error = "invalid_input"
      /\ audit.trail[2].action = "input_rejected" /\ audit.trail[2].status # "succeeded"
  BY <1>1 DEF Event
<1>5. Errors(audit, {"none", "invalid_input"})
  BY <1>1, <1>4 DEF Errors
<1>6. LastTells(audit, "invalid_input", FALSE)
  BY <1>1, <1>4, <1>5 DEF LastTells, Decisive
<1>7. /\ AuditTold(audit, "invalid_input") /\ TrailTold(audit, "invalid_input", FALSE)
      /\ "invalid_input" \in FailureCode
  BY <1>1, <1>6 DEF AuditTold, TrailTold, FailureCode
<1>8. /\ AuditTold(audit, "unsafe_configuration")
      /\ TrailTold(audit, "unsafe_configuration", FALSE)
      /\ "unsafe_configuration" \in FailureCode
  <2>1. audit.trail[Len(audit.trail)].action = "input_rejected" /\ Len(audit.trail) > 0
    BY <1>1, <1>4
  <2>2. TrailTold(audit, "unsafe_configuration", FALSE)
    BY <2>1 DEF TrailTold
  <2>3. QED
    BY <1>1, <2>2 DEF AuditTold, FailureCode
<1>9. CASE c.ok
  BY <1>1, <1>2, <1>3, <1>7, <1>9, SettleInvariant
<1>10. CASE ~c.ok
  BY <1>1, <1>2, <1>3, <1>8, <1>10, SettleInvariant
<1>11. QED
  BY <1>9, <1>10

LEMMA StorageInvariant == IInv /\ Storage => IInv'
<1> SUFFICES ASSUME IInv, Storage PROVE IInv'
  OBVIOUS
<1> DEFINE stored == Event("document_stored", "succeeded", "none")
           e == Event("workflow_failed", "failed", "local_storage_error")
<1>1. /\ pc = "storage" /\ pc \in BeforeClassification
      /\ Verified(audit, 2) /\ emitted = <<>> /\ ToldLate(emitted, audit)
      /\ UNCHANGED <<submission, emitted, state, artifact, span_open>>
      /\ artifact = NoArtifact /\ span_open \in BOOLEAN /\ submission.valid
      /\ audit \in Log /\ emitted \in Seq(Sink)
  BY Typed DEF Storage, IInv, OnTrack, SinkIsTold, Placed, BeforeClassification, TypeOK
<1>2. stored \in Record /\ stored = Approved[2 + 1]
  BY ProgressRecorded DEF Action, Approved
<1>3. "local_storage_error" \in FailureCode
  BY DEF FailureCode
<1>4. e \in Record
  BY <1>3, FailureRecorded DEF Action
<1>5. e.action \in Decisive /\ e.error = "local_storage_error" /\ e.status # "succeeded"
  BY DEF Event, Decisive
<1> HIDE DEF stored, e
<1>6. PICK c \in Call :
        \/ /\ audit' = Recorded(audit, stored, c)
           /\ IF c.ok THEN Continue("telemetry") ELSE Settle("unknown", "audit_write_failed")
        \/ /\ audit' = Recorded(audit, e, c)
           /\ Settle("unknown", Told(c, "local_storage_error"))
  BY DEF Storage, stored, e
<1>7. CASE /\ audit' = Recorded(audit, stored, c)
           /\ IF c.ok THEN Continue("telemetry") ELSE Settle("unknown", "audit_write_failed")
  <2>1. /\ audit' \in Log /\ Extends(audit, audit')
        /\ ~c.ok => audit'.failed
    BY <1>1, <1>2, <1>7, RecordedFacts
  <2>2. emitted' \in Seq(Sink) /\ ToldLate(emitted', audit')
    BY <1>1, <2>1, SinkUntouched
  <2>3. CASE Raise
    BY <1>1, <2>1, <2>2, <2>3, RaiseInvariant
  <2>4. CASE c.ok /\ ~Raise
    <3>1. Verified(Recorded(audit, stored, c), 2 + 1)
      BY <1>1, <1>2, <2>4, VerifiedOneMore
    <3>2. Verified(audit', 3)
      BY <1>7, <3>1
    <3>3. pc' = "telemetry" /\ UNCHANGED outcome
      BY <1>7, <2>4 DEF Continue
    <3>4. QED
      BY <1>1, <2>1, <2>2, <3>2, <3>3, ContinueInvariant DEF BeforeClassification
  <2>5. CASE ~c.ok
    BY <1>1, <1>7, <2>1, <2>5, FailsInvariant
  <2>6. QED
    BY <2>3, <2>4, <2>5
<1>8. CASE /\ audit' = Recorded(audit, e, c)
           /\ Settle("unknown", Told(c, "local_storage_error"))
  BY <1>1, <1>3, <1>4, <1>5, <1>8, EndsInvariant
<1>9. QED
  BY <1>6, <1>7, <1>8

LEMMA TelemetryInvariant == IInv /\ Telemetry => IInv'
<1> SUFFICES ASSUME IInv, Telemetry PROVE IInv'
  OBVIOUS
<1> DEFINE e == Event("release_blocked", "blocked", "unsafe_configuration")
<1>1. /\ pc = "telemetry" /\ pc \in BeforeClassification
      /\ Verified(audit, 3) /\ emitted = <<>> /\ ToldLate(emitted, audit)
      /\ UNCHANGED <<submission, state, artifact, span_open>>
      /\ artifact = NoArtifact /\ span_open \in BOOLEAN /\ submission.valid
      /\ audit \in Log /\ emitted \in Seq(Sink)
  BY Typed DEF Telemetry, IInv, OnTrack, SinkIsTold, Placed, BeforeClassification, TypeOK
<1>2. "unsafe_configuration" \in FailureCode
  BY DEF FailureCode
<1>3. e \in Record
  BY <1>2, FailureRecorded DEF Action
<1>4. e.action \in Decisive /\ e.error = "unsafe_configuration" /\ e.status # "succeeded"
  BY DEF Event, Decisive
<1> HIDE DEF e
<1>5. PICK c \in Call, d \in Call :
        /\ emitted' = Seen("input_validated", c)
        /\ IF c.ok THEN Continue("invoke") /\ UNCHANGED audit
           ELSE /\ audit' = Recorded(audit, e, d)
                /\ Settle("unknown", Told(d, "unsafe_configuration"))
  BY DEF Telemetry, e
<1>6. /\ emitted' \in Seq(Sink) /\ ToldLate(emitted', audit)
      /\ c.ok => emitted' = Append(emitted, "input_validated")
  BY <1>1, <1>5, SeenFacts DEF Sink
<1>7. CASE c.ok
  <2>1. UNCHANGED audit /\ emitted' = <<"input_validated">>
    BY <1>1, <1>5, <1>6, <1>7
  <2>2. CASE Raise
    BY <1>1, <1>6, <2>1, <2>2, RaiseInvariant
  <2>3. CASE ~Raise
    <3>1. pc' = "invoke" /\ UNCHANGED outcome
      BY <1>5, <1>7, <2>3 DEF Continue
    <3>2. QED
      BY <1>1, <1>6, <2>1, <3>1, ContinueInvariant DEF BeforeClassification
  <2>4. QED
    BY <2>2, <2>3
<1>8. CASE ~c.ok
  BY <1>1, <1>2, <1>3, <1>4, <1>5, <1>6, <1>8, EndsInvariant
<1>9. QED
  BY <1>7, <1>8

LEMMA InvokeInvariant == IInv /\ (EnterGraph \/ GraphRefused) => IInv'
<1> SUFFICES ASSUME IInv, EnterGraph \/ GraphRefused PROVE IInv'
  OBVIOUS
<1>1. /\ pc = "invoke" /\ pc \in BeforeClassification
      /\ Verified(audit, 3) /\ emitted = <<"input_validated">> /\ ToldLate(emitted, audit)
      /\ UNCHANGED <<submission, emitted, state, artifact, span_open>>
      /\ submission.valid /\ audit \in Log /\ emitted \in Seq(Sink)
  BY Typed DEF EnterGraph, GraphRefused, IInv, OnTrack, SinkIsTold, Placed,
     BeforeClassification, TypeOK
<1>2. CASE EnterGraph
  BY <1>1, <1>2, ContinueInvariant DEF EnterGraph, BeforeClassification
<1>3. CASE GraphRefused
  <2> DEFINE e == Event("workflow_failed", "failed", "unsafe_configuration")
  <2>1. "unsafe_configuration" \in FailureCode
    BY DEF FailureCode
  <2>2. e \in Record
    BY <2>1, FailureRecorded DEF Action
  <2>3. e.action \in Decisive /\ e.error = "unsafe_configuration" /\ e.status # "succeeded"
    BY DEF Event, Decisive
  <2>4. PICK c \in Call : /\ audit' = Recorded(audit, e, c)
                          /\ Settle("unknown", Told(c, "unsafe_configuration"))
    BY <1>3 DEF GraphRefused
  <2> HIDE DEF e
  <2>5. QED
    BY <1>1, <2>1, <2>2, <2>3, <2>4, EndsInvariant
<1>4. QED
  BY <1>2, <1>3

LEMMA GraphEscapedInvariant == IInv /\ GraphEscaped => IInv'
<1> SUFFICES ASSUME IInv, GraphEscaped PROVE IInv'
  OBVIOUS
<1> DEFINE e == Event("workflow_failed", "failed", "internal_failure")
<1>1. /\ pc = "escaped" /\ pc \notin {"close", "done"}
      /\ UNCHANGED <<submission, emitted, state, span_open>>
      /\ artifact' = NoArtifact /\ span_open' \in BOOLEAN
      /\ audit \in Log /\ emitted' \in Seq(Sink) /\ ToldLate(emitted', audit)
  BY Typed DEF GraphEscaped, IInv, SinkIsTold, TypeOK
<1>2. "internal_failure" \in FailureCode
  BY DEF FailureCode
<1>3. e \in Record
  BY <1>2, FailureRecorded DEF Action
<1>4. e.action \in Decisive /\ e.error = "internal_failure" /\ e.status # "succeeded"
  BY DEF Event, Decisive
<1> HIDE DEF e
<1>5. PICK c \in Call :
        /\ audit' = Recorded(audit, e, c)
        /\ IF span_open THEN Raise ELSE Settle("unknown", Told(c, "internal_failure"))
  BY DEF GraphEscaped, e
<1>6. /\ audit' \in Log /\ Extends(audit, audit')
      /\ AuditTold(audit', Told(c, "internal_failure"))
      /\ TrailTold(audit', Told(c, "internal_failure"), FALSE)
  <2> DEFINE code == "internal_failure"
  <2>1. /\ e.error = code /\ code # "audit_write_failed"
        /\ code = "internal_failure" \/ (~audit.failed /\ Errors(audit, {"none", code}))
    BY <1>4
  <2> HIDE DEF code
  <2>2. /\ Recorded(audit, e, c) \in Log /\ Extends(audit, Recorded(audit, e, c))
        /\ AuditTold(Recorded(audit, e, c), Told(c, code))
        /\ TrailTold(Recorded(audit, e, c), Told(c, code), FALSE)
    BY <1>1, <1>3, <1>4, <2>1, EndTold
  <2>3. QED
    BY <1>5, <2>2 DEF code
<1>7. ToldLate(emitted', audit')
  BY <1>1, <1>6, ToldLateExtends
<1>8. Told(c, "internal_failure") \in FailureCode \ {"invalid_input"}
  BY DEF Told, FailureCode
<1>9. CASE Raise
  BY <1>1, <1>6, <1>7, <1>9, RaiseInvariant
<1>10. CASE ~Raise
  BY <1>1, <1>5, <1>6, <1>7, <1>8, <1>10, SettleInvariant
<1>11. QED
  BY <1>9, <1>10

LEMMA GraphEndedInvariant == IInv /\ GraphEnded => IInv'
<1> SUFFICES ASSUME IInv, GraphEnded PROVE IInv'
  OBVIOUS
<1> DEFINE x == artifact.validated
           review == Released(state.document_type, x)
<1>1. /\ pc = "ended" /\ pc \notin {"close", "done"}
      /\ UNCHANGED <<submission, audit, emitted, state, span_open>>
      /\ artifact' = NoArtifact /\ span_open' \in BOOLEAN
      /\ audit' \in Log /\ emitted' \in Seq(Sink) /\ ToldLate(emitted', audit')
  BY Typed DEF GraphEnded, IInv, SinkIsTold, TypeOK
<1>2. CASE Raise
  BY <1>1, <1>2, RaiseInvariant
<1>3. CASE ~Raise /\ state.release_allowed
  <2>1. /\ state.document_type = submission.header /\ state.validated_extraction_ready
        /\ Sound(x) /\ submission.valid /\ Verified(audit, 12)
        /\ emitted = <<"input_validated", "workflow_completed">>
        /\ outcome = [kind |-> "running", review |-> NoOutcome]
    BY <1>1, <1>3 DEF IInv, Approval, Placed, OnTrack, SinkIsTold
  <2>2. x # NoExtraction
    BY <2>1 DEF Sound, CrossesBoundary
  <2>3. pc' = "close" /\ outcome' = [kind |-> "running", review |-> review]
    BY <1>3, <2>1, <2>2 DEF GraphEnded
  <2>4. review \in Outcome /\ review.released = TRUE /\ review.failure_code = "none"
    <3>1. x \in Candidate \cup {NoExtraction}
      BY DEF IInv, TypeOK
    <3>2. submission.header \in DocumentType
      BY Typed DEF IInv
    <3>3. QED
      BY <2>1, <3>1, <3>2 DEF Released, Outcome
  <2>5. TypeOK'
    BY <1>1, <2>3, <2>4 DEF IInv, TypeOK, Log, Sink, NoArtifact
  <2>6. OnTrack' /\ SinkIsTold'
    BY <1>1, <2>1, <2>3 DEF OnTrack, SinkIsTold, Node5
  <2>7. Placed'
    BY <1>1, <2>3 DEF IInv, Placed, Later, Node5, BeforeClassification
  <2>8. Approval' /\ Blamed'
    BY <2>3 DEF Approval, Blamed
  <2>9. AuditTold(audit, "none")
    BY <2>1, VerifiedTellsNoError DEF AuditTold
  <2>10. TrailTold(audit, "none", TRUE)
    <3>1. Len(audit.trail) = 12 /\ audit.trail[12] = Approved[12] /\ Errors(audit, {"none"})
      <4>1. Errors(audit, {"none"})
        BY <2>1, VerifiedTellsNoError
      <4>2. QED
        BY <2>1, <4>1 DEF Verified
    <3>2. /\ Approved[12].action \in Decisive /\ Approved[12].error = "none"
          /\ Approved[12].status = "succeeded"
      BY DEF Approved, Event, Decisive
    <3>3. Errors(audit, {"none", "none"})
      BY <3>1 DEF Errors
    <3>4. LastTells(audit, "none", TRUE)
      BY <3>1, <3>2, <3>3 DEF LastTells
    <3>5. QED
      BY <3>4 DEF TrailTold
  <2>11. [kind |-> "returned", review |-> review] \in DocumentReplies(submission)
    <3>1. PICK y \in CandidateGiven : x = Guarded(y)
      BY <2>1 DEF Sound
    <3>2. y \in {z \in CandidateGiven : submission.valid
                                        /\ CrossesBoundary(Guarded(z), submission.header)}
      BY <2>1, <3>1 DEF Sound
    <3>3. review = Released(submission.header, Guarded(y))
      BY <2>1, <3>1
    <3> HIDE DEF review, x
    <3>4. QED
      BY <3>2, <3>3 DEF DocumentReplies
  <2>12. Settled'
    BY <1>1, <2>3, <2>4, <2>9, <2>10, <2>11 DEF Settled
  <2>13. QED
    BY <2>5, <2>6, <2>7, <2>8, <2>12 DEF IInv
<1>4. CASE ~Raise /\ ~state.release_allowed
  <2> DEFINE code == state.failure_code
  <2>1. /\ code # "none" /\ AuditTold(audit, code)
        /\ ~audit.failed => LastTells(audit, code, FALSE)
        /\ state.document_type \in {"unknown", submission.header}
        /\ code # "invalid_input" /\ code \in FailureCode \cup {"none"}
    BY <1>1, <1>4 DEF IInv, Blamed, Placed, TypeOK, GraphState
  <2>2. Settle(state.document_type, code)
    BY <1>4, <2>1 DEF GraphEnded
  <2>3. TrailTold(audit, code, FALSE)
    BY <2>1 DEF TrailTold
  <2>4. code \in FailureCode
    BY <2>1
  <2> HIDE DEF code
  <2>5. QED
    BY <1>1, <2>1, <2>2, <2>3, <2>4, SettleInvariant
<1>5. QED
  BY <1>2, <1>3, <1>4

LEMMA CloseInvariant == IInv /\ Close => IInv'
<1> SUFFICES ASSUME IInv, Close PROVE IInv'
  OBVIOUS
<1>1. /\ pc = "close" /\ outcome.kind = "running" /\ artifact = NoArtifact
      /\ UNCHANGED <<submission, audit, emitted, state, artifact, span_open>>
      /\ span_open \in BOOLEAN
      /\ audit \in Log /\ emitted \in Seq(Sink) /\ ToldLate(emitted, audit)
  BY Typed DEF Close, IInv, Placed, BeforeClassification, SinkIsTold, TypeOK
<1>2. CASE Raise
  BY <1>1, <1>2, RaiseInvariant
<1>3. CASE ~Raise
  <2>1. pc' = "done" /\ outcome' = [outcome EXCEPT !.kind = "returned"]
    BY <1>3 DEF Close
  <2>2. outcome' \in [kind : {"running", "returned", "raised"}, review : Outcome]
    BY <2>1 DEF IInv, TypeOK
  <2>3. outcome'.kind = "returned" /\ outcome'.review = outcome.review
    BY <2>1 DEF IInv, TypeOK
  <2>4. TypeOK'
    BY <1>1, <2>1, <2>2 DEF IInv, TypeOK
  <2>5. OnTrack' /\ SinkIsTold'
    BY <1>1, <2>1, <2>3 DEF IInv, OnTrack, SinkIsTold, Node5
  <2>6. Placed'
    BY <1>1, <2>1, <2>3 DEF IInv, Placed, Later, Node5, BeforeClassification
  <2>7. Approval' /\ Blamed'
    BY <2>1 DEF Approval, Blamed
  <2>8. Settled'
    BY <1>1, <2>1, <2>3 DEF IInv, Settled
  <2>9. QED
    BY <2>4, <2>5, <2>6, <2>7, <2>8 DEF IInv
<1>4. QED
  BY <1>2, <1>3

-----------------------------------------------------------------------------
(***************************************************************************)
(* The nodes.                                                              *)
(***************************************************************************)
Artifact == [candidate : Candidate \cup {NoExtraction},
             validated : Candidate \cup {NoExtraction}]

\* An exception that leaves a node.
LEMMA EscapedInvariant ==
  ASSUME IInv, pc \in Node5, pc' = "escaped", UNCHANGED <<submission, state, outcome>>,
         span_open' \in BOOLEAN, artifact' \in Artifact,
         audit' \in Log, emitted' \in Seq(Sink), ToldLate(emitted', audit')
  PROVE  IInv'
<1>1. outcome = [kind |-> "running", review |-> NoOutcome]
  BY DEF IInv, Placed, Node5
<1>2. TypeOK'
  BY DEF IInv, TypeOK, Log, Sink, Artifact
<1>3. OnTrack' /\ SinkIsTold'
  BY <1>1 DEF OnTrack, SinkIsTold, Node5, NoOutcome
<1>4. Placed'
  BY <1>1 DEF IInv, Placed, Later, Node5, BeforeClassification
<1>5. Approval' /\ Blamed' /\ Settled'
  BY DEF Approval, Blamed, Settled
<1>6. QED
  BY <1>2, <1>3, <1>4, <1>5 DEF IInv

\* A step from node to node.
LEMMA NodeInvariant ==
  ASSUME IInv, pc \in Node5, pc' \in Node5 \ {"classify"},
         UNCHANGED <<submission, outcome, emitted, span_open>>,
         audit' \in Log, Extends(audit, audit'), artifact' \in Artifact,
         state' \in GraphState, state'.document_type \in {"unknown", submission.header},
         state'.failure_code # "invalid_input",
         pc' = "deterministic_extract" => Verified(audit', 5),
         pc' = "schema_validate" => Verified(audit', 7),
         pc' = "evidence_guard" => Verified(audit', 9) /\ SchemaHolds(artifact.candidate)',
         pc' = "finalize" /\ state'.release_allowed => Verified(audit', 11),
         pc' \in Later => state'.document_type = submission.header /\ ~state'.release_allowed,
         pc' \in {"schema_validate", "evidence_guard"} => artifact'.candidate \in CandidateGiven,
         Approval', Blamed'
  PROVE  IInv'
<1>1. outcome = [kind |-> "running", review |-> NoOutcome] /\ submission.valid
      /\ emitted = <<"input_validated">>
  BY DEF IInv, Placed, Node5, SinkIsTold
<1>2. TypeOK'
  BY DEF IInv, TypeOK, Log, Artifact
<1>3. OnTrack'
  BY <1>1 DEF OnTrack, Node5, NoOutcome
<1>4. ToldLate(emitted', audit')
  BY SinkUntouched
<1>5. SinkIsTold'
  BY <1>1, <1>4 DEF SinkIsTold, Node5, NoOutcome
<1>6. Placed'
  BY <1>1 DEF Placed, Later, Node5, BeforeClassification
<1>7. Settled'
  BY DEF Settled, Node5
<1>8. QED
  BY <1>2, <1>3, <1>5, <1>6, <1>7 DEF IInv

\* A node whose failure ends the graph.
LEMMA NodeFails ==
  ASSUME IInv, pc \in Node5, pc' = "finalize",
         UNCHANGED <<submission, outcome, emitted, span_open>>,
         audit' \in Log, Extends(audit, audit'), artifact' \in Artifact,
         state' \in GraphState, state'.document_type \in {"unknown", submission.header},
         ~state'.release_allowed, state'.failure_code # "invalid_input",
         AuditTold(audit', state'.failure_code),
         ~audit'.failed => Errors(audit', {"none", state'.failure_code})
  PROVE  IInv'
<1>1. Approval' /\ Blamed'
  BY DEF Approval, Blamed
<1>2. pc' \in Node5 \ {"classify"} /\ pc' \notin Later
  BY DEF Node5, Later
<1>3. QED
  BY <1>1, <1>2, NodeInvariant DEF Node5

LEMMA StoppedState ==
  ASSUME NEW s \in GraphState, NEW code \in FailureCode
  PROVE  /\ SafeStop(s, code) \in GraphState
         /\ SafeStop(s, code).failure_code = code
         /\ ~SafeStop(s, code).release_allowed
         /\ SafeStop(s, code).document_type = s.document_type
         /\ SafeStop(s, code).classified = s.classified
         /\ AuditFailure(s) \in GraphState
         /\ AuditFailure(s).failure_code = "audit_write_failed"
         /\ ~AuditFailure(s).release_allowed
         /\ AuditFailure(s).document_type = s.document_type
         /\ ~AuditFailure(s).deterministic_candidate_ready
BY DEF SafeStop, AuditFailure, GraphState, FailureCode

\* A node that writes its two records: what is left to show is that the update it
\* makes when both are verified is sound.
LEMMA NodeStep ==
  ASSUME IInv, pc \in Node5, NEW c \in Call, NEW d \in Call, NEW n \in Nat, NEW ended,
         PairLeaves(audit, n, c.ok /\ d.ok, ended, audit'), UNCHANGED emitted,
         artifact' \in Artifact, NEW s, NEW next, Leave(Update(c, d, s), next),
         ~(c.ok /\ d.ok) => next = "finalize",
         c.ok /\ d.ok /\ state' = s /\ pc' = next /\ UNCHANGED <<submission, outcome, span_open>>
           => IInv'
  PROVE  IInv'
<1>1. /\ audit \in Log /\ audit' \in Log /\ Extends(audit, audit')
      /\ audit'.failed <=> ~(c.ok /\ d.ok)
  BY Typed DEF PairLeaves, IInv
<1>2. emitted' \in Seq(Sink) /\ ToldLate(emitted', audit')
  BY <1>1, SinkUntouched
<1>3. UNCHANGED <<submission, outcome>> /\ span_open \in BOOLEAN /\ state \in GraphState
      /\ state.document_type \in {"unknown", submission.header}
  BY DEF Leave, IInv, TypeOK, Placed
<1>4. CASE UNCHANGED state /\ pc' = "escaped" /\ span_open' \in {span_open, TRUE}
  <2>1. span_open' \in BOOLEAN
    BY <1>3, <1>4
  <2>2. QED
    BY <1>1, <1>2, <1>3, <1>4, <2>1, EscapedInvariant
<1>5. CASE state' = Update(c, d, s) /\ pc' = next /\ UNCHANGED span_open
  <2>1. CASE c.ok /\ d.ok
    BY <1>3, <1>5, <2>1 DEF Update
  <2>2. CASE ~(c.ok /\ d.ok)
    <3>1. state' = AuditFailure(state) /\ pc' = "finalize"
      BY <1>5, <2>2 DEF Update
    <3>2. "audit_write_failed" \in FailureCode
      BY DEF FailureCode
    <3>3. /\ state' \in GraphState /\ state'.failure_code = "audit_write_failed"
          /\ ~state'.release_allowed /\ state'.document_type = state.document_type
      BY <1>3, <3>1, <3>2, StoppedState
    <3>4. audit'.failed
      BY <1>1, <2>2
    <3>5. AuditTold(audit', state'.failure_code)
      BY <3>3, <3>4 DEF AuditTold
    <3>6. QED
      BY <1>1, <1>3, <1>5, <3>1, <3>3, <3>4, <3>5, NodeFails
  <2>3. QED
    BY <2>1, <2>2
<1>6. QED
  BY <1>4, <1>5 DEF Leave

LEMMA ClassifyInvariant == IInv /\ Classify => IInv'
<1> SUFFICES ASSUME IInv, Classify PROVE IInv'
  OBVIOUS
<1> DEFINE n == 3
           known == submission.header # "unknown"
           begun == Event("classification_started", "started", "none")
           ended == Event("classification_completed",
                          IF known THEN "succeeded" ELSE "unsupported", "none")
           passed == [state EXCEPT !.document_type = submission.header,
                                   !.classified = TRUE, !.failure_code = "none"]
           s == IF known THEN passed ELSE SafeStop(state, "unsupported_document_type")
           Onward(u) == IF u.failure_code # "none" \/ ~u.classified THEN "finalize"
                      ELSE "deterministic_extract"
<1>1. PICK c \in Call, d \in Call :
        /\ audit' = Pair(audit, c, begun, d, ended)
        /\ Leave(Update(c, d, s), Onward(Update(c, d, s)))
  BY DEF Classify, Audited, Pair
<1>2. /\ pc = "classify" /\ pc \in Node5 /\ UNCHANGED <<emitted, artifact>>
      /\ audit \in Log /\ artifact \in Artifact /\ artifact = NoArtifact
      /\ state \in GraphState /\ state = InitialState /\ submission.header \in DocumentType
      /\ Verified(audit, n)
  BY Typed DEF Classify, IInv, TypeOK, Placed, OnTrack, Node5, Artifact, BeforeClassification
<1>3. begun \in Record /\ ended \in Record
  BY ProgressRecorded DEF Action
<1>4. n \in 0 .. 10 /\ begun = Approved[n + 1] /\ (known => ended = Approved[n + 2])
      /\ ended.error = "none"
  BY DEF Approved, Event
<1>5. "unsupported_document_type" \in FailureCode /\ "audit_write_failed" \in FailureCode
  BY DEF FailureCode
<1> HIDE DEF n, begun, ended
<1>6. PairLeaves(audit, n, c.ok /\ d.ok, ended, audit')
  BY <1>1, <1>2, <1>3, <1>4, PairFacts
<1>7. ~(c.ok /\ d.ok) => Onward(Update(c, d, s)) = "finalize"
  BY <1>2, <1>5, StoppedState DEF Update
<1>8. passed \in GraphState /\ passed.document_type = submission.header
      /\ passed.classified /\ passed.failure_code = "none" /\ ~passed.release_allowed
  BY <1>2 DEF GraphState, InitialState
<1>9. ASSUME c.ok, d.ok, state' = s, pc' = Onward(Update(c, d, s)),
             UNCHANGED <<submission, outcome, span_open>>
      PROVE  IInv'
  <2>1. audit' \in Log /\ Extends(audit, audit') /\ ~audit'.failed
        /\ Errors(audit', {"none", "none"})
    BY <1>4, <1>6, <1>9 DEF PairLeaves
  <2>2. pc' = Onward(s)
    BY <1>9 DEF Update
  <2>3. CASE known
    <3>1. state' = passed /\ pc' = "deterministic_extract"
      BY <1>8, <1>9, <2>2, <2>3
    <3>2. Verified(audit', n + 2)
      BY <1>4, <1>6, <1>9, <2>3 DEF PairLeaves
    <3>3. Verified(audit', 5)
      BY <3>2 DEF n
    <3>4. Approval' /\ Blamed'
      BY <3>1 DEF Approval, Blamed
    <3> HIDE DEF passed, s
    <3>5. QED
      BY <1>2, <1>8, <1>9, <2>1, <3>1, <3>3, <3>4, NodeInvariant DEF Node5, Later
  <2>4. CASE ~known
    <3> DEFINE code == "unsupported_document_type"
    <3>1. state' = SafeStop(state, code)
      BY <1>9, <2>4
    <3>2. /\ state' \in GraphState /\ state'.failure_code = code /\ ~state'.release_allowed
          /\ state'.document_type = state.document_type
      BY <1>2, <1>5, <3>1, StoppedState
    <3>3. pc' = "finalize"
      BY <1>9, <2>2, <3>2
    <3>4. Errors(audit', {"none", state'.failure_code})
      BY <2>1 DEF Errors
    <3>5. AuditTold(audit', state'.failure_code)
      BY <2>1, <3>2 DEF AuditTold
    <3>6. state'.document_type = "unknown" /\ state'.failure_code # "invalid_input"
      BY <1>2, <3>2 DEF InitialState
    <3>7. QED
      BY <1>2, <1>9, <2>1, <3>2, <3>3, <3>4, <3>5, <3>6, NodeFails
  <2>5. QED
    BY <2>3, <2>4
<1> HIDE DEF s, Onward
<1>10. n \in Nat
  BY <1>4
<1>11. QED
  BY <1>1, <1>2, <1>6, <1>7, <1>9, <1>10, NodeStep

LEMMA ExtractInvariant == IInv /\ Extract => IInv'
<1> SUFFICES ASSUME IInv, Extract PROVE IInv'
  OBVIOUS
<1> DEFINE n == 5
           begun == Event("extraction_started", "started", "none")
           ended == Event("extraction_completed", "succeeded", "none")
           s == [state EXCEPT !.deterministic_candidate_ready = TRUE,
                              !.failure_code = "none",
                              !.schema_valid = FALSE, !.evidence_valid = FALSE]
           Onward(u) == IF u.deterministic_candidate_ready THEN "schema_validate"
                        ELSE "finalize"
<1>1. PICK c \in Call, d \in Call, x \in CandidateGiven :
        /\ audit' = Pair(audit, c, begun, d, ended)
        /\ artifact' = [artifact EXCEPT !.candidate =
                          IF ~c.ok THEN @ ELSE IF d.ok THEN x ELSE NoExtraction]
        /\ Leave(Update(c, d, s), Onward(Update(c, d, s)))
  BY DEF Extract, Audited, Pair
<1>2. /\ pc = "deterministic_extract" /\ pc \in Node5 /\ UNCHANGED emitted
      /\ audit \in Log /\ artifact \in Artifact
      /\ state \in GraphState /\ state.document_type = submission.header
      /\ ~state.release_allowed /\ Verified(audit, n)
  BY Typed DEF Extract, IInv, TypeOK, Placed, OnTrack, Node5, Artifact, Later
<1>3. begun \in Record /\ ended \in Record
  BY ProgressRecorded DEF Action
<1>4. n \in 0 .. 10 /\ begun = Approved[n + 1] /\ ended = Approved[n + 2]
  BY DEF Approved, Event
<1>5. "audit_write_failed" \in FailureCode
  BY DEF FailureCode
<1> HIDE DEF n, begun, ended
<1>6. PairLeaves(audit, n, c.ok /\ d.ok, ended, audit')
  BY <1>1, <1>2, <1>3, <1>4, PairFacts
<1>7. ~(c.ok /\ d.ok) => Onward(Update(c, d, s)) = "finalize"
  BY <1>2, <1>5, StoppedState DEF Update
<1>8. /\ s \in GraphState /\ s.document_type = submission.header
      /\ s.deterministic_candidate_ready /\ s.failure_code = "none" /\ ~s.release_allowed
  BY <1>2 DEF GraphState
<1>9. artifact' \in Artifact /\ (c.ok /\ d.ok => artifact'.candidate \in CandidateGiven)
  BY <1>1, <1>2, CandidateAssumption DEF Artifact
<1>10. ASSUME c.ok, d.ok, state' = s, pc' = Onward(Update(c, d, s)),
              UNCHANGED <<submission, outcome, span_open>>
       PROVE  IInv'
  <2>1. audit' \in Log /\ Extends(audit, audit') /\ Verified(audit', n + 2)
    BY <1>4, <1>6, <1>10 DEF PairLeaves
  <2>2. Verified(audit', 7)
    BY <2>1 DEF n
  <2>3. pc' = "schema_validate"
    BY <1>8, <1>10 DEF Update
  <2>4. Approval' /\ Blamed'
    BY <2>3 DEF Approval, Blamed
  <2> HIDE DEF s
  <2>5. QED
    BY <1>2, <1>8, <1>9, <1>10, <2>1, <2>2, <2>3, <2>4, NodeInvariant DEF Node5, Later
<1> HIDE DEF s, Onward
<1>11. n \in Nat
  BY <1>4
<1>12. QED
  BY <1>1, <1>2, <1>6, <1>7, <1>9, <1>10, <1>11, NodeStep

\* An error of extraction is told by its own record.
LEMMA ExtractFailsInvariant == IInv /\ ExtractFails => IInv'
<1> SUFFICES ASSUME IInv, ExtractFails PROVE IInv'
  OBVIOUS
<1> DEFINE begun == Event("extraction_started", "started", "none")
           sure == [ok |-> TRUE, kept |-> TRUE]
           b == Recorded(audit, begun, sure)
           Stopped(code) == [SafeStop(state, code) EXCEPT
                               !.deterministic_candidate_ready = FALSE]
<1>1. PICK d \in Call, code \in ExtractionFailure :
        /\ audit' = Recorded(b, Event("extraction_failed", "blocked", code), d)
        /\ artifact' = [artifact EXCEPT !.candidate = NoExtraction]
        /\ Leave(IF d.ok THEN Stopped(code) ELSE AuditFailure(Stopped(code)), "finalize")
  BY DEF ExtractFails
<1> DEFINE e == Event("extraction_failed", "blocked", code)
<1>2. /\ pc = "deterministic_extract" /\ pc \in Node5 /\ UNCHANGED emitted
      /\ audit \in Log /\ artifact \in Artifact
      /\ state \in GraphState /\ state.document_type = submission.header
      /\ span_open \in BOOLEAN /\ Verified(audit, 5)
  BY Typed DEF ExtractFails, IInv, TypeOK, Placed, OnTrack, Node5, Artifact, Later
<1>3. /\ code \in FailureCode /\ code \notin {"audit_write_failed", "invalid_input"}
      /\ "audit_write_failed" \in FailureCode
  BY DEF ExtractionFailure, FailureCode
<1>4. begun \in Record /\ e \in Record
  BY <1>3, ProgressRecorded, FailureRecorded DEF Action
<1>5. begun.error = "none" /\ e.error = code
  BY DEF Event
<1>6. sure \in Call
  BY DEF Call
<1>7. ~audit.failed /\ Errors(audit, {"none"})
  BY <1>2, VerifiedTellsNoError
<1> HIDE DEF begun, e
<1>8. b \in Log /\ Extends(audit, b) /\ ~b.failed /\ Errors(b, {"none"})
  <2>1. sure.ok
    OBVIOUS
  <2> HIDE DEF sure
  <2>2. b \in Log /\ Extends(audit, b) /\ ~b.failed
    BY <1>2, <1>4, <1>6, <1>7, <2>1, RecordedFacts
  <2>3. Errors(b, {"none"})
    BY <1>2, <1>4, <1>5, <1>6, <1>7, ErrorsRecorded
  <2>4. QED
    BY <2>2, <2>3
<1> HIDE DEF b
<1>9. /\ audit' \in Log /\ Extends(b, audit') /\ (audit'.failed <=> ~d.ok)
  <2>1. audit' = Recorded(b, e, d)
    BY <1>1 DEF e
  <2>2. QED
    BY <1>4, <1>8, <2>1, RecordedFacts
<1>10. Extends(audit, audit')
  BY <1>2, <1>8, <1>9, ExtendsTransitive
<1>11. Errors(audit', {"none", code})
  <2>1. audit' = Recorded(b, e, d)
    BY <1>1 DEF e
  <2>2. Errors(b, {"none", code})
    BY <1>8 DEF Errors
  <2>3. QED
    BY <1>4, <1>5, <1>8, <2>1, <2>2, ErrorsRecorded
<1>12. artifact' \in Artifact
  BY <1>1, <1>2 DEF Artifact
<1>13. UNCHANGED <<submission, outcome>>
  BY <1>1 DEF Leave
<1>14. CASE UNCHANGED state /\ pc' = "escaped" /\ span_open' \in {span_open, TRUE}
  <2>1. emitted' \in Seq(Sink) /\ ToldLate(emitted', audit')
    BY <1>2, <1>9, <1>10, SinkUntouched
  <2>2. span_open' \in BOOLEAN
    BY <1>2, <1>14
  <2>3. QED
    BY <1>2, <1>9, <1>12, <1>13, <1>14, <2>1, <2>2, EscapedInvariant
<1>15. CASE /\ state' = (IF d.ok THEN Stopped(code) ELSE AuditFailure(Stopped(code)))
            /\ pc' = "finalize" /\ UNCHANGED span_open
  <2>1. /\ SafeStop(state, code) \in GraphState
        /\ SafeStop(state, code).failure_code = code
        /\ ~SafeStop(state, code).release_allowed
        /\ SafeStop(state, code).document_type = state.document_type
    BY <1>2, <1>3, StoppedState
  <2>2. /\ Stopped(code) \in GraphState /\ Stopped(code).failure_code = code
        /\ ~Stopped(code).release_allowed
        /\ Stopped(code).document_type = state.document_type
    BY <2>1 DEF GraphState
  <2> DEFINE stopped == Stopped(code)
  <2> HIDE DEF Stopped
  <2>3. /\ AuditFailure(stopped) \in GraphState
        /\ AuditFailure(stopped).failure_code = "audit_write_failed"
        /\ ~AuditFailure(stopped).release_allowed
        /\ AuditFailure(stopped).document_type = stopped.document_type
    BY <1>3, <2>2, StoppedState
  <2>4. /\ state' \in GraphState /\ ~state'.release_allowed
        /\ state'.document_type = submission.header
        /\ state'.failure_code = IF d.ok THEN code ELSE "audit_write_failed"
    BY <1>2, <1>15, <2>2, <2>3
  <2>5. AuditTold(audit', state'.failure_code)
    BY <1>3, <1>9, <2>4 DEF AuditTold
  <2>6. ~audit'.failed => Errors(audit', {"none", state'.failure_code})
    BY <1>9, <1>11, <2>4
  <2>7. state'.failure_code # "invalid_input"
    BY <1>3, <2>4
  <2>8. QED
    BY <1>2, <1>9, <1>10, <1>12, <1>13, <1>15, <2>4, <2>5, <2>6, <2>7, NodeFails
<1>16. QED
  BY <1>1, <1>14, <1>15 DEF Leave

LEMMA ExtractRaisesInvariant == IInv /\ ExtractRaises => IInv'
<1> SUFFICES ASSUME IInv, ExtractRaises PROVE IInv'
  OBVIOUS
<1> DEFINE begun == Event("extraction_started", "started", "none")
           sure == [ok |-> TRUE, kept |-> TRUE]
<1>1. /\ pc = "deterministic_extract" /\ pc \in Node5 /\ pc' = "escaped"
      /\ audit' = Recorded(audit, begun, sure)
      /\ UNCHANGED <<submission, emitted, state, artifact, outcome>>
      /\ span_open' \in BOOLEAN /\ audit \in Log /\ artifact \in Artifact
  BY Typed DEF ExtractRaises, IInv, TypeOK, Node5, Artifact
<1>2. begun \in Record
  BY ProgressRecorded DEF Action
<1>3. sure \in Call
  BY DEF Call
<1> HIDE DEF begun, sure
<1>4. audit' \in Log /\ Extends(audit, audit')
  BY <1>1, <1>2, <1>3, RecordedFacts
<1>5. emitted' \in Seq(Sink) /\ ToldLate(emitted', audit')
  BY <1>1, <1>4, SinkUntouched
<1>6. QED
  BY <1>1, <1>4, <1>5, EscapedInvariant

LEMMA SchemaInvariant == IInv /\ SchemaValidate => IInv'
<1> SUFFICES ASSUME IInv, SchemaValidate PROVE IInv'
  OBVIOUS
<1> DEFINE n == 7
           code == "schema_validation_failed"
           holds == SchemaHolds(artifact.candidate)
           begun == Event("validation_started", "started", "none")
           ended == IF holds THEN Event("validation_completed", "succeeded", "none")
                    ELSE Event("validation_completed", "failed", code)
           passed == [state EXCEPT !.deterministic_candidate_ready = TRUE,
                                   !.schema_valid = TRUE, !.failure_code = "none"]
           blocked == [SafeStop(state, code) EXCEPT
                         !.deterministic_candidate_ready = FALSE, !.schema_valid = FALSE]
           s == IF holds THEN passed ELSE blocked
           Onward(u) == IF u.schema_valid /\ u.deterministic_candidate_ready
                        THEN "evidence_guard" ELSE "finalize"
<1>1. PICK c \in Call, d \in Call :
        /\ audit' = Pair(audit, c, begun, d, ended)
        /\ artifact' = [artifact EXCEPT !.candidate =
                          IF c.ok /\ ~holds THEN NoExtraction ELSE @]
        /\ Leave(Update(c, d, s), Onward(Update(c, d, s)))
  BY DEF SchemaValidate, Audited, Pair
<1>2. /\ pc = "schema_validate" /\ pc \in Node5 /\ UNCHANGED emitted
      /\ audit \in Log /\ artifact \in Artifact /\ artifact.candidate \in CandidateGiven
      /\ state \in GraphState /\ state.document_type = submission.header
      /\ ~state.release_allowed /\ Verified(audit, n)
  BY Typed DEF SchemaValidate, IInv, TypeOK, Placed, OnTrack, Node5, Artifact, Later
<1>3. code \in FailureCode /\ "audit_write_failed" \in FailureCode
  BY DEF FailureCode
<1>4. begun \in Record /\ ended \in Record
  <2>1. Event("validation_completed", "failed", code) \in Record
    BY <1>3, FailureRecorded DEF Action
  <2>2. begun \in Record /\ Event("validation_completed", "succeeded", "none") \in Record
    BY ProgressRecorded DEF Action
  <2>3. QED
    BY <2>1, <2>2
<1>5. /\ n \in 0 .. 10 /\ begun = Approved[n + 1] /\ (holds => ended = Approved[n + 2])
      /\ ended.error = IF holds THEN "none" ELSE code
  BY DEF Approved, Event
<1> HIDE DEF n, begun, ended, holds
<1>6. PairLeaves(audit, n, c.ok /\ d.ok, ended, audit')
  BY <1>1, <1>2, <1>4, <1>5, PairFacts
<1>7. ~(c.ok /\ d.ok) => Onward(Update(c, d, s)) = "finalize"
  BY <1>2, <1>3, StoppedState DEF Update
<1>8. /\ passed \in GraphState /\ passed.document_type = submission.header
      /\ passed.schema_valid /\ passed.deterministic_candidate_ready
      /\ passed.failure_code = "none" /\ ~passed.release_allowed
      /\ passed.classified = state.classified
  BY <1>2 DEF GraphState
<1>9. /\ blocked \in GraphState /\ blocked.document_type = submission.header
      /\ ~blocked.schema_valid /\ blocked.failure_code = code /\ ~blocked.release_allowed
  <2> DEFINE t == SafeStop(state, code)
  <2> HIDE DEF code
  <2>1. /\ t \in GraphState /\ t.failure_code = code /\ ~t.release_allowed
        /\ t.document_type = submission.header
    BY <1>2, <1>3, StoppedState
  <2>2. QED
    BY <2>1 DEF GraphState
<1>10. artifact' \in Artifact /\ (holds => UNCHANGED artifact)
  BY <1>1, <1>2 DEF Artifact
<1>11. ASSUME c.ok, d.ok, state' = s, pc' = Onward(Update(c, d, s)),
              UNCHANGED <<submission, outcome, span_open>>
       PROVE  IInv'
  <2>1. audit' \in Log /\ Extends(audit, audit') /\ ~audit'.failed
        /\ Errors(audit', {"none", ended.error})
        /\ (ended = Approved[n + 2] => Verified(audit', n + 2))
    BY <1>6, <1>11 DEF PairLeaves
  <2>2. pc' = Onward(s)
    BY <1>11 DEF Update
  <2>3. CASE holds
    <3>1. state' = passed /\ pc' = "evidence_guard"
      BY <1>8, <1>11, <2>2, <2>3
    <3>2. Verified(audit', 9)
      BY <1>5, <2>1, <2>3 DEF n
    <3> HIDE DEF passed, s
    <3>3. SchemaHolds(artifact.candidate)'
      BY <1>2, <1>8, <1>10, <2>3, <3>1 DEF holds, SchemaHolds
    <3>4. Approval' /\ Blamed'
      BY <3>1 DEF Approval, Blamed
    <3>5. QED
      BY <1>2, <1>8, <1>10, <1>11, <2>1, <2>3, <3>1, <3>2, <3>3, <3>4, NodeInvariant
         DEF Node5, Later
  <2>4. CASE ~holds
    <3>1. state' = blocked /\ pc' = "finalize"
      BY <1>9, <1>11, <2>2, <2>4
    <3> HIDE DEF blocked, s
    <3>2. Errors(audit', {"none", state'.failure_code})
      BY <1>5, <1>9, <2>1, <2>4, <3>1
    <3>3. AuditTold(audit', state'.failure_code)
      BY <1>9, <2>1, <3>1 DEF AuditTold
    <3>4. QED
      BY <1>2, <1>9, <1>10, <1>11, <2>1, <3>1, <3>2, <3>3, NodeFails
  <2>5. QED
    BY <2>3, <2>4
<1> HIDE DEF s, Onward
<1>12. n \in Nat
  BY <1>5
<1>13. QED
  BY <1>1, <1>2, <1>6, <1>7, <1>10, <1>11, <1>12, NodeStep

\* What the evidence guard lets pass is what the outcome's validation admits.
LEMMA GuardedIsSound ==
  ASSUME IInv, pc = "evidence_guard", GuardFailures(artifact.candidate) = {}
  PROVE  Guarded(artifact.candidate) \in Candidate /\ Sound(Guarded(artifact.candidate))
<1> DEFINE x == artifact.candidate
<1>1. /\ x \in CandidateGiven /\ x \in Candidate /\ SchemaHolds(x)
      /\ state.document_type = submission.header
  BY CandidateAssumption DEF IInv, Placed, Later
<1>2. x # NoExtraction /\ x.document_type = submission.header
      /\ x.classification = submission.header /\ x.document_id = StoredId
  BY <1>1 DEF SchemaHolds
<1>3. x.supported /\ x.targets = {x.document_id}
  <2>1. "unsupported_required_field" \notin GuardFailures(x)
        /\ "evidence_validation_failed" \notin GuardFailures(x)
    OBVIOUS
  <2> HIDE DEF x
  <2>2. QED
    BY <1>2, <2>1 DEF GuardFailures
<1> HIDE DEF x
<1>4. /\ Guarded(x) \in Candidate /\ Guarded(x).evidence_guard_passed
      /\ Guarded(x).document_type = x.document_type
      /\ Guarded(x).classification = x.classification
      /\ Guarded(x).supported = x.supported /\ Guarded(x).targets = x.targets
      /\ Guarded(x).document_id = x.document_id
  BY <1>1 DEF Guarded, Candidate
<1>5. Guarded(x) # NoExtraction
  <2>1. DOMAIN NoExtraction = {"none"}
    BY DEF NoExtraction
  <2>2. "none" \notin DOMAIN Guarded(x)
    BY <1>4 DEF Candidate
  <2>3. QED
    BY <2>1, <2>2
<1>6. Sound(Guarded(x))
  BY <1>1, <1>2, <1>3, <1>4, <1>5 DEF Sound, CrossesBoundary
<1>7. QED
  BY <1>4, <1>6 DEF x

LEMMA GuardPassesInvariant == IInv /\ GuardPasses => IInv'
<1> SUFFICES ASSUME IInv, GuardPasses PROVE IInv'
  OBVIOUS
<1> DEFINE n == 9
           x == Guarded(artifact.candidate)
           begun == Event("evidence_check_started", "started", "none")
           ended == Event("release_approved", "succeeded", "none")
           s == [state EXCEPT !.validated_extraction_ready = TRUE,
                              !.deterministic_candidate_ready = FALSE,
                              !.evidence_valid = TRUE, !.release_allowed = TRUE,
                              !.failure_code = "none"]
<1>1. PICK c \in Call, d \in Call :
        /\ audit' = Pair(audit, c, begun, d, ended)
        /\ artifact' = IF c.ok THEN [candidate |-> NoExtraction, validated |-> x]
                       ELSE artifact
        /\ Leave(Update(c, d, s), "finalize")
  BY DEF GuardPasses, Audited, Pair
<1>2. /\ pc = "evidence_guard" /\ pc \in Node5 /\ UNCHANGED emitted
      /\ audit \in Log /\ artifact \in Artifact
      /\ state \in GraphState /\ state.document_type = submission.header
      /\ Verified(audit, n)
  BY Typed DEF GuardPasses, IInv, TypeOK, Placed, OnTrack, Node5, Artifact, Later
<1>3. x \in Candidate /\ Sound(x)
  BY <1>2, GuardedIsSound DEF GuardPasses
<1>4. begun \in Record /\ ended \in Record
  BY ProgressRecorded DEF Action
<1>5. /\ n \in 0 .. 10 /\ begun = Approved[n + 1] /\ ended = Approved[n + 2]
      /\ ended.error = "none"
  BY DEF Approved, Event
<1> HIDE DEF n, begun, ended, x
<1>6. PairLeaves(audit, n, c.ok /\ d.ok, ended, audit')
  BY <1>1, <1>2, <1>4, <1>5, PairFacts
<1>7. /\ s \in GraphState /\ s.document_type = submission.header
      /\ s.validated_extraction_ready /\ s.failure_code = "none"
  BY <1>2 DEF GraphState
<1>8. artifact' \in Artifact
  BY <1>1, <1>2, <1>3 DEF Artifact
<1>9. ASSUME c.ok, d.ok, state' = s, pc' = "finalize",
             UNCHANGED <<submission, outcome, span_open>>
      PROVE  IInv'
  <2>1. /\ audit' \in Log /\ Extends(audit, audit') /\ ~audit'.failed
        /\ Errors(audit', {"none", ended.error}) /\ Verified(audit', n + 2)
    BY <1>5, <1>6, <1>9 DEF PairLeaves
  <2>2. Verified(audit', 11)
    BY <2>1 DEF n
  <2> HIDE DEF s
  <2>3. Approval'
    <3>1. artifact'.validated = x
      BY <1>1, <1>9
    <3>2. Sound(artifact.validated)'
      BY <1>3, <1>9, <3>1 DEF Sound
    <3>3. QED
      BY <1>7, <1>9, <3>2 DEF Approval
  <2>4. Blamed'
    <3>1. AuditTold(audit', state'.failure_code)
      BY <1>7, <1>9, <2>1 DEF AuditTold
    <3>2. Errors(audit', {"none", state'.failure_code})
      BY <1>5, <1>7, <1>9, <2>1
    <3>3. QED
      BY <1>9, <3>1, <3>2 DEF Blamed
  <2>5. QED
    BY <1>2, <1>7, <1>8, <1>9, <2>1, <2>2, <2>3, <2>4, NodeInvariant DEF Node5, Later
<1> HIDE DEF s
<1>10. n \in Nat
  BY <1>5
<1>11. QED
  BY <1>1, <1>2, <1>6, <1>8, <1>9, <1>10, NodeStep

LEMMA GuardBlocksInvariant == IInv /\ GuardBlocks => IInv'
<1> SUFFICES ASSUME IInv, GuardBlocks PROVE IInv'
  OBVIOUS
<1> DEFINE n == 9
           begun == Event("evidence_check_started", "started", "none")
           Blocked(code) == [SafeStop(state, code) EXCEPT
                               !.deterministic_candidate_ready = FALSE,
                               !.evidence_valid = FALSE]
<1>1. PICK c \in Call, d \in Call, code \in GuardFailures(artifact.candidate) :
        /\ audit' = Pair(audit, c, begun, d,
                         Event("evidence_check_completed", "blocked", code))
        /\ artifact' = IF c.ok THEN NoArtifact ELSE artifact
        /\ Leave(Update(c, d, Blocked(code)), "finalize")
  BY DEF GuardBlocks, Audited, Pair
<1> DEFINE ended == Event("evidence_check_completed", "blocked", code)
           s == Blocked(code)
<1>2. /\ pc = "evidence_guard" /\ pc \in Node5 /\ UNCHANGED emitted
      /\ audit \in Log /\ artifact \in Artifact
      /\ state \in GraphState /\ state.document_type = submission.header
      /\ Verified(audit, n)
  BY Typed DEF GuardBlocks, IInv, TypeOK, Placed, OnTrack, Node5, Artifact, Later
<1>3. code \in FailureCode /\ code \notin {"audit_write_failed", "invalid_input"}
  BY DEF GuardFailures, FailureCode
<1>4. begun \in Record /\ ended \in Record
  BY <1>3, ProgressRecorded, FailureRecorded DEF Action
<1>5. /\ n \in 0 .. 10 /\ begun = Approved[n + 1] /\ ended.error = code
  BY DEF Approved, Event
<1>6. /\ audit' = Pair(audit, c, begun, d, ended) /\ Leave(Update(c, d, s), "finalize")
  BY <1>1
<1> HIDE DEF n, begun, ended
<1>7. PairLeaves(audit, n, c.ok /\ d.ok, ended, audit')
  BY <1>2, <1>4, <1>5, <1>6, PairFacts
<1>8. /\ s \in GraphState /\ s.document_type = submission.header
      /\ s.failure_code = code /\ ~s.release_allowed
  <2>1. /\ SafeStop(state, code) \in GraphState
        /\ SafeStop(state, code).failure_code = code
        /\ ~SafeStop(state, code).release_allowed
        /\ SafeStop(state, code).document_type = submission.header
    BY <1>2, <1>3, StoppedState
  <2>2. QED
    BY <2>1 DEF GraphState
<1>9. artifact' \in Artifact
  BY <1>1, <1>2 DEF Artifact, NoArtifact
<1> HIDE DEF s
<1>10. ASSUME c.ok, d.ok, state' = s, pc' = "finalize",
              UNCHANGED <<submission, outcome, span_open>>
       PROVE  IInv'
  <2>1. /\ audit' \in Log /\ Extends(audit, audit') /\ ~audit'.failed
        /\ Errors(audit', {"none", ended.error})
    BY <1>7, <1>10 DEF PairLeaves
  <2>2. Errors(audit', {"none", state'.failure_code})
    BY <1>5, <1>8, <1>10, <2>1
  <2>3. AuditTold(audit', state'.failure_code)
    BY <1>3, <1>8, <1>10, <2>1 DEF AuditTold
  <2>4. QED
    BY <1>2, <1>3, <1>8, <1>9, <1>10, <2>1, <2>2, <2>3, NodeFails
<1>11. n \in Nat
  BY <1>5
<1>12. QED
  BY <1>2, <1>6, <1>7, <1>9, <1>10, <1>11, NodeStep

\* The end of the graph.
LEMMA EndedInvariant ==
  ASSUME IInv, pc = "finalize", pc' = "ended",
         UNCHANGED <<submission, outcome, span_open>>,
         audit' \in Log, emitted' \in Seq(Sink), ToldLate(emitted', audit'),
         artifact' \in Artifact, state' \in GraphState,
         state'.document_type \in {"unknown", submission.header},
         state'.failure_code # "invalid_input",
         state'.release_allowed =>
           Verified(audit', 12) /\ emitted' = <<"input_validated", "workflow_completed">>,
         Approval', Blamed'
  PROVE  IInv'
<1>1. outcome = [kind |-> "running", review |-> NoOutcome] /\ submission.valid
  BY DEF IInv, Placed, Node5
<1>2. TypeOK'
  BY DEF IInv, TypeOK, Log, Sink, Artifact
<1>3. OnTrack' /\ SinkIsTold'
  BY <1>1 DEF OnTrack, SinkIsTold, Node5, NoOutcome
<1>4. Placed'
  BY <1>1 DEF Placed, Later, Node5, BeforeClassification
<1>5. Settled'
  BY DEF Settled
<1>6. QED
  BY <1>2, <1>3, <1>4, <1>5 DEF IInv

\* What the terminal record says, and what it is recorded after.
LEMMA CompletedFacts ==
  ASSUME IInv, pc = "finalize"
  PROVE  /\ Completed \in Record /\ Completed.action \in Decisive
         /\ Completed.error # "invalid_input"
         /\ Completed.error \in FailureCode \cup {"none"}
         /\ Releasable =>
              /\ Completed = Approved[12] /\ Completed.error = "none"
              /\ Verified(audit, 11) /\ state.release_allowed
         /\ ~Releasable =>
              /\ Completed.status # "succeeded" /\ Completed.error # "none"
              /\ AuditTold(audit, Completed.error)
              /\ Completed.error = "internal_failure"
                   \/ Errors(audit, {"none", Completed.error}) \/ audit.failed
<1> DEFINE code == IF state.failure_code = "none" THEN "internal_failure"
                   ELSE state.failure_code
<1>1. state.failure_code \in FailureCode \cup {"none"} /\ state.failure_code # "invalid_input"
  BY DEF IInv, TypeOK, GraphState, Placed
<1>2. "internal_failure" \in FailureCode
  BY DEF FailureCode
<1>3. code \in FailureCode /\ code # "none" /\ code # "invalid_input"
  BY <1>1, <1>2 DEF FailureCode
<1>4. AuditTold(audit, code) /\ (code = "internal_failure"
                                 \/ Errors(audit, {"none", code}) \/ audit.failed)
  BY <1>1 DEF IInv, Blamed, AuditTold
<1>5. CASE Releasable
  <2>1. Completed = Event("workflow_completed", "succeeded", "none")
    BY <1>5 DEF Completed
  <2>2. Completed \in Record
    BY <2>1, ProgressRecorded DEF Action
  <2>3. Completed = Approved[12]
    BY <2>1 DEF Approved
  <2>4. state.release_allowed /\ Verified(audit, 11)
    BY <1>5 DEF Releasable, IInv, OnTrack
  <2>5. Completed.action \in Decisive /\ Completed.error = "none"
    BY <2>1 DEF Event, Decisive
  <2>6. QED
    BY <1>5, <2>2, <2>3, <2>4, <2>5
<1>6. CASE ~Releasable
  <2>1. Completed = Event("workflow_completed", "human_review", code)
    BY <1>6 DEF Completed
  <2> HIDE DEF code
  <2>2. Completed \in Record
    BY <1>3, <2>1, FailureRecorded DEF Action
  <2>3. /\ Completed.action = "workflow_completed" /\ Completed.error = code
        /\ Completed.status = "human_review"
    BY <2>1 DEF Event
  <2>4. QED
    BY <1>3, <1>4, <1>6, <2>2, <2>3 DEF Decisive
<1>7. QED
  BY <1>5, <1>6

LEMMA FinalState ==
  ASSUME state \in GraphState, NEW release \in BOOLEAN, NEW code \in FailureCode \cup {"none"}
  PROVE  /\ Final(release, code) \in GraphState
         /\ Final(release, code).document_type = state.document_type
         /\ Final(release, code).release_allowed = release
         /\ Final(release, code).validated_extraction_ready = release
         /\ Final(release, code).failure_code = code
BY DEF Final, GraphState

LEMMA FinalizeInvariant == IInv /\ Finalize => IInv'
<1> SUFFICES ASSUME IInv, Finalize PROVE IInv'
  OBVIOUS
<1> DEFINE blocked == Event("release_blocked", "blocked", "unsafe_configuration")
<1>1. PICK c \in Call, d \in Call, e \in Call :
        LET recorded == Recorded(audit, Completed, c)
            telling == Releasable /\ c.ok
            refused == telling /\ ~d.ok
            released == telling /\ d.ok
            code == IF ~c.ok \/ (refused /\ ~e.ok) THEN "audit_write_failed"
                    ELSE IF refused THEN "unsafe_configuration" ELSE Completed.error IN
        /\ audit' = IF refused THEN Recorded(recorded, blocked, e) ELSE recorded
        /\ emitted' = IF telling THEN Seen("workflow_completed", d) ELSE emitted
        /\ artifact' = IF released THEN artifact ELSE NoArtifact
        /\ Leave(Final(released, code), "ended")
  BY DEF Finalize
<1> DEFINE recorded == Recorded(audit, Completed, c)
           telling == Releasable /\ c.ok
           refused == telling /\ ~d.ok
           released == telling /\ d.ok
           code == IF ~c.ok \/ (refused /\ ~e.ok) THEN "audit_write_failed"
                   ELSE IF refused THEN "unsafe_configuration" ELSE Completed.error
<1>2. /\ audit' = IF refused THEN Recorded(recorded, blocked, e) ELSE recorded
      /\ emitted' = IF telling THEN Seen("workflow_completed", d) ELSE emitted
      /\ artifact' = IF released THEN artifact ELSE NoArtifact
      /\ Leave(Final(released, code), "ended")
  BY <1>1
<1>3. /\ pc = "finalize" /\ pc \in Node5 /\ submission.valid
      /\ audit \in Log /\ emitted \in Seq(Sink) /\ artifact \in Artifact
      /\ state \in GraphState /\ state.document_type \in {"unknown", submission.header}
      /\ span_open \in BOOLEAN
      /\ emitted = <<"input_validated">> /\ ToldLate(emitted, audit)
      /\ UNCHANGED <<submission, outcome>>
  BY <1>2, Typed DEF Finalize, Leave, IInv, TypeOK, Placed, SinkIsTold, Node5, Artifact
<1>4. /\ Completed \in Record /\ Completed.action \in Decisive
      /\ Completed.error \in FailureCode \cup {"none"}
      /\ Completed.error # "invalid_input"
      /\ Releasable => /\ Completed = Approved[12] /\ Completed.error = "none"
                       /\ Verified(audit, 11) /\ state.release_allowed
      /\ ~Releasable => /\ Completed.status # "succeeded" /\ Completed.error # "none"
                        /\ AuditTold(audit, Completed.error)
                        /\ Completed.error = "internal_failure"
                             \/ Errors(audit, {"none", Completed.error}) \/ audit.failed
  BY <1>3, CompletedFacts
<1>5. c.ok \in BOOLEAN /\ d.ok \in BOOLEAN /\ e.ok \in BOOLEAN /\ Releasable \in BOOLEAN
  BY DEF Call, Releasable
<1>6. "audit_write_failed" \in FailureCode /\ "unsafe_configuration" \in FailureCode
  BY DEF FailureCode
<1>7. blocked \in Record
  BY <1>6, FailureRecorded DEF Action
<1>8. blocked.action \in Decisive /\ blocked.error = "unsafe_configuration"
      /\ blocked.status # "succeeded"
  BY DEF Event, Decisive
<1>9. /\ recorded \in Log /\ Extends(audit, recorded)
      /\ recorded.failed <=> audit.failed \/ ~c.ok
  BY <1>3, <1>4, RecordedFacts
<1>10. telling => Verified(recorded, 12)
  <2> SUFFICES ASSUME telling PROVE Verified(recorded, 12)
    OBVIOUS
  <2> DEFINE n == 11
  <2>1. n \in 0 .. 11 /\ Verified(audit, n) /\ Completed = Approved[n + 1]
    BY <1>4
  <2> HIDE DEF n
  <2>2. Verified(recorded, n + 1)
    BY <1>3, <1>4, <2>1, VerifiedOneMore
  <2>3. QED
    BY <2>2 DEF n
<1>11. code \in FailureCode \cup {"none"} /\ code # "invalid_input"
  BY <1>4, <1>6
<1> HIDE DEF blocked, recorded
<1>12. /\ audit' \in Log /\ Extends(recorded, audit')
       /\ audit'.failed <=> recorded.failed \/ (refused /\ ~e.ok)
  <2>1. CASE refused
    BY <1>2, <1>7, <1>9, <2>1, RecordedFacts
  <2>2. CASE ~refused
    BY <1>2, <1>9, <2>2 DEF Extends
  <2>3. QED
    BY <2>1, <2>2
<1>13. Extends(audit, audit')
  BY <1>3, <1>9, <1>12, ExtendsTransitive
<1>14. emitted' \in Seq(Sink) /\ ToldLate(emitted', audit')
  <2>1. CASE telling
    <3>1. emitted' \in Seq(Sink)
      BY <1>2, <1>3, <2>1, SeenFacts DEF Sink
    <3>2. ToldLate(emitted', recorded)
      BY <1>10, <2>1, VerifiedMayBeTold
    <3>3. QED
      BY <1>9, <1>12, <3>1, <3>2, ToldLateExtends
  <2>2. CASE ~telling
    BY <1>2, <1>3, <1>12, <1>13, <2>2, ToldLateExtends
  <2>3. QED
    BY <2>1, <2>2
<1>15. artifact' \in Artifact
  BY <1>2, <1>3 DEF Artifact, NoArtifact
<1>16. CASE UNCHANGED state /\ pc' = "escaped" /\ span_open' \in {span_open, TRUE}
  <2>1. span_open' \in BOOLEAN
    BY <1>3, <1>16
  <2>2. QED
    BY <1>3, <1>12, <1>14, <1>15, <1>16, <2>1, EscapedInvariant
<1>17. CASE state' = Final(released, code) /\ pc' = "ended" /\ UNCHANGED span_open
  <2>1. released \in BOOLEAN
    BY <1>5
  <2> HIDE DEF code
  <2>2. /\ state' \in GraphState /\ state'.document_type = state.document_type
        /\ state'.release_allowed = released
        /\ state'.validated_extraction_ready = released
        /\ state'.failure_code = code
    BY <1>3, <1>11, <1>17, <2>1, FinalState
  <2>3. CASE released
    <3>1. /\ UNCHANGED artifact /\ audit' = recorded /\ code = "none"
          /\ emitted' = Seen("workflow_completed", d)
      BY <1>2, <1>4, <2>3 DEF code
    <3>2. emitted' = Append(emitted, "workflow_completed")
      BY <1>3, <2>3, <3>1, SeenFacts DEF Sink
    <3>3. emitted' = <<"input_validated", "workflow_completed">>
      <4>1. emitted = <<"input_validated">>
        BY <1>3
      <4>2. Append(<<"input_validated">>, "workflow_completed")
              = <<"input_validated", "workflow_completed">>
        <5> DEFINE t == Append(<<"input_validated">>, "workflow_completed")
                   u == <<"input_validated", "workflow_completed">>
        <5>1. t \in Seq(Sink) /\ Len(t) = 2 /\ t[1] = "input_validated"
              /\ t[2] = "workflow_completed"
          BY AppendProperties DEF Sink
        <5>2. u \in Seq(Sink) /\ Len(u) = 2 /\ u[1] = "input_validated"
              /\ u[2] = "workflow_completed"
          BY DEF Sink
        <5> HIDE DEF t, u
        <5>3. \A i \in 1 .. Len(t) : t[i] = u[i]
          BY <5>1, <5>2
        <5>4. t = u
          BY <5>1, <5>2, <5>3, SeqEqual
        <5>5. QED
          BY <5>4 DEF t, u
      <4>3. QED
        BY <3>2, <4>1, <4>2, Zenon
    <3>4. Verified(audit', 12)
      BY <1>10, <2>3, <3>1
    <3>5. /\ state.document_type = submission.header /\ Sound(artifact.validated)
      BY <1>3, <1>4, <2>3 DEF IInv, Approval
    <3>6. Approval'
      BY <1>3, <2>2, <2>3, <3>1, <3>5 DEF Approval, Sound
    <3>7. Blamed'
      BY <1>17, <2>2, <2>3 DEF Blamed
    <3>8. QED
      BY <1>3, <1>11, <1>12, <1>14, <1>15, <1>17, <2>2, <3>3, <3>4, <3>6, <3>7,
         EndedInvariant
  <2>4. CASE ~released
    <3>1. Approval'
      BY <2>2, <2>4 DEF Approval
    <3>2. code # "none" /\ AuditTold(audit', code)
      <4>1. CASE ~c.ok \/ (refused /\ ~e.ok)
        BY <1>9, <1>12, <4>1 DEF AuditTold, code
      <4>2. CASE refused /\ c.ok /\ e.ok
        <5>1. ~audit.failed
          BY <1>4, <4>2 DEF Verified
        <5>2. QED
          BY <1>9, <1>12, <4>2, <5>1 DEF AuditTold, code
      <4>3. CASE c.ok /\ ~refused
        BY <1>4, <1>9, <1>12, <2>4, <4>3 DEF AuditTold, code
      <4>4. QED
        BY <1>5, <4>1, <4>2, <4>3
    <3>3. ASSUME ~audit'.failed PROVE LastTells(audit', code, FALSE)
      <4>1. c.ok /\ ~audit.failed /\ (refused => e.ok)
        BY <1>5, <1>9, <1>12, <3>3
      <4>2. CASE refused
        <5>1. audit' = Recorded(recorded, blocked, e) /\ code = "unsafe_configuration"
          BY <1>2, <4>1, <4>2 DEF code
        <5>2. Errors(recorded, {"none"})
          BY <1>10, <4>2, VerifiedTellsNoError
        <5>3. Errors(recorded, {"none", code})
          BY <5>2 DEF Errors
        <5>4. QED
          BY <1>7, <1>8, <1>9, <4>1, <4>2, <5>1, <5>3, DecisiveTold
      <4>3. CASE ~refused
        <5>1. audit' = recorded /\ code = Completed.error /\ ~Releasable
          BY <1>2, <2>4, <4>1, <4>3 DEF code
        <5>2. code = "internal_failure" \/ Errors(audit, {"none", code})
          BY <1>4, <4>1, <5>1
        <5>3. LastTells(Recorded(audit, Completed, c), code, FALSE)
          BY <1>3, <1>4, <4>1, <5>1, <5>2, DecisiveTold
        <5>4. QED
          BY <5>1, <5>3 DEF recorded
      <4>4. QED
        BY <4>2, <4>3
    <3>4. Blamed'
      BY <1>17, <2>2, <3>2, <3>3 DEF Blamed
    <3>5. QED
      BY <1>3, <1>11, <1>12, <1>14, <1>15, <1>17, <2>2, <2>4, <3>1, <3>4, EndedInvariant
  <2>5. QED
    BY <2>3, <2>4
<1>18. QED
  BY <1>2, <1>16, <1>17 DEF Leave

-----------------------------------------------------------------------------
(***************************************************************************)
(* The theorems.                                                           *)
(***************************************************************************)
LEMMA StepInvariant == IInv /\ [Next]_vars => IInv'
<1> SUFFICES ASSUME IInv, [Next]_vars PROVE IInv'
  OBVIOUS
<1>1. CASE Preflight
  BY <1>1, PreflightInvariant
<1>2. CASE Intake
  BY <1>2, IntakeInvariant
<1>3. CASE InputRejected
  BY <1>3, InputRejectedInvariant
<1>4. CASE Storage
  BY <1>4, StorageInvariant
<1>5. CASE Telemetry
  BY <1>5, TelemetryInvariant
<1>6. CASE EnterGraph \/ GraphRefused
  BY <1>6, InvokeInvariant
<1>7. CASE Classify
  BY <1>7, ClassifyInvariant
<1>8. CASE Extract
  BY <1>8, ExtractInvariant
<1>9. CASE ExtractFails
  BY <1>9, ExtractFailsInvariant
<1>10. CASE ExtractRaises
  BY <1>10, ExtractRaisesInvariant
<1>11. CASE SchemaValidate
  BY <1>11, SchemaInvariant
<1>12. CASE GuardPasses
  BY <1>12, GuardPassesInvariant
<1>13. CASE GuardBlocks
  BY <1>13, GuardBlocksInvariant
<1>14. CASE Finalize
  BY <1>14, FinalizeInvariant
<1>15. CASE GraphEnded
  BY <1>15, GraphEndedInvariant
<1>16. CASE GraphEscaped
  BY <1>16, GraphEscapedInvariant
<1>17. CASE Close
  BY <1>17, CloseInvariant
<1>18. CASE Terminated \/ UNCHANGED vars
  BY <1>18, StutterInvariant DEF Terminated
<1>19. QED
  BY <1>1, <1>2, <1>3, <1>4, <1>5, <1>6, <1>7, <1>8, <1>9, <1>10, <1>11, <1>12,
     <1>13, <1>14, <1>15, <1>16, <1>17, <1>18 DEF Next

\* The invariant behind every theorem below.
THEOREM Invariance == Spec => []IInv
  BY InitInvariant, StepInvariant, PTL DEF Spec

\* Every record review() hands to the audit is one that the audit's schema admits
\* (a failure carries its code), whatever failed before it.
THEOREM TypeCorrectness == Spec => []TypeOK
<1>1. IInv => TypeOK
  BY DEF IInv
<1>2. QED
  BY <1>1, Invariance, PTL

LEMMA ApprovedTyped == Approved \in Seq(Record)
<1> DEFINE Started(a) == Event(a, "started", "none")
           Succeeded(a) == Event(a, "succeeded", "none")
<1>1. \A a \in Action : Started(a) \in Record /\ Succeeded(a) \in Record
  BY ProgressRecorded
<1> HIDE DEF Started, Succeeded
<1>2. << Started("input_received"), Succeeded("input_validated"),
         Succeeded("document_stored"), Started("classification_started"),
         Succeeded("classification_completed"), Started("extraction_started"),
         Succeeded("extraction_completed"), Started("validation_started"),
         Succeeded("validation_completed"), Started("evidence_check_started"),
         Succeeded("release_approved"), Succeeded("workflow_completed") >> \in Seq(Record)
  BY <1>1 DEF Action
<1>3. QED
  BY <1>2 DEF Approved, Started, Succeeded

\* A released document's audit file holds exactly the twelve records of a release,
\* verified one by one, and the sink hears of a success only after them: for every
\* order of failures of the audit, of the sink and of the spans.
THEOREM ReleasesAudited == Spec => []ReleaseIsAudited
<1>1. IInv => ReleaseIsAudited
  <2> SUFFICES ASSUME IInv PROVE ReleaseIsAudited
    OBVIOUS
  <2>1. audit \in Log
    BY Typed DEF IInv
  <2>2. Len(audit.trail) \in Nat /\ audit.trail \in Seq(Record)
    BY <2>1 DEF Log
  <2>3. Len(Approved) = 12
    BY ApprovedRecords
  <2>4. ASSUME outcome.review.released
        PROVE  /\ audit = [trail |-> Approved, failed |-> FALSE]
               /\ emitted = <<"input_validated", "workflow_completed">>
    <3>1. Verified(audit, 12) /\ emitted = <<"input_validated", "workflow_completed">>
      BY <2>4 DEF IInv, OnTrack, SinkIsTold
    <3>2. /\ audit.failed = FALSE /\ Len(audit.trail) = 12
          /\ \A i \in 1 .. 12 : audit.trail[i] = Approved[i]
      BY <3>1 DEF Verified
    <3>3. audit.trail = Approved
      BY <2>2, <2>3, <3>2, ApprovedTyped, SeqEqual
    <3>4. QED
      BY <2>1, <3>1, <3>2, <3>3 DEF Log
  <2>5. ASSUME NEW i \in 1 .. Len(emitted), emitted[i] = "workflow_completed"
        PROVE  /\ Len(audit.trail) >= Len(Approved)
               /\ SubSeq(audit.trail, 1, Len(Approved)) = Approved
    <3> DEFINE told == SubSeq(audit.trail, 1, 12)
    <3>1. Len(audit.trail) >= 12 /\ \A j \in 1 .. 12 : audit.trail[j] = Approved[j]
      BY <2>5 DEF IInv, SinkIsTold, ToldLate
    <3>2. \A j \in 1 .. 12 : audit.trail[j] \in Record
      BY <2>2, <3>1
    <3>3. /\ told \in Seq(Record)
          /\ Len(told) = IF 1 <= 12 THEN 12 - 1 + 1 ELSE 0
          /\ \A j \in 1 .. 12 - 1 + 1 : told[j] = audit.trail[1 + j - 1]
      BY <3>2, SubSeqProperties
    <3> HIDE DEF told
    <3>4. Len(told) = 12 /\ \A j \in 1 .. 12 : told[j] = audit.trail[j]
      BY <3>3
    <3>5. told = Approved
      BY <2>3, <3>1, <3>3, <3>4, ApprovedTyped, SeqEqual
    <3>6. QED
      BY <2>3, <3>1, <3>5 DEF told
  <2>6. QED
    BY <2>4, <2>5 DEF ReleaseIsAudited
<1>2. QED
  BY <1>1, Invariance, PTL

\* When the graph ends with permission to release, what is released passes the
\* public outcome's own validation, and belongs to the stored document.
THEOREM ReleasesCrossTheBoundary == Spec => []ReleaseCrossesTheBoundary
<1>1. IInv => ReleaseCrossesTheBoundary
  BY DEF IInv, Approval, Sound, ReleaseCrossesTheBoundary
<1>2. QED
  BY <1>1, Invariance, PTL

\* The last record of a returned review is its decision, with the outcome's code,
\* unless a record failed, or the sink refused the news of a rejection.
THEOREM TrailsTellTheOutcome == Spec => []TrailTellsTheOutcome
<1>1. IInv => TrailTellsTheOutcome
  <2> SUFFICES ASSUME IInv, outcome.kind = "returned", ~audit.failed
               PROVE  TrailTellsTheOutcome
    BY DEF TrailTellsTheOutcome
  <2> DEFINE trail == audit.trail
             last == trail[Len(trail)]
             code == outcome.review.failure_code
             codes == {trail[i].error : i \in 1 .. Len(trail)} \ {"none"}
  <2>1. pc \in {"close", "done"}
    BY DEF IInv, Placed
  <2>2. TrailTold(audit, code, outcome.review.released)
    BY <2>1 DEF IInv, Settled
  <2>3. CASE LastTells(audit, code, outcome.review.released)
    <3>1. /\ last.action \in {"workflow_completed", "workflow_failed", "release_blocked",
                              "input_rejected"}
          /\ last.error = code
          /\ last.status = "succeeded" <=> outcome.review.released
      BY <2>3 DEF LastTells, Decisive
    <3>2. codes \subseteq {code} \/ code = "internal_failure"
      BY <2>3 DEF LastTells, Errors
    <3>3. QED
      BY <3>1, <3>2 DEF TrailTellsTheOutcome
  <2>4. CASE last.action = "input_rejected" /\ code = "unsafe_configuration"
    BY <2>4 DEF TrailTellsTheOutcome
  <2>5. QED
    BY <2>2, <2>3, <2>4 DEF TrailTold
<1>2. QED
  BY <1>1, Invariance, PTL

\* A failed record is what a returned review tells, unless an exception ended the
\* graph, and a failed audit is never blamed for what it did not do.
THEOREM AuditFailuresTold == Spec => []AuditFailureIsTold
<1>1. IInv => AuditFailureIsTold
  <2> SUFFICES ASSUME IInv, outcome.kind = "returned" PROVE AuditFailureIsTold
    BY DEF AuditFailureIsTold
  <2>1. pc \in {"close", "done"}
    BY DEF IInv, Placed
  <2>2. QED
    BY <2>1 DEF IInv, Settled, AuditTold, AuditFailureIsTold
<1>2. QED
  BY <1>1, Invariance, PTL

\* No private artifact outlives the answer, whichever way the graph was left.
THEOREM ArtifactsAreDropped == Spec => []ArtifactsDropped
<1>1. IInv => ArtifactsDropped
  BY DEF IInv, Placed, ArtifactsDropped
<1>2. QED
  BY <1>1, Invariance, PTL

\* A step of review() answers its contract, or does not show.
LEMMA StepRefines == IInv /\ IInv' /\ [Next]_vars => [Contract!Answer]_(Contract!vars)
<1> SUFFICES ASSUME IInv, IInv', [Next]_vars PROVE [Contract!Answer]_(Contract!vars)
  OBVIOUS
<1> DEFINE reply == IF pc = "done" THEN outcome ELSE NoReply
<1>1. UNCHANGED submission
  <2>1. CASE Preflight \/ Intake \/ InputRejected \/ Storage \/ Telemetry \/ EnterGraph
             \/ GraphRefused \/ GraphEnded \/ GraphEscaped \/ Close
    BY <2>1 DEF Preflight, Intake, InputRejected, Storage, Telemetry, EnterGraph,
       GraphRefused, GraphEnded, GraphEscaped, Close
  <2>2. CASE Classify \/ Extract \/ ExtractFails \/ ExtractRaises
             \/ SchemaValidate \/ GuardPasses \/ GuardBlocks \/ Finalize
    BY <2>2 DEF Classify, Extract, ExtractFails, ExtractRaises, SchemaValidate,
       GuardPasses, GuardBlocks, Finalize, Leave
  <2>3. CASE Terminated \/ UNCHANGED vars
    BY <2>3 DEF Terminated, vars
  <2>4. QED
    BY <2>1, <2>2, <2>3 DEF Next
<1>2. CASE pc = "done"
  <2>1. UNCHANGED vars
    BY <1>2 DEF Next, Preflight, Intake, InputRejected, Storage, Telemetry, EnterGraph,
       GraphRefused, GraphEnded, GraphEscaped, Close, Classify, Extract, ExtractFails,
       ExtractRaises, SchemaValidate, GuardPasses, GuardBlocks, Finalize, Terminated
  <2>2. QED
    BY <2>1 DEF vars, Contract!vars
<1>3. CASE pc # "done" /\ pc' = "done"
  <2>1. outcome' \in DocumentReplies(submission)
    <3>1. outcome' \in [kind : {"running", "returned", "raised"}, review : Outcome]
      BY DEF IInv, TypeOK
    <3>2. outcome' = [kind |-> outcome'.kind, review |-> outcome'.review]
      BY <3>1
    <3>3. outcome'.kind \in {"returned", "raised"}
      BY <1>3, <3>1 DEF IInv, Placed
    <3>4. CASE outcome'.kind = "raised"
      <4>1. outcome' = [kind |-> "raised", review |-> NoOutcome]
        BY <3>2, <3>4 DEF IInv, Placed, NoOutcome
      <4>2. QED
        BY <4>1 DEF DocumentReplies
    <3>5. CASE outcome'.kind = "returned"
      <4>1. [kind |-> "returned", review |-> outcome'.review] \in DocumentReplies(submission')
        BY <1>3, <3>5 DEF IInv, Settled
      <4>2. QED
        BY <1>1, <3>2, <3>5, <4>1
    <3>6. QED
      BY <3>3, <3>4, <3>5
  <2>2. Contract!Answer
    BY <1>1, <1>3, <2>1 DEF Contract!Answer
  <2>3. QED
    BY <2>2
<1>4. CASE pc # "done" /\ pc' # "done"
  BY <1>1, <1>4 DEF Contract!vars
<1>5. QED
  BY <1>2, <1>3, <1>4

\* review() implements its contract: one answer, that the submission allows.
THEOREM ContractKept == Spec => Contract!Init /\ [][Contract!Answer]_(Contract!vars)
<1>1. Init => Contract!Init
  BY DEF Init, Contract!Init
<1>2. QED
  BY <1>1, Invariance, StepRefines, PTL DEF Spec
=============================================================================
