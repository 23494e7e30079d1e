\* One document review: every combination of audit, telemetry and trace faults.
CONSTANTS
  d1 = d1
  d2 = d2
  DocumentId = {d1, d2}
  StoredId = d1
  SubmissionGiven <- MCSubmissionGiven
  CandidateGiven <- MCCandidateGiven
SPECIFICATION Spec
INVARIANTS
  TypeOK
  ReleaseIsAudited
  ReleaseCrossesTheBoundary
  TrailTellsTheOutcome
  AuditFailureIsTold
  ArtifactsDropped
PROPERTIES
  KeepsContract
