\* The whole review, with the source's budgets for both agents.
CONSTANTS
  d1 = d1
  d2 = d2
  DocumentId = {d1, d2}
  Source = {"pay_stub", "tax_form"}
  Offer = {}
  DecimalLimit = 1000000
  Agent1Given <- MCAgent1Given
  MAX_VERIFICATION_TOOL_CALLS = 4
  MAX_VERIFICATION_MODEL_DECISIONS = 5
  MAX_INVALID_DECISIONS = 1
  MAX_CRITIC_MODEL_ATTEMPTS = 2
  MAX_CRITIC_REPAIR_ATTEMPTS = 1
SPECIFICATION Spec
INVARIANTS
  ReleaseIsEarned
  VerdictIsThePolicys
  FailureNamesTheStage
PROPERTIES
  InternalFailureIsATraceFault
  Termination
