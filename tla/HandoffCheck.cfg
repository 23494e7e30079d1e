\* Both assemblers over extraction pairs and Agent 2 results, well formed or not.
CONSTANTS
  d1 = d1
  d2 = d2
  DocumentId = {d1, d2}
  Source = {"pay_stub", "tax_form"}
  Offer = {}
  DecimalLimit = 1000000
  ExtractionGiven <- MCExtractionGiven
  ResultGiven <- MCResultGiven
  MAX_VERIFICATION_TOOL_CALLS = 4
  MAX_VERIFICATION_MODEL_DECISIONS = 5
  MAX_INVALID_DECISIONS = 1
  MAX_CRITIC_MODEL_ATTEMPTS = 2
  MAX_CRITIC_REPAIR_ATTEMPTS = 1
SPECIFICATION HandoffSpec
CHECK_DEADLOCK FALSE
INVARIANTS
  OrderDoesNotMatter
  RequestIsDecidable
  CriticRequestValidates
  CriticIsToldTheTruth
