\* Agent 2 with the source's budgets: 4 tool calls, 5 decisions, 1 retry.
CONSTANTS
  Source = {s1, s2}
  UnknownRef = unknown_ref
  Offer <- MCOffer
  DecimalLimit = 1000000
  MAX_VERIFICATION_TOOL_CALLS = 4
  MAX_VERIFICATION_MODEL_DECISIONS = 5
  MAX_INVALID_DECISIONS = 1
  AGENT2_GRAPH_RECURSION_LIMIT = 20
SPECIFICATION Spec
INVARIANTS
  NodeBudget
  VerdictFollowsEvidence
  FailureHasCause
PROPERTIES
  KeepsContract
