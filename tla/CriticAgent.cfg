\* Agent 3 with the source's budget: two attempts, the second a repair.
CONSTANTS
  MaxResponse = 1
  DecimalLimit = 1000000
  CriticRequestGiven <- MCRequestGiven
  MAX_CRITIC_MODEL_ATTEMPTS = 2
  MAX_CRITIC_REPAIR_ATTEMPTS = 1
SPECIFICATION Spec
INVARIANTS
  RepairNamesTheCause
  ResultTellsTheAnswers
PROPERTIES
  KeepsContract
