\* Documents of three short templates.
CONSTANTS
  FieldName = {"employee_name", "income", "tax_year"}
  Fields <- MCFields
  KindOf <- MCKindOf
  DocumentGiven <- MCDocumentGiven
  ClaimGiven <- MCClaimGiven
  ValueGiven <- MCValueGiven
SPECIFICATION Spec
CHECK_DEADLOCK FALSE
INVARIANTS
  ExtractedPassesTheGuard
  GuardAgreesWithParser
  GuardCatchesChange
  LinesMayMove
