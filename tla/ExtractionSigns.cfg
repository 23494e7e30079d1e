\* The documents of ExtractionCheck.cfg; an integer loses its sign.
CONSTANTS
  FieldName = {"employee_name", "income", "tax_year"}
  Fields <- MCFields
  KindOf <- MCKindOf
  DocumentGiven <- MCDocumentGiven
  ClaimGiven <- MCClaimGiven
  ValueGiven <- MCValueGiven
SPECIFICATION Spec
CHECK_DEADLOCK FALSE
INVARIANT ValueIsExactlyRepresented
