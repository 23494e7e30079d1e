\* The documents of ExtractionCheck.cfg; the parser lets exceptions escape.
CONSTANTS
  FieldName = {"employee_name", "income", "tax_year"}
  Fields <- MCFields
  KindOf <- MCKindOf
  DocumentGiven <- MCDocumentGiven
  ClaimGiven <- MCClaimGiven
  ValueGiven <- MCValueGiven
SPECIFICATION Spec
CHECK_DEADLOCK FALSE
INVARIANT MalformedIsExplained
