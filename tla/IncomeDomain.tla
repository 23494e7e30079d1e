------------------------------ MODULE IncomeDomain ------------------------------
(***************************************************************************)
(* The closed vocabularies and the deterministic income arithmetic shared  *)
(* by Agent 2, Agent 3 and the handoffs between them                       *)
(* (financial_reviewer/agents/agent2_verification.py).                     *)
(*                                                                         *)
(* Source amounts are counted in mills (thousandths of the currency unit), *)
(* so that a Decimal with more digits than a cent is representable;        *)
(* normalized amounts are counted in cents.                                *)
(***************************************************************************)
EXTENDS Integers, ReviewVocabulary

CONSTANT
  DecimalLimit   \* least number of cents that no longer fits the 28 digits of
                 \* the default decimal context (10^28 in the code)

ASSUME DecimalLimitAssumption == DecimalLimit \in Nat \ {0}

IncomePeriod == {"monthly", "annual"}
IncomeBasis == {"gross", "taxable"}

ComparisonStatus == {"consistent", "inconsistent", "not_comparable"}
VerificationStatus == ComparisonStatus \cup {"insufficient_evidence", "failed"}

NotComparableReason ==
  {"income_basis_not_comparable", "income_period_not_comparable"}
VerificationReason ==
  NotComparableReason \cup
  {"exact_match", "income_values_inconsistent", "unsupported_document_combination"}

VerificationFailureCode ==
  {"model_decision_failed", "invalid_model_decision", "tool_call_limit_reached"}

\* One income fact: IncomeEvidence without its opaque references.
IncomeEvidence ==
  [document_type : DocumentType, amount : Nat, period : IncomePeriod,
   income_basis : IncomeBasis, calendar_year : Nat]

-----------------------------------------------------------------------------
(***************************************************************************)
(* The normalization tools.  A tool accepts one document type with one     *)
(* period.                                                                 *)
(***************************************************************************)
NormalizationTool == {"normalize_paystub_income", "normalize_w2_income"}

NormalizablePaystub(e) == e.document_type = "pay_stub" /\ e.period = "monthly"
NormalizableW2(e) == e.document_type = "tax_form" /\ e.period = "annual"

ToolAccepts(tool, e) ==
  \/ tool = "normalize_paystub_income" /\ NormalizablePaystub(e)
  \/ tool = "normalize_w2_income" /\ NormalizableW2(e)

Normalizable(e) == NormalizablePaystub(e) \/ NormalizableW2(e)

\* quantize(0.01, ROUND_HALF_UP) of the amount, or of a twelfth of it, both
\* nonnegative: ten mills to the cent, 120 mills a year to the cent a month.
MonthlyCents(e) ==
  IF e.document_type = "tax_form" THEN (e.amount + 60) \div 120
                                  ELSE (e.amount + 5) \div 10

\* Decimal.quantize raises InvalidOperation when the result needs more digits
\* than the context has.
Quantizes(e) == MonthlyCents(e) < DecimalLimit

-----------------------------------------------------------------------------
(***************************************************************************)
(* The exact comparison policy: basis first, then year, then the cents.    *)
(***************************************************************************)
\* Mutant: incomes of different years are compared.
ComparisonReasonAnyYear(left, right) ==
  IF left.income_basis # right.income_basis THEN "income_basis_not_comparable"
  ELSE IF MonthlyCents(left) = MonthlyCents(right) THEN "exact_match"
  ELSE "income_values_inconsistent"

ComparisonReason(left, right) ==
  IF left.income_basis # right.income_basis THEN "income_basis_not_comparable"
  ELSE IF left.calendar_year # right.calendar_year THEN "income_period_not_comparable"
  ELSE IF MonthlyCents(left) = MonthlyCents(right) THEN "exact_match"
  ELSE "income_values_inconsistent"

ResultOf(reason) ==
  IF reason = "exact_match" THEN "consistent"
  ELSE IF reason = "income_values_inconsistent" THEN "inconsistent"
  ELSE "not_comparable"

CompareIncome(left, right) ==
  [result |-> ResultOf(ComparisonReason(left, right)),
   reason |-> ComparisonReason(left, right)]

\* One pay stub and one W-2, whatever their order.
SupportedPair(types) == types = {"pay_stub", "tax_form"}
=============================================================================
