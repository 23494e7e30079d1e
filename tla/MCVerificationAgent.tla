--------------------------- MODULE MCVerificationAgent ---------------------------
(***************************************************************************)
(* Instances of Agent 2 for TLC: two sources that carry any two of the     *)
(* facts below.  72000.05 a year and 6000.00 a month agree after rounding; *)
(* 6000.01 a month does not; the last fact is beyond the decimal context.  *)
(***************************************************************************)
EXTENDS VerificationAgent

MCFact(type, amount, period, basis, year) ==
  [document_type |-> type, amount |-> amount, period |-> period,
   income_basis |-> basis, calendar_year |-> year]

MCOffer ==
  { MCFact("pay_stub", 6000000, "monthly", "gross", 2024),
    MCFact("pay_stub", 6000010, "monthly", "gross", 2024),
    MCFact("pay_stub", 6000000, "annual", "gross", 2024),
    MCFact("tax_form", 72000050, "annual", "gross", 2024),
    MCFact("tax_form", 72000000, "annual", "gross", 2023),
    MCFact("tax_form", 72000000, "annual", "taxable", 2024),
    MCFact("tax_form", 1200000000, "annual", "gross", 2024),
    MCFact("bank_statement", 6000000, "monthly", "gross", 2024) }
=============================================================================
