----------------------------- MODULE MCIncomeReview -----------------------------
(***************************************************************************)
(* Agent 1 for TLC: pay stubs and W-2s that agree, that differ by a cent,  *)
(* of another year, of a year the evidence contract refuses or beyond the  *)
(* decimal context; a bank statement; and two failures.                    *)
(***************************************************************************)
EXTENDS IncomeReview

CONSTANTS d1, d2

MCExtraction(id, type, amount, year) ==
  [valid |-> TRUE, document_id |-> id, document_type |-> type,
   evidence_guard_passed |-> TRUE, supported |-> TRUE, targets |-> {id},
   amount |-> amount, calendar_year |-> year]

MCReleased ==
  { MCExtraction(d1, "pay_stub", 6000000, 2024),
    MCExtraction(d1, "pay_stub", 6000010, 2024),
    MCExtraction(d1, "pay_stub", 6000000, 1999),
    MCExtraction(d1, "tax_form", 72000000, 2024),
    MCExtraction(d2, "tax_form", 72000050, 2024),
    MCExtraction(d2, "tax_form", 72000000, 2023),
    MCExtraction(d2, "tax_form", 1200000000, 2024),
    MCExtraction(d2, "bank_statement", 6000000, 2024) }

MCAgent1Given ==
  {[released |-> TRUE, extraction |-> x, failure_code |-> "none"] : x \in MCReleased} \cup
  {[released |-> FALSE, extraction |-> [document_type |-> "unknown"], failure_code |-> code] :
     code \in {"unsupported_document_type", "audit_write_failed"}}
=============================================================================
