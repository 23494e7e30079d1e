---------------------------- MODULE MCDocumentReview ----------------------------
(***************************************************************************)
(* Submissions and parser results for TLC: a sound extraction of two of    *)
(* the three types, and one extraction for each thing the gates check.     *)
(***************************************************************************)
EXTENDS DocumentReview

CONSTANTS d1, d2

MCSubmissionGiven == [valid : BOOLEAN, header : {"pay_stub", "tax_form", "unknown"}]

MCSound(type) ==
  [valid |-> TRUE, document_id |-> d1, document_type |-> type,
   classification |-> type, extraction_method |-> "deterministic_labels_v1",
   attempt_count |-> 0, supported |-> TRUE, targets |-> {d1}, intact |-> TRUE,
   evidence_guard_passed |-> FALSE]

MCCandidateGiven ==
  LET x == MCSound("pay_stub") IN
  { x, MCSound("tax_form"),
    [x EXCEPT !.valid = FALSE],
    [x EXCEPT !.document_id = d2, !.targets = {d2}],
    [x EXCEPT !.classification = "tax_form"],
    [x EXCEPT !.extraction_method = "other"],
    [x EXCEPT !.attempt_count = 1],
    [x EXCEPT !.supported = FALSE],
    [x EXCEPT !.supported = FALSE, !.intact = FALSE],
    [x EXCEPT !.targets = {d1, d2}] }
=============================================================================
