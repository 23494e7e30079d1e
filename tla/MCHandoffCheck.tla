----------------------------- MODULE MCHandoffCheck -----------------------------
EXTENDS HandoffCheck

CONSTANTS d1, d2

\* Every extraction with at most one defect.
MCExtractionGiven ==
  {x \in [valid : BOOLEAN, document_id : {d1, d2},
          document_type : {"bank_statement", "pay_stub", "tax_form"},
          evidence_guard_passed : BOOLEAN, supported : BOOLEAN,
          targets : SUBSET {d1, d2}, amount : {6000000, 6000010},
          calendar_year : {1999, 2024}] :
     Cardinality({check \in
       {<<"valid", x.valid>>, <<"guard", x.evidence_guard_passed>>,
        <<"supported", x.supported>>, <<"own", x.targets = {x.document_id}>>,
        <<"year", x.calendar_year \in EvidenceYear>>} : ~check[2]}) <= 1}

\* Results of every status over the two sources, linked well or badly.
MCResultGiven ==
  [status : VerificationStatus,
   sources : SUBSET Source,
   comparisons : {{}} \cup
     {{c} : c \in [left : Source, right : Source, result : ComparisonStatus,
                   reason : {"exact_match", "income_values_inconsistent",
                             "income_period_not_comparable",
                             "unsupported_document_combination"}]},
   unsupported_reasons :
     {{}, {"income_period_not_comparable"}, {"unsupported_document_combination"}},
   failure_code : {"none", "model_decision_failed"},
   tool_call_count : {3},
   invalid_decision_count : {0, 3}]
=============================================================================
