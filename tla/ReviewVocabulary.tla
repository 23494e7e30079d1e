---------------------------- MODULE ReviewVocabulary ----------------------------
(***************************************************************************)
(* The closed vocabularies of financial_reviewer/foundation/schemas.py     *)
(* that cross the boundary between a single-document review and the review *)
(* of a bundle.                                                            *)
(***************************************************************************)

DocumentType == {"bank_statement", "pay_stub", "tax_form", "unknown"}

FailureCode ==
  {"invalid_input", "unsupported_document_type", "local_model_error",
   "invalid_model_output", "schema_validation_failed", "evidence_validation_failed",
   "unsupported_required_field", "local_storage_error", "audit_write_failed",
   "unsafe_configuration", "internal_failure"}
=============================================================================
