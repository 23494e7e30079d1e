------------------------------ MODULE MCCriticAgent ------------------------------
(***************************************************************************)
(* Agent 3 for TLC: every request over the supported pair, a part of it or *)
(* no source, with every comparison, valid or not.                         *)
(***************************************************************************)
EXTENDS CriticAgent

MCRequestGiven ==
  {r \in [verification_status : VerificationStatus,
          evidence_complete : BOOLEAN,
          source_types : SUBSET {"pay_stub", "tax_form"},
          comparison : [result : ComparisonStatus, reason : VerificationReason]
                         \cup {NoComparison},
          verification_failure_code : {"none", "invalid_model_decision"}] :
     ValidCriticRequest(r) \/ r.source_types = {"pay_stub", "tax_form"}}
=============================================================================
