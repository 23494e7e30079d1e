-------------------------------- MODULE Handoffs --------------------------------
(***************************************************************************)
(* The two deterministic boundaries between the agents                     *)
(* (financial_reviewer/foundation/handoffs.py):                            *)
(* VerificationInputAssembler turns two Agent 1 extractions into Agent 2's *)
(* request, CriticInputAssembler turns Agent 2's result into Agent 3's     *)
(* amount-free request.  Each answers with an artifact or with one code.   *)
(*                                                                         *)
(* The evidence references, which are random, are named by the type of     *)
(* document they belong to: Source = {"pay_stub", "tax_form"}.             *)
(***************************************************************************)
EXTENDS VerificationResults, CriticResults, Sequences

CONSTANT DocumentId

ASSUME SourceAssumption == Source = {"pay_stub", "tax_form"}

\* An Agent 1 extraction: "valid" says that it passes its own schema, "supported"
\* that both required income fields carry a value, "targets" is where their
\* provenance points.
Extraction ==
  [valid : BOOLEAN,
   document_id : DocumentId,
   document_type : {"bank_statement", "pay_stub", "tax_form"},
   evidence_guard_passed : BOOLEAN,
   supported : BOOLEAN,
   targets : SUBSET DocumentId,
   amount : Nat,
   calendar_year : Nat]

VerificationHandoffFailureCode ==
  {"invalid_input", "invalid_extraction_count", "duplicate_document",
   "unguarded_extraction", "unsupported_document_combination",
   "required_income_evidence_invalid"}

\* IncomeEvidence bounds the year; Agent 1's integer fields only need it to be
\* nonnegative.
EvidenceYear == 2000 .. 2100

EvidenceOf(x) ==
  [document_type |-> x.document_type,
   amount |-> x.amount,
   period |-> IF x.document_type = "pay_stub" THEN "monthly" ELSE "annual",
   income_basis |-> "gross",
   calendar_year |-> x.calendar_year]

\* Mutant: any pointer into the document will do.
IncomeUsableByOnePointer(x) ==
  x.supported /\ x.document_id \in x.targets /\ x.calendar_year \in EvidenceYear

\* _to_income_evidence: both fields supported, every pointer into the document's
\* own text, and a fact that the evidence contract admits.
IncomeUsable(x) ==
  x.supported /\ x.targets = {x.document_id} /\ x.calendar_year \in EvidenceYear

\* The first check of assemble() that fails, "none" if none does.
VerificationHandoffCode(xs) ==
  IF Len(xs) # 2 THEN "invalid_extraction_count"
  ELSE IF \E i \in 1 .. 2 : ~xs[i].valid THEN "invalid_input"
  ELSE IF xs[1].document_id = xs[2].document_id THEN "duplicate_document"
  ELSE IF \E i \in 1 .. 2 : ~xs[i].evidence_guard_passed THEN "unguarded_extraction"
  ELSE IF ~SupportedPair({xs[1].document_type, xs[2].document_type})
    THEN "unsupported_document_combination"
  ELSE IF \E i \in 1 .. 2 : ~IncomeUsable(xs[i]) THEN "required_income_evidence_invalid"
  ELSE "none"

\* Mutants: the pay stub is expected first; the first document is read twice.
VerificationRequestByPosition(xs) ==
  [s \in Source |-> EvidenceOf(IF s = "pay_stub" THEN xs[1] ELSE xs[2])]
VerificationRequestFirstTwice(xs) == [s \in Source |-> EvidenceOf(xs[1])]

\* The request: one income fact for each document type.
VerificationRequest(xs) ==
  [s \in Source |->
     EvidenceOf(IF xs[1].document_type = s THEN xs[1] ELSE xs[2])]

-----------------------------------------------------------------------------
CriticHandoffFailureCode ==
  {"invalid_input", "upstream_verification_failed", "invalid_source_set",
   "invalid_provenance", "invalid_comparison_linkage", "invalid_critic_request"}

\* What Result leaves out of the normalized incomes: their three references are
\* distinct, each carries its type's rule, its provenance is its own and has no more
\* pointers than CriticSourceSummary can count.  Agent 2 keeps all but the last,
\* which the document decides; of another result, the first defect found.
Defect == {"none", "does_not_validate", "reference_repeated", "rule_unexpected",
           "provenance_foreign", "provenance_uncountable"}

\* evidence_complete is set exactly when a comparison decided the status.
EvidenceComplete(result) == result.status \in ComparisonStatus

\* Mutant: the request lists every document, normalized or not.
SourceTypesAll(evidence, result) == {evidence[s].document_type : s \in Source}

SourceTypes(evidence, result) == {evidence[s].document_type : s \in result.sources}

\* _validate_source_set
SourceSetOK(evidence, result) ==
  /\ Cardinality(result.sources) <= 2
  /\ result.status \in ComparisonStatus =>
       Cardinality(result.sources) = 2 /\ SupportedPair(SourceTypes(evidence, result))
  /\ result.status = "insufficient_evidence" =>
       result.unsupported_reasons = {"unsupported_document_combination"}

\* Mutant: the comparison's result is not held against the status.
LinkageOKOfAnyStatus(result) ==
  /\ result.status = "insufficient_evidence" => result.comparisons = {}
  /\ result.status \in ComparisonStatus =>
       /\ Cardinality(result.comparisons) = 1
       /\ \A c \in result.comparisons :
            c.left # c.right /\ {c.left, c.right} = result.sources /\ ReasonAgrees(c)

\* _comparison_summary: one comparison, of exactly the normalized sources, whose
\* result and reason are those of the status.
LinkageOK(result) ==
  /\ result.status = "insufficient_evidence" => result.comparisons = {}
  /\ result.status \in ComparisonStatus =>
       /\ Cardinality(result.comparisons) = 1
       /\ \A c \in result.comparisons :
            /\ c.left # c.right
            /\ {c.left, c.right} = result.sources
            /\ c.result = result.status
            /\ ReasonAgrees(c)
            /\ result.unsupported_reasons =
                 IF result.status = "not_comparable" THEN {c.reason} ELSE {}

CriticRequestOf(evidence, result) ==
  [verification_status |-> result.status,
   evidence_complete |-> EvidenceComplete(result),
   source_types |-> SourceTypes(evidence, result),
   comparison |->
     IF result.comparisons = {} THEN NoComparison
     ELSE LET c == CHOOSE d \in result.comparisons : TRUE IN
          [result |-> c.result, reason |-> c.reason],
   verification_failure_code |-> "none"]

\* The first check of assemble() that fails, "none" if none does.
CriticHandoffCode(evidence, result, defect) ==
  IF defect = "does_not_validate" \/ ~ValidResult(result) THEN "invalid_input"
  ELSE IF result.status = "failed" THEN "upstream_verification_failed"
  ELSE IF ~SourceSetOK(evidence, result)
          \/ defect \in {"reference_repeated", "rule_unexpected"}
    THEN "invalid_source_set"
  ELSE IF defect = "provenance_foreign" THEN "invalid_provenance"
  ELSE IF ~LinkageOK(result) THEN "invalid_comparison_linkage"
  ELSE IF defect = "provenance_uncountable"
          \/ ~ValidCriticRequest(CriticRequestOf(evidence, result))
    THEN "invalid_critic_request"
  ELSE "none"
=============================================================================
