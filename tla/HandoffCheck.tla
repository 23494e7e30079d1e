------------------------------ MODULE HandoffCheck ------------------------------
(***************************************************************************)
(* Both assemblers run on every extraction pair and on every Agent 2       *)
(* result, also on those the agents never make: the handoffs revalidate    *)
(* what they are given because an object may have been constructed or      *)
(* mutated past its validators.                                            *)
(***************************************************************************)
EXTENDS Handoffs

CONSTANTS
  ExtractionGiven,     \* the extractions assemble() may be given
  ResultGiven          \* the results assemble() may be given

\* An object mutated past its validators is still one of its class: its fields
\* have their types and its status is one of the schema's.
ASSUME GivenAssumption ==
  /\ ExtractionGiven \subseteq Extraction
  /\ ResultGiven \subseteq {r \in Result : r.status \in VerificationStatus}

VARIABLES
  boundary,            \* "verification" or "critic", "none" before
  extractions,         \* input of VerificationInputAssembler.assemble
  evidence, result, defect,   \* input of CriticInputAssembler.assemble
  answer               \* an error's code or "none"

handoff_vars == <<boundary, extractions, evidence, result, defect, answer>>

HandoffInit ==
  /\ boundary = "none"
  /\ extractions \in UNION {[1 .. n -> ExtractionGiven] : n \in {1, 2}}
  /\ evidence = <<>> /\ result = NoResult /\ defect = "none" /\ answer = "none"

AssembleVerification ==
  /\ boundary = "none"
  /\ boundary' = "verification"
  /\ answer' = VerificationHandoffCode(extractions)
  /\ evidence' = IF answer' = "none" THEN VerificationRequest(extractions) ELSE <<>>
  /\ UNCHANGED <<extractions, result, defect>>

\* Agent 2 ran on the request; its result reaches the second boundary.
AssembleCritic ==
  /\ boundary = "verification"
  /\ answer = "none"
  /\ boundary' = "critic"
  /\ result' \in ResultGiven
  /\ defect' \in Defect
  /\ answer' = CriticHandoffCode(evidence, result', defect')
  /\ UNCHANGED <<extractions, evidence>>

HandoffNext == AssembleVerification \/ AssembleCritic
HandoffSpec == HandoffInit /\ [][HandoffNext]_handoff_vars

-----------------------------------------------------------------------------
\* Which document comes first does not change the request or the error: the
\* orchestrator may pass them in either order.
OrderDoesNotMatter ==
  boundary = "verification" /\ Len(extractions) = 2 =>
    LET swapped == <<extractions[2], extractions[1]>> IN
    /\ VerificationHandoffCode(swapped) = answer
    /\ answer = "none" => VerificationRequest(swapped) = evidence

\* What passes the first boundary is a request Agent 2 can decide: one pay stub
\* and one W-2 of different guarded documents, each with the period its tool
\* accepts, gross income and a year in range.
RequestIsDecidable ==
  boundary = "verification" /\ answer = "none" =>
    /\ extractions[1].document_id # extractions[2].document_id
    /\ \A i \in 1 .. 2 : /\ extractions[i].evidence_guard_passed
                         /\ extractions[i].targets = {extractions[i].document_id}
    /\ HasSupportedPair(evidence)
    /\ \A s \in Source : /\ evidence[s] \in IncomeEvidence
                         /\ evidence[s].calendar_year \in EvidenceYear
                         /\ evidence[s].document_type = s
                         /\ Normalizable(evidence[s])

\* The checks of the handoff leave one reason for a critic request that does not
\* validate, a normalized income with more evidence pointers than the summary
\* counts; whatever else is wrong with a result is reported as what it is.
CriticRequestValidates ==
  boundary = "critic" /\ answer = "invalid_critic_request" =>
    defect = "provenance_uncountable"

\* What Agent 3 is told is backed by the result it does not see: it hears of the
\* documents whose income was normalized and of no other, and a comparison status
\* comes with its one comparison, of those documents.
CriticIsToldTheTruth ==
  boundary = "critic" /\ answer = "none" =>
    LET r == CriticRequestOf(evidence, result) IN
    /\ r.verification_status # "failed"
    /\ r.evidence_complete <=> r.comparison # NoComparison
    /\ r.source_types = {evidence[s].document_type : s \in result.sources}
    /\ r.evidence_complete =>
         \E c \in result.comparisons :
           /\ {c.left, c.right} = result.sources
           /\ r.comparison = [result |-> c.result, reason |-> c.reason]
           /\ r.verification_status = c.result
           /\ c.result = ResultOf(c.reason)
=============================================================================
