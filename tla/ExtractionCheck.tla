----------------------------- MODULE ExtractionCheck -----------------------------
(***************************************************************************)
(* One document on its way through Agent 1's classifier, the parser or the *)
(* resolver of a model's proposal, and the evidence guard.  The guard      *)
(* reads the document anew and may be handed an extraction that neither of *)
(* the two made: it revalidates what it is given.                          *)
(***************************************************************************)
EXTENDS Extraction, SequencesExt

CONSTANTS
  DocumentGiven,       \* the documents
  ClaimGiven(_, _),    \* what a model may claim for a field of a document
  ValueGiven           \* values an altered field may carry

ASSUME DocumentAssumption == DocumentGiven \subseteq Seq(Line)
ASSUME ClaimAssumption ==
  \A d \in DocumentGiven, f \in FieldName : ClaimGiven(d, f) \subseteq Claim

VARIABLES
  doc,        \* the document that was stored
  pc,         \* the step that comes next
  type,       \* its classification
  maker,      \* who made the candidate: "parser", "model", "altered"
  candidate,  \* the extraction, or why there is none
  reading,    \* the document the guard read
  verdict     \* the guard's answer, "pending" before

vars == <<doc, pc, type, maker, candidate, reading, verdict>>

NoCandidate == Refused("none", {})

Init ==
  /\ doc \in DocumentGiven
  /\ pc = "classify" /\ type = "unknown"
  /\ maker = "none" /\ candidate = NoCandidate
  /\ reading = <<>> /\ verdict = "pending"

ClassifyDocument ==
  /\ pc = "classify"
  /\ type' = Classify(doc)
  /\ pc' = IF type' = "unknown" THEN "done" ELSE "extract"
  /\ UNCHANGED <<doc, maker, candidate, reading, verdict>>

Handed == IF candidate'.code = "none" THEN "guard" ELSE "done"

ParseDocument ==
  /\ pc = "extract"
  /\ maker' = "parser"
  /\ candidate' = Parse(doc, type)
  /\ pc' = Handed
  /\ UNCHANGED <<doc, type, reading, verdict>>

\* The proposal has a claim for every field of the template.
ResolveProposal ==
  /\ pc = "extract"
  /\ maker' = "model"
  /\ \E proposal \in [FieldsOf(type) -> UNION {ClaimGiven(doc, f) : f \in FieldsOf(type)}] :
       /\ \A f \in FieldsOf(type) : proposal[f] \in ClaimGiven(doc, f)
       /\ candidate' = Resolve(proposal, type, doc)
  /\ pc' = Handed
  /\ UNCHANGED <<doc, type, reading, verdict>>

\* One field of the parser's extraction is replaced on the way to the guard: its
\* value, or where its one pointer points, digest included.
AlteredPointer(p) ==
  {[p EXCEPT !.own = FALSE], [p EXCEPT !.line_end = @ + 1],
   [p EXCEPT !.line_start = Len(doc) + 1, !.line_end = Len(doc) + 1]}

Altered(field) ==
  LET p == field.provenance[1] IN
  {[field EXCEPT !.value = v] : v \in ValueGiven}
    \cup {Supported(v, LineOf(doc, n, sure)) :
            v \in ValueGiven, n \in DOMAIN doc, sure \in BOOLEAN}
    \cup {[field EXCEPT !.provenance = <<q>>] : q \in AlteredPointer(p)}
    \cup {[field EXCEPT !.provenance = <<p, [p EXCEPT !.digest = doc[1]]>>]}

AlterCandidate ==
  /\ pc = "guard" /\ maker = "parser"
  /\ maker' = "altered"
  /\ \E f \in FieldsOf(type) : \E field \in Altered(candidate.fields[f]) :
       candidate' = [candidate EXCEPT !.fields[f] = field]
  /\ UNCHANGED <<doc, pc, type, reading, verdict>>

\* The document, or one of which a line was replaced or lost.
WithLineReplaced(n, m) == [doc EXCEPT ![n] = doc[m]]
WithoutLine(n) == SubSeq(doc, 1, n - 1) \o SubSeq(doc, n + 1, Len(doc))
Readings ==
  {doc} \cup {WithLineReplaced(n, m) : n \in DOMAIN doc, m \in DOMAIN doc}
        \cup {WithoutLine(n) : n \in DOMAIN doc}

GuardExtraction ==
  /\ pc = "guard"
  /\ reading' \in IF maker = "altered" THEN {doc} ELSE Readings
  /\ verdict' = Guard(candidate.fields, type, reading')
  /\ pc' = "done"
  /\ UNCHANGED <<doc, type, maker, candidate>>

Next ==
  \/ ClassifyDocument \/ ParseDocument \/ ResolveProposal \/ AlterCandidate
  \/ GuardExtraction
Spec == Init /\ [][Next]_vars

-----------------------------------------------------------------------------

Values(fields) == [f \in DOMAIN fields |-> fields[f].value]

\* The parser, the resolver and the guard read lines alike: what either of the
\* two made of a document passes the guard on that document, except a proposal
\* that leaves a field unsupported, and nothing raises.
ExtractedPassesTheGuard ==
  verdict # "pending" /\ maker \in {"parser", "model"} /\ reading = doc =>
    verdict = IF \A f \in FieldsOf(type) : candidate.fields[f].supported
              THEN "none" ELSE "unsupported_required_field"

\* Whoever made an extraction the guard lets pass on the document it was made of, it
\* states what the parser would have read from that document, unless the parser
\* refuses it.
GuardAgreesWithParser ==
  verdict = "none" /\ reading = doc /\ Parse(doc, type).code = "none" =>
    Values(candidate.fields) = Values(Parse(doc, type).fields)

\* The guard passes an extraction on another document only if every line that was
\* read for it is still at its place, also when the value would still be there;
\* what it cannot see is that such a line goes on behind its former end.
GuardCatchesChange ==
  verdict = "none" /\ maker \in {"parser", "model"} =>
    \A f \in FieldsOf(type) :
      LET n == candidate.fields[f].provenance[1].line_start
      IN  /\ n \in DOMAIN reading
          /\ reading[n].label = doc[n].label
          /\ IsPrefix(doc[n].tokens, reading[n].tokens)

\* The order of the lines below the header changes neither what is read nor why
\* nothing is.
LinesMayMove ==
  maker = "parser" =>
    \A n, m \in 3 .. Len(doc) :
      LET other == Parse([doc EXCEPT ![n] = doc[m], ![m] = doc[n]], type) IN
      Classify([doc EXCEPT ![n] = doc[m], ![m] = doc[n]]) = type =>
        /\ other.code = candidate.code
        /\ other.unresolved = candidate.unresolved
        /\ Values(other.fields) = Values(candidate.fields)

\* Said of the parser (agent1_extraction.py:289-292): malformed fields produce only
\* field names and closed reason codes.  The code lets two exceptions escape.
MalformedIsExplained == maker = "parser" => candidate.code # "escaped"

\* Said of the comparison of value and evidence (agent1_extraction.py:681): the
\* value is exactly represented after its label.  The code drops an integer's sign.
ValueIsExactlyRepresented ==
  verdict = "none" /\ maker = "parser" =>
    \A f \in FieldsOf(type) : KindOf[f] = "integer" =>
      LET line == reading[candidate.fields[f].provenance[1].line_start]
      IN  \E i \in DOMAIN DecimalValues(line.tokens) :
            candidate.fields[f].value = NumberValue(DecimalValues(line.tokens)[i])
=============================================================================
