------------------------------- MODULE Extraction -------------------------------
(***************************************************************************)
(* Agent 1's reading of a document, as operators: the header classifier,   *)
(* the exact-label parser, the resolver of a language model's proposal and *)
(* the evidence guard (financial_reviewer/agents/agent1_extraction.py).    *)
(*                                                                         *)
(* A document is the sequence of its lines.  A line is the label it starts *)
(* with and the tokens after it, as far as the two regular expressions of  *)
(* the code and its length limit tell tokens apart.  Positions inside a    *)
(* line count the label and the tokens.  A SHA-256 digest is what it was   *)
(* taken of.                                                               *)
(***************************************************************************)
EXTENDS Integers, Sequences, FiniteSets, ReviewVocabulary

CONSTANTS
  FieldName,   \* the fields of all templates; a label is the field it announces
  Fields,      \* the fields of each template, in order
  KindOf       \* what a field is read as

Template == DocumentType \ {"unknown"}
FieldsOf(type) == {Fields[type][i] : i \in DOMAIN Fields[type]}

ASSUME FieldsAssumption == Fields \in [Template -> Seq(FieldName)]
ASSUME KindAssumption == KindOf \in [FieldName -> {"string", "money", "integer"}]

\* What may follow a label: words, one of them too long for a string field, and
\* numbers with or without a fraction or a grouping comma, one of them with more
\* digits than int() converts.
NumberForm == {"plain", "fraction", "grouped", "huge"}
Token == [form : NumberForm \cup {"word", "long"}, sign : {1, -1}, magnitude : Nat]

\* A line whose label is no field's is the marker, a header that names a
\* template, a blank line or anything else.
Line == [label : FieldName \cup Template \cup {"marker", "blank", "other"},
         tokens : Seq(Token)]

-----------------------------------------------------------------------------
(***************************************************************************)
(* Values.                                                                 *)
(***************************************************************************)
NumberValue(n) == [number |-> n, text |-> <<>>]
TextValue(tokens) == [number |-> 0, text |-> tokens]

Has(tokens, forms) == \E i \in DOMAIN tokens : tokens[i].form \in forms

\* _decimal_values: a leading sign belongs to the number.
DecimalValues(tokens) ==
  LET numbers == SelectSeq(tokens, LAMBDA t : t.form \in NumberForm)
  IN  [i \in DOMAIN numbers |-> numbers[i].sign * numbers[i].magnitude]

\* The digits between word boundaries: a sign is none, a fraction spoils its
\* digits, and a grouping comma makes two numbers of one.
IntegerValues(tokens) ==
  LET numbers == SelectSeq(tokens, LAMBDA t : t.form \in {"plain", "huge"})
  IN  IF Has(tokens, {"grouped"}) THEN <<>>
      ELSE [i \in DOMAIN numbers |-> numbers[i].magnitude]

NumberValues(kind, tokens) ==
  IF kind = "money" THEN DecimalValues(tokens) ELSE IntegerValues(tokens)

\* int() refuses to convert a number of more digits than its limit.
IntRaises(kind, tokens) == kind = "integer" /\ Has(tokens, {"huge"})

\* Mutant: a string is supported when the line's value begins with it.
SupportsBeginning(kind, value, tokens) ==
  /\ tokens # <<>>
  /\ IF kind = "string"
     THEN value = TextValue(SubSeq(tokens, 1, Len(value.text))) /\ value.text # <<>>
     ELSE /\ Len(NumberValues(kind, tokens)) = 1
          /\ value = NumberValue(NumberValues(kind, tokens)[1])

\* _evidence_supports_value
Supports(kind, value, tokens) ==
  /\ tokens # <<>>
  /\ IF kind = "string" THEN value = TextValue(tokens)
     ELSE /\ Len(NumberValues(kind, tokens)) = 1
          /\ value = NumberValue(NumberValues(kind, tokens)[1])

-----------------------------------------------------------------------------
(***************************************************************************)
(* The classifier and the deterministic parser.                            *)
(***************************************************************************)
\* The first two lines that are not blank decide.
Classify(doc) ==
  LET lines == SelectSeq(doc, LAMBDA l : l.label # "blank") IN
  IF Len(lines) >= 2 /\ lines[1].label = "marker" /\ lines[2].label \in Template
  THEN lines[2].label ELSE "unknown"

\* Mutant: the first line that matches is taken.
FirstMatch(doc, f) ==
  {n \in DOMAIN doc : doc[n].label = f /\ \A m \in 1 .. n - 1 : doc[m].label # f}

Matches(doc, f) == {n \in DOMAIN doc : doc[n].label = f}
Stated(doc, f) == {doc[n].tokens : n \in Matches(doc, f)}

Malformed(kind, tokens) ==
  IF kind = "string" THEN Has(tokens, {"long", "huge"})
  ELSE Len(NumberValues(kind, tokens)) # 1

\* Why a field is unresolved, or "none".
UnresolvedReason(doc, f) ==
  IF Matches(doc, f) = {} THEN "missing_label"
  ELSE IF Cardinality(Stated(doc, f)) > 1 THEN "conflicting_values"
  ELSE IF Cardinality(Matches(doc, f)) > 1 THEN "duplicate_label"
  ELSE IF Stated(doc, f) = {<<>>} THEN "empty_value"
  ELSE IF \A tokens \in Stated(doc, f) : Malformed(KindOf[f], tokens)
  THEN "invalid_format" ELSE "none"

\* Two exceptions leave the loop and are no extraction error: the conversion of a
\* number of too many digits, and the schema's refusal of a negative amount.
ParseRaises(doc, f) ==
  /\ Cardinality(Matches(doc, f)) = 1
  /\ \A tokens \in Stated(doc, f) :
       \/ IntRaises(KindOf[f], tokens)
       \/ /\ KindOf[f] = "money" /\ UnresolvedReason(doc, f) = "none"
          /\ DecimalValues(tokens)[1] < 0

\* Pointers to the source; _local_line_provenance makes one of a whole line.
Pointer == [own : BOOLEAN, line_start : Nat, line_end : Nat, char_start : Nat,
            char_end : Nat, digest : Line, sure : BOOLEAN]
LineEnd(line) == Len(line.tokens) + 1
LineOf(doc, n, sure) ==
  [own |-> TRUE, line_start |-> n, line_end |-> n, char_start |-> 0,
   char_end |-> LineEnd(doc[n]), digest |-> doc[n], sure |-> sure]

Supported(value, pointer) == [supported |-> TRUE, value |-> value, provenance |-> <<pointer>>]
Unsupported == [supported |-> FALSE, value |-> NumberValue(0), provenance |-> <<>>]

Resolved(doc, f) ==
  LET n == CHOOSE n \in Matches(doc, f) : TRUE
      tokens == doc[n].tokens
      value == IF KindOf[f] = "string" THEN TextValue(tokens)
               ELSE NumberValue(NumberValues(KindOf[f], tokens)[1])
  IN  Supported(value, LineOf(doc, n, TRUE))

NoFields == [f \in {} |-> Unsupported]
Extracted(fields) ==
  [code |-> "none", unresolved |-> {}, fields |-> fields]
Refused(code, unresolved) ==
  [code |-> code, unresolved |-> unresolved, fields |-> NoFields]

\* An exception that is not an ExtractionValidationError.
Escaped == Refused("escaped", {})

CodeOf(reasons) ==
  IF reasons \cap {"duplicate_label", "conflicting_values"} # {}
  THEN "evidence_validation_failed"
  ELSE IF reasons \cap {"empty_value", "invalid_format"} # {}
  THEN "schema_validation_failed" ELSE "unsupported_required_field"

\* _extract_document_deterministically
Parse(doc, type) ==
  LET unresolved == {<<f, UnresolvedReason(doc, f)>> :
                       f \in {g \in FieldsOf(type) : UnresolvedReason(doc, g) # "none"}}
  IN  IF \E f \in FieldsOf(type) : ParseRaises(doc, f) THEN Escaped
      ELSE IF unresolved # {} THEN Refused(CodeOf({u[2] : u \in unresolved}), unresolved)
      ELSE Extracted([f \in FieldsOf(type) |-> Resolved(doc, f)])

-----------------------------------------------------------------------------
(***************************************************************************)
(* The evidence guard and the resolver of a model's proposal.              *)
(***************************************************************************)
\* The first answer that is not "none".
FirstFailure(answers) ==
  LET failing == {i \in DOMAIN answers : answers[i] # "none"}
  IN  IF failing = {} THEN "none"
      ELSE answers[CHOOSE i \in failing : \A j \in failing : i <= j]

Failing(holds) == IF holds THEN "none" ELSE "evidence_validation_failed"

\* The evidence a pointer selects in a line.
Slice(line, p) ==
  IF p.char_start = 0
  THEN [label |-> line.label, tokens |-> SubSeq(line.tokens, 1, p.char_end - 1)]
  ELSE [label |-> "other", tokens |-> SubSeq(line.tokens, p.char_start, p.char_end - 1)]

\* Mutant: the digest of the evidence is not compared.
IntactUndigested(p, f, doc) ==
  /\ p.own /\ p.line_start = p.line_end
  /\ p.line_start \in DOMAIN doc
  /\ p.char_end <= LineEnd(doc[p.line_start])
  /\ doc[p.line_start].label = f
  /\ p.sure

\* What is checked of a pointer before the value is compared.
Intact(p, f, doc) ==
  /\ p.own /\ p.line_start = p.line_end
  /\ p.line_start \in DOMAIN doc
  /\ p.char_end <= LineEnd(doc[p.line_start])
  /\ doc[p.line_start].label = f
  /\ p.sure
  /\ Slice(doc[p.line_start], p) = p.digest

PointerAnswer(p, f, value, doc) ==
  IF ~Intact(p, f, doc) THEN "evidence_validation_failed"
  ELSE LET evidence == Slice(doc[p.line_start], p) IN
       IF evidence.label = f /\ IntRaises(KindOf[f], evidence.tokens) THEN "escaped"
       ELSE Failing(evidence.label = f /\ Supports(KindOf[f], value, evidence.tokens))

FieldAnswer(field, f, doc) ==
  IF ~field.supported THEN "unsupported_required_field"
  ELSE IF field.provenance = <<>> THEN "evidence_validation_failed"
  ELSE FirstFailure([i \in DOMAIN field.provenance |->
                       PointerAnswer(field.provenance[i], f, field.value, doc)])

\* enforce_evidence_guard: "none" when the extraction passes.
Guard(fields, type, doc) ==
  FirstFailure([i \in DOMAIN Fields[type] |->
                  FieldAnswer(fields[Fields[type][i]], Fields[type][i], doc)])

\* A model's claim for a field: supported or not, and the line it quotes.
Claim == [supported : BOOLEAN, value : [number : Nat, text : Seq(Token)],
          line_number : Nat, quote : Line, sure : BOOLEAN]

\* Mutant: the quote is not compared with the line.
QuotedLabelOnly(c, f, doc) ==
  /\ c.line_number \in DOMAIN doc
  /\ doc[c.line_number].label = f
  /\ c.sure

Quoted(c, f, doc) ==
  /\ c.line_number \in DOMAIN doc
  /\ c.quote = doc[c.line_number]
  /\ c.quote.label = f
  /\ c.sure

\* _resolve_source_claim
ClaimAnswer(c, f, doc) ==
  IF ~c.supported THEN "none"
  ELSE IF ~Quoted(c, f, doc) THEN "evidence_validation_failed"
  ELSE IF IntRaises(KindOf[f], c.quote.tokens) THEN "escaped"
  ELSE Failing(Supports(KindOf[f], c.value, c.quote.tokens))

\* resolve_proposal_evidence: fields in order, unsupported ones handed on.
Resolve(proposal, type, doc) ==
  LET answer == FirstFailure([i \in DOMAIN Fields[type] |->
                  ClaimAnswer(proposal[Fields[type][i]], Fields[type][i], doc)])
  IN  IF answer # "none" THEN Refused(answer, {})
      ELSE Extracted([f \in FieldsOf(type) |->
             IF proposal[f].supported
             THEN Supported(proposal[f].value,
                            LineOf(doc, proposal[f].line_number, proposal[f].sure))
             ELSE Unsupported])
=============================================================================
