----------------------------- MODULE ExtractionProofs -----------------------------
(***************************************************************************)
(* What Agent 1 reads of a document and what its guard lets pass, for      *)
(* documents of any length, templates of any number of fields and every    *)
(* claim of a model.                                                       *)
(*                                                                         *)
(* What the patterns make of a line (NumberValues) stays uninterpreted:    *)
(* the theorems rest on the parser, the resolver and the guard applying    *)
(* the same patterns to the same line.                                     *)
(***************************************************************************)
EXTENDS ExtractionCheck, FiniteSetTheorems, WellFoundedInduction, TLAPS

-----------------------------------------------------------------------------
(***************************************************************************)
(* The first failure of a list of answers.                                 *)
(***************************************************************************)
LEMMA NoFailure ==
  ASSUME NEW answers, \A i \in DOMAIN answers : answers[i] = "none"
  PROVE  FirstFailure(answers) = "none"
BY DEF FirstFailure

LEMMA FailureAmong ==
  ASSUME NEW answers, NEW n \in Nat, DOMAIN answers = 1 .. n,
         \E i \in DOMAIN answers : answers[i] # "none"
  PROVE  \E i \in DOMAIN answers :
           answers[i] # "none" /\ FirstFailure(answers) = answers[i]
<1> DEFINE failing == {i \in DOMAIN answers : answers[i] # "none"}
           Before == {p \in Nat \X Nat : p[1] < p[2]}
<1>1. failing \subseteq Nat /\ failing # {}
  OBVIOUS
<1>2. IsWellFoundedOn(Before, Nat)
  BY NatLessThanWellFounded DEF OpToRel
<1>3. PICK m \in failing : \A k \in failing : ~ (<<k, m>> \in Before)
  BY <1>1, <1>2, WFMin
<1>4. \A k \in failing : m <= k
  <2> TAKE k \in failing
  <2>1. k \in Nat /\ m \in Nat /\ ~ (<<k, m>> \in Before)
    BY <1>1, <1>3
  <2> HIDE DEF failing
  <2>2. QED
    BY <2>1
<1> DEFINE first == CHOOSE i \in failing : \A j \in failing : i <= j
<1>5. first \in failing
  BY <1>3, <1>4
<1>6. FirstFailure(answers) = answers[first]
  BY <1>1 DEF FirstFailure
<1>7. QED
  BY <1>5, <1>6

LEMMA NoneFails ==
  ASSUME NEW answers, NEW n \in Nat, DOMAIN answers = 1 .. n,
         FirstFailure(answers) = "none"
  PROVE  \A i \in DOMAIN answers : answers[i] = "none"
BY FailureAmong

-----------------------------------------------------------------------------
(***************************************************************************)
(* Lines and pointers to a whole line.                                     *)
(***************************************************************************)
\* A whole-line pointer selects the line.
LEMMA WholeLine ==
  ASSUME NEW d \in Seq(Line), NEW n \in DOMAIN d, NEW sure
  PROVE  /\ d[n] \in Line
         /\ Slice(d[n], LineOf(d, n, sure)) = d[n]
<1>1. d[n] \in Line
  OBVIOUS
<1>2. d[n].tokens \in Seq(Token) /\ d[n] = [label |-> d[n].label, tokens |-> d[n].tokens]
  BY <1>1 DEF Line
<1>3. SubSeq(d[n].tokens, 1, Len(d[n].tokens) + 1 - 1) = d[n].tokens
  BY <1>2
<1>4. QED
  BY <1>1, <1>2, <1>3 DEF Slice, LineOf, LineEnd

\* What was read from a whole line, by the parser or as a claim, passes the guard.
LEMMA LinePasses ==
  ASSUME NEW d \in Seq(Line), NEW n \in DOMAIN d, NEW f, NEW value,
         d[n].label = f, ~IntRaises(KindOf[f], d[n].tokens),
         Supports(KindOf[f], value, d[n].tokens)
  PROVE  FieldAnswer(Supported(value, LineOf(d, n, TRUE)), f, d) = "none"
<1> DEFINE p == LineOf(d, n, TRUE)
           field == Supported(value, p)
<1>1. Slice(d[n], p) = d[n]
  BY WholeLine
<1>2. /\ p.own /\ p.line_start = n /\ p.line_end = n /\ p.sure
      /\ p.char_end = LineEnd(d[n]) /\ p.digest = d[n]
  BY DEF LineOf
<1>3. LineEnd(d[n]) <= LineEnd(d[n])
  BY WholeLine DEF LineEnd, Line
<1> HIDE DEF p
<1>4. Intact(p, f, d)
  BY <1>1, <1>2, <1>3 DEF Intact
<1>5. PointerAnswer(p, f, value, d) = "none"
  BY <1>1, <1>2, <1>4 DEF PointerAnswer, Failing
<1>6. field.supported /\ field.provenance = <<p>> /\ field.value = value
  BY DEF Supported
<1> HIDE DEF field
<1> DEFINE answers == [i \in DOMAIN field.provenance |->
                         PointerAnswer(field.provenance[i], f, field.value, d)]
<1>7. \A i \in DOMAIN answers : answers[i] = "none"
  BY <1>5, <1>6
<1>8. FirstFailure(answers) = "none"
  BY <1>7, NoFailure
<1>9. FieldAnswer(field, f, d) = "none"
  BY <1>6, <1>8 DEF FieldAnswer
<1>10. QED
  BY <1>9 DEF field, p

\* What the guard has seen of the first pointer of a field that passed.
LEMMA FieldPassed ==
  ASSUME NEW field, NEW f, NEW d, field.provenance \in Seq(Pointer),
         FieldAnswer(field, f, d) = "none"
  PROVE  /\ field.supported /\ field.provenance # <<>>
         /\ Intact(field.provenance[1], f, d)
         /\ Supports(KindOf[f], field.value,
                     Slice(d[field.provenance[1].line_start], field.provenance[1]).tokens)
<1> DEFINE answers == [i \in DOMAIN field.provenance |->
                         PointerAnswer(field.provenance[i], f, field.value, d)]
<1>1. field.supported /\ field.provenance # <<>> /\ FirstFailure(answers) = "none"
  BY DEF FieldAnswer
<1>2. Len(field.provenance) \in Nat /\ DOMAIN answers = 1 .. Len(field.provenance)
  OBVIOUS
<1>3. \A i \in DOMAIN answers : answers[i] = "none"
  BY <1>1, <1>2, NoneFails
<1>4. 1 \in DOMAIN answers
  BY <1>1, <1>2
<1>5. PointerAnswer(field.provenance[1], f, field.value, d) = "none"
  BY <1>3, <1>4
<1>6. QED
  BY <1>1, <1>5 DEF PointerAnswer, Failing

-----------------------------------------------------------------------------
(***************************************************************************)
(* The guard over the fields of a template.                                *)
(***************************************************************************)
LEMMA TemplateFields ==
  ASSUME NEW t \in Template
  PROVE  /\ Fields[t] \in Seq(FieldName) /\ Len(Fields[t]) \in Nat
         /\ DOMAIN Fields[t] = 1 .. Len(Fields[t])
         /\ FieldsOf(t) \subseteq FieldName
BY FieldsAssumption DEF FieldsOf

LEMMA GuardPassed ==
  ASSUME NEW t \in Template, NEW fields, NEW d, Guard(fields, t, d) = "none"
  PROVE  \A f \in FieldsOf(t) : FieldAnswer(fields[f], f, d) = "none"
<1> DEFINE answers == [i \in DOMAIN Fields[t] |->
                         FieldAnswer(fields[Fields[t][i]], Fields[t][i], d)]
<1>1. FirstFailure(answers) = "none"
  BY DEF Guard
<1>2. Len(Fields[t]) \in Nat /\ DOMAIN answers = 1 .. Len(Fields[t])
  BY TemplateFields
<1>3. \A i \in DOMAIN answers : answers[i] = "none"
  BY <1>1, <1>2, NoneFails
<1>4. QED
  BY <1>3 DEF FieldsOf

\* An extraction whose supported fields pass is refused only for an unsupported one.
LEMMA GuardAnswers ==
  ASSUME NEW t \in Template, NEW fields, NEW d,
         \A f \in FieldsOf(t) :
           fields[f].supported => FieldAnswer(fields[f], f, d) = "none"
  PROVE  Guard(fields, t, d) = IF \A f \in FieldsOf(t) : fields[f].supported
                               THEN "none" ELSE "unsupported_required_field"
<1> DEFINE answers == [i \in DOMAIN Fields[t] |->
                         FieldAnswer(fields[Fields[t][i]], Fields[t][i], d)]
<1>1. Guard(fields, t, d) = FirstFailure(answers)
  BY DEF Guard
<1>2. Len(Fields[t]) \in Nat /\ DOMAIN answers = 1 .. Len(Fields[t])
  BY TemplateFields
<1>3. \A f \in FieldsOf(t) : ~fields[f].supported =>
        FieldAnswer(fields[f], f, d) = "unsupported_required_field"
  BY DEF FieldAnswer
<1>4. CASE \A f \in FieldsOf(t) : fields[f].supported
  <2>1. \A i \in DOMAIN answers : answers[i] = "none"
    BY <1>4 DEF FieldsOf
  <2>2. FirstFailure(answers) = "none"
    BY <2>1, NoFailure
  <2>3. QED
    BY <1>1, <1>4, <2>2
<1>5. CASE ~ \A f \in FieldsOf(t) : fields[f].supported
  <2>1. \E i \in DOMAIN answers : answers[i] # "none"
    BY <1>3, <1>5 DEF FieldsOf
  <2>2. \A i \in DOMAIN answers : answers[i] \in {"none", "unsupported_required_field"}
    BY <1>3 DEF FieldsOf
  <2>3. \E i \in DOMAIN answers :
          answers[i] # "none" /\ FirstFailure(answers) = answers[i]
    BY <1>2, <2>1, FailureAmong
  <2>4. FirstFailure(answers) = "unsupported_required_field"
    BY <2>2, <2>3
  <2>5. QED
    BY <1>1, <1>5, <2>4
<1>6. QED
  BY <1>4, <1>5

-----------------------------------------------------------------------------
(***************************************************************************)
(* The parser.                                                             *)
(***************************************************************************)
LEMMA MatchesFinite ==
  ASSUME NEW d \in Seq(Line), NEW f
  PROVE  IsFiniteSet(Matches(d, f)) /\ Cardinality(Matches(d, f)) \in Nat
<1>1. IsFiniteSet(1 .. Len(d))
  BY FS_Interval
<1>2. Matches(d, f) \subseteq 1 .. Len(d)
  BY DEF Matches
<1>3. QED
  BY <1>1, <1>2, FS_Subset, FS_CardinalityType

\* A field that is resolved has one line, of a value that can be read.
LEMMA ResolvedLine ==
  ASSUME NEW d \in Seq(Line), NEW f, UnresolvedReason(d, f) = "none"
  PROVE  \E n \in DOMAIN d :
           /\ Matches(d, f) = {n} /\ Stated(d, f) = {d[n].tokens}
           /\ d[n].label = f /\ d[n].tokens # <<>>
           /\ ~Malformed(KindOf[f], d[n].tokens)
<1>1. /\ Matches(d, f) # {} /\ ~(Cardinality(Matches(d, f)) > 1)
      /\ Stated(d, f) # {<<>>}
      /\ \E tokens \in Stated(d, f) : ~Malformed(KindOf[f], tokens)
  BY DEF UnresolvedReason
<1>2. Cardinality(Matches(d, f)) # 0
  BY <1>1, MatchesFinite, FS_EmptySet
<1>3. Cardinality(Matches(d, f)) = 1
  BY <1>1, <1>2, MatchesFinite
<1>4. PICK n : Matches(d, f) = {n}
  BY <1>3, MatchesFinite, FS_Singleton
<1>5. Stated(d, f) = {d[n].tokens}
  BY <1>4 DEF Stated
<1>6. n \in DOMAIN d /\ d[n].label = f
  BY <1>4 DEF Matches
<1>7. QED
  BY <1>1, <1>4, <1>5, <1>6

\* When the parser makes an extraction, every field is resolved and none raises.
LEMMA ParseSucceeds ==
  ASSUME NEW d, NEW t, Parse(d, t).code = "none"
  PROVE  /\ \A f \in FieldsOf(t) : UnresolvedReason(d, f) = "none" /\ ~ParseRaises(d, f)
         /\ Parse(d, t) = Extracted([f \in FieldsOf(t) |-> Resolved(d, f)])
         /\ Parse(d, t).fields = [f \in FieldsOf(t) |-> Resolved(d, f)]
<1> DEFINE unresolved == {<<f, UnresolvedReason(d, f)>> :
                            f \in {g \in FieldsOf(t) : UnresolvedReason(d, g) # "none"}}
<1>1. Parse(d, t) = IF \E f \in FieldsOf(t) : ParseRaises(d, f) THEN Escaped
                    ELSE IF unresolved # {}
                      THEN Refused(CodeOf({u[2] : u \in unresolved}), unresolved)
                    ELSE Extracted([f \in FieldsOf(t) |-> Resolved(d, f)])
  BY DEF Parse
<1>2. Escaped.code # "none" /\ \A reasons : CodeOf(reasons) # "none"
  BY DEF Escaped, Refused, CodeOf
<1>3. \A code, u : Refused(code, u).code = code
  BY DEF Refused
<1>4. ~(\E f \in FieldsOf(t) : ParseRaises(d, f)) /\ unresolved = {}
  BY <1>1, <1>2, <1>3
<1>5. \A f \in FieldsOf(t) : UnresolvedReason(d, f) = "none"
  BY <1>4
<1>6. QED
  BY <1>1, <1>4, <1>5 DEF Extracted

\* What is read of a field, and that the guard will read it alike.
ValueAt(d, f, n) ==
  IF KindOf[f] = "string" THEN TextValue(d[n].tokens)
  ELSE NumberValue(NumberValues(KindOf[f], d[n].tokens)[1])

ReadAt(d, f, n) ==
  /\ Matches(d, f) = {n} /\ Stated(d, f) = {d[n].tokens} /\ d[n].label = f
  /\ Resolved(d, f) = Supported(ValueAt(d, f, n), LineOf(d, n, TRUE))
  /\ Supports(KindOf[f], ValueAt(d, f, n), d[n].tokens)
  /\ ~IntRaises(KindOf[f], d[n].tokens)

LEMMA FieldResolved ==
  ASSUME NEW d \in Seq(Line), NEW f \in FieldName,
         UnresolvedReason(d, f) = "none", ~ParseRaises(d, f)
  PROVE  \E n \in DOMAIN d : ReadAt(d, f, n)
<1>1. PICK n \in DOMAIN d :
        /\ Matches(d, f) = {n} /\ Stated(d, f) = {d[n].tokens}
        /\ d[n].label = f /\ d[n].tokens # <<>>
        /\ ~Malformed(KindOf[f], d[n].tokens)
  BY ResolvedLine
<1> DEFINE value == ValueAt(d, f, n)
<1> DEFINE k == CHOOSE m \in Matches(d, f) : TRUE
<1>2. k = n
  BY <1>1
<1>3. Resolved(d, f) = Supported(value, LineOf(d, n, TRUE))
  <2>1. Resolved(d, f) = Supported(ValueAt(d, f, k), LineOf(d, k, TRUE))
    BY DEF Resolved, ValueAt
  <2> HIDE DEF k
  <2>2. QED
    BY <1>2, <2>1
<1>4. Cardinality(Matches(d, f)) = 1
  BY <1>1, FS_Singleton
<1>5. ~IntRaises(KindOf[f], d[n].tokens)
  BY <1>1, <1>4 DEF ParseRaises
<1>6. Supports(KindOf[f], value, d[n].tokens)
  BY <1>1 DEF Supports, Malformed, ValueAt
<1>7. QED
  BY <1>1, <1>3, <1>5, <1>6 DEF ReadAt

\* What the parser makes of a document passes the guard on that document.
LEMMA ParsedPasses ==
  ASSUME NEW d \in Seq(Line), NEW t \in Template, Parse(d, t).code = "none"
  PROVE  \A f \in FieldsOf(t) : /\ Parse(d, t).fields[f].supported
                                /\ FieldAnswer(Parse(d, t).fields[f], f, d) = "none"
<1> SUFFICES ASSUME NEW f \in FieldsOf(t)
             PROVE  /\ Parse(d, t).fields[f].supported
                    /\ FieldAnswer(Parse(d, t).fields[f], f, d) = "none"
  OBVIOUS
<1>0. f \in FieldName
  BY TemplateFields
<1>1. /\ UnresolvedReason(d, f) = "none" /\ ~ParseRaises(d, f)
      /\ Parse(d, t).fields[f] = Resolved(d, f)
  <2>1. /\ \A g \in FieldsOf(t) : UnresolvedReason(d, g) = "none" /\ ~ParseRaises(d, g)
        /\ Parse(d, t).fields = [g \in FieldsOf(t) |-> Resolved(d, g)]
    BY ParseSucceeds
  <2>2. QED
    BY <2>1
<1>2. PICK n \in DOMAIN d : ReadAt(d, f, n)
  BY <1>0, <1>1, FieldResolved
<1>3. /\ d[n].label = f
      /\ Resolved(d, f) = Supported(ValueAt(d, f, n), LineOf(d, n, TRUE))
      /\ Supports(KindOf[f], ValueAt(d, f, n), d[n].tokens)
      /\ ~IntRaises(KindOf[f], d[n].tokens)
  BY <1>2 DEF ReadAt
<1>4. FieldAnswer(Resolved(d, f), f, d) = "none"
  BY <1>3, LinePasses
<1>5. Resolved(d, f).supported
  BY <1>3 DEF Supported
<1>6. QED
  BY <1>1, <1>4, <1>5

-----------------------------------------------------------------------------
(***************************************************************************)
(* The resolver.                                                           *)
(***************************************************************************)
\* When a proposal is accepted, every supported claim quotes its line.
LEMMA ResolveSucceeds ==
  ASSUME NEW proposal, NEW t \in Template, NEW d, Resolve(proposal, t, d).code = "none"
  PROVE  /\ \A f \in FieldsOf(t) : ClaimAnswer(proposal[f], f, d) = "none"
         /\ Resolve(proposal, t, d).fields =
              [f \in FieldsOf(t) |->
                 IF proposal[f].supported
                 THEN Supported(proposal[f].value,
                                LineOf(d, proposal[f].line_number, proposal[f].sure))
                 ELSE Unsupported]
<1> DEFINE answers == [i \in DOMAIN Fields[t] |->
                         ClaimAnswer(proposal[Fields[t][i]], Fields[t][i], d)]
           answer == FirstFailure(answers)
           fields == [f \in FieldsOf(t) |->
                        IF proposal[f].supported
                        THEN Supported(proposal[f].value,
                                       LineOf(d, proposal[f].line_number, proposal[f].sure))
                        ELSE Unsupported]
<1>1. Resolve(proposal, t, d) = IF answer # "none" THEN Refused(answer, {})
                                ELSE Extracted(fields)
  BY DEF Resolve
<1>2. \A code, u : Refused(code, u).code = code
  BY DEF Refused
<1>3. answer = "none"
  <2> HIDE DEF answer, fields
  <2>1. QED
    BY <1>1, <1>2
<1>4. Len(Fields[t]) \in Nat /\ DOMAIN answers = 1 .. Len(Fields[t])
  BY TemplateFields
<1>5. \A i \in DOMAIN answers : answers[i] = "none"
  BY <1>3, <1>4, NoneFails
<1>6. \A f \in FieldsOf(t) : ClaimAnswer(proposal[f], f, d) = "none"
  BY <1>5 DEF FieldsOf
<1>7. Resolve(proposal, t, d).fields = fields
  BY <1>1, <1>3 DEF Extracted
<1>8. QED
  BY <1>6, <1>7

LEMMA ClaimPasses ==
  ASSUME NEW d \in Seq(Line), NEW f, NEW c, c.supported, ClaimAnswer(c, f, d) = "none"
  PROVE  /\ c.line_number \in DOMAIN d /\ c.sure
         /\ FieldAnswer(Supported(c.value, LineOf(d, c.line_number, c.sure)), f, d) = "none"
<1>1. /\ Quoted(c, f, d) /\ ~IntRaises(KindOf[f], c.quote.tokens)
      /\ Supports(KindOf[f], c.value, c.quote.tokens)
  BY DEF ClaimAnswer, Failing
<1>2. /\ c.line_number \in DOMAIN d /\ c.sure
      /\ d[c.line_number].label = f /\ c.quote = d[c.line_number]
  BY <1>1 DEF Quoted
<1>3. FieldAnswer(Supported(c.value, LineOf(d, c.line_number, TRUE)), f, d) = "none"
  BY <1>1, <1>2, LinePasses
<1>4. LineOf(d, c.line_number, c.sure) = LineOf(d, c.line_number, TRUE)
  BY <1>2 DEF LineOf
<1>5. QED
  BY <1>2, <1>3, <1>4

-----------------------------------------------------------------------------
(***************************************************************************)
(* Two lines change places.                                                *)
(***************************************************************************)
Swapped(d, n, m) == [d EXCEPT ![n] = d[m], ![m] = d[n]]
Swap(n, m, k) == IF k = n THEN m ELSE IF k = m THEN n ELSE k

LEMMA SwappedLines ==
  ASSUME NEW d \in Seq(Line), NEW n \in DOMAIN d, NEW m \in DOMAIN d
  PROVE  /\ Swapped(d, n, m) \in Seq(Line)
         /\ DOMAIN Swapped(d, n, m) = DOMAIN d
         /\ \A k \in DOMAIN d : Swap(n, m, k) \in DOMAIN d
         /\ \A k \in DOMAIN d : Swapped(d, n, m)[k] = d[Swap(n, m, k)]
         /\ \A k \in DOMAIN d : Swap(n, m, Swap(n, m, k)) = k
<1>1. DOMAIN Swapped(d, n, m) = DOMAIN d
  BY DEF Swapped
<1>2. \A k \in DOMAIN d : Swap(n, m, k) \in DOMAIN d
  BY DEF Swap
<1>3. \A k \in DOMAIN d : Swapped(d, n, m)[k] = d[Swap(n, m, k)]
  BY DEF Swapped, Swap
<1>4. \A k \in DOMAIN d : Swap(n, m, Swap(n, m, k)) = k
  BY DEF Swap
<1>5. Swapped(d, n, m) \in Seq(Line)
  BY DEF Swapped
<1>6. QED
  BY <1>1, <1>2, <1>3, <1>4, <1>5

LEMMA SwappedReading ==
  ASSUME NEW d \in Seq(Line), NEW n \in DOMAIN d, NEW m \in DOMAIN d, NEW f
  PROVE  /\ UnresolvedReason(Swapped(d, n, m), f) = UnresolvedReason(d, f)
         /\ ParseRaises(Swapped(d, n, m), f) <=> ParseRaises(d, f)
         /\ Stated(Swapped(d, n, m), f) = Stated(d, f)
<1> DEFINE e == Swapped(d, n, m)
           s(k) == Swap(n, m, k)
<1>1. /\ DOMAIN e = DOMAIN d
      /\ \A k \in DOMAIN d : s(k) \in DOMAIN d /\ e[k] = d[s(k)] /\ s(s(k)) = k
  BY SwappedLines
<1> HIDE DEF e, s
<1>2. \A k \in Matches(e, f) : k \in DOMAIN d /\ s(k) \in Matches(d, f)
  BY <1>1 DEF Matches
<1>3. \A k \in Matches(d, f) : k \in DOMAIN d /\ s(k) \in Matches(e, f)
  BY <1>1 DEF Matches
<1>4. Stated(e, f) = Stated(d, f)
  <2>1. \A k \in Matches(e, f) : e[k].tokens = d[s(k)].tokens
    BY <1>1, <1>2
  <2>2. \A k \in Matches(d, f) : d[k].tokens = e[s(k)].tokens
    BY <1>1, <1>3
  <2>3. \A k \in Matches(e, f) : \E j \in Matches(d, f) : e[k].tokens = d[j].tokens
    BY <1>2, <2>1
  <2>4. \A k \in Matches(d, f) : \E j \in Matches(e, f) : d[k].tokens = e[j].tokens
    BY <1>3, <2>2
  <2>5. Stated(e, f) \subseteq Stated(d, f)
    BY <2>3 DEF Stated
  <2>6. Stated(d, f) \subseteq Stated(e, f)
    BY <2>4 DEF Stated
  <2>7. QED
    BY <2>5, <2>6
<1>5. Matches(e, f) = {} <=> Matches(d, f) = {}
  BY <1>2, <1>3
<1>6. Cardinality(Matches(e, f)) = Cardinality(Matches(d, f))
  <2> DEFINE g == [k \in Matches(d, f) |-> s(k)]
  <2>1. g \in [Matches(d, f) -> Matches(e, f)]
    BY <1>3
  <2>2. \A j, k \in Matches(d, f) : g[j] = g[k] => j = k
    BY <1>1, <1>3
  <2>3. \A k \in Matches(e, f) : \E j \in Matches(d, f) : g[j] = k
    BY <1>1, <1>2
  <2>4. g \in Bijection(Matches(d, f), Matches(e, f))
    BY <2>1, <2>2, <2>3 DEF Bijection, Injection, Surjection, IsInjective
  <2>5. ExistsBijection(Matches(d, f), Matches(e, f))
    BY <2>4 DEF ExistsBijection
  <2>6. QED
    BY <2>5, MatchesFinite, FS_Bijection
<1>7. UnresolvedReason(e, f) = UnresolvedReason(d, f)
  BY <1>4, <1>5, <1>6 DEF UnresolvedReason
<1>8. ParseRaises(e, f) <=> ParseRaises(d, f)
  BY <1>4, <1>6, <1>7 DEF ParseRaises
<1>9. QED
  BY <1>4, <1>7, <1>8 DEF e

\* A field's value is that of its only line, wherever the line is.
LEMMA SwappedValue ==
  ASSUME NEW d \in Seq(Line), NEW e \in Seq(Line), NEW f \in FieldName,
         UnresolvedReason(d, f) = "none", ~ParseRaises(d, f),
         UnresolvedReason(e, f) = "none", ~ParseRaises(e, f),
         Stated(e, f) = Stated(d, f)
  PROVE  Resolved(e, f).value = Resolved(d, f).value
<1>1. ASSUME NEW x \in Seq(Line), UnresolvedReason(x, f) = "none", ~ParseRaises(x, f)
      PROVE  \E n \in DOMAIN x : /\ Stated(x, f) = {x[n].tokens}
                                 /\ Resolved(x, f).value = ValueAt(x, f, n)
  <2>1. PICK n \in DOMAIN x : ReadAt(x, f, n)
    BY <1>1, FieldResolved
  <2>2. \A value, p : Supported(value, p).value = value
    BY DEF Supported
  <2>3. Stated(x, f) = {x[n].tokens} /\ Resolved(x, f).value = ValueAt(x, f, n)
    BY <2>1, <2>2 DEF ReadAt
  <2>4. QED
    BY <2>3
<1>2. PICK i \in DOMAIN d :
        Stated(d, f) = {d[i].tokens} /\ Resolved(d, f).value = ValueAt(d, f, i)
  BY <1>1
<1>3. PICK j \in DOMAIN e :
        Stated(e, f) = {e[j].tokens} /\ Resolved(e, f).value = ValueAt(e, f, j)
  BY <1>1
<1>4. d[i].tokens = e[j].tokens
  BY <1>2, <1>3
<1>5. QED
  BY <1>2, <1>3, <1>4 DEF ValueAt

LEMMA SwappedParse ==
  ASSUME NEW d \in Seq(Line), NEW n \in DOMAIN d, NEW m \in DOMAIN d, NEW t \in Template
  PROVE  LET e == Swapped(d, n, m) IN
         /\ Parse(e, t).code = Parse(d, t).code
         /\ Parse(e, t).unresolved = Parse(d, t).unresolved
         /\ Values(Parse(e, t).fields) = Values(Parse(d, t).fields)
<1> DEFINE e == Swapped(d, n, m)
           raises(x) == \E f \in FieldsOf(t) : ParseRaises(x, f)
           unresolved(x) == {<<f, UnresolvedReason(x, f)>> :
                               f \in {g \in FieldsOf(t) : UnresolvedReason(x, g) # "none"}}
           fields(x) == [f \in FieldsOf(t) |-> Resolved(x, f)]
<1>1. /\ e \in Seq(Line)
      /\ \A f : /\ UnresolvedReason(e, f) = UnresolvedReason(d, f)
                /\ ParseRaises(e, f) <=> ParseRaises(d, f)
                /\ Stated(e, f) = Stated(d, f)
  BY SwappedLines, SwappedReading
<1>2. \A x : Parse(x, t) = IF raises(x) THEN Escaped
                           ELSE IF unresolved(x) # {}
                             THEN Refused(CodeOf({u[2] : u \in unresolved(x)}), unresolved(x))
                           ELSE Extracted(fields(x))
  BY DEF Parse
<1> HIDE DEF e
<1>3. (raises(e) <=> raises(d)) /\ unresolved(e) = unresolved(d)
  BY <1>1
<1>4. CASE ~raises(d) /\ unresolved(d) = {}
  <2>1. \A f \in FieldsOf(t) : /\ f \in FieldName
                               /\ UnresolvedReason(d, f) = "none" /\ ~ParseRaises(d, f)
    BY <1>4, TemplateFields
  <2>2. \A f \in FieldsOf(t) : Resolved(e, f).value = Resolved(d, f).value
    BY <1>1, <2>1, SwappedValue
  <2>3. Values(fields(e)) = Values(fields(d))
    BY <2>2 DEF Values
  <2> HIDE DEF raises, unresolved, fields
  <2>4. Parse(e, t) = Extracted(fields(e)) /\ Parse(d, t) = Extracted(fields(d))
    BY <1>2, <1>3, <1>4
  <2>5. QED
    BY <2>3, <2>4 DEF Extracted, e
<1>5. CASE raises(d) \/ unresolved(d) # {}
  <2> HIDE DEF raises, unresolved, fields
  <2>1. Parse(e, t) = Parse(d, t)
    BY <1>2, <1>3, <1>5
  <2>2. QED
    BY <2>1 DEF e
<1>6. QED
  BY <1>4, <1>5

-----------------------------------------------------------------------------
(***************************************************************************)
(* The invariant.  OfLine: what parser and resolver make of a field is     *)
(* what one whole line of the document says.  WholeLines: also an altered  *)
(* extraction points to nothing else of the document than whole lines.     *)
(***************************************************************************)
OfLine(field, f, d) ==
  /\ field.supported => /\ FieldAnswer(field, f, d) = "none"
                        /\ \E n \in DOMAIN d : /\ d[n].label = f
                                               /\ field.provenance = <<LineOf(d, n, TRUE)>>
  /\ ~field.supported => field.provenance = <<>>

Whole(p, d) ==
  p.char_start = 0 /\ (p.line_start \in DOMAIN d => p.char_end = LineEnd(d[p.line_start]))

WholeField(field, d) ==
  /\ field.provenance \in Seq(Pointer)
  /\ field.provenance # <<>> => Whole(field.provenance[1], d)

Extracts == maker # "none" /\ candidate.code = "none"

Placed ==
  /\ doc \in DocumentGiven
  /\ pc \in {"classify", "extract"} => maker = "none"
  /\ pc = "extract" \/ maker # "none" => type = Classify(doc) /\ type \in Template
  /\ pc = "guard" => Extracts
  /\ pc # "done" => verdict = "pending"

Made ==
  /\ maker = "parser" => candidate = Parse(doc, type)
  /\ Extracts => DOMAIN candidate.fields = FieldsOf(type)
  /\ Extracts /\ maker \in {"parser", "model"} =>
       \A f \in FieldsOf(type) : OfLine(candidate.fields[f], f, doc)

WholeLines ==
  Extracts => \A f \in FieldsOf(type) : WholeField(candidate.fields[f], doc)

Judged ==
  verdict # "pending" =>
    /\ Extracts
    /\ verdict = Guard(candidate.fields, type, reading)
    /\ reading \in Seq(Line)

IInv == Placed /\ Made /\ WholeLines /\ Judged

LEMMA LineOfIsPointer ==
  ASSUME NEW d \in Seq(Line), NEW n \in DOMAIN d, NEW sure \in BOOLEAN
  PROVE  LineOf(d, n, sure) \in Pointer /\ Whole(LineOf(d, n, sure), d)
<1>0. d[n] \in Line /\ n \in Nat
  OBVIOUS
<1>1. d[n] \in Line /\ n \in Nat /\ LineEnd(d[n]) \in Nat
  BY <1>0 DEF Line, LineEnd
<1>2. LineOf(d, n, sure) \in Pointer
  BY <1>1 DEF LineOf, Pointer
<1>3. QED
  BY <1>2 DEF LineOf, Whole

LEMMA ListOfOne ==
  ASSUME NEW S, NEW x \in S
  PROVE  <<x>> \in Seq(S) /\ <<x>> # <<>> /\ <<x>>[1] = x /\ <<>> \in Seq(S)
OBVIOUS

LEMMA OfLineIsWhole ==
  ASSUME NEW d \in Seq(Line), NEW f, NEW field, OfLine(field, f, d)
  PROVE  WholeField(field, d)
<1>1. CASE field.supported
  <2>1. PICK n \in DOMAIN d : field.provenance = <<LineOf(d, n, TRUE)>>
    BY <1>1 DEF OfLine
  <2>2. LineOf(d, n, TRUE) \in Pointer /\ Whole(LineOf(d, n, TRUE), d)
    BY LineOfIsPointer
  <2>3. QED
    BY <2>1, <2>2, ListOfOne DEF WholeField
<1>2. CASE ~field.supported
  <2>1. field.provenance = <<>> /\ <<>> \in Seq(Pointer)
    BY <1>2 DEF OfLine
  <2>2. QED
    BY <2>1 DEF WholeField
<1>3. QED
  BY <1>1, <1>2

LEMMA ClassifiedTemplate ==
  ASSUME NEW d, Classify(d) # "unknown" PROVE Classify(d) \in Template
BY DEF Classify

LEMMA ParsedOfLines ==
  ASSUME NEW d \in Seq(Line), NEW t \in Template, Parse(d, t).code = "none"
  PROVE  /\ DOMAIN Parse(d, t).fields = FieldsOf(t)
         /\ \A f \in FieldsOf(t) : OfLine(Parse(d, t).fields[f], f, d)
<1>1. Parse(d, t).fields = [f \in FieldsOf(t) |-> Resolved(d, f)]
  BY ParseSucceeds
<1> SUFFICES ASSUME NEW f \in FieldsOf(t) PROVE OfLine(Parse(d, t).fields[f], f, d)
  BY <1>1
<1>2. /\ f \in FieldName /\ UnresolvedReason(d, f) = "none" /\ ~ParseRaises(d, f)
  <2>1. f \in FieldName
    BY TemplateFields
  <2>2. \A g \in FieldsOf(t) : UnresolvedReason(d, g) = "none" /\ ~ParseRaises(d, g)
    BY ParseSucceeds
  <2>3. QED
    BY <2>1, <2>2
<1>3. PICK n \in DOMAIN d : ReadAt(d, f, n)
  BY <1>2, FieldResolved
<1>4. d[n].label = f /\ Resolved(d, f).provenance = <<LineOf(d, n, TRUE)>>
  <2>1. \A value, pointer : Supported(value, pointer).provenance = <<pointer>>
    BY DEF Supported
  <2>2. d[n].label = f
        /\ Resolved(d, f) = Supported(ValueAt(d, f, n), LineOf(d, n, TRUE))
    BY <1>3 DEF ReadAt
  <2>3. QED
    BY <2>1, <2>2
<1>5. /\ Parse(d, t).fields[f].supported
      /\ FieldAnswer(Parse(d, t).fields[f], f, d) = "none"
  BY ParsedPasses
<1>6. Parse(d, t).fields[f] = Resolved(d, f)
  BY <1>1
<1>7. QED
  BY <1>4, <1>5, <1>6 DEF OfLine

LEMMA ResolvedOfLines ==
  ASSUME NEW d \in Seq(Line), NEW t \in Template, NEW proposal,
         Resolve(proposal, t, d).code = "none"
  PROVE  /\ DOMAIN Resolve(proposal, t, d).fields = FieldsOf(t)
         /\ \A f \in FieldsOf(t) : OfLine(Resolve(proposal, t, d).fields[f], f, d)
<1> DEFINE Field(f) ==
      IF proposal[f].supported
      THEN Supported(proposal[f].value,
                     LineOf(d, proposal[f].line_number, proposal[f].sure))
      ELSE Unsupported
<1>1. /\ Resolve(proposal, t, d).fields = [f \in FieldsOf(t) |-> Field(f)]
      /\ \A f \in FieldsOf(t) : ClaimAnswer(proposal[f], f, d) = "none"
  BY ResolveSucceeds
<1> SUFFICES ASSUME NEW f \in FieldsOf(t) PROVE OfLine(Field(f), f, d)
  BY <1>1
<1>2. ClaimAnswer(proposal[f], f, d) = "none"
  BY <1>1
<1>3. CASE proposal[f].supported
  <2> DEFINE c == proposal[f]
  <2>1. Quoted(c, f, d)
    BY <1>2, <1>3 DEF ClaimAnswer, Failing
  <2>2. /\ c.line_number \in DOMAIN d /\ c.sure
        /\ FieldAnswer(Field(f), f, d) = "none"
    BY <1>2, <1>3, ClaimPasses
  <2>3. d[c.line_number].label = f
    BY <2>1 DEF Quoted
  <2>4. LineOf(d, c.line_number, c.sure) = LineOf(d, c.line_number, TRUE)
    BY <2>2 DEF LineOf
  <2>5. Field(f).supported /\ Field(f).provenance = <<LineOf(d, c.line_number, TRUE)>>
    BY <1>3, <2>4 DEF Supported
  <2> HIDE DEF Field
  <2>6. QED
    BY <2>2, <2>3, <2>5 DEF OfLine
<1>4. CASE ~proposal[f].supported
  BY <1>4 DEF OfLine, Unsupported
<1>5. QED
  BY <1>3, <1>4

-----------------------------------------------------------------------------
(***************************************************************************)
(* The steps.                                                              *)
(***************************************************************************)
LEMMA InitInvariant == Init => IInv
<1> SUFFICES ASSUME Init PROVE IInv
  OBVIOUS
<1>1. /\ doc \in DocumentGiven /\ pc = "classify" /\ maker = "none"
      /\ verdict = "pending"
  BY DEF Init
<1>2. QED
  BY <1>1 DEF IInv, Placed, Made, WholeLines, Judged, Extracts

LEMMA ClassifyInvariant == IInv /\ ClassifyDocument => IInv'
<1> SUFFICES ASSUME IInv, ClassifyDocument PROVE IInv'
  OBVIOUS
<1>1. /\ pc = "classify" /\ type' = Classify(doc) /\ maker = "none" /\ verdict = "pending"
      /\ pc' = IF type' = "unknown" THEN "done" ELSE "extract"
      /\ doc \in DocumentGiven
      /\ UNCHANGED <<doc, maker, candidate, reading, verdict>>
  BY DEF ClassifyDocument, IInv, Placed
<1>2. pc' = "extract" => type' \in Template
  BY <1>1, ClassifiedTemplate
<1>3. QED
  BY <1>1, <1>2 DEF IInv, Placed, Made, WholeLines, Judged, Extracts

\* Both extractors, as far as the invariant goes.
LEMMA ExtractInvariant ==
  ASSUME IInv, pc = "extract", UNCHANGED <<doc, type, reading, verdict>>,
         pc' = Handed, maker' \in {"parser", "model"},
         maker' = "parser" => candidate' = Parse(doc, type),
         candidate'.code = "none" =>
           /\ DOMAIN candidate'.fields = FieldsOf(type)
           /\ \A f \in FieldsOf(type) : OfLine(candidate'.fields[f], f, doc)
  PROVE  IInv'
<1>1. /\ doc \in DocumentGiven /\ verdict = "pending" /\ maker = "none"
      /\ type = Classify(doc) /\ type \in Template /\ doc \in Seq(Line)
  BY DocumentAssumption DEF IInv, Placed
<1>2. pc' = IF candidate'.code = "none" THEN "guard" ELSE "done"
  BY DEF Handed
<1>3. Extracts' => candidate'.code = "none"
  BY DEF Extracts
<1>4. Placed'
  BY <1>1, <1>2 DEF Placed, Extracts
<1>5. Made'
  BY <1>1, <1>3 DEF Made
<1>6. WholeLines'
  <2> SUFFICES ASSUME candidate'.code = "none", NEW f \in FieldsOf(type)
               PROVE  WholeField(candidate'.fields[f], doc)
    BY <1>3 DEF WholeLines
  <2>1. OfLine(candidate'.fields[f], f, doc)
    OBVIOUS
  <2>2. QED
    BY <1>1, <2>1, OfLineIsWhole
<1>7. QED
  BY <1>1, <1>4, <1>5, <1>6 DEF IInv, Judged

LEMMA ParseInvariant == IInv /\ ParseDocument => IInv'
<1> SUFFICES ASSUME IInv, ParseDocument PROVE IInv'
  OBVIOUS
<1>1. /\ pc = "extract" /\ maker' = "parser" /\ candidate' = Parse(doc, type)
      /\ pc' = Handed /\ UNCHANGED <<doc, type, reading, verdict>>
  BY DEF ParseDocument
<1>2. doc \in Seq(Line) /\ type \in Template
  BY <1>1, DocumentAssumption DEF IInv, Placed
<1>3. candidate'.code = "none" =>
        /\ DOMAIN candidate'.fields = FieldsOf(type)
        /\ \A f \in FieldsOf(type) : OfLine(candidate'.fields[f], f, doc)
  BY <1>1, <1>2, ParsedOfLines
<1>4. maker' \in {"parser", "model"}
  BY <1>1
<1>5. QED
  BY <1>1, <1>3, <1>4, ExtractInvariant

LEMMA ResolveInvariant == IInv /\ ResolveProposal => IInv'
<1> SUFFICES ASSUME IInv, ResolveProposal PROVE IInv'
  OBVIOUS
<1>1. /\ pc = "extract" /\ maker' = "model"
      /\ pc' = Handed /\ UNCHANGED <<doc, type, reading, verdict>>
  BY DEF ResolveProposal
<1>2. PICK proposal : candidate' = Resolve(proposal, type, doc)
  BY DEF ResolveProposal
<1>3. doc \in Seq(Line) /\ type \in Template
  BY <1>1, DocumentAssumption DEF IInv, Placed
<1>4. candidate'.code = "none" =>
        /\ DOMAIN candidate'.fields = FieldsOf(type)
        /\ \A f \in FieldsOf(type) : OfLine(candidate'.fields[f], f, doc)
  BY <1>2, <1>3, ResolvedOfLines
<1>5. maker' \in {"parser", "model"} /\ (maker' = "parser" => candidate' = Parse(doc, type))
  BY <1>1
<1>6. QED
  BY <1>1, <1>4, <1>5, ExtractInvariant

\* A pointer that is altered still selects whole lines, if any.
LEMMA AlteredPointerIsWhole ==
  ASSUME NEW p \in Pointer, Whole(p, doc), doc \in Seq(Line), NEW q \in AlteredPointer(p)
  PROVE  q \in Pointer /\ Whole(q, doc)
<1>1. CASE q = [p EXCEPT !.own = FALSE]
  <2>1. q \in Pointer /\ q.char_start = p.char_start /\ q.line_start = p.line_start
        /\ q.char_end = p.char_end
    BY <1>1 DEF Pointer
  <2>2. QED
    BY <2>1 DEF Whole
<1>2. CASE q = [p EXCEPT !.line_end = @ + 1]
  <2>1. q \in Pointer /\ q.char_start = p.char_start /\ q.line_start = p.line_start
        /\ q.char_end = p.char_end
    BY <1>2 DEF Pointer
  <2>2. QED
    BY <2>1 DEF Whole
<1>3. CASE q = [p EXCEPT !.line_start = Len(doc) + 1, !.line_end = Len(doc) + 1]
  <2> DEFINE half == [p EXCEPT !.line_start = Len(doc) + 1]
  <2>1. half \in Pointer /\ half.char_start = p.char_start /\ half.line_start = Len(doc) + 1
    BY DEF Pointer
  <2>2. q = [half EXCEPT !.line_end = Len(doc) + 1]
    BY <1>3
  <2>3. q \in Pointer /\ q.char_start = p.char_start /\ q.line_start = Len(doc) + 1
    BY <2>1, <2>2 DEF Pointer
  <2>4. q.line_start \notin DOMAIN doc
    BY <2>3
  <2>5. QED
    BY <2>3, <2>4 DEF Whole
<1>4. QED
  BY <1>1, <1>2, <1>3 DEF AlteredPointer

\* A field the parser made, altered in one way, points to whole lines only.
LEMMA AlteredIsWhole ==
  ASSUME doc \in Seq(Line), NEW n \in DOMAIN doc, NEW value,
         NEW field \in Altered(Supported(value, LineOf(doc, n, TRUE)))
  PROVE  WholeField(field, doc)
<1> DEFINE p == LineOf(doc, n, TRUE)
           given == Supported(value, p)
           second == [p EXCEPT !.digest = doc[1]]
<1>1. p \in Pointer /\ Whole(p, doc)
  BY LineOfIsPointer
<1>2. given = [supported |-> TRUE, value |-> value, provenance |-> <<p>>]
  BY DEF Supported
<1>4. ASSUME NEW q \in Pointer, Whole(q, doc), NEW x, x.provenance = <<q>>
      PROVE  WholeField(x, doc)
  BY <1>4, ListOfOne DEF WholeField
<1>5. second \in Pointer
  <2>1. doc[1] \in Line
    OBVIOUS
  <2>2. QED
    BY <1>1, <2>1 DEF Pointer
<1>6. field \in Altered(given)
  OBVIOUS
<1> HIDE DEF p, given, second
<1>3. given.provenance[1] = p
  BY <1>2
<1>7. \/ \E v \in ValueGiven : field = [given EXCEPT !.value = v]
      \/ \E v \in ValueGiven, k \in DOMAIN doc, sure \in BOOLEAN :
           field = Supported(v, LineOf(doc, k, sure))
      \/ \E q \in AlteredPointer(p) : field = [given EXCEPT !.provenance = <<q>>]
      \/ field = [given EXCEPT !.provenance = <<p, second>>]
  BY <1>3, <1>6 DEF Altered, second
<1>8. CASE \E v \in ValueGiven : field = [given EXCEPT !.value = v]
  <2>1. field.provenance = <<p>>
    BY <1>2, <1>8
  <2>2. QED
    BY <1>1, <1>4, <2>1
<1>9. CASE \E v \in ValueGiven, k \in DOMAIN doc, sure \in BOOLEAN :
             field = Supported(v, LineOf(doc, k, sure))
  <2>1. PICK k \in DOMAIN doc, sure \in BOOLEAN : field.provenance = <<LineOf(doc, k, sure)>>
    BY <1>9 DEF Supported
  <2>2. LineOf(doc, k, sure) \in Pointer /\ Whole(LineOf(doc, k, sure), doc)
    BY LineOfIsPointer
  <2>3. QED
    BY <1>4, <2>1, <2>2
<1>10. CASE \E q \in AlteredPointer(p) : field = [given EXCEPT !.provenance = <<q>>]
  <2>1. PICK q \in AlteredPointer(p) : field = [given EXCEPT !.provenance = <<q>>]
    BY <1>10
  <2>2. q \in Pointer /\ Whole(q, doc)
    BY <1>1, AlteredPointerIsWhole
  <2>3. field.provenance = <<q>>
    BY <1>2, <2>1
  <2>4. QED
    BY <1>4, <2>2, <2>3
<1>11. CASE field = [given EXCEPT !.provenance = <<p, second>>]
  <2>1. field.provenance = <<p, second>>
    BY <1>2, <1>11
  <2>2. <<p, second>> \in Seq(Pointer) /\ <<p, second>>[1] = p
    BY <1>1, <1>5
  <2>3. QED
    BY <1>1, <2>1, <2>2 DEF WholeField
<1>12. QED
  BY <1>7, <1>8, <1>9, <1>10, <1>11

LEMMA AlterInvariant == IInv /\ AlterCandidate => IInv'
<1> SUFFICES ASSUME IInv, AlterCandidate PROVE IInv'
  OBVIOUS
<1>1. /\ pc = "guard" /\ maker = "parser" /\ maker' = "altered"
      /\ UNCHANGED <<doc, pc, type, reading, verdict>>
  BY DEF AlterCandidate
<1>2. /\ doc \in DocumentGiven /\ doc \in Seq(Line) /\ type = Classify(doc)
      /\ type \in Template /\ verdict = "pending"
      /\ Extracts /\ candidate.code = "none"
  BY <1>1, DocumentAssumption DEF IInv, Placed, Extracts
<1> DEFINE fields == [f \in FieldsOf(type) |-> Resolved(doc, f)]
<1>3. candidate = Parse(doc, type)
  BY <1>1 DEF IInv, Made
<1>4. candidate = Extracted(fields)
  BY <1>2, <1>3, ParseSucceeds
<1>5. PICK f \in FieldsOf(type) : \E field \in Altered(candidate.fields[f]) :
        candidate' = [candidate EXCEPT !.fields[f] = field]
  BY DEF AlterCandidate
<1>6. PICK field \in Altered(candidate.fields[f]) :
        candidate' = [candidate EXCEPT !.fields[f] = field]
  BY <1>5
<1>7. candidate.fields = fields /\ DOMAIN fields = FieldsOf(type)
  BY <1>4 DEF Extracted
<1>8. /\ candidate'.code = "none"
      /\ candidate'.fields = [fields EXCEPT ![f] = field]
  <2> HIDE DEF fields
  <2>1. candidate = [code |-> "none", unresolved |-> {}, fields |-> fields]
    BY <1>4 DEF Extracted
  <2>2. QED
    BY <1>6, <2>1
<1>9. WholeField(field, doc)
  <2>1. /\ UnresolvedReason(doc, f) = "none" /\ ~ParseRaises(doc, f)
    BY <1>2, <1>3, ParseSucceeds
  <2>2. f \in FieldName
    BY <1>2, TemplateFields
  <2>3. PICK n \in DOMAIN doc : ReadAt(doc, f, n)
    BY <1>2, <2>1, <2>2, FieldResolved
  <2>4. Resolved(doc, f) = Supported(ValueAt(doc, f, n), LineOf(doc, n, TRUE))
    BY <2>3 DEF ReadAt
  <2>5. field \in Altered(Supported(ValueAt(doc, f, n), LineOf(doc, n, TRUE)))
    BY <1>6, <1>7, <2>4
  <2>6. QED
    BY <1>2, <2>5, AlteredIsWhole
<1>10. \A g \in FieldsOf(type) : WholeField(candidate.fields[g], doc)
  BY <1>2 DEF IInv, WholeLines
<1> HIDE DEF fields
<1>11. \A g \in FieldsOf(type) : WholeField(candidate'.fields[g], doc)
  BY <1>7, <1>8, <1>9, <1>10
<1>12. DOMAIN candidate'.fields = FieldsOf(type)
  BY <1>7, <1>8
<1>13. Extracts'
  BY <1>1, <1>8 DEF Extracts
<1>14. QED
  BY <1>1, <1>2, <1>11, <1>12, <1>13 DEF IInv, Placed, Made, WholeLines, Judged

LEMMA ReadingIsLines ==
  ASSUME doc \in Seq(Line), NEW r \in Readings PROVE r \in Seq(Line)
<1>1. \A n, m \in DOMAIN doc : WithLineReplaced(n, m) \in Seq(Line)
  BY DEF WithLineReplaced
<1>2. ASSUME NEW n \in 1 .. Len(doc) PROVE WithoutLine(n) \in Seq(Line)
  <2>1. SubSeq(doc, 1, n - 1) \in Seq(Line) /\ SubSeq(doc, n + 1, Len(doc)) \in Seq(Line)
    OBVIOUS
  <2>2. QED
    BY <2>1 DEF WithoutLine
<1>3. QED
  BY <1>1, <1>2 DEF Readings

LEMMA GuardInvariant == IInv /\ GuardExtraction => IInv'
<1> SUFFICES ASSUME IInv, GuardExtraction PROVE IInv'
  OBVIOUS
<1>1. /\ pc = "guard" /\ pc' = "done" /\ reading' \in {doc} \cup Readings
      /\ verdict' = Guard(candidate.fields, type, reading')
      /\ UNCHANGED <<doc, type, maker, candidate>>
  BY DEF GuardExtraction
<1>2. doc \in Seq(Line) /\ Extracts
  BY <1>1, DocumentAssumption DEF IInv, Placed
<1>3. reading' \in Seq(Line)
  BY <1>1, <1>2, ReadingIsLines
<1>4. QED
  BY <1>1, <1>2, <1>3 DEF IInv, Placed, Made, WholeLines, Judged, Extracts

LEMMA NextInvariant == IInv /\ [Next]_vars => IInv'
<1> SUFFICES ASSUME IInv, [Next]_vars PROVE IInv'
  OBVIOUS
<1>1. CASE UNCHANGED vars
  BY <1>1 DEF IInv, Placed, Made, WholeLines, Judged, Extracts, vars
<1>2. QED
  BY <1>1, ClassifyInvariant, ParseInvariant, ResolveInvariant, AlterInvariant,
     GuardInvariant DEF Next

\* The inductive invariant holds of every execution.
THEOREM Invariance == Spec => []IInv
BY InitInvariant, NextInvariant, PTL DEF Spec

-----------------------------------------------------------------------------
(***************************************************************************)
(* What the invariant says of the properties.                              *)
(***************************************************************************)
LEMMA PassesByInvariant == IInv => ExtractedPassesTheGuard
<1> SUFFICES ASSUME IInv, verdict # "pending", maker \in {"parser", "model"}, reading = doc
             PROVE  verdict = IF \A f \in FieldsOf(type) : candidate.fields[f].supported
                              THEN "none" ELSE "unsupported_required_field"
  BY DEF ExtractedPassesTheGuard
<1>1. verdict = Guard(candidate.fields, type, doc) /\ Extracts
  BY DEF IInv, Judged
<1>2. type \in Template
  BY <1>1 DEF IInv, Placed, Extracts
<1>3. \A f \in FieldsOf(type) : OfLine(candidate.fields[f], f, doc)
  BY <1>1 DEF IInv, Made
<1>4. \A f \in FieldsOf(type) : candidate.fields[f].supported =>
        FieldAnswer(candidate.fields[f], f, doc) = "none"
  BY <1>3 DEF OfLine
<1>5. QED
  BY <1>1, <1>2, <1>4, GuardAnswers

\* What a value must be that is supported by a line.
LEMMA SupportedValue ==
  ASSUME NEW d, NEW f, NEW n, NEW value, Supports(KindOf[f], value, d[n].tokens)
  PROVE  value = ValueAt(d, f, n)
BY DEF Supports, ValueAt

LEMMA AgreesByInvariant == IInv => GuardAgreesWithParser
<1> SUFFICES ASSUME IInv, verdict = "none", reading = doc, Parse(doc, type).code = "none"
             PROVE  Values(candidate.fields) = Values(Parse(doc, type).fields)
  BY DEF GuardAgreesWithParser
<1>1. Guard(candidate.fields, type, doc) = "none" /\ Extracts
  BY DEF IInv, Judged
<1>2. /\ type \in Template /\ doc \in Seq(Line)
      /\ DOMAIN candidate.fields = FieldsOf(type)
  BY <1>1, DocumentAssumption DEF IInv, Placed, Made, Extracts
<1>3. Parse(doc, type).fields = [f \in FieldsOf(type) |-> Resolved(doc, f)]
  BY ParseSucceeds
<1>4. ASSUME NEW f \in FieldsOf(type)
      PROVE  candidate.fields[f].value = Resolved(doc, f).value
  <2> DEFINE field == candidate.fields[f]
             p == field.provenance[1]
  <2>1. FieldAnswer(field, f, doc) = "none"
    BY <1>1, <1>2, GuardPassed
  <2>2. WholeField(field, doc)
    BY <1>1 DEF IInv, WholeLines
  <2>3. field.provenance \in Seq(Pointer) /\ (field.provenance # <<>> => Whole(p, doc))
    BY <2>2 DEF WholeField
  <2>4. /\ field.provenance # <<>> /\ Intact(p, f, doc)
        /\ Supports(KindOf[f], field.value, Slice(doc[p.line_start], p).tokens)
    BY <2>1, <2>3, FieldPassed
  <2>5. /\ UnresolvedReason(doc, f) = "none" /\ ~ParseRaises(doc, f)
    BY ParseSucceeds
  <2>6. f \in FieldName
    BY <1>2, TemplateFields
  <2>7. PICK n \in DOMAIN doc : ReadAt(doc, f, n)
    BY <1>2, <2>5, <2>6, FieldResolved
  <2> HIDE DEF p, field
  <2>8. p.line_start = n
    BY <2>4, <2>7 DEF Intact, ReadAt, Matches
  <2>9. p.char_start = 0 /\ p.char_end = LineEnd(doc[n])
    BY <2>3, <2>4, <2>8 DEF Whole
  <2>10. doc[n].tokens \in Seq(Token)
    BY <1>2, WholeLine DEF Line
  <2>11. Slice(doc[n], p).tokens = doc[n].tokens
    BY <2>9, <2>10 DEF Slice, LineEnd
  <2>12. field.value = ValueAt(doc, f, n)
    BY <2>4, <2>8, <2>11, SupportedValue
  <2>13. \A v, q : Supported(v, q).value = v
    BY DEF Supported
  <2>14. Resolved(doc, f).value = ValueAt(doc, f, n)
    BY <2>7, <2>13 DEF ReadAt
  <2>15. QED
    BY <2>12, <2>14 DEF field
<1>5. QED
  BY <1>2, <1>3, <1>4 DEF Values

LEMMA CatchesByInvariant == IInv => GuardCatchesChange
<1> SUFFICES ASSUME IInv, verdict = "none", maker \in {"parser", "model"},
                    NEW f \in FieldsOf(type)
             PROVE  LET n == candidate.fields[f].provenance[1].line_start
                    IN  /\ n \in DOMAIN reading
                        /\ reading[n].label = doc[n].label
                        /\ IsPrefix(doc[n].tokens, reading[n].tokens)
  BY DEF GuardCatchesChange
<1> DEFINE field == candidate.fields[f]
<1>1. Guard(candidate.fields, type, reading) = "none" /\ Extracts /\ reading \in Seq(Line)
  BY DEF IInv, Judged
<1>2. type \in Template /\ doc \in Seq(Line)
  BY <1>1, DocumentAssumption DEF IInv, Placed, Extracts
<1>3. FieldAnswer(field, f, reading) = "none"
  BY <1>1, <1>2, GuardPassed
<1>4. OfLine(field, f, doc) /\ WholeField(field, doc)
  BY <1>1 DEF IInv, Made, WholeLines
<1>5. field.provenance \in Seq(Pointer)
  BY <1>4 DEF WholeField
<1>6. field.supported /\ Intact(field.provenance[1], f, reading)
  BY <1>3, <1>5, FieldPassed
<1>7. PICK n \in DOMAIN doc :
        doc[n].label = f /\ field.provenance = <<LineOf(doc, n, TRUE)>>
  BY <1>4, <1>6 DEF OfLine
<1> DEFINE p == LineOf(doc, n, TRUE)
<1>8. field.provenance[1] = p
  BY <1>7
<1>9. /\ p.line_start = n /\ p.char_start = 0 /\ p.char_end = LineEnd(doc[n])
      /\ p.digest = doc[n]
  BY DEF LineOf
<1> HIDE DEF p, field
<1>10. /\ n \in DOMAIN reading /\ LineEnd(doc[n]) <= LineEnd(reading[n])
       /\ reading[n].label = f /\ Slice(reading[n], p) = doc[n]
  BY <1>6, <1>8, <1>9 DEF Intact
<1>11. doc[n].tokens \in Seq(Token) /\ reading[n].tokens \in Seq(Token)
  BY <1>1, <1>2, <1>10, WholeLine DEF Line
<1>12. Len(doc[n].tokens) <= Len(reading[n].tokens)
  BY <1>10, <1>11 DEF LineEnd
<1>13. SubSeq(reading[n].tokens, 1, Len(doc[n].tokens)) = doc[n].tokens
  <2>1. Slice(reading[n], p).tokens = SubSeq(reading[n].tokens, 1, p.char_end - 1)
    BY <1>9 DEF Slice
  <2>2. p.char_end - 1 = Len(doc[n].tokens)
    BY <1>9, <1>11 DEF LineEnd
  <2>3. QED
    BY <1>10, <2>1, <2>2
<1>14. SubSeq(doc[n].tokens, 1, Len(doc[n].tokens)) = doc[n].tokens
  BY <1>11
<1>15. IsPrefix(doc[n].tokens, reading[n].tokens)
  BY <1>12, <1>13, <1>14 DEF IsPrefix
<1>16. QED
  BY <1>7, <1>8, <1>9, <1>10, <1>15 DEF field

LEMMA MoveByInvariant == IInv => LinesMayMove
<1> SUFFICES ASSUME IInv, maker = "parser", NEW n \in 3 .. Len(doc), NEW m \in 3 .. Len(doc)
             PROVE  LET other == Parse(Swapped(doc, n, m), type) IN
                    /\ other.code = candidate.code
                    /\ other.unresolved = candidate.unresolved
                    /\ Values(other.fields) = Values(candidate.fields)
  BY DEF LinesMayMove, Swapped
<1>1. candidate = Parse(doc, type) /\ type \in Template /\ doc \in Seq(Line)
  BY DocumentAssumption DEF IInv, Placed, Made
<1>2. n \in DOMAIN doc /\ m \in DOMAIN doc
  BY <1>1
<1>3. QED
  BY <1>1, <1>2, SwappedParse

-----------------------------------------------------------------------------
\* What the parser or the resolver made of a document passes the guard on that
\* document, or is refused for a field the proposal left unsupported: the three
\* read a line alike, whatever the document and the template.
THEOREM ExtractedPasses == Spec => []ExtractedPassesTheGuard
BY PassesByInvariant, Invariance, PTL

\* An extraction that passes the guard states what the parser would have read,
\* also one that was altered on the way.
THEOREM GuardAgrees == Spec => []GuardAgreesWithParser
BY AgreesByInvariant, Invariance, PTL

\* A document that was changed after the extraction passes only if every line that
\* was read is still at its place, unless it goes on behind its former end.
THEOREM GuardCatches == Spec => []GuardCatchesChange
BY CatchesByInvariant, Invariance, PTL

\* The order of the lines below the header does not matter to the parser.
THEOREM OrderOfLinesIsFree == Spec => []LinesMayMove
BY MoveByInvariant, Invariance, PTL
=============================================================================
