---------------------------- MODULE MCExtractionCheck ----------------------------
(***************************************************************************)
(* A pay stub with a name and an amount, a W-2 with an amount and a year,  *)
(* a bank statement with an amount.  Bodies of up to three lines, so that a *)
(* label may be missing, alone, repeated or contradicted, in every order.  *)
(***************************************************************************)
EXTENDS ExtractionCheck

MCFields ==
  [t \in {"pay_stub", "tax_form", "bank_statement"} |->
     IF t = "pay_stub" THEN <<"employee_name", "income">>
     ELSE IF t = "tax_form" THEN <<"income", "tax_year">> ELSE <<"income">>]
MCKindOf ==
  [f \in {"employee_name", "income", "tax_year"} |->
     IF f = "employee_name" THEN "string" ELSE IF f = "income" THEN "money" ELSE "integer"]

Tok(form, sign, magnitude) == [form |-> form, sign |-> sign, magnitude |-> magnitude]
Word == Tok("word", 1, 0)
Twelve == Tok("plain", 1, 12)
Seven == Tok("plain", 1, 7)

TextsOf(f) ==
  IF f = "employee_name" THEN {<<>>, <<Word>>, <<Word, Word>>, <<Tok("long", 1, 0)>>}
  ELSE {<<>>, <<Twelve>>, <<Tok("plain", -1, 12)>>, <<Twelve, Word>>, <<Seven, Twelve>>}
       \cup IF f = "income" THEN {<<Tok("grouped", 1, 12000)>>}
            ELSE {<<Tok("fraction", 1, 12)>>, <<Tok("huge", 1, 99)>>,
                  <<Tok("fraction", 1, 12), Seven>>}

LabelLine(l) == [label |-> l, tokens |-> <<>>]
BodyLines(t) ==
  {LabelLine("other")} \cup
    UNION {{[label |-> f, tokens |-> x] : x \in TextsOf(f)} : f \in {MCFields[t][i] : i \in DOMAIN MCFields[t]}}

Headed(t) ==
  {<<LabelLine("marker"), LabelLine(t)>> \o body :
     body \in UNION {[1 .. n -> BodyLines(t)] : n \in 1 .. 3}}

MCDocumentGiven ==
  Headed("pay_stub") \cup Headed("tax_form") \cup
  {<<LabelLine("blank")>> \o d :
     d \in {<<LabelLine("marker"), LabelLine("bank_statement"), line>> :
              line \in BodyLines("bank_statement")}} \cup
  {<<LabelLine("pay_stub"), LabelLine("marker")>>, <<LabelLine("marker")>>,
   <<LabelLine("marker"), LabelLine("other"), LabelLine("pay_stub")>>}

MCValueGiven == {NumberValue(12), NumberValue(7), TextValue(<<Word>>)}

NoClaim == [supported |-> FALSE, value |-> NumberValue(0), line_number |-> 0,
            quote |-> LabelLine("other"), sure |-> FALSE]

\* Claims with at most one thing wrong with them.
MCClaimGiven(d, f) ==
  {NoClaim} \cup
  {[supported |-> TRUE, value |-> v, line_number |-> n, quote |-> d[n], sure |-> TRUE] :
     v \in {x \in MCValueGiven : (x.text = <<>>) <=> (KindOf[f] # "string")},
     n \in {m \in DOMAIN d : d[m].label = f}} \cup
  {[supported |-> TRUE, value |-> NumberValue(12), line_number |-> n, quote |-> d[q],
    sure |-> sure] :
     n \in {Len(d), Len(d) + 1}, q \in {Len(d)}, sure \in {FALSE}} \cup
  {[supported |-> TRUE, value |-> NumberValue(12), line_number |-> n, quote |-> d[Len(d)],
    sure |-> TRUE] : n \in {Len(d) - 1, Len(d) + 1}}
=============================================================================
