------------------------------ MODULE AuditLedger ------------------------------
(***************************************************************************)
(* What the workflow relies on when it asks for an audit record: a list    *)
(* that only grows, and an acknowledgement that is given for records of    *)
(* the list only and that no power failure takes back.  AuditStore         *)
(* implements it; DocumentReview's calls of the audit assume it.           *)
(***************************************************************************)
EXTENDS Naturals, Sequences

CONSTANT Entry

VARIABLES
  ledger,        \* the records in the list
  acknowledged   \* the records whose writers were told that they are in it
vars == <<ledger, acknowledged>>

Init == ledger \in Seq(Entry) /\ acknowledged = {}

Holds(r) == \E i \in 1 .. Len(ledger) : ledger[i] = r

\* A record is written once.
Write ==
  /\ \E r \in Entry : ~Holds(r) /\ ledger' = Append(ledger, r)
  /\ UNCHANGED acknowledged

Acknowledge ==
  /\ \E r \in Entry : Holds(r) /\ acknowledged' = acknowledged \cup {r}
  /\ UNCHANGED ledger

\* Records nobody was told of may be lost, the last ones first.
Lose ==
  /\ \E n \in 0 .. Len(ledger) : ledger' = SubSeq(ledger, 1, n)
  /\ \A r \in acknowledged : \E i \in 1 .. Len(ledger') : ledger'[i] = r
  /\ UNCHANGED acknowledged

Next == Write \/ Acknowledge \/ Lose
Spec == Init /\ [][Next]_vars
=============================================================================
