----------------------------- MODULE MCDocumentStore -----------------------------
(***************************************************************************)
(* Callers for TLC; they are alike.                                        *)
(***************************************************************************)
EXTENDS DocumentStore, TLC

CONSTANTS c1, c2

Callers == Permutations(Caller)
=============================================================================
