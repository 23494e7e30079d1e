------------------------------ MODULE MCTraceSession ------------------------------
(***************************************************************************)
(* Threads, which are alike, and lists of causes for TLC: one cause, two   *)
(* in an order that may differ from the first, one twice, and one more     *)
(* than the limit.                                                         *)
(***************************************************************************)
EXTENDS TraceSession

CONSTANTS t1, t2

Threads == Permutations(Thread)

Causes == {"income", "audit", "storage"}

SomeLists ==
  {<<"income">>, <<"audit", "income">>, <<"audit", "audit">>,
   <<"audit", "income", "storage">>}
=============================================================================
