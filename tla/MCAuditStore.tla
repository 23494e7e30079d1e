------------------------------ MODULE MCAuditStore ------------------------------
(***************************************************************************)
(* Writers and stores for TLC.  SharedStore: the threads of one process.   *)
(* OwnStores: two processes with a thread each.                            *)
(***************************************************************************)
EXTENDS AuditStore, TLC

CONSTANTS w1, w2, s1, s2

SharedStore == [w \in Writer |-> s1]
OwnStores == [w \in Writer |-> IF w = w1 THEN s1 ELSE s2]
=============================================================================
