------------------------------- MODULE BoundedReply -------------------------------
(***************************************************************************)
(* An HTTP exchange on the loopback interface whose answer is measured     *)
(* while it is read.  The trace exporter and the client of the language    *)
(* model read their answers alike (financial_reviewer/local/otlp_trace.py, *)
(* model.py).  The other side may answer anything.                         *)
(***************************************************************************)
EXTENDS Naturals

CONSTANT MaxResponse  \* max_response_bytes

ASSUME MaxResponseAssumption == MaxResponse \in Nat

\* The other side is not reached; or it answers a status, a declared length and a
\* body, which may break off.
Reply ==
  [reached : BOOLEAN, success : BOOLEAN,
   declared : {"absent", "garbled", "fits", "excessive"},
   body : 0 .. MaxResponse + 1, broken : BOOLEAN]

\* No connection, no 2xx status, or a body that breaks off before it is too long.
Unavailable(reply) ==
  \/ ~reply.reached
  \/ ~reply.success
  \/ /\ reply.declared \in {"absent", "fits"}
     /\ reply.body <= MaxResponse
     /\ reply.broken

\* The body counts, whatever length was declared.
Oversized(reply) ==
  reply.declared \in {"garbled", "excessive"} \/ reply.body > MaxResponse

Read(reply) ==
  IF Unavailable(reply) THEN "unavailable"
  ELSE IF Oversized(reply) THEN "response_error" ELSE "read"
=============================================================================
