------------------------------ MODULE LocalOtlpTrace ------------------------------
(***************************************************************************)
(* LocalOtlpTraceSink.emit_span: one request to a receiver on the loopback *)
(* interface, for one span, without retry                                  *)
(* (financial_reviewer/local/otlp_trace.py).  The encoding of the span is  *)
(* left out.                                                               *)
(***************************************************************************)
EXTENDS BoundedReply

\* Mutant: a declared length that is no number is not caught.
PostedUncaught(reply, parses) ==
  IF Read(reply) = "response_error" /\ reply.declared = "garbled" THEN "value_error"
  ELSE IF Read(reply) # "read" THEN Read(reply)
  ELSE IF reply.body > 0 /\ ~parses THEN "response_error" ELSE "accepted"

\* What a post comes to; parses: the body is an OTLP response.  An empty body is
\* not parsed.
Posted(reply, parses) ==
  IF Read(reply) # "read" THEN Read(reply)
  ELSE IF reply.body > 0 /\ ~parses THEN "response_error" ELSE "accepted"

\* Cloud tracing, which another part of the process may have switched on since the
\* review began, stops the span before it is encoded; fits: the request is within
\* max_request_bytes.
EmitSpan(tracing, fits, reply, parses) ==
  IF tracing THEN "unsafe_configuration"
  ELSE IF ~fits THEN "response_error" ELSE Posted(reply, parses)

\* What emit_span can come to.
Emissions(tracing) ==
  {EmitSpan(tracing, fits, reply, parses) :
     fits \in BOOLEAN, reply \in Reply, parses \in BOOLEAN}

\* Both errors are ReviewTraceExportErrors.
ExportErrors == {"unavailable", "response_error"}
=============================================================================
