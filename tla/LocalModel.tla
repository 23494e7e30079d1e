-------------------------------- MODULE LocalModel --------------------------------
(***************************************************************************)
(* OllamaModel.generate_structured: one exchange with the language model   *)
(* on the loopback interface, without retry                                *)
(* (financial_reviewer/local/model.py).  Prompts and schemas are left out. *)
(***************************************************************************)
EXTENDS BoundedReply

\* What the body of an answer is: no JSON, or JSON with a key twice or a number of
\* too many digits; JSON too deep for the parser; no object; an object that tells
\* an error, is not done or comes from another model; one without text; one whose
\* text is too long; or one with text.
Content ==
  {"no_json", "too_deep", "no_object", "unverifiable", "no_text", "long_text", "text"}

\* What is left of the answer when it has been looked through.
Envelope(content) ==
  IF content \in {"text", "too_deep"} THEN content ELSE "response_error"

\* Cloud tracing is refused twice before anything is sent; sendable: the settings
\* still validate, and the task, prompt and schema are within their limits.
Generated(tracing, sendable, reply, content) ==
  IF tracing THEN "unsafe_configuration"
  ELSE IF ~sendable THEN "input_error"
  ELSE IF Read(reply) # "read" THEN Read(reply)
  ELSE IF reply.body = 0 THEN "response_error" ELSE Envelope(content)

\* All that generate_structured can come to.
Generations ==
  {Generated(tracing, sendable, reply, content) :
     tracing \in BOOLEAN, sendable \in BOOLEAN, reply \in Reply, content \in Content}
=============================================================================
