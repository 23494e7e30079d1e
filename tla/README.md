# Verification of the financial document reviewer

TLA+ models of the multi-agent financial document reviewer
(`src/financial_reviewer/`), TLC configurations that check them on small
instances, and TLAPS proofs for every value of the constants.

The program takes synthetic pay stubs and W-2 forms. Agent 1 extracts and guards
the fields of one document; a bundle of two documents is verified by Agent 2
(does the income agree?), reviewed by Agent 3 (a critic) and released or
escalated to a human by a deterministic gate. Language models only propose;
code decides. Its safety claim is that whatever a model, a sink, a disk or a
trace call does, nothing is released that was not earned and audited, and
everything else ends as an explained human review.

## 1. Inventory

| Component (source) | State | Operations | Talks to |
| --- | --- | --- | --- |
| Agent 1 review, `workflow.py` | graph state, private artifacts, trace span, outcome | `review`: preflight, intake, storage, telemetry policy, graph (`classify`, `deterministic_extract`, `schema_validate`, `evidence_guard`, `finalize`), close | audit store, telemetry sink, trace session, document store |
| Extraction and guard, `agents/agent1_extraction.py` | none | classify, parse labelled lines, resolve a model's proposal, `enforce_evidence_guard` | called by the graph (the resolver only by tests) |
| Agent 2, `agents/agent2_verification.py` | counters, decision, normalized incomes, comparisons, observations, result | `verify`: `validate_request`, `model_decision`, `decision_guard`, `execute_tool`, `finalize` | local model |
| Agent 3, `agents/agent3_critic.py` | attempt, repair reason, result | `critique` | local model |
| Handoffs, `foundation/handoffs.py` | none | `VerificationInputAssembler.assemble`, `CriticInputAssembler.assemble` | called by the orchestrator and its gate |
| Orchestrator and gate, `orchestration/income_review.py` | review state, artifacts, outcome | `review`: bundle check, six nodes, final gate | Agents 1 to 3, handoffs, trace session |
| Audit store, `local/observability.py` | one JSONL file, a thread lock, a file lock | `append_event`, `list_records`, `verify_integrity` | the file system; other processes |
| Trace session, `local/telemetry.py` | root flag, active spans, causes, export failures, a lock | `start_root`, `start_child`, `finish` | OTLP exporter |
| OTLP exporter, `local/otlp_trace.py` | none | `emit_span`: one bounded HTTP exchange | a receiver on loopback |
| Model client, `local/model.py` | none | `generate_structured`: one bounded HTTP exchange | a language model on loopback |
| Document store, `local/storage.py` | the directory of a session | `store`, `read_text`, `delete_session` | the file system |
| Intake, configuration, schemas | none | validation | |

What makes it hard:

* *Partial failure.* Every audit record may fail, may be persisted although the
  caller is told that it is not, or may be written before its node's span raises
  and the node's update is lost. Every sink call and every span may fail.
* *Control handed to a model.* The model may complete early, repeat a tool, swap
  references, answer outside the schema, contradict Agent 2 or never complete.
* *Budgets that interact.* Tool calls, decisions and retries are bounded
  separately, and LangGraph has a recursion limit of its own.
* *Contracts checked twice.* The gate and the outcomes revalidate what earlier
  stages made. A contract stricter than its producer turns a decided review
  into an internal failure, a laxer one releases what was not earned.
* *Concurrency and crashes.* Threads and processes append to one audit file; a
  process may die between any two steps, and so may the machine. A document is
  stored in five system calls without a lock, while somebody may delete the session.
* *Check, unlock, act.* A span is checked under the session's lock, built outside
  it, removed under it again and exported outside it.
* *Two readers of one text.* The parser, the proposal resolver and the guard each
  read lines with patterns of their own and must agree.

What correctness means, per component:

* Agent 2: the verdict is a function of the evidence; the budgets hold and fit
  the recursion limit; each failure has its cause; one answer, always.
* Agent 3: only the one decision compatible with Agent 2's status is accepted;
  the repair prompt and the counts tell what happened.
* Handoffs: the order of the documents does not matter; what passes is
  decidable; what the critic is told is backed by a result it does not see.
* Orchestrator: a release is earned by the whole chain, only the gate releases,
  the failure code names the first stage that failed, a finished graph always
  has a valid outcome.
* Agent 1 review: a release has its whole trail verified and nothing after it;
  the trail tells the outcome; no private artifact survives the call.
* Extraction: what the parser or the resolver makes passes the guard; what passes
  the guard states what the parser would have read; a document that changed after
  it was read is noticed.
* Document store: a document is whole or not there; what is left behind has a
  cause; a deletion leaves nothing.
* Trace session: each span is exported once, inside out, its causes are kept
  whatever the exporter meets, and the receiver cannot disturb the review.
* Audit store: whole lines numbered from 1; an answer of True survives crashes;
  no writer waits forever.

`PROJECT.json` lists the hazards at their lines, with the properties that cover
them.

## 2. Modules

| Module | Models |
| --- | --- |
| `ReviewVocabulary` | document types and Agent 1's failure codes |
| `IncomeDomain` | income facts, normalization, rounding and comparison (Agent 2's tools) |
| `VerificationResults` | Agent 2's results, their validator, and the set of replies a request allows |
| `AgentContract` | abstract: a request is answered once, with a reply it allows |
| `VerificationAgent` | Agent 2's graph; implements `AgentContract` |
| `CriticResults`, `CriticAgent` | Agent 3's contracts and its loop; implements `AgentContract` |
| `Handoffs`, `HandoffCheck` | both assemblers as operators, and a specification that applies them to every given input |
| `IncomeReview` | the orchestrator and the gate, composed with the handoffs and the agents' contracts |
| `DocumentReview` | Agent 1's review of one document; implements `AgentContract` |
| `Extraction`, `ExtractionCheck` | classifier, parser, resolver and guard as operators, and a specification that takes a document, or an extraction or document altered on the way, through them |
| `DocumentStore` | one session directory, callers that store, read back and delete, failing system calls, crashes, power failures |
| `BoundedReply` | the bounded HTTP read that exporter and model client share |
| `LocalOtlpTrace`, `LocalModel` | `emit_span` and `generate_structured`: what each can come to |
| `TraceSession` | the trace session with its lock and handles, composed with the exporter |
| `AuditLedger` | abstract: a list that only grows and acknowledgements nothing takes back |
| `AuditStore` | the JSONL store and the verified append; implements `AuditLedger` |
| `VerificationAgentProofs`, `CriticAgentProofs`, `IncomeReviewProofs` (with the handoffs), `DocumentReviewProofs`, `ExtractionProofs`, `DocumentStoreProofs`, `TraceSessionProofs`, `AuditStoreProofs` | theorems (section 5) |
| `MC*` | instances for TLC |

How they compose. `IncomeReview` does not repeat the agents' loops. It lets
Agents 2 and 3 answer with any element of `VerificationReplies(request)` and
`CriticReplies(request)`, and the property `KeepsContract` of the runs
`verification_agent` and `critic_agent` shows that the detailed agents answer
with nothing else and do answer. `DocumentReview` states with `DocumentReplies`
what a caller may rely on, and takes the audit to be a call that is answered
True only for a persisted record; `AuditStore` implements that promise.
`CriticAgent` takes what its model call comes to from `LocalModel`, whose every
outcome it must turn into a result, and `TraceSession` takes what a span's export
comes to from `LocalOtlpTrace`. `DocumentReview` and `IncomeReview` keep the
session as `span_open` and the choice that a span call raises; `TraceSession`
shows when that choice is real: a refused handle, a clock set back, or cloud
tracing switched on in the meantime, and never the receiver (`ReceiverIsHarmless`).

### State and actions against the code

* `pc` of each module is the node of the LangGraph graph, or the step of the
  method around it. A node is one action, since LangGraph runs the nodes of these
  graphs one after another; it includes the node's audit calls, its span and the
  route that follows.
* `state` is the graph state that callbacks see, `artifact` the private
  artifacts, with the code's field names. Tuples whose order nobody reads are
  sets.
* `span_open` records that an exception left a child span active. The root span's
  `finish` then raises, and so does `review()`.
* In `DocumentReview`, `audit.trail` is what this review has persisted and
  `audit.failed` a history variable: a record's caller was told False. A call is
  ok, lost, or *kept but not ok* (the flush or the read-back failed after the
  write). `emitted` is what the telemetry sink has seen.
* In `AuditStore`, the file is the sequence of its lines, `Torn` a line cut short.
  A line has its writer, the writer's call and its sequence number. `synced` is the
  number of lines that a power failure cannot take. `thread_lock` is the RLock of
  each store object, `file_lock` the exclusive `flock`. The read-back under a
  shared lock is one step: it changes nothing, and under the lock nothing changes.
* In `DocumentStore`, `pc[c]` stands before the next system call of caller `c`:
  `create`, `write` (with flush and fsync), `rename`, `chmod`, then the workflow's
  `readback`. `files` is the directory as processes see it, `stable` as a power
  failure leaves it. `confirmed`, `left` and `gone` are history variables.
* In `TraceSession`, `call[t].at` says which section of `start_child` or `finish`
  thread `t` is in; `active`, `ended`, `rootStarted`, `causes`, `failures` are the
  code's fields. `removed`, `told`, `raised` and `overlap` are history variables.
* In `Extraction`, a document is its lines, a line its label and tokens, and a
  position counts tokens. A digest is what it was taken of.

### What is abstracted

Amounts are integers of a thousandth; `MonthlyCents` does the code's ROUND_HALF_UP.
`DecimalLimit` stands for the 28 digits of the decimal context: an amount beyond it
raises `InvalidOperation` out of the tool, in the code as in the model.
References, hashes, prose, labels and line numbers are reduced to whether they
agree. An extraction says of itself whether it passes its schema, whether each
field is supported, where its provenance points and whether its quotes are intact.
Tokens tell apart what the parser's two patterns tell apart: a sign, a fraction, a
grouping comma, more digits than `int()` converts, and a word too long for a field.
An HTTP answer is whether it was reached, its status, its declared length, the
length of its body against the limit, and whether it breaks off.
Timestamps are left out; what they can do (a span that does not validate because
the clock went back) is the choice that `span.finish` raises.

## 3. Runs

| Run | Question | Bounds and why they are enough |
| --- | --- | --- |
| `verification_agent` | Does Agent 2 keep its budgets, its verdict and its contract whatever the model proposes? | The source's budgets (4 tool calls, 5 decisions, 1 retry, recursion limit 20); two sources that carry any two of eight facts: equal after rounding, a cent apart, wrong period, year, basis or type, beyond the decimal context. |
| `critic_agent` | Does Agent 3 accept only the compatible decision, and do its repair and its counts tell what happened? | The source's two attempts; every request over the pair, valid or not; every outcome of the model client with a response limit of one byte, so that empty, full and excessive bodies occur. |
| `handoff_check` | Are the handoffs independent of order, decidable and truthful? | Every pair of extractions with at most one defect each, and results of every status, well and badly linked, with each linkage defect. Nothing happens after the one check, so deadlock is not checked. |
| `income_review` | Is every release earned, every failure named, every outcome valid? | Two documents; Agent 1's answers: agreeing, a cent apart, other year, refused year, overflowing, a bank statement, two failures, the same document twice; every contract answer of Agents 2 and 3; a span that may fail at every node. |
| `document_review` | Is a release of Agent 1 audited, and does the trail tell the outcome, when any audit, sink or trace call fails? | One document of each header type or a refused one; a sound extraction and one per defect the gates look for. |
| `audit_store` | Do numbering, durability and liveness survive two processes, partial writes, crashes and a full file? | Two processes with two calls each, a limit of two lines (so that the third append crosses it and the fourth is refused), two crashes or power failures. |
| `audit_threads` | Is the store's own lock enough for threads where `fcntl` does not exist? | Two threads of one store with two calls each. |
| `extraction_check` | Do parser, resolver and guard agree on every document, claim and alteration? | Bodies of one to three lines over three templates, so that a label may be missing, alone, repeated or contradicted in every order; each form of number; one alteration of an extraction or of the document on its way to the guard. The check ends after one document, so deadlock is not checked. |
| `document_store` | Is a document whole, is what is left explained, does a deletion leave nothing? | Two callers with two calls each, so that two stores and a deletion interleave in every way; every system call may fail; one crash or power failure. Callers are alike (symmetry). |
| `trace_session` | Are spans told once and inside out, are causes kept, is the receiver harmless? | Two threads, which may work on one span; three spans, so that there are chains and siblings; a limit of two causes in place of 16, with lists at, above and below it and with a cause twice; a response limit of one byte. A review may stop tracing at any time, so deadlock is not checked. |
| `extraction_errors`, `extraction_signs` | Two sentences of docstrings that the code does not keep (below). | As `extraction_check`. |

Without `fcntl` two *processes* do break the numbering. The property is stated
under `Exclusive` because the code promises no more: its documentation says
"thread-safe", and the file lock is taken "when POSIX locks exist".

Two runs expect a violation, each of what a docstring says:

* `extraction_errors`: "missing, duplicate, conflicting, empty, or malformed
  fields produce only PII-free field names and closed reason codes"
  (`agent1_extraction.py:290`). A single negative amount is refused by the schema and
  a number of more than 4300 digits by `int()`, both outside of the parser's handler.
  The exception leaves the parser, and the review ends with `internal_failure` in
  place of a reason for the field.
* `extraction_signs`: "exactly represented after its field label"
  (`agent1_extraction.py:681`). The pattern for integers knows no sign, so
  `Tax Year: -12` is read as 12 and confirmed by the guard. The parser and the
  guard share the pattern, so they agree on it.

What the runs show that the code does not say:

* The guard recomputes everything from the text it reads. Of a line that has got
  longer behind its former end it sees only the former part
  (`GuardCatchesChange` says so); neither parser nor resolver points to
  less than a whole line, and `review()` hands the guard the text it has read back.
* `finish()` of two threads on one span is safe: the second is refused, and what it
  brought is not added to the causes. A parent can close before its child only if
  two threads worked on both at once (`NestedUnlessOverlapped`); both workflows
  use one thread.
* `store` answers an error for a document that is there when `chmod` fails, and
  `review()` for one whose read-back fails. These, killed processes and failed
  cleanups are all that leave files behind (`LeftoversAreExplained`), and only
  `delete_session` takes them away.
* No directory is ever flushed. After a power failure a confirmed document may be
  missing and a deleted one there again, but never half of one.

* The audit may tell `workflow_completed succeeded` for a review that ends in human
  review: a sink that refuses the news takes the release back and a further
  record says so. That is why `TrailTellsTheOutcome` speaks of the last record.
* A rejected input whose telemetry the sink refuses is answered with
  `unsafe_configuration` while its trail tells `invalid_input`; it is the one exception
  `TrailTellsTheOutcome` has to make.
* An audit failure can be reported as `internal_failure`: when the node's span
  raises after the record failed, the update that names it is lost. The trail is
  never the worse for it (`AuditFailureIsTold`).
* A file that was torn or that has crossed the size limit stays unreadable: every
  append, read and restart is refused until someone repairs it
  (`UnreadableStays`). Nothing is answered True on it.
* `final_gate_failed`, the fallback of Agent 2's finalize node and the handler of
  `AuditWriteError` around Agent 1's graph are dead code.

Every property of a run has a mutant: an operator beside the mapped one, marked
`\* Mutant:`, that changes the definition as a plausible bug would and violates
the property under the run's own configuration.

## 4. Fairness

Agents and reviews run in the calling thread and a model call returns or raises
(the client has a timeout), so weak fairness of the next step is what the runtime
gives; no fairness is needed that a budget does not already bound. In
`AuditStore` each writer's own steps are weakly fair, while nobody has to begin a
call, crash or restart. Opening the file and `flock` may raise (`OpenFails`) but are
not made to: a writer that waits for a lock waits until it is free, and a free lock
being granted is all that is assumed of locks (`Progress` has the fairness, `Step`
has all steps). That suffices because the calls are finitely many; with endless
competing calls `flock` promises no order. `DocumentStore`, `TraceSession` and `ExtractionCheck` state safety
only: their callers need not go on. `IncomeReview` needs its agents to answer, which
`AgentContract` promises (its specification is fair) and `KeepsContract` checks.

## 5. Proofs

All are TLAPS proofs over arbitrary constants. They rest on the named ASSUMEs of the
modules and on nothing else, and TLC evaluates each on the runs' instances: budgets
are natural numbers and fit the recursion limit, Agent 1's answers satisfy the
release boundary, the sources are the two types, the torn line is no entry, no span
number is the root's missing parent (`TraceAssumption`), documents are sequences of
lines and claims are claims (`DocumentAssumption`, `ClaimAssumption`), and what a
handoff is given is typed and has a status of the schema, valid or not
(`GivenAssumption`).

Every safety property of every passing run is a theorem. Each proof has one
invariant, `IInv`, with `Init => IInv` and one lemma per action, and derives the
properties from it.

* `VerificationAgentProofs`. The inductive invariant adds to the properties an
  account of the nodes executed as a function of the counters and of where the
  run stands (`NodeAccount`), the room left in each budget where a node is about
  to spend from it (`Budgets`), that the private maps hold what the tools compute
  from the evidence (`Artifacts`), and where a result may exist (`ResultPlace`).
  None of the properties is inductive without them. Besides the run's properties it
  proves that verify() raises only for an overflow and that the finalize fallback
  is dead (`ResultsAreDecided`). `ContractKept` is the refinement of
  `AgentContract`, safety part: initial states map to initial states, every step to
  an answer the evidence and the budgets allow or to a stutter. It needs one more
  invariant: what the tool calls made so far have paid for (`Priced`, `Exact`).
  `LimitMeansSpent` says for which budgets the tool limit is reported only when
  every call is spent; the source's are among them.
* `CriticAgentProofs`. `Loop` says what the loop knows of the answers it went on
  after: none was compatible, none was an error of the exchange, the repair reason is
  that of the last. From it: the repair names its cause, the counts are the
  calls made, the result model refuses nothing critique() builds, and the
  refinement of `AgentContract`, for any number of attempts.
* `IncomeReviewProofs`. First the handoffs: what each operator returns for every
  input, and the four properties of `HandoffCheck` from an invariant that keeps
  answer and input together (`HandoffIInv`); the review's proof stands on the same
  lemmas, so both are one module. Then the review. The invariant follows the chain of
  artifacts: each flag vouches for one artifact and for all before it (`Chain`), a
  node runs with exactly the flags of the nodes before it (`Placed`), the failure
  lineage matches the code (`Lineage`), and a decided state tells the artifacts'
  truth (`Truthful`). It yields that releases are earned, verdicts are the
  policy's, outcomes validate, the gate is never surprised, artifacts are dropped,
  and, as action properties, that only the gate releases and internal failures are
  trace faults. That the failure code names the first stage that failed
  (`FailuresNameTheStage`) takes a second invariant over the first (`Staged`): before
  the gate no later stage has left a mark.
* `DocumentReviewProofs`. `OnTrack` says how much of the trail of a release is
  verified at each place, `SinkIsTold` what the telemetry sink may know there,
  `Placed` and `Approval` what the nodes have made sure of, `Blamed` and `Settled`
  what is told of a failure on its way to the outcome. Every call of the audit may be
  ok, lost, or kept but not ok; every span and sink call may raise; the proofs
  split on these. `ContractKept` is the refinement: one answer, which the submission
  allows.
* `ExtractionProofs`. For documents of any length, templates of any number of fields
  and any claim: whatever the parser reads of a line, the resolver's claim of it and
  the guard's reading of it agree (`LinePasses`), every field that is supported
  points to a whole line of the document it was read from (`WholeLines`), and a list of
  answers fails with its first failure (`FirstFailure`). What a pattern makes of a
  token stays uninterpreted: the theorems rest on the three places using
  the same patterns.
* `DocumentStoreProofs`. For any number of callers, calls and crashes: what each
  caller has in the directory where its call stands (`At`), that no name is used
  before its call (`Fresh`), and that what is written back is a directory of the same
  kind (`Kept`). All three properties of the run are inductive only together with
  these.
* `TraceSessionProofs`. For any number of threads, spans and causes: which calls
  exclude each other (`Exclusive`), that a span that is gone is told or about to be
  (`Settled`), and that a child is told, or met its parent's finish, before the
  parent can go (`Nested`). `CausesKept` and `CausesOnceEach` are about `Merge`, a
  recursive function over lists of any length.
* `AuditStoreProofs`. Numbering, durability and `UnreadableStays` for any number of
  writers, stores, lines, calls and crashes. The invariant says who is inside
  which lock (`Locks`), that a writer about to write has seen the whole file
  (`Numbered`), that a call leaves one line at most (`Once`, `Past`), and that the
  line of a call is in the file when it is flushed and flushed when it is read
  back (`Flushed`), and that what was answered True is that line, at its number
  (`Promised`). Numbering needs the locks (`OneInside`); durability does not. `StoreKeepsTheLedger` is the refinement of `AuditLedger`
  where one store at a time can be inside the file: a torn line changes no
  record (`TornOnly`, `WholeOfReadable`), and what a power failure leaves is a first part of
  the records (`WholeOfPart`) that still holds every acknowledged one.

Induction over lists is done on sets: `WFMin`, applied to `<` on the naturals, gives the
least index of a set or the least number that is not in it (`Least`, `Induction` in
`TraceSessionProofs`, `FailureAmong` in `ExtractionProofs`). The theorems of the library
that take a predicate as a parameter are not needed.

For the proofs, `Merge` is a recursive function, `FirstFailure` the answer at the
least failing index, and the alterations of `ExtractionCheck` and the actions of
`DocumentReview` have names of their own; no behaviour changed with it.

Some results are proved for all constants and left out of the configurations for
that reason: `TypeOK` of every specification but `DocumentReview`,
`ObservationsExplainCounters`, `OnlyTheGateReleases`, `OutcomeValidates`,
`GateNeverSurprised`, `ResultValidates`, and `ArtifactsDropped` of `IncomeReview`.

Only model-checked: liveness (`CallsEnd`, `Termination`, the liveness part of
`KeepsContract`), which is out of this prover's reach.

## 6. Not modelled

* *Characters.* The patterns are modelled by what they do to tokens; Unicode,
  spacing and label spelling are not. Of the intake only whether it accepts a
  submission is modelled, not its byte, encoding and text limits; of the schemas only
  the validators that decide control.
* *Encodings.* The OTLP encoding of a span, the JSON of records and requests, the
  prompts, `parse_extraction_proposal`. `extract()` of the model client is the exchange of
  `generate_structured` and no agent calls it.
* *Paths.* The checks of links, permissions and ownership around the document
  store and the audit file. A caller that has made the directory and no file yet
  when a deletion answers may still store its document once another caller makes
  the directory again; `DeleteLeavesNothing` speaks of the stores that had begun a file.
* *Environment.* How settings are parsed. A change of cloud tracing in the middle of
  a review is a variable of `TraceSession` and, in the reviews, a span or model call
  that may raise; the check at the start of a review is a choice.
* *Retention.* `review()` never deletes a stored document; `delete_session` is the
  caller's to use.
* *Handlers out of reach.* The two assembler nodes of the orchestrator answer
  `internal_failure` for an exception that is no handoff error, which the assemblers do
  not raise; two nodes of Agent 1's graph do so for a missing artifact, which is there
  as long as the graph runs.
* *Audit and telemetry content.* PII filtering and the reports over the records.

## 7. Plan

Done, in this order: Agent 2 with its contract and proofs; Agent 3; handoffs;
orchestrator with its proofs; Agent 1's review; audit store with its proofs;
extraction and guard; document store; trace session with the exporter; the model
client under Agent 3; proofs about Agent 1's review, the document store, the trace
session, Agent 3, the extraction and the handoffs.

Next, in order of importance:

1. The seams between the specifications: that an outcome `DocumentReview` releases is
   an answer `IncomeReview` assumes of Agent 1 (`Agent1Assumption`), where the two
   describe the same extraction differently.
2. What `LocalModel` and `LocalOtlpTrace` can come to for every limit, as lemmas about
   their operators: no error but those the callers handle.
3. What the two number patterns make of a line (`NumberValues`), which `ExtractionProofs` leaves uninterpreted.
