------------------------------- MODULE TraceSession -------------------------------
(***************************************************************************)
(* ReviewTraceSession and its spans: a tree of spans that opens and closes *)
(* while a review runs, the causes the review has met, and the sink each   *)
(* finished span is handed to (financial_reviewer/local/telemetry.py).     *)
(*                                                                         *)
(* The session takes its lock to check and takes it again to change; what  *)
(* happens between is open to other threads.  Each step below is one       *)
(* section under the lock, or one of what lies between them.               *)
(***************************************************************************)
EXTENDS LocalOtlpTrace, Sequences, SequencesExt

CONSTANTS
  Thread,
  Cause,
  CauseLists,  \* the causes a caller may hand to finish()
  MaxCauses,   \* the limit of SanitizedTraceSpan: 16 in the code
  MaxSpans,    \* bound of the model: spans of one session
  None

ASSUME TraceAssumption ==
  /\ MaxCauses \in Nat /\ MaxSpans \in Nat
  /\ CauseLists \subseteq Seq(Cause)
  /\ None \notin 1 .. MaxSpans

Span == 1 .. MaxSpans

VARIABLES
  spans,        \* the number of handles made so far
  parent,       \* the parent each was made under
  active,       \* _active_span_ids
  ended,        \* the handles that say _ended
  rootStarted,  \* _root_started
  causes,       \* _causes
  failures,     \* _export_failure_count
  call,         \* what each thread is in the middle of
  tracing,      \* cloud tracing is switched on in the process
  removed,      \* the lists of causes of the spans removed, in order
  told,         \* the spans the sink was handed, in order
  raised,       \* the spans whose finish() raised what the sink raised
  overlap       \* pairs of spans two threads were busy with at the same time

state == <<spans, parent, active, ended, rootStarted, causes, failures>>
vars == <<spans, parent, active, ended, rootStarted, causes, failures, call, tracing,
          removed, told, raised, overlap>>

-----------------------------------------------------------------------------
Idle == [at |-> "idle", span |-> None, list |-> <<>>]

Init ==
  /\ spans = 0 /\ parent = [s \in Span |-> None]
  /\ active = {} /\ ended = {} /\ rootStarted = FALSE
  /\ causes = <<>> /\ failures = 0
  /\ call = [t \in Thread |-> Idle]
  /\ tracing = FALSE
  /\ removed = <<>> /\ told = <<>> /\ raised = {} /\ overlap = {}

\* A thread begins to work on a span while others work on theirs.
Begin(t, at, s, list) ==
  /\ call[t] = Idle
  /\ call' = [call EXCEPT ![t] = [at |-> at, span |-> s, list |-> list]]
  /\ overlap' = overlap \cup
       UNION {{<<s, call[u].span>>, <<call[u].span, s>>} :
                u \in {v \in Thread : call[v] # Idle}}

Goto(t, at) == call' = [call EXCEPT ![t].at = at]
Return(t) == call' = [call EXCEPT ![t] = Idle]

\* Unique values in first-occurrence order.
Meet(known, cause) == IF cause \in ToSet(known) THEN known ELSE Append(known, cause)

Merge(known, list) ==
  LET merged[i \in 0 .. Len(list)] ==
        IF i = 0 THEN known ELSE Meet(merged[i - 1], list[i])
  IN  merged[Len(list)]

\* What SanitizedTraceSpan refuses in a tuple of causes.
ValidCauses(list) == IsInjective(list) /\ Len(list) <= MaxCauses

-----------------------------------------------------------------------------
(***************************************************************************)
(* start_root() and start_child().  A handle is made outside the lock.     *)
(***************************************************************************)
NewHandle(t, p) ==
  /\ spans < MaxSpans
  /\ Begin(t, "register", spans + 1, <<>>)
  /\ spans' = spans + 1
  /\ parent' = [parent EXCEPT ![spans + 1] = p]
  /\ UNCHANGED <<active, ended, causes, failures, tracing, removed, told, raised>>

StartRoot(t) ==
  /\ ~rootStarted /\ rootStarted' = TRUE
  /\ NewHandle(t, None)

StartChild(t) ==
  /\ \E p \in active \ ended : NewHandle(t, p)
  /\ UNCHANGED rootStarted

Register(t) ==
  /\ call[t].at = "register"
  /\ active' = active \cup {call[t].span}
  /\ Return(t)
  /\ UNCHANGED <<spans, parent, ended, rootStarted, causes, failures, tracing, removed,
                 told, raised, overlap>>

-----------------------------------------------------------------------------
(***************************************************************************)
(* finish()                                                                *)
(***************************************************************************)
\* Handles a caller has: those whose start has returned.
Handle == {s \in 1 .. spans :
             \A t \in Thread : call[t].at = "register" => call[t].span # s}

ActiveChild(s) == \E c \in active : parent[c] = s

\* Mutant: a parent may finish before its child.
CheckFinishAnyway(t) ==
  /\ \E s \in active \ ended, list \in CauseLists : Begin(t, "build", s, list)
  /\ UNCHANGED <<state, tracing, removed, told, raised>>

CheckFinish(t) ==
  /\ \E s \in active \ ended, list \in CauseLists :
       /\ ~ActiveChild(s)
       /\ Begin(t, "build", s, list)
  /\ UNCHANGED <<state, tracing, removed, told, raised>>

\* A finish that is refused says that the handle has ended if the span is gone.
SettleRefusal(s) == ended' = IF s \in active THEN ended ELSE ended \cup {s}

RefuseFinish(t) ==
  /\ call[t] = Idle
  /\ \E s \in Handle \ ended :
       /\ s \notin active \/ ActiveChild(s)
       /\ SettleRefusal(s)
  /\ UNCHANGED <<spans, parent, active, rootStarted, causes, failures, call, tracing,
                 removed, told, raised, overlap>>

\* The span is built outside the lock.  It is refused for its causes, or because
\* the clock was set back meanwhile.
RefuseSpan(t) ==
  /\ call[t].at = "build"
  /\ SettleRefusal(call[t].span)
  /\ Return(t)
  /\ UNCHANGED <<spans, parent, active, rootStarted, causes, failures, tracing, removed,
                 told, raised, overlap>>

\* Mutant: discard() in place of remove().
RemoveAgain(t) ==
  /\ call[t].at = "build" /\ ValidCauses(call[t].list)
  /\ active' = active \ {call[t].span}
  /\ causes' = Merge(causes, call[t].list)
  /\ removed' = Append(removed, call[t].list)
  /\ Goto(t, "emit")
  /\ UNCHANGED <<spans, parent, ended, rootStarted, failures, tracing, told, raised, overlap>>

\* Mutant: the causes are added without a look at those known already.
RemoveAppending(t) ==
  /\ call[t].at = "build" /\ ValidCauses(call[t].list)
  /\ call[t].span \in active
  /\ active' = active \ {call[t].span}
  /\ causes' = causes \o call[t].list
  /\ removed' = Append(removed, call[t].list)
  /\ Goto(t, "emit")
  /\ UNCHANGED <<spans, parent, ended, rootStarted, failures, tracing, told, raised, overlap>>

RemoveSpan(t) ==
  /\ call[t].at = "build" /\ ValidCauses(call[t].list)
  /\ call[t].span \in active
  /\ active' = active \ {call[t].span}
  /\ causes' = Merge(causes, call[t].list)
  /\ removed' = Append(removed, call[t].list)
  /\ Goto(t, "emit")
  /\ UNCHANGED <<spans, parent, ended, rootStarted, failures, tracing, told, raised, overlap>>

\* Another thread has removed the span: KeyError, and nothing is kept.
RemoveFails(t) ==
  /\ call[t].at = "build" /\ ValidCauses(call[t].list)
  /\ call[t].span \notin active
  /\ ended' = ended \cup {call[t].span}
  /\ Return(t)
  /\ UNCHANGED <<spans, parent, active, rootStarted, causes, failures, tracing, removed,
                 told, raised, overlap>>

\* The sink is called outside the lock.  A ReviewTraceExportError is counted and
\* forgotten; anything else is the caller's.
Emit(t) ==
  /\ call[t].at = "emit"
  /\ told' = Append(told, call[t].span)
  /\ \E answer \in Emissions(tracing) :
       /\ failures' = IF answer \in ExportErrors THEN failures + 1 ELSE failures
       /\ raised' = IF answer \in ExportErrors \cup {"accepted"} THEN raised
                    ELSE raised \cup {call[t].span}
  /\ Goto(t, "end")
  /\ UNCHANGED <<spans, parent, active, ended, rootStarted, causes, tracing, removed,
                 overlap>>

\* Whether the call returns or raises, the handle says that it has ended.
End(t) ==
  /\ call[t].at = "end"
  /\ ended' = ended \cup {call[t].span}
  /\ Return(t)
  /\ UNCHANGED <<spans, parent, active, rootStarted, causes, failures, tracing, removed,
                 told, raised, overlap>>

\* Another part of the process switches cloud tracing on.
SwitchTracingOn ==
  /\ ~tracing /\ tracing' = TRUE
  /\ UNCHANGED <<state, call, removed, told, raised, overlap>>

Next ==
  \/ \E t \in Thread :
       \/ StartRoot(t) \/ StartChild(t) \/ Register(t)
       \/ CheckFinish(t) \/ RefuseFinish(t) \/ RefuseSpan(t)
       \/ RemoveSpan(t) \/ RemoveFails(t) \/ Emit(t) \/ End(t)
  \/ SwitchTracingOn

Spec == Init /\ [][Next]_vars

-----------------------------------------------------------------------------
\* Types of the state.
TypeOK ==
  /\ spans \in 0 .. MaxSpans
  /\ parent \in [Span -> Span \cup {None}]
  /\ active \subseteq 1 .. spans /\ ended \subseteq (1 .. spans) \ active
  /\ rootStarted \in BOOLEAN /\ tracing \in BOOLEAN /\ failures \in 0 .. Len(told)
  /\ causes \in Seq(Cause) /\ removed \in Seq(CauseLists)
  /\ told \in Seq(Span) /\ raised \subseteq Span
  /\ call \in [Thread -> [at : {"idle", "register", "build", "emit", "end"},
                          span : Span \cup {None}, list : CauseLists \cup {<<>>}]]
  /\ overlap \subseteq Span \X Span

Finishing(s) == \E t \in Thread : call[t].span = s /\ call[t].at = "emit"

\* "Complete and emit this span exactly once": however many threads finish a span
\* at once, and whatever the sink answers, a span that is gone has been handed to
\* the sink once, or the one call that removed it is just about to.
ToldOnce ==
  /\ IsInjective(told)
  /\ \A s \in Handle \ active : s \in ToSet(told) \/ Finishing(s)

\* The causes of every span that is gone, whether the sink took it or not, once
\* each, in the order in which the review met them first; a review reads its final
\* reasons here.
CausesAreKept == causes = Merge(<<>>, FlattenSeq(removed))

\* A span is gone while a child of it is active, or is told before its child, only
\* where two threads worked on the two at the same time: a review that uses one
\* thread, as both workflows do, always closes and tells its spans inside out.
NestedUnlessOverlapped ==
  \A c \in Handle : \A p \in Span :
    parent[c] = p /\ p \notin active /\ (c \in active \/ (p \in ToSet(told) /\ c \notin ToSet(told)))
      => <<c, p>> \in overlap

\* "Optional projection cannot change a financial-review outcome": as long as
\* cloud tracing stays off nothing the receiver does makes finish() raise.
ReceiverIsHarmless == ~tracing => raised = {}
=============================================================================
