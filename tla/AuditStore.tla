------------------------------- MODULE AuditStore -------------------------------
(***************************************************************************)
(* LocalJsonlAuditStore and the verified append built on it: threads and   *)
(* processes that append to one JSONL file and read their record back      *)
(* (financial_reviewer/local/observability.py; _append_verified_local_audit*)
(* in workflow.py).                                                        *)
(*                                                                         *)
(* A writer is a thread.  A store is one LocalJsonlAuditStore object and   *)
(* stands for its process too: they live and die together.  The file is    *)
(* the sequence of its lines; a line cut short by a write that failed or   *)
(* by a crash is Torn.  Every record has the same size, so that the bound  *)
(* of the file in bytes is a bound of its lines.                           *)
(***************************************************************************)
EXTENDS Naturals, Sequences

CONSTANTS
  Writer, Store,
  StoreOf,       \* the store each writer uses
  FileLocks,     \* POSIX advisory locks exist (fcntl is not None)
  MaxLines,      \* _MAX_AUDIT_BYTES, in lines
  NoWriter,      \* nobody holds the lock
  Torn,
  MaxCalls,      \* bound of the model: calls of one writer
  MaxCrashes     \* bound of the model: crashes and power failures together

ASSUME StoreAssumption == StoreOf \in [Writer -> Store]
ASSUME LockAssumption == FileLocks \in BOOLEAN /\ NoWriter \notin Writer
ASSUME BoundAssumption == MaxLines \in Nat /\ MaxCalls \in Nat /\ MaxCrashes \in Nat

\* An event of a writer, and its line in the file.
Entry == [writer : Writer, call : 1 .. MaxCalls, sequence : 1 .. MaxLines + 1]

ASSUME TornAssumption == Torn \notin Entry

VARIABLES
  pc,            \* where each writer is
  calls,         \* the calls each writer has begun
  sequence,      \* the sequence number each writer computed
  file,          \* the lines of the file
  synced,        \* how many of them a power failure cannot take
  thread_lock,   \* the holder of each store's _lock
  file_lock,     \* the holder of the exclusive advisory lock
  answered,      \* the lines whose writers were answered True
  crashes        \* counts the crashes, for the bound only

vars == <<pc, calls, sequence, file, synced, thread_lock, file_lock, answered, crashes>>

-----------------------------------------------------------------------------
\* _records_from_fd: within the size limit, every line whole, numbered from 1.
Readable(f) ==
  /\ Len(f) <= MaxLines
  /\ \A i \in 1 .. Len(f) : f[i] \in Entry /\ f[i].sequence = i

LineOf(w) == [writer |-> w, call |-> calls[w], sequence |-> sequence[w]]

Init ==
  /\ pc = [w \in Writer |-> "idle"]
  /\ calls = [w \in Writer |-> 0]
  /\ sequence = [w \in Writer |-> 1]
  /\ file = <<>> /\ synced = 0
  /\ thread_lock = [s \in Store |-> NoWriter]
  /\ file_lock = NoWriter
  /\ answered = {}
  /\ crashes = 0

Goto(w, step) == pc' = [pc EXCEPT ![w] = step]

Begin(w) ==
  /\ pc[w] = "idle" /\ calls[w] < MaxCalls
  /\ calls' = [calls EXCEPT ![w] = @ + 1]
  /\ Goto(w, "append")
  /\ UNCHANGED <<sequence, file, synced, thread_lock, file_lock, answered, crashes>>

\* Mutant: an append does not hold its store's lock.
LockStoreNotHeld(w) ==
  /\ pc[w] = "append"
  /\ thread_lock[StoreOf[w]] = NoWriter
  /\ Goto(w, "opened")
  /\ UNCHANGED <<calls, sequence, file, synced, thread_lock, file_lock, answered, crashes>>

\* append_event takes its store's lock, opens the file, then locks the file.
LockStore(w) ==
  /\ pc[w] = "append"
  /\ thread_lock[StoreOf[w]] = NoWriter
  /\ thread_lock' = [thread_lock EXCEPT ![StoreOf[w]] = w]
  /\ Goto(w, "opened")
  /\ UNCHANGED <<calls, sequence, file, synced, file_lock, answered, crashes>>

\* Mutant: an append takes the lock in shared mode.
LockFileShared(w) ==
  /\ pc[w] = "opened"
  /\ file_lock = NoWriter
  /\ Goto(w, "read")
  /\ UNCHANGED <<calls, sequence, file, synced, thread_lock, file_lock, answered, crashes>>

LockFile(w) ==
  /\ pc[w] = "opened"
  /\ IF FileLocks THEN file_lock = NoWriter /\ file_lock' = w ELSE UNCHANGED file_lock
  /\ Goto(w, "read")
  /\ UNCHANGED <<calls, sequence, file, synced, thread_lock, answered, crashes>>

Unlock(w) ==
  /\ thread_lock' = [thread_lock EXCEPT ![StoreOf[w]] = NoWriter]
  /\ file_lock' = IF file_lock = w THEN NoWriter ELSE file_lock

\* Mutant: the error path keeps the locks.
FailKeepingLocks(w) == UNCHANGED <<thread_lock, file_lock>> /\ Goto(w, "idle")

\* Any error leaves append_event through its finally clause and is answered False.
Fail(w) == Unlock(w) /\ Goto(w, "idle")

\* The file cannot be opened, or flock raises.
OpenFails(w) ==
  /\ pc[w] = "opened"
  /\ Fail(w)
  /\ UNCHANGED <<calls, sequence, file, synced, answered, crashes>>

\* The file cannot be read, or what it holds is refused.
ReadFails(w) ==
  /\ pc[w] = "read"
  /\ Fail(w)
  /\ UNCHANGED <<calls, sequence, file, synced, answered, crashes>>

\* The next sequence number is the number of records just validated.
Read(w) ==
  /\ pc[w] = "read" /\ Readable(file)
  /\ sequence' = [sequence EXCEPT ![w] = Len(file) + 1]
  /\ Goto(w, "write")
  /\ UNCHANGED <<calls, file, synced, thread_lock, file_lock, answered, crashes>>

Write(w) ==
  /\ pc[w] = "write"
  /\ file' = Append(file, LineOf(w))
  /\ Goto(w, "sync")
  /\ UNCHANGED <<calls, sequence, synced, thread_lock, file_lock, answered, crashes>>

\* os.write raises at once or after a part of the line (the disk is full).
WriteFails(w) ==
  /\ pc[w] = "write"
  /\ file' \in {file, Append(file, Torn)}
  /\ Fail(w)
  /\ UNCHANGED <<calls, sequence, synced, answered, crashes>>

\* Mutant: the record is not flushed.
SyncForgotten(w) ==
  /\ pc[w] = "sync"
  /\ Unlock(w) /\ Goto(w, "readback")
  /\ UNCHANGED <<calls, sequence, file, synced, answered, crashes>>

Sync(w) ==
  /\ pc[w] = "sync"
  /\ synced' = Len(file)
  /\ Unlock(w) /\ Goto(w, "readback")
  /\ UNCHANGED <<calls, sequence, file, answered, crashes>>

\* Mutant: an error of the flush is swallowed.
SyncFailsSilently(w) ==
  /\ pc[w] = "sync"
  /\ Unlock(w) /\ Goto(w, "readback")
  /\ UNCHANGED <<calls, sequence, file, synced, answered, crashes>>

\* The record stays in the file although the caller is told that it is not there.
SyncFails(w) ==
  /\ pc[w] = "sync"
  /\ Fail(w)
  /\ UNCHANGED <<calls, sequence, file, synced, answered, crashes>>

\* list_records under the same locks, the file lock shared.
CanReadBack(w) ==
  /\ pc[w] = "readback"
  /\ thread_lock[StoreOf[w]] = NoWriter /\ file_lock = NoWriter
  /\ Goto(w, "idle")
  /\ UNCHANGED <<calls, sequence, file, synced, thread_lock, file_lock, crashes>>

\* Mutant: the record is looked for without validating the file.
ConfirmUnvalidated(w) ==
  /\ CanReadBack(w)
  /\ sequence[w] <= Len(file) /\ file[sequence[w]] = LineOf(w)
  /\ answered' = answered \cup {LineOf(w)}

\* True is answered only when the record comes back, at its number.
Confirm(w) ==
  /\ CanReadBack(w)
  /\ Readable(file)
  /\ sequence[w] <= Len(file) /\ file[sequence[w]] = LineOf(w)
  /\ answered' = answered \cup {LineOf(w)}

\* The file cannot be read back, or the record is not in its place.
ReadBackFails(w) == CanReadBack(w) /\ UNCHANGED answered

-----------------------------------------------------------------------------
\* The stores whose processes end: their writers are gone, and so are their locks.
Down(S) ==
  /\ \E w \in Writer : StoreOf[w] \in S /\ pc[w] # "down"
  /\ crashes < MaxCrashes /\ crashes' = crashes + 1
  /\ pc' = [w \in Writer |-> IF StoreOf[w] \in S THEN "down" ELSE pc[w]]
  /\ thread_lock' = [s \in Store |-> IF s \in S THEN NoWriter ELSE thread_lock[s]]
  /\ file_lock' = IF file_lock # NoWriter /\ StoreOf[file_lock] \in S
                  THEN NoWriter ELSE file_lock

\* A process is killed, in the middle of a write if one of its writers is there.
Crash(s) ==
  /\ Down({s})
  /\ \/ UNCHANGED file
     \/ /\ \E w \in Writer : StoreOf[w] = s /\ pc[w] = "write"
        /\ file' = Append(file, Torn)
  /\ UNCHANGED <<calls, sequence, synced, answered>>

\* Every process ends, and lines that were not flushed may be lost or cut short.
PowerFailure ==
  /\ Down(Store)
  /\ \E n \in synced .. Len(file) :
       \/ file' = SubSeq(file, 1, n)
       \/ n < Len(file) /\ file' = Append(SubSeq(file, 1, n), Torn)
  /\ synced' = Len(file')
  /\ UNCHANGED <<calls, sequence, answered>>

\* The constructor validates the whole file; a file it refuses keeps the process
\* down for good.
Restart(s) ==
  /\ \E w \in Writer : StoreOf[w] = s /\ pc[w] = "down"
  /\ file_lock = NoWriter
  /\ Readable(file)
  /\ pc' = [w \in Writer |-> IF StoreOf[w] = s THEN "idle" ELSE pc[w]]
  /\ UNCHANGED <<calls, sequence, file, synced, thread_lock, file_lock, answered, crashes>>

Finished ==
  /\ \A w \in Writer : pc[w] = "down" \/ (pc[w] = "idle" /\ calls[w] = MaxCalls)
  /\ UNCHANGED vars

\* What a writer does by itself.  A flock that waits need not fail: only the lock
\* ends its wait.
Progress(w) ==
  \/ LockStore(w) \/ LockFile(w) \/ Read(w) \/ ReadFails(w) \/ Write(w) \/ WriteFails(w)
  \/ Sync(w) \/ SyncFails(w) \/ Confirm(w) \/ ReadBackFails(w)

Step(w) == Progress(w) \/ OpenFails(w)

Next ==
  \/ \E w \in Writer : Begin(w) \/ Step(w)
  \/ \E s \in Store : Crash(s) \/ Restart(s)
  \/ PowerFailure
  \/ Finished

\* A call that was begun is carried on by its thread; a lock that is free is
\* granted.  Nobody must start a call, fail to open or lock the file, crash or
\* restart.
Spec == Init /\ [][Next]_vars /\ \A w \in Writer : WF_vars(Progress(w))

-----------------------------------------------------------------------------
(***************************************************************************)
(* Properties.                                                             *)
(***************************************************************************)
\* Types of the state.
TypeOK ==
  /\ pc \in [Writer -> {"idle", "append", "opened", "read", "write", "sync",
                        "readback", "down"}]
  /\ calls \in [Writer -> 0 .. MaxCalls]
  /\ sequence \in [Writer -> 1 .. MaxLines + 1]
  /\ file \in Seq(Entry \cup {Torn})
  /\ synced \in 0 .. Len(file)
  /\ thread_lock \in [Store -> Writer \cup {NoWriter}]
  /\ file_lock \in Writer \cup {NoWriter}
  /\ answered \subseteq Entry
  /\ crashes \in 0 .. MaxCrashes

\* One store at a time can be inside the file, whoever crashes.
Exclusive == FileLocks \/ \A s, t \in Store : s = t

\* The store never spoils its own file: whole lines are numbered from 1 without
\* gap or duplicate whatever the writers' interleaving, and what makes the file
\* unreadable is a last line cut short or one line beyond the size limit.
NumberedInOrder ==
  Exclusive =>
    /\ \A i \in 1 .. Len(file) :
         IF file[i] = Torn THEN i = Len(file) ELSE file[i].sequence = i
    /\ Len(file) <= MaxLines + 1

\* An answer of True is a promise: the record is in the file, flushed, at its number
\* and at no other, whatever is appended later and after any later crash or power
\* failure.
AnswersAreDurable ==
  \A r \in answered :
    /\ r.sequence <= synced /\ file[r.sequence] = r
    /\ \A i \in 1 .. Len(file) :
         file[i] # Torn /\ file[i].writer = r.writer /\ file[i].call = r.call
           => i = r.sequence

\* A file that cannot be read stays so, and nothing is ever answered True on it,
\* until a power failure takes the torn line away.
UnreadableStays ==
  [][~Readable(file) => answered' = answered /\ (Readable(file') => PowerFailure)]_vars

\* Every call ends, with an answer or with its process: no writer waits forever
\* for a lock, also not for the lock of a process that died.
CallsEnd ==
  \A w \in Writer : pc[w] \notin {"idle", "down"} ~> pc[w] \in {"idle", "down"}

\* The store implements the list that the workflow relies on: the ledger is the
\* file without a last line that was cut short.
Whole(f) == IF f # <<>> /\ f[Len(f)] = Torn THEN SubSeq(f, 1, Len(f) - 1) ELSE f
Ledger == INSTANCE AuditLedger WITH ledger <- Whole(file), acknowledged <- answered
KeepsTheLedger == Ledger!Spec
=============================================================================
