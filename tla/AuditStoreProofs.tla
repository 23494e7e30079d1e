---------------------------- MODULE AuditStoreProofs ----------------------------
(***************************************************************************)
(* Numbering and durability of the audit file for any number of writers,   *)
(* stores, lines, calls and crashes.                                       *)
(*                                                                         *)
(* The inductive invariant says who holds which lock (Locks), what a       *)
(* writer about to write knows of the file (Numbered), that a call leaves  *)
(* one line at most (Once, Past), and where the line of a call is on its   *)
(* way from the write to the answer (Flushed, Promised).  Numbering needs  *)
(* the locks; durability does not.                                         *)
(***************************************************************************)
EXTENDS AuditStore, SequenceTheorems, TLAPS

Line == Entry \cup {Torn}

\* A call under way has been counted.
Begun == \A w \in Writer : pc[w] \notin {"idle", "down"} => calls[w] \in 1 .. MaxCalls

\* The locks are held exactly by the writers inside of them.
Locks ==
  /\ \A w \in Writer :
       pc[w] \in {"opened", "read", "write", "sync"} => thread_lock[StoreOf[w]] = w
  /\ FileLocks => \A w \in Writer : pc[w] \in {"read", "write", "sync"} => file_lock = w

\* Whole lines are numbered, and a writer about to write has seen them all.
Numbered ==
  Exclusive =>
    /\ \A i \in 1 .. Len(file) :
         IF file[i] = Torn THEN i = Len(file) ELSE file[i].sequence = i
    /\ Len(file) <= MaxLines + 1
    /\ \A w \in Writer :
         pc[w] = "write" => Readable(file) /\ sequence[w] = Len(file) + 1

\* A call has one line at most, and none before it has written.
Once ==
  \A i, j \in 1 .. Len(file) :
    file[i] # Torn /\ file[j] # Torn
      /\ file[i].writer = file[j].writer /\ file[i].call = file[j].call => i = j

Past ==
  \A i \in 1 .. Len(file) : file[i] # Torn =>
    /\ file[i].call <= calls[file[i].writer]
    /\ pc[file[i].writer] \in {"append", "opened", "read", "write"} =>
         file[i].call < calls[file[i].writer]

\* The line of a call is in the file once written, and flushed once synced.
Flushed ==
  \A w \in Writer :
    /\ pc[w] = "sync" => \E i \in 1 .. Len(file) : file[i] = LineOf(w)
    /\ pc[w] = "readback" => \E i \in 1 .. synced : file[i] = LineOf(w)

Promised == \A r \in answered : r.sequence <= synced /\ file[r.sequence] = r

IInv == TypeOK /\ Begun /\ Locks /\ Numbered /\ Once /\ Past /\ Flushed /\ Promised

-----------------------------------------------------------------------------
(***************************************************************************)
(* The effect of a step on the file.                                       *)
(***************************************************************************)
\* A line is appended.
LEMMA Appended ==
  ASSUME NEW f \in Seq(Line), NEW x \in Line
  PROVE  /\ Append(f, x) \in Seq(Line)
         /\ Len(Append(f, x)) = Len(f) + 1
         /\ \A i \in 1 .. Len(f) : Append(f, x)[i] = f[i]
         /\ Append(f, x)[Len(f) + 1] = x
BY AppendProperties

\* A torn line adds no record.
LEMMA TornOnly ==
  ASSUME NEW f \in Seq(Line), NEW g \in {f, Append(f, Torn)}
  PROVE  /\ g \in Seq(Line)
         /\ \A i \in 1 .. Len(g) : g[i] # Torn => i <= Len(f) /\ g[i] = f[i]
<1>1. Torn \in Line
  BY DEF Line
<1>2. QED
  BY <1>1, Appended

\* The first lines are kept.
LEMMA Kept ==
  ASSUME NEW f \in Seq(Line), NEW n \in 0 .. Len(f)
  PROVE  /\ SubSeq(f, 1, n) \in Seq(Line)
         /\ Len(SubSeq(f, 1, n)) = n
         /\ \A i \in 1 .. n : SubSeq(f, 1, n)[i] = f[i]
<1>1. \A i \in 1 .. n : f[i] \in Line
  OBVIOUS
<1>2. QED
  BY <1>1, SubSeqProperties

\* What a power failure leaves: the flushed lines, perhaps more, perhaps a torn one.
LEMMA Survives ==
  ASSUME TypeOK, PowerFailure
  PROVE  /\ file' \in Seq(Line)
         /\ synced' = Len(file')
         /\ synced <= Len(file')
         /\ Len(file') <= Len(file)
         /\ \A i \in 1 .. Len(file') :
              \/ file'[i] = file[i]
              \/ file'[i] = Torn /\ i = Len(file') /\ synced < i
<1>1. PICK n \in synced .. Len(file) :
        \/ file' = SubSeq(file, 1, n)
        \/ n < Len(file) /\ file' = Append(SubSeq(file, 1, n), Torn)
  BY DEF PowerFailure
<1>2. file \in Seq(Line) /\ n \in 0 .. Len(file) /\ synced \in Nat /\ Torn \in Line
  BY <1>1 DEF TypeOK, Line
<1>3. /\ SubSeq(file, 1, n) \in Seq(Line)
      /\ Len(SubSeq(file, 1, n)) = n
      /\ \A i \in 1 .. n : SubSeq(file, 1, n)[i] = file[i]
  BY <1>2, Kept
<1>4. CASE file' = SubSeq(file, 1, n)
  BY <1>1, <1>2, <1>3, <1>4 DEF PowerFailure
<1>5. CASE n < Len(file) /\ file' = Append(SubSeq(file, 1, n), Torn)
  <2>1. /\ file' \in Seq(Line)
        /\ Len(file') = n + 1
        /\ \A i \in 1 .. n : file'[i] = SubSeq(file, 1, n)[i]
        /\ file'[n + 1] = Torn
    BY <1>2, <1>3, <1>5, Appended
  <2>2. QED
    BY <1>1, <1>2, <1>3, <1>5, <2>1 DEF PowerFailure
<1>6. QED
  BY <1>1, <1>4, <1>5

-----------------------------------------------------------------------------
(***************************************************************************)
(* Types, and the calls under way.                                         *)
(***************************************************************************)
\* The line a writer is about to write is well formed.
LEMMA LineTyped ==
  ASSUME TypeOK, Begun, NEW w \in Writer, pc[w] \notin {"idle", "down"}
  PROVE  LineOf(w) \in Entry
BY DEF TypeOK, Begun, LineOf, Entry

LEMMA StepTyped ==
  ASSUME TypeOK, Begun, NEW w \in Writer, Begin(w) \/ Step(w)
  PROVE  TypeOK' /\ Begun'
<1> USE BoundAssumption, StoreAssumption, LockAssumption
<1>0. file \in Seq(Line) /\ Torn \in Line
  BY DEF TypeOK, Line
<1>1. CASE Begin(w)
  BY <1>1 DEF Begin, Goto, TypeOK, Begun
<1>2. CASE LockStore(w)
  BY <1>2 DEF LockStore, Goto, TypeOK, Begun
<1>3. CASE LockFile(w)
  BY <1>3 DEF LockFile, Goto, TypeOK, Begun
<1>4. CASE OpenFails(w) \/ ReadFails(w)
  BY <1>4 DEF OpenFails, ReadFails, Fail, Unlock, Goto, TypeOK, Begun
<1>5. CASE Read(w)
  <2>1. Len(file) + 1 \in 1 .. MaxLines + 1
    BY <1>5 DEF Read, Readable, TypeOK
  <2>2. QED
    BY <1>5, <2>1 DEF Read, Goto, TypeOK, Begun
<1>6. CASE Write(w)
  <2>1. LineOf(w) \in Line
    BY <1>6, LineTyped DEF Write, Line
  <2>2. file' \in Seq(Line) /\ Len(file') = Len(file) + 1
    BY <1>0, <1>6, <2>1, Appended DEF Write
  <2>3. QED
    BY <1>6, <2>2 DEF Write, Goto, TypeOK, Begun, Line
<1>7. CASE WriteFails(w)
  <2>1. file' \in Seq(Line) /\ Len(file') >= Len(file)
    BY <1>0, <1>7, Appended DEF WriteFails
  <2>2. QED
    BY <1>7, <2>1 DEF WriteFails, Fail, Unlock, Goto, TypeOK, Begun, Line
<1>8. CASE Sync(w)
  BY <1>8 DEF Sync, Unlock, Goto, TypeOK, Begun
<1>9. CASE SyncFails(w)
  BY <1>9 DEF SyncFails, Fail, Unlock, Goto, TypeOK, Begun
<1>10. CASE Confirm(w)
  <2>1. LineOf(w) \in Entry
    BY <1>10, LineTyped DEF Confirm, CanReadBack
  <2>2. QED
    BY <1>10, <2>1 DEF Confirm, CanReadBack, Goto, TypeOK, Begun
<1>11. CASE ReadBackFails(w)
  BY <1>11 DEF ReadBackFails, CanReadBack, Goto, TypeOK, Begun
<1>12. QED
  BY <1>1, <1>2, <1>3, <1>4, <1>5, <1>6, <1>7, <1>8, <1>9, <1>10, <1>11 DEF Step, Progress

LEMMA FaultTyped ==
  ASSUME TypeOK, Begun, (\E s \in Store : Crash(s) \/ Restart(s)) \/ PowerFailure
  PROVE  TypeOK' /\ Begun'
<1> USE BoundAssumption, StoreAssumption, LockAssumption
<1>0. file \in Seq(Line) /\ Torn \in Line
  BY DEF TypeOK, Line
<1>1. ASSUME NEW s \in Store, Crash(s) PROVE TypeOK' /\ Begun'
  <2>1. file' \in Seq(Line) /\ Len(file') >= Len(file)
    BY <1>0, <1>1, Appended DEF Crash
  <2>2. /\ UNCHANGED <<calls, sequence, synced, answered>>
        /\ crashes' \in 0 .. MaxCrashes
        /\ thread_lock' \in [Store -> Writer \cup {NoWriter}]
        /\ file_lock' \in Writer \cup {NoWriter}
    BY <1>1 DEF Crash, Down, TypeOK
  <2>3. /\ pc' \in [Writer -> {"idle", "append", "opened", "read", "write", "sync",
                               "readback", "down"}]
        /\ \A w \in Writer : pc'[w] \in {pc[w], "down"}
    BY <1>1 DEF Crash, Down, TypeOK
  <2>4. QED
    BY <2>1, <2>2, <2>3 DEF TypeOK, Begun, Line
<1>2. ASSUME NEW s \in Store, Restart(s) PROVE TypeOK' /\ Begun'
  BY <1>2 DEF Restart, TypeOK, Begun
<1>3. CASE PowerFailure
  <2>1. file' \in Seq(Line) /\ synced' = Len(file')
    BY <1>3, Survives
  <2>2. QED
    BY <1>3, <2>1 DEF PowerFailure, Down, TypeOK, Begun, Line
<1>4. QED
  BY <1>1, <1>2, <1>3

-----------------------------------------------------------------------------
(***************************************************************************)
(* The locks, and the order of the lines.                                  *)
(***************************************************************************)
LEMMA LocksKept ==
  ASSUME TypeOK, Locks, [Next]_vars
  PROVE  Locks'
<1> USE StoreAssumption, LockAssumption
<1>1. ASSUME NEW w \in Writer, Begin(w) \/ Read(w) \/ Write(w) \/ Confirm(w) \/ ReadBackFails(w)
      PROVE  Locks'
  <2>1. /\ UNCHANGED <<thread_lock, file_lock>>
        /\ \A v \in Writer : v # w => pc'[v] = pc[v]
    BY <1>1 DEF Begin, Read, Write, Confirm, ReadBackFails, CanReadBack, Goto, TypeOK
  <2>2. pc'[w] \in {"append", "idle"} \/ (pc[w] \in {"read", "write"} /\ pc'[w] \in {"write", "sync"})
    BY <1>1 DEF Begin, Read, Write, Confirm, ReadBackFails, CanReadBack, Goto, TypeOK
  <2>3. QED
    BY <2>1, <2>2 DEF Locks
<1>2. ASSUME NEW w \in Writer, LockStore(w) \/ LockFile(w) PROVE Locks'
  <2>1. CASE LockStore(w)
    BY <2>1 DEF LockStore, Goto, Locks, TypeOK
  <2>2. CASE LockFile(w)
    BY <2>2 DEF LockFile, Goto, Locks, TypeOK
  <2>3. QED
    BY <1>2, <2>1, <2>2
<1>3. ASSUME NEW w \in Writer,
             OpenFails(w) \/ ReadFails(w) \/ WriteFails(w) \/ Sync(w) \/ SyncFails(w)
      PROVE  Locks'
  <2>1. /\ Unlock(w)
        /\ pc' = [pc EXCEPT ![w] = "idle"] \/ pc' = [pc EXCEPT ![w] = "readback"]
        /\ pc[w] \in {"opened", "read", "write", "sync"}
    BY <1>3 DEF OpenFails, ReadFails, WriteFails, Sync, SyncFails, Fail, Goto
  <2>2. QED
    BY <2>1 DEF Unlock, Locks, TypeOK
<1>4. ASSUME NEW s \in Store, Crash(s) PROVE Locks'
  BY <1>4 DEF Crash, Down, Locks, TypeOK
<1>5. ASSUME NEW s \in Store, Restart(s) PROVE Locks'
  BY <1>5 DEF Restart, Locks, TypeOK
<1>6. CASE PowerFailure
  BY <1>6 DEF PowerFailure, Down, Locks, TypeOK
<1>7. CASE UNCHANGED vars
  BY <1>7 DEF Locks, vars
<1>8. QED
  BY <1>1, <1>2, <1>3, <1>4, <1>5, <1>6, <1>7 DEF Next, Step, Progress, Finished

\* With the locks, one writer at a time is inside the file.
LEMMA OneInside ==
  ASSUME TypeOK, Locks, Exclusive, NEW v \in Writer, NEW w \in Writer,
         pc[v] \in {"read", "write", "sync"}, pc[w] \in {"read", "write", "sync"}
  PROVE  v = w
<1>1. CASE FileLocks
  BY <1>1 DEF Locks
<1>2. CASE \A s, t \in Store : s = t
  BY <1>2, StoreAssumption DEF Locks
<1>3. QED
  BY <1>1, <1>2 DEF Exclusive

\* The steps that leave the lines alone.
Quiet(w) == Begin(w) \/ LockStore(w) \/ LockFile(w) \/ OpenFails(w) \/ ReadFails(w) \/ Read(w)
            \/ Sync(w) \/ SyncFails(w) \/ Confirm(w) \/ ReadBackFails(w)

LEMMA NumberedKept ==
  ASSUME TypeOK, Begun, Locks, Numbered, [Next]_vars
  PROVE  Numbered'
<1> USE StoreAssumption, LockAssumption, BoundAssumption
<1> SUFFICES ASSUME Exclusive PROVE Numbered'
  BY DEF Numbered, Exclusive
<1>0. file \in Seq(Line) /\ Torn \in Line /\ Len(file) \in Nat
  BY DEF TypeOK, Line
<1>1. ASSUME NEW w \in Writer, Quiet(w), ~Read(w) PROVE Numbered'
  <2>1. UNCHANGED <<file, sequence>> /\ \A v \in Writer : pc'[v] = "write" => pc[v] = "write"
    BY <1>1 DEF Quiet, Begin, LockStore, LockFile, OpenFails, ReadFails, Sync, SyncFails, Confirm,
       ReadBackFails, CanReadBack, Fail, Goto, TypeOK
  <2>2. QED
    BY <2>1 DEF Numbered, Readable
<1>2. ASSUME NEW w \in Writer, Read(w) PROVE Numbered'
  <2>1. UNCHANGED file /\ \A v \in Writer : v # w => pc'[v] = pc[v] /\ sequence'[v] = sequence[v]
    BY <1>2 DEF Read, Goto, TypeOK
  <2>2. Readable(file) /\ sequence'[w] = Len(file) + 1
    BY <1>2 DEF Read, TypeOK
  <2>3. QED
    BY <2>1, <2>2 DEF Numbered, Readable
<1>3. ASSUME NEW w \in Writer, pc[w] = "write", UNCHANGED sequence,
             NEW x \in Line, x = Torn \/ x = LineOf(w), file' = Append(file, x),
             \A v \in Writer : pc'[v] = "write" => v # w /\ pc[v] = "write"
      PROVE  Numbered'
  <2>1. Readable(file) /\ sequence[w] = Len(file) + 1
    BY <1>3 DEF Numbered
  <2>2. /\ Len(file') = Len(file) + 1
        /\ \A i \in 1 .. Len(file) : file'[i] = file[i]
        /\ file'[Len(file) + 1] = x
    BY <1>0, <1>3, Appended
  <2>3. \A v \in Writer : pc'[v] # "write"
    BY <1>3, OneInside
  <2>4. \A i \in 1 .. Len(file) : file[i] # Torn /\ file[i].sequence = i
    BY <2>1, TornAssumption DEF Readable
  <2>5. x # Torn => x.sequence = Len(file) + 1
    BY <1>3, <2>1 DEF LineOf
  <2>6. \A i \in 1 .. Len(file') : IF file'[i] = Torn THEN i = Len(file') ELSE file'[i].sequence = i
    BY <1>0, <2>2, <2>4, <2>5
  <2>7. Len(file') <= MaxLines + 1
    BY <1>0, <2>1, <2>2 DEF Readable
  <2>8. QED
    BY <2>3, <2>6, <2>7 DEF Numbered
<1>4. ASSUME NEW w \in Writer, Write(w) PROVE Numbered'
  <2>1. LineOf(w) \in Line
    BY <1>4, LineTyped DEF Write, Line
  <2>2. QED
    BY <1>3, <1>4, <2>1 DEF Write, Goto, TypeOK
<1>5. ASSUME NEW w \in Writer, WriteFails(w) PROVE Numbered'
  <2>1. /\ pc[w] = "write" /\ UNCHANGED sequence
        /\ \A v \in Writer : pc'[v] = "write" => v # w /\ pc[v] = "write"
    BY <1>5 DEF WriteFails, Fail, Goto, TypeOK
  <2>2. CASE file' = Append(file, Torn)
    BY <1>0, <1>3, <2>1, <2>2
  <2>3. CASE file' = file
    BY <2>1, <2>3 DEF Numbered, Readable
  <2>4. QED
    BY <1>5, <2>2, <2>3 DEF WriteFails
<1>6. ASSUME NEW s \in Store, Crash(s) PROVE Numbered'
  <2>1. UNCHANGED sequence /\ \A v \in Writer : pc'[v] = "write" => StoreOf[v] # s /\ pc[v] = "write"
    BY <1>6 DEF Crash, Down, TypeOK
  <2>2. CASE file' = file
    BY <2>1, <2>2 DEF Numbered, Readable
  <2>3. ASSUME NEW w \in Writer, StoreOf[w] = s, pc[w] = "write", file' = Append(file, Torn)
        PROVE  Numbered'
    BY <1>0, <1>3, <2>1, <2>3
  <2>4. QED
    BY <1>6, <2>2, <2>3 DEF Crash
<1>7. ASSUME NEW s \in Store, Restart(s) PROVE Numbered'
  <2>1. UNCHANGED <<file, sequence>> /\ \A v \in Writer : pc'[v] = "write" => pc[v] = "write"
    BY <1>7 DEF Restart, TypeOK
  <2>2. QED
    BY <2>1 DEF Numbered, Readable
<1>8. CASE PowerFailure
  <2>1. \A v \in Writer : pc'[v] = "down"
    BY <1>8 DEF PowerFailure, Down
  <2>2. \A i \in 1 .. Len(file) : IF file[i] = Torn THEN i = Len(file) ELSE file[i].sequence = i
    BY DEF Numbered
  <2>3. \A i \in 1 .. Len(file') : IF file'[i] = Torn THEN i = Len(file') ELSE file'[i].sequence = i
    BY <1>0, <1>8, <2>2, Survives
  <2>4. Len(file') <= MaxLines + 1
    BY <1>0, <1>8, Survives DEF Numbered
  <2>5. QED
    BY <2>1, <2>3, <2>4 DEF Numbered
<1>9. CASE UNCHANGED vars
  BY <1>9 DEF Numbered, Readable, vars
<1>10. QED
  BY <1>1, <1>2, <1>4, <1>5, <1>6, <1>7, <1>8, <1>9 DEF Next, Step, Progress, Quiet, Finished

-----------------------------------------------------------------------------
(***************************************************************************)
(* One line for each call, flushed before the answer and kept after it.    *)
(***************************************************************************)
\* The calls already in the file, when nothing is written.
LEMMA PastKept ==
  ASSUME TypeOK, Begun, Once, Past, [Next]_vars
  PROVE  Once' /\ Past'
<1> USE StoreAssumption, LockAssumption, BoundAssumption
<1>0. /\ file \in Seq(Line) /\ Torn \in Line /\ Len(file) \in Nat
      /\ \A i \in 1 .. Len(file) : file[i] # Torn => file[i] \in Entry
  BY DEF TypeOK, Line
<1>1. ASSUME NEW w \in Writer, Begin(w) PROVE Once' /\ Past'
  <2>1. \A i \in 1 .. Len(file) : file[i] # Torn =>
          file[i].writer \in Writer /\ file[i].call \in Nat
    BY <1>0 DEF Entry
  <2>2. QED
    BY <1>1, <2>1 DEF Begin, Goto, Once, Past, TypeOK
<1>2. ASSUME UNCHANGED <<file, calls>>,
             \A v \in Writer : pc'[v] \in {"append", "opened", "read", "write"} =>
                               pc[v] \in {"append", "opened", "read", "write"}
      PROVE  Once' /\ Past'
  <2>1. \A i \in 1 .. Len(file) : file[i] # Torn => file[i].writer \in Writer
    BY <1>0 DEF Entry
  <2>2. QED
    BY <1>2, <2>1 DEF Once, Past
<1>3. ASSUME UNCHANGED calls, file' \in Seq(Line),
             \A i \in 1 .. Len(file') : file'[i] # Torn => i <= Len(file) /\ file'[i] = file[i],
             \A v \in Writer : pc'[v] \in {"append", "opened", "read", "write"} =>
                               pc[v] \in {"append", "opened", "read", "write"}
      PROVE  Once' /\ Past'
  <2>1. \A i \in 1 .. Len(file) : file[i] # Torn => file[i].writer \in Writer
    BY <1>0 DEF Entry
  <2>2. \A i \in 1 .. Len(file') : file'[i] # Torn =>
          i \in 1 .. Len(file) /\ file'[i] = file[i] /\ file'[i].writer \in Writer
    BY <1>0, <1>3, <2>1
  <2>3. Once'
    BY <2>2 DEF Once
  <2>4. Past'
    BY <1>3, <2>2 DEF Past
  <2>5. QED
    BY <2>3, <2>4
<1>4. ASSUME NEW w \in Writer, Write(w) PROVE Once' /\ Past'
  <2>0. LineOf(w) \in Entry
    BY <1>4, LineTyped DEF Write
  <2>1. /\ LineOf(w) \in Entry
        /\ LineOf(w).writer = w /\ LineOf(w).call = calls[w] /\ calls[w] \in Nat
    BY <2>0 DEF LineOf, TypeOK
  <2>2. /\ Len(file') = Len(file) + 1
        /\ \A i \in 1 .. Len(file) : file'[i] = file[i]
        /\ file'[Len(file) + 1] = LineOf(w)
    BY <1>0, <1>4, <2>1, Appended DEF Write, Line
  <2>3. \A i \in 1 .. Len(file) :
          file[i] # Torn /\ file[i].writer = w => file[i].call < calls[w]
    BY <1>4 DEF Past, Write
  <2>4. \A i \in 1 .. Len(file) :
          file[i] # Torn => file[i].writer \in Writer /\ file[i].call \in Nat
    BY <1>0 DEF Entry
  <2>5. Once'
    BY <1>0, <2>1, <2>2, <2>3, <2>4 DEF Once
  <2>6. /\ UNCHANGED calls /\ pc'[w] = "sync"
        /\ \A v \in Writer : v # w => pc'[v] = pc[v]
    BY <1>4 DEF Write, Goto, TypeOK
  <2>7. Past'
    <3>1. \A i \in 1 .. Len(file) : file[i] # Torn =>
            /\ file[i].call <= calls'[file[i].writer]
            /\ pc'[file[i].writer] \in {"append", "opened", "read", "write"} =>
                 file[i].call < calls'[file[i].writer]
      BY <2>4, <2>6 DEF Past
    <3>2. QED
      BY <1>0, <2>1, <2>2, <2>6, <3>1 DEF Past
  <2>8. QED
    BY <2>5, <2>7
<1>5. ASSUME NEW w \in Writer, WriteFails(w) PROVE Once' /\ Past'
  <2>1. /\ file' \in Seq(Line)
        /\ \A i \in 1 .. Len(file') : file'[i] # Torn => i <= Len(file) /\ file'[i] = file[i]
    BY <1>0, <1>5, TornOnly DEF WriteFails
  <2>2. UNCHANGED calls /\ \A v \in Writer : pc'[v] \in {pc[v], "idle"}
    BY <1>5 DEF WriteFails, Fail, Goto, TypeOK
  <2>3. QED
    BY <1>3, <2>1, <2>2
<1>6. ASSUME NEW s \in Store, Crash(s) PROVE Once' /\ Past'
  <2>1. /\ file' \in Seq(Line)
        /\ \A i \in 1 .. Len(file') : file'[i] # Torn => i <= Len(file) /\ file'[i] = file[i]
    BY <1>0, <1>6, TornOnly DEF Crash
  <2>2. QED
    BY <1>3, <1>6, <2>1 DEF Crash, Down, TypeOK
<1>7. CASE PowerFailure
  <2>1. /\ file' \in Seq(Line)
        /\ \A i \in 1 .. Len(file') : file'[i] # Torn => i <= Len(file) /\ file'[i] = file[i]
    BY <1>0, <1>7, Survives
  <2>2. QED
    BY <1>3, <1>7, <2>1 DEF PowerFailure, Down
<1>8. ASSUME NEW w \in Writer, Quiet(w), ~Begin(w) PROVE Once' /\ Past'
  BY <1>2, <1>8 DEF Quiet, LockStore, LockFile, OpenFails, ReadFails, Read, Sync, SyncFails, Confirm,
     ReadBackFails, CanReadBack, Fail, Goto, TypeOK
<1>9. ASSUME NEW s \in Store, Restart(s) PROVE Once' /\ Past'
  BY <1>2, <1>9 DEF Restart, TypeOK
<1>10. CASE UNCHANGED vars
  BY <1>2, <1>10 DEF vars
<1>11. QED
  BY <1>1, <1>4, <1>5, <1>6, <1>7, <1>8, <1>9, <1>10 DEF Next, Step, Progress, Quiet, Finished

LEMMA FlushedKept ==
  ASSUME TypeOK, Begun, Flushed, [Next]_vars
  PROVE  Flushed'
<1> USE StoreAssumption, LockAssumption, BoundAssumption
<1>0. file \in Seq(Line) /\ Torn \in Line /\ Len(file) \in Nat /\ synced \in 0 .. Len(file)
  BY DEF TypeOK, Line
<1>1. ASSUME Len(file') \in Nat, Len(file') >= Len(file), synced' \in Nat, synced' >= synced,
             \A i \in 1 .. Len(file) : file'[i] = file[i],
             \A v \in Writer : pc'[v] \in {"sync", "readback"} =>
               pc'[v] = pc[v] /\ UNCHANGED <<calls[v], sequence[v]>>
      PROVE  Flushed'
  <2>1. \A v \in Writer : pc'[v] \in {"sync", "readback"} => LineOf(v)' = LineOf(v)
    BY <1>1 DEF LineOf
  <2>2. ASSUME NEW v \in Writer, pc'[v] = "sync"
        PROVE  \E i \in 1 .. Len(file') : file'[i] = LineOf(v)'
    <3>1. PICK i \in 1 .. Len(file) : file[i] = LineOf(v)
      BY <1>1, <2>2 DEF Flushed
    <3>2. i \in 1 .. Len(file') /\ file'[i] = LineOf(v)'
      BY <1>0, <1>1, <2>1, <2>2, <3>1
    <3>3. QED
      BY <3>2
  <2>3. ASSUME NEW v \in Writer, pc'[v] = "readback"
        PROVE  \E i \in 1 .. synced' : file'[i] = LineOf(v)'
    <3>1. PICK i \in 1 .. synced : file[i] = LineOf(v)
      BY <1>1, <2>3 DEF Flushed
    <3>2. i \in 1 .. synced' /\ file'[i] = LineOf(v)'
      BY <1>0, <1>1, <2>1, <2>3, <3>1
    <3>3. QED
      BY <3>2
  <2>4. QED
    BY <2>2, <2>3 DEF Flushed
<1>2. ASSUME NEW w \in Writer, Quiet(w), ~Sync(w) PROVE Flushed'
  <2>1. UNCHANGED <<file, synced>>
    BY <1>2 DEF Quiet, Begin, LockStore, LockFile, OpenFails, ReadFails, Read, SyncFails, Confirm,
       ReadBackFails, CanReadBack
  <2>2. \A v \in Writer : pc'[v] \in {"sync", "readback"} =>
          pc'[v] = pc[v] /\ UNCHANGED <<calls[v], sequence[v]>>
    BY <1>2 DEF Quiet, Begin, LockStore, LockFile, OpenFails, ReadFails, Read, SyncFails, Confirm,
       ReadBackFails, CanReadBack, Fail, Goto, TypeOK
  <2>3. QED
    BY <1>0, <1>1, <2>1, <2>2
<1>3. ASSUME NEW w \in Writer, Sync(w) PROVE Flushed'
  <2>1. /\ UNCHANGED <<file, calls, sequence>> /\ synced' = Len(file)
        /\ pc[w] = "sync" /\ pc' = [pc EXCEPT ![w] = "readback"]
    BY <1>3 DEF Sync, Goto
  <2>2. \A v \in Writer : LineOf(v)' = LineOf(v)
    BY <2>1 DEF LineOf
  <2>3. ASSUME NEW v \in Writer, pc'[v] = "sync"
        PROVE  \E i \in 1 .. Len(file') : file'[i] = LineOf(v)'
    BY <2>1, <2>2, <2>3 DEF Flushed, TypeOK
  <2>4. ASSUME NEW v \in Writer, pc'[v] = "readback"
        PROVE  \E i \in 1 .. synced' : file'[i] = LineOf(v)'
    <3>1. CASE v = w
      BY <2>1, <2>2, <3>1 DEF Flushed
    <3>2. CASE v # w
      <4>1. pc[v] = "readback"
        BY <2>1, <2>4, <3>2 DEF TypeOK
      <4>2. PICK i \in 1 .. synced : file[i] = LineOf(v)
        BY <4>1 DEF Flushed
      <4>3. i \in 1 .. synced'
        BY <1>0, <2>1, <4>2
      <4>4. QED
        BY <2>1, <2>2, <4>2, <4>3
    <3>3. QED
      BY <3>1, <3>2
  <2>5. QED
    BY <2>3, <2>4 DEF Flushed
<1>4. ASSUME NEW w \in Writer, Write(w) PROVE Flushed'
  <2>1. /\ UNCHANGED <<calls, sequence, synced>> /\ file' = Append(file, LineOf(w))
        /\ pc[w] = "write" /\ pc' = [pc EXCEPT ![w] = "sync"]
    BY <1>4 DEF Write, Goto
  <2>2. LineOf(w) \in Line
    BY <2>1, LineTyped DEF Line
  <2>3. /\ Len(file') = Len(file) + 1
        /\ \A i \in 1 .. Len(file) : file'[i] = file[i]
        /\ file'[Len(file) + 1] = LineOf(w)
    BY <1>0, <2>1, <2>2, Appended
  <2>4. \A v \in Writer : LineOf(v)' = LineOf(v)
    BY <2>1 DEF LineOf
  <2>5. ASSUME NEW v \in Writer, pc'[v] = "sync"
        PROVE  \E i \in 1 .. Len(file') : file'[i] = LineOf(v)'
    <3>1. CASE v = w
      BY <1>0, <2>3, <2>4, <3>1
    <3>2. CASE v # w
      <4>1. pc[v] = "sync"
        BY <2>1, <2>5, <3>2 DEF TypeOK
      <4>2. PICK i \in 1 .. Len(file) : file[i] = LineOf(v)
        BY <4>1 DEF Flushed
      <4>3. QED
        BY <1>0, <2>3, <2>4, <4>2
    <3>3. QED
      BY <3>1, <3>2
  <2>6. ASSUME NEW v \in Writer, pc'[v] = "readback"
        PROVE  \E i \in 1 .. synced' : file'[i] = LineOf(v)'
    <3>1. pc[v] = "readback"
      BY <2>1, <2>6 DEF TypeOK
    <3>2. PICK i \in 1 .. synced : file[i] = LineOf(v)
      BY <3>1 DEF Flushed
    <3>3. QED
      BY <1>0, <2>1, <2>3, <2>4, <3>2
  <2>7. QED
    BY <2>5, <2>6 DEF Flushed
<1>5. ASSUME NEW w \in Writer, WriteFails(w) PROVE Flushed'
  <2>1. /\ Len(file') \in Nat /\ Len(file') >= Len(file)
        /\ \A i \in 1 .. Len(file) : file'[i] = file[i]
    BY <1>0, <1>5, Appended DEF WriteFails
  <2>2. QED
    BY <1>0, <1>1, <1>5, <2>1 DEF WriteFails, Fail, Goto, TypeOK
<1>6. ASSUME NEW s \in Store, Crash(s) PROVE Flushed'
  <2>1. /\ Len(file') \in Nat /\ Len(file') >= Len(file)
        /\ \A i \in 1 .. Len(file) : file'[i] = file[i]
    BY <1>0, <1>6, Appended DEF Crash
  <2>2. \A v \in Writer : pc'[v] \in {"sync", "readback"} => pc'[v] = pc[v]
    BY <1>6 DEF Crash, Down
  <2>3. QED
    BY <1>0, <1>1, <1>6, <2>1, <2>2 DEF Crash
<1>7. ASSUME NEW s \in Store, Restart(s) PROVE Flushed'
  BY <1>0, <1>1, <1>7 DEF Restart
<1>8. CASE PowerFailure
  <2>1. \A v \in Writer : pc'[v] = "down"
    BY <1>8 DEF PowerFailure, Down
  <2>2. QED
    BY <2>1 DEF Flushed
<1>9. CASE UNCHANGED vars
  BY <1>0, <1>1, <1>9 DEF vars
<1>10. QED
  BY <1>2, <1>3, <1>4, <1>5, <1>6, <1>7, <1>8, <1>9 DEF Next, Step, Progress, Quiet, Finished

LEMMA PromisedKept ==
  ASSUME TypeOK, Begun, Once, Flushed, Promised, [Next]_vars
  PROVE  Promised'
<1> USE StoreAssumption, LockAssumption, BoundAssumption
<1>0. /\ file \in Seq(Line) /\ Torn \in Line /\ Len(file) \in Nat /\ synced \in 0 .. Len(file)
      /\ \A r \in answered : r.sequence \in 1 .. synced /\ file[r.sequence] = r
      /\ \A r \in answered : r # Torn
  BY TornAssumption DEF TypeOK, Line, Entry, Promised
<1>1. ASSUME UNCHANGED answered, synced' \in Nat, synced' >= synced,
             \A i \in 1 .. synced : file'[i] = file[i]
      PROVE  Promised'
  BY <1>0, <1>1 DEF Promised
<1>2. ASSUME NEW w \in Writer, Confirm(w) PROVE Promised'
  <2>1. PICK i \in 1 .. synced : file[i] = LineOf(w)
    BY <1>2 DEF Confirm, CanReadBack, Flushed
  <2>2. /\ sequence[w] \in 1 .. Len(file) /\ file[sequence[w]] = LineOf(w)
        /\ answered' = answered \cup {LineOf(w)} /\ UNCHANGED <<file, synced>>
    BY <1>2 DEF Confirm, CanReadBack, TypeOK
  <2>3. LineOf(w) # Torn /\ LineOf(w).sequence = sequence[w]
    <3>1. LineOf(w) \in Entry
      BY <1>2, LineTyped DEF Confirm, CanReadBack
    <3>2. QED
      BY <3>1, TornAssumption DEF LineOf
  <2>4. sequence[w] = i
    BY <1>0, <2>1, <2>2, <2>3 DEF Once
  <2>5. QED
    BY <1>0, <2>1, <2>2, <2>3, <2>4 DEF Promised
<1>3. ASSUME NEW w \in Writer, Quiet(w), ~Confirm(w) PROVE Promised'
  BY <1>0, <1>1, <1>3 DEF Quiet, Begin, LockStore, LockFile, OpenFails, ReadFails, Read, Sync, SyncFails,
     ReadBackFails, CanReadBack
<1>4. ASSUME NEW w \in Writer, Write(w) PROVE Promised'
  <2>1. LineOf(w) \in Line
    BY <1>4, LineTyped DEF Write, Line
  <2>2. \A i \in 1 .. Len(file) : file'[i] = file[i]
    BY <1>0, <1>4, <2>1, Appended DEF Write
  <2>3. QED
    BY <1>0, <1>1, <1>4, <2>2 DEF Write
<1>5. ASSUME NEW w \in Writer, WriteFails(w) PROVE Promised'
  <2>1. \A i \in 1 .. Len(file) : file'[i] = file[i]
    BY <1>0, <1>5, Appended DEF WriteFails
  <2>2. QED
    BY <1>0, <1>1, <1>5, <2>1 DEF WriteFails
<1>6. ASSUME NEW s \in Store, Crash(s) PROVE Promised'
  <2>1. \A i \in 1 .. Len(file) : file'[i] = file[i]
    BY <1>0, <1>6, Appended DEF Crash
  <2>2. QED
    BY <1>0, <1>1, <1>6, <2>1 DEF Crash
<1>7. ASSUME NEW s \in Store, Restart(s) PROVE Promised'
  BY <1>0, <1>1, <1>7 DEF Restart
<1>8. CASE PowerFailure
  <2>1. /\ synced' = Len(file') /\ synced <= Len(file') /\ Len(file') \in Nat
        /\ \A i \in 1 .. Len(file') : file'[i] = file[i] \/ synced < i
    BY <1>8, Survives
  <2>2. QED
    BY <1>0, <1>1, <1>8, <2>1 DEF PowerFailure
<1>9. CASE UNCHANGED vars
  BY <1>0, <1>1, <1>9 DEF vars
<1>10. QED
  BY <1>2, <1>3, <1>4, <1>5, <1>6, <1>7, <1>8, <1>9 DEF Next, Step, Progress, Quiet, Finished

-----------------------------------------------------------------------------
(***************************************************************************)
(* The theorems.                                                           *)
(***************************************************************************)
LEMMA InitInvariant == Init => IInv
<1> SUFFICES ASSUME Init PROVE IInv
  OBVIOUS
<1>1. file = <<>> /\ Len(file) = 0 /\ synced = 0 /\ file \in Seq(Line)
  BY DEF Init
<1>2. TypeOK /\ Begun
  BY <1>1, StoreAssumption, BoundAssumption DEF Init, TypeOK, Begun, Line
<1>3. Locks /\ Numbered
  BY <1>1, BoundAssumption DEF Init, Locks, Numbered
<1>4. Once /\ Past /\ Flushed /\ Promised
  BY <1>1 DEF Init, Once, Past, Flushed, Promised
<1>5. QED
  BY <1>2, <1>3, <1>4 DEF IInv

LEMMA NextInvariant == IInv /\ [Next]_vars => IInv'
<1> SUFFICES ASSUME IInv, [Next]_vars PROVE IInv'
  OBVIOUS
<1> USE DEF IInv
<1>1. TypeOK' /\ Begun'
  <2>1. CASE UNCHANGED vars
    BY <2>1 DEF TypeOK, Begun, vars
  <2>2. QED
    BY <2>1, StepTyped, FaultTyped DEF Next, Finished
<1>2. Locks' /\ Numbered'
  BY LocksKept, NumberedKept
<1>3. Once' /\ Past' /\ Flushed' /\ Promised'
  BY PastKept, FlushedKept, PromisedKept
<1>4. QED
  BY <1>1, <1>2, <1>3

LEMMA Invariance == Spec => []IInv
BY InitInvariant, NextInvariant, PTL DEF Spec

\* The state of the stores keeps its types.
THEOREM TypeCorrectness == Spec => []TypeOK
BY Invariance, PTL DEF IInv

\* Whole lines are numbered from 1 without gap or duplicate, however many threads
\* and processes append, wherever they fail or die.
THEOREM FileIsNumbered == Spec => []NumberedInOrder
<1>1. IInv => NumberedInOrder
  BY DEF IInv, Numbered, NumberedInOrder
<1>2. QED
  BY <1>1, Invariance, PTL

\* A writer answered True has its record in the file, flushed, at its number and at
\* no other, for good; with or without file locks.
THEOREM AnswersEndure == Spec => []AnswersAreDurable
<1>1. IInv => AnswersAreDurable
  <2> SUFFICES ASSUME IInv, NEW r \in answered
               PROVE  /\ r.sequence <= synced /\ file[r.sequence] = r
                      /\ \A i \in 1 .. Len(file) :
                           file[i] # Torn /\ file[i].writer = r.writer /\ file[i].call = r.call
                             => i = r.sequence
    BY DEF AnswersAreDurable
  <2>1. r.sequence \in 1 .. Len(file) /\ r.sequence <= synced /\ file[r.sequence] = r /\ r # Torn
    BY BoundAssumption, TornAssumption DEF IInv, TypeOK, Promised, Entry
  <2>2. QED
    BY <2>1 DEF IInv, Once
<1>2. QED
  BY <1>1, Invariance, PTL

\* Nothing is answered True on a file that cannot be read, and only a power failure
\* makes such a file readable again.
THEOREM UnreadableFilesStay == Spec => UnreadableStays
<1> DEFINE Stays == ~Readable(file) => answered' = answered /\ (Readable(file') => PowerFailure)
<1>1. ASSUME IInv, [Next]_vars PROVE Stays
  <2> SUFFICES ASSUME ~Readable(file)
               PROVE  answered' = answered /\ (PowerFailure \/ ~Readable(file'))
    OBVIOUS
  <2>0. file \in Seq(Line) /\ Torn \in Line /\ Len(file) \in Nat
    BY <1>1 DEF IInv, TypeOK, Line
  <2>1. ASSUME NEW x \in Line, file' = Append(file, x) PROVE ~Readable(file')
    <3>1. Len(file') = Len(file) + 1 /\ \A i \in 1 .. Len(file) : file'[i] = file[i]
      BY <2>0, <2>1, Appended
    <3>2. QED
      BY <2>0, <3>1, BoundAssumption DEF Readable
  <2>2. ASSUME NEW w \in Writer, Write(w) PROVE answered' = answered /\ ~Readable(file')
    <3>1. LineOf(w) \in Line
      BY <1>1, <2>2, LineTyped DEF IInv, Write, Line
    <3>2. QED
      BY <2>1, <2>2, <3>1 DEF Write
  <2>3. ASSUME NEW w \in Writer, WriteFails(w) PROVE answered' = answered /\ ~Readable(file')
    BY <2>0, <2>1, <2>3 DEF WriteFails
  <2>4. ASSUME NEW s \in Store, Crash(s) PROVE answered' = answered /\ ~Readable(file')
    BY <2>0, <2>1, <2>4 DEF Crash
  <2>5. ASSUME NEW w \in Writer, Quiet(w) PROVE answered' = answered /\ ~Readable(file')
    BY <2>5 DEF Quiet, Begin, LockStore, LockFile, OpenFails, ReadFails, Read, Sync, SyncFails, Confirm,
       ReadBackFails, CanReadBack
  <2>6. ASSUME NEW s \in Store, Restart(s) PROVE answered' = answered /\ ~Readable(file')
    BY <2>6 DEF Restart
  <2>7. CASE UNCHANGED vars
    BY <2>7 DEF vars
  <2>8. CASE PowerFailure
    BY <2>8 DEF PowerFailure
  <2>9. QED
    BY <1>1, <2>2, <2>3, <2>4, <2>5, <2>6, <2>7, <2>8 DEF Next, Step, Progress, Quiet, Finished
<1>2. QED
  BY <1>1, Invariance, PTL DEF Spec, UnreadableStays

-----------------------------------------------------------------------------
(***************************************************************************)
(* The refinement of AuditLedger.                                          *)
(***************************************************************************)
\* The first lines of a sequence.
LEMMA FirstLines ==
  ASSUME NEW S, NEW f, NEW n \in Nat, \A i \in 1 .. n : f[i] \in S
  PROVE  /\ SubSeq(f, 1, n) \in Seq(S)
         /\ Len(SubSeq(f, 1, n)) = n
         /\ \A i \in 1 .. n : SubSeq(f, 1, n)[i] = f[i]
<1>1. /\ SubSeq(f, 1, n) \in Seq(S)
      /\ Len(SubSeq(f, 1, n)) = IF 1 <= n THEN n - 1 + 1 ELSE 0
      /\ \A i \in 1 .. n - 1 + 1 : SubSeq(f, 1, n)[i] = f[1 + i - 1]
  BY SubSeqProperties
<1>2. QED
  BY <1>1

OneTorn(f) == \A i \in 1 .. Len(f) : f[i] = Torn => i = Len(f)

LEMMA WholeFacts ==
  ASSUME NEW f \in Seq(Line), OneTorn(f)
  PROVE  /\ Whole(f) \in Seq(Entry)
         /\ Len(Whole(f)) = IF f # <<>> /\ f[Len(f)] = Torn THEN Len(f) - 1 ELSE Len(f)
         /\ \A i \in 1 .. Len(Whole(f)) : Whole(f)[i] = f[i]
<1>0. Len(f) \in Nat /\ (f # <<>> => Len(f) >= 1)
  BY EmptySeq
<1>1. CASE f # <<>> /\ f[Len(f)] = Torn
  <2> DEFINE n == Len(f) - 1
  <2>1. n \in Nat /\ \A i \in 1 .. n : f[i] \in Entry
    BY <1>0, <1>1 DEF OneTorn, Line
  <2>2. /\ SubSeq(f, 1, n) \in Seq(Entry)
        /\ Len(SubSeq(f, 1, n)) = n
        /\ \A i \in 1 .. n : SubSeq(f, 1, n)[i] = f[i]
    <3> HIDE DEF n
    <3> QED
      BY <2>1, FirstLines
  <2>3. QED
    BY <1>1, <2>2 DEF Whole
<1>2. CASE ~(f # <<>> /\ f[Len(f)] = Torn)
  <2>1. \A i \in 1 .. Len(f) : f[i] \in Entry
    BY <1>0, <1>2, EmptySeq DEF OneTorn, Line
  <2>2. SubSeq(f, 1, Len(f)) \in Seq(Entry) /\ SubSeq(f, 1, Len(f)) = f
    BY <1>0, <2>1, FirstLines, SubSeqFull
  <2>3. QED
    BY <1>2, <2>2 DEF Whole
<1>3. QED
  BY <1>1, <1>2

\* The whole lines of a part of the file are a part of its whole lines.
LEMMA WholeOfPart ==
  ASSUME NEW f \in Seq(Line), OneTorn(f), NEW g \in Seq(Line), OneTorn(g),
         Len(g) <= Len(f),
         \A i \in 1 .. Len(g) : g[i] = f[i] \/ g[i] = Torn
  PROVE  \E m \in 0 .. Len(Whole(f)) : Whole(g) = SubSeq(Whole(f), 1, m)
<1>0. Len(f) \in Nat /\ Len(g) \in Nat /\ (g # <<>> <=> Len(g) >= 1) /\ (f # <<>> <=> Len(f) >= 1)
  BY EmptySeq
<1>1. /\ Whole(g) \in Seq(Entry) /\ Whole(f) \in Seq(Entry)
      /\ \A i \in 1 .. Len(Whole(g)) : Whole(g)[i] = g[i]
      /\ \A i \in 1 .. Len(Whole(f)) : Whole(f)[i] = f[i]
  BY WholeFacts
<1>2. Len(Whole(g)) \in 0 .. Len(Whole(f))
  <2>1. Len(Whole(g)) = IF g # <<>> /\ g[Len(g)] = Torn THEN Len(g) - 1 ELSE Len(g)
    BY WholeFacts
  <2>2. Len(Whole(f)) = IF f # <<>> /\ f[Len(f)] = Torn THEN Len(f) - 1 ELSE Len(f)
    BY WholeFacts
  <2>3. QED
    BY <1>0, <2>1, <2>2
<1>3. \A i \in 1 .. Len(Whole(g)) : g[i] = f[i]
  <2>1. \A i \in 1 .. Len(Whole(g)) : Whole(g)[i] \in Entry
    BY <1>1
  <2>2. Len(Whole(g)) <= Len(g)
    BY <1>0, WholeFacts
  <2>3. QED
    BY <1>0, <1>1, <2>1, <2>2, TornAssumption
<1>4. \A i \in 1 .. Len(Whole(g)) : Whole(f)[i] \in Entry
  BY <1>1, <1>2
<1>5. /\ SubSeq(Whole(f), 1, Len(Whole(g))) \in Seq(Entry)
      /\ Len(SubSeq(Whole(f), 1, Len(Whole(g)))) = Len(Whole(g))
      /\ \A i \in 1 .. Len(Whole(g)) : SubSeq(Whole(f), 1, Len(Whole(g)))[i] = Whole(f)[i]
  BY <1>2, <1>4, FirstLines
<1>6. \A i \in 1 .. Len(Whole(g)) : Whole(g)[i] = SubSeq(Whole(f), 1, Len(Whole(g)))[i]
  BY <1>1, <1>2, <1>3, <1>5
<1>7. Whole(g) = SubSeq(Whole(f), 1, Len(Whole(g)))
  BY ONLY <1>1, <1>5, <1>6, SeqEqual
<1>8. QED
  BY <1>2, <1>7

\* A readable file is whole, and a torn line after it changes nothing.
LEMMA WholeOfReadable ==
  ASSUME NEW f \in Seq(Line), Readable(f)
  PROVE  Whole(f) = f /\ Whole(Append(f, Torn)) = f
<1>0. Len(f) \in Nat /\ Torn \in Line /\ \A i \in 1 .. Len(f) : f[i] \in Entry /\ f[i] # Torn
  BY TornAssumption DEF Readable, Line
<1>1. Whole(f) = f
  BY <1>0, EmptySeq DEF Whole
<1>2. /\ Append(f, Torn) \in Seq(Line) /\ Append(f, Torn) # <<>>
      /\ Len(Append(f, Torn)) = Len(f) + 1
      /\ \A i \in 1 .. Len(f) : Append(f, Torn)[i] = f[i]
      /\ Append(f, Torn)[Len(f) + 1] = Torn
  BY <1>0, AppendProperties
<1>3. OneTorn(Append(f, Torn))
  BY <1>0, <1>2 DEF OneTorn
<1>4. /\ Whole(Append(f, Torn)) \in Seq(Entry)
      /\ Len(Whole(Append(f, Torn))) = Len(f)
      /\ \A i \in 1 .. Len(f) : Whole(Append(f, Torn))[i] = f[i]
  <2> DEFINE g == Append(f, Torn)
  <2>1. g[Len(g)] = Torn /\ g # <<>> /\ g \in Seq(Line) /\ OneTorn(g) /\ Len(g) - 1 = Len(f)
    BY <1>0, <1>2, <1>3
  <2>2. /\ Whole(g) \in Seq(Entry) /\ Len(Whole(g)) = Len(f)
        /\ \A i \in 1 .. Len(Whole(g)) : Whole(g)[i] = g[i]
    <3> HIDE DEF g
    <3> QED
      BY <2>1, WholeFacts
  <2>3. QED
    BY <1>2, <2>2
<1>5. f \in Seq(Entry)
  BY <1>0, <1>1, WholeFacts DEF OneTorn
<1>6. QED
  BY <1>1, <1>4, <1>5, SeqEqual

\* A whole line written after a readable file is one more record, and a new one.
LEMMA WriteIsWrite ==
  ASSUME IInv, Exclusive, NEW w \in Writer, Write(w)
  PROVE  Ledger!Write
<1>1. Readable(file) /\ file \in Seq(Line) /\ Len(file) \in Nat
  BY DEF IInv, Numbered, Write, TypeOK, Line
<1>2. LineOf(w) \in Entry /\ LineOf(w) # Torn /\ LineOf(w) \in Line
  BY LineTyped, TornAssumption DEF IInv, Write, Line
<1>3. /\ Len(file') = Len(file) + 1 /\ file' # <<>>
      /\ file'[Len(file) + 1] = LineOf(w)
      /\ file' = Append(file, LineOf(w))
  BY <1>1, <1>2, AppendProperties DEF Write
<1>4. Whole(file') = Append(file, LineOf(w))
  BY <1>2, <1>3 DEF Whole
<1>5. Whole(file) = file
  BY <1>1, WholeOfReadable
<1>6. \A i \in 1 .. Len(file) : file[i] # LineOf(w)
  <2> SUFFICES ASSUME NEW i \in 1 .. Len(file), file[i] = LineOf(w) PROVE FALSE
    OBVIOUS
  <2>1. calls[w] < calls[w]
    BY <1>2 DEF IInv, Past, LineOf, Write
  <2>2. calls[w] \in Nat
    BY DEF IInv, TypeOK
  <2>3. QED
    BY <2>1, <2>2
<1>7. answered' = answered
  BY DEF Write
<1>8. QED
  BY <1>2, <1>4, <1>5, <1>6, <1>7 DEF Ledger!Write, Ledger!Holds

\* An answer of True is given for a record of the ledger.
LEMMA ConfirmIsAcknowledge ==
  ASSUME IInv, NEW w \in Writer, Confirm(w)
  PROVE  Ledger!Acknowledge
<1>1. /\ file' = file /\ file \in Seq(Line) /\ Readable(file)
      /\ answered' = answered \cup {LineOf(w)}
      /\ sequence[w] \in 1 .. Len(file) /\ file[sequence[w]] = LineOf(w)
  BY DEF IInv, TypeOK, Line, Confirm, CanReadBack
<1>2. LineOf(w) \in Entry
  BY LineTyped DEF IInv, Confirm, CanReadBack
<1>3. Whole(file) = file /\ Whole(file') = file
  BY <1>1, WholeOfReadable
<1>4. QED
  BY <1>1, <1>2, <1>3 DEF Ledger!Acknowledge, Ledger!Holds

\* A power failure takes last records away, but none that was answered True.
LEMMA PowerFailureIsLose ==
  ASSUME IInv, IInv', Exclusive, PowerFailure
  PROVE  Ledger!Lose
<1>1. file \in Seq(Line) /\ file' \in Seq(Line) /\ OneTorn(file) /\ OneTorn(file')
  BY DEF IInv, TypeOK, Line, Numbered, Exclusive, OneTorn
<1>2. \E n \in 0 .. Len(Whole(file)) : Whole(file') = SubSeq(Whole(file), 1, n)
  <2>1. Len(file') <= Len(file) /\ \A i \in 1 .. Len(file') : file'[i] = file[i] \/ file'[i] = Torn
    BY Survives DEF IInv
  <2>2. QED
    BY <1>1, <2>1, WholeOfPart
<1>3. \A r \in answered : \E i \in 1 .. Len(Whole(file')) : Whole(file')[i] = r
  <2> SUFFICES ASSUME NEW r \in answered
               PROVE  \E i \in 1 .. Len(Whole(file')) : Whole(file')[i] = r
    OBVIOUS
  <2>1. answered' = answered /\ synced' = Len(file')
    BY Survives DEF IInv, PowerFailure
  <2>2. r.sequence <= Len(file') /\ file'[r.sequence] = r
    BY <2>1 DEF IInv, Promised
  <2>3. r \in Entry /\ r # Torn /\ r.sequence \in 1 .. Len(file')
    BY <2>1, <2>2, BoundAssumption, TornAssumption DEF IInv, TypeOK, Entry
  <2>4. /\ Len(Whole(file')) = IF file' # <<>> /\ file'[Len(file')] = Torn
                                THEN Len(file') - 1 ELSE Len(file')
        /\ \A i \in 1 .. Len(Whole(file')) : Whole(file')[i] = file'[i]
    BY <1>1, WholeFacts
  <2>5. r.sequence \in 1 .. Len(Whole(file'))
    BY <1>1, <2>2, <2>3, <2>4
  <2>6. QED
    BY <2>2, <2>4, <2>5
<1>4. answered' = answered
  BY DEF PowerFailure
<1>5. QED
  BY <1>2, <1>3, <1>4 DEF Ledger!Lose

LEMMA StepOfLedger ==
  ASSUME IInv, IInv', Exclusive, [Next]_vars
  PROVE  [Ledger!Next]_(Ledger!vars)
<1> DEFINE Stutters == Whole(file') = Whole(file) /\ answered' = answered
<1>1. Stutters => UNCHANGED Ledger!vars
  BY DEF Ledger!vars
<1>2. ASSUME NEW w \in Writer, pc[w] = "write", file' = file \/ file' = Append(file, Torn)
      PROVE  Whole(file') = Whole(file)
  <2>1. Readable(file) /\ file \in Seq(Line)
    BY <1>2 DEF IInv, Numbered, TypeOK, Line
  <2>2. QED
    BY <1>2, <2>1, WholeOfReadable
<1>3. ASSUME NEW w \in Writer, WriteFails(w) PROVE Stutters
  BY <1>2, <1>3 DEF WriteFails
<1>4. ASSUME NEW s \in Store, Crash(s) PROVE Stutters
  BY <1>2, <1>4 DEF Crash
<1>5. ASSUME NEW w \in Writer, Quiet(w), ~Confirm(w) PROVE Stutters
  BY <1>5 DEF Quiet, Begin, LockStore, LockFile, OpenFails, ReadFails, Read, Sync, SyncFails,
     ReadBackFails, CanReadBack
<1>6. ASSUME NEW s \in Store, Restart(s) PROVE Stutters
  BY <1>6 DEF Restart
<1>7. CASE UNCHANGED vars
  <2>1. Stutters
    BY <1>7 DEF vars
  <2>2. QED
    BY <1>1, <2>1
<1> HIDE DEF Stutters
<1>8. QED
  BY <1>1, <1>3, <1>4, <1>5, <1>6, <1>7, WriteIsWrite, ConfirmIsAcknowledge, PowerFailureIsLose
     DEF Next, Step, Progress, Quiet, Finished, Ledger!Next

\* Where one store at a time can be inside the file, the store implements the
\* append-only list that the workflow relies on.
THEOREM StoreKeepsTheLedger == Exclusive => (Spec => KeepsTheLedger)
<1> SUFFICES ASSUME Exclusive PROVE Spec => KeepsTheLedger
  OBVIOUS
<1>1. Init => Ledger!Init
  BY DEF Init, Ledger!Init, Whole
<1>2. IInv /\ IInv' /\ [Next]_vars => [Ledger!Next]_(Ledger!vars)
  BY StepOfLedger
<1>3. QED
  BY <1>1, <1>2, Invariance, PTL DEF Spec, KeepsTheLedger, Ledger!Spec
=============================================================================
