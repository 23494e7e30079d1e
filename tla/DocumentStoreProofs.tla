-------------------------- MODULE DocumentStoreProofs --------------------------
(***************************************************************************)
(* Safety of the session directory for any number of callers, calls and    *)
(* crashes.                                                                *)
(*                                                                         *)
(* The inductive invariant says what each caller has of its own call       *)
(* (At), that no name is used before its call (Fresh), and that what is    *)
(* written back is a directory of the same kind (Kept).                    *)
(***************************************************************************)
EXTENDS DocumentStore, TLAPS

Kept == stable.dir \/ Present(stable.files) = {}

\* The names of later calls are not in use, and those deletions have answered
\* for are of calls that had begun.
Fresh ==
  /\ \A n \in Name : n.call > calls[n.caller] =>
       files[n] = "absent" /\ stable.files[n] = "absent"
  /\ gone \subseteq Begun

\* The two names of a caller's current call, where the call stands.
At(c) ==
  /\ pc[c] # "idle" => calls[c] >= 1
  /\ pc[c] \in {"create", "write", "rename"} => files[Doc(c)] = "absent"
  /\ pc[c] = "rename" => files[Tmp(c)] # "part"
  /\ pc[c] \in {"chmod", "readback"} => files[Tmp(c)] = "absent"
  /\ pc[c] = "cleanup" /\ files[Doc(c)] # "absent" => Doc(c) \in left
  /\ pc[c] \in {"write", "rename"} /\ files[Tmp(c)] # "absent" => Doc(c) \notin gone

Placed == \A c \in Caller : At(c)

IInv == /\ TypeOK /\ Kept /\ Fresh /\ Placed
        /\ DocumentsAreWhole /\ LeftoversAreExplained /\ DeleteLeavesNothing

-----------------------------------------------------------------------------
(***************************************************************************)
(* Names.                                                                  *)
(***************************************************************************)
LEMMA OwnNames ==
  ASSUME TypeOK, NEW c \in Caller, calls[c] >= 1
  PROVE  /\ Tmp(c) \in Name /\ Doc(c) \in Name /\ Tmp(c) # Doc(c)
         /\ Tmp(c).kind = "tmp" /\ Doc(c).kind = "doc"
         /\ Tmp(c).caller = c /\ Doc(c).caller = c
         /\ Tmp(c).call = calls[c] /\ Doc(c).call = calls[c]
BY BoundAssumption DEF TypeOK, Name, Tmp, Doc

\* Why an entry is there.
Explained(n) ==
  n \in confirmed \cup left
    \/ (n.call = calls[n.caller] /\ n \in Abandoned(n.caller))

\* Up to which call the names of a caller have begun.
Rank(c) == calls[c] + (IF pc[c] = "create" THEN 0 ELSE 1)

\* A step of one caller moves nothing of the others but what it removes.
LEMMA CallerStep ==
  ASSUME IInv, NEW c \in Caller, TypeOK', UNCHANGED stable,
         \A d \in Caller : d # c => pc'[d] = pc[d] /\ calls'[d] = calls[d],
         calls'[c] >= calls[c], Rank(c)' >= Rank(c),
         \A n \in Name : n.caller # c \/ n.call # calls[c] => files'[n] \in {files[n], "absent"},
         \A n \in Name : n.kind = "doc" => files'[n] # "part",
         confirmed \subseteq confirmed', left \subseteq left',
         gone' = gone \/ (gone' = gone \cup Begun /\ Present(files') = {}),
         gone' \cap Present(files') = {},
         At(c)', \A n \in Present(files') : n.caller = c => Explained(n)'
  PROVE  IInv'
<1>1. /\ TypeOK /\ Fresh /\ Placed /\ LeftoversAreExplained
      /\ calls \in [Caller -> 0 .. MaxCalls] /\ calls' \in [Caller -> 0 .. MaxCalls]
      /\ MaxCalls \in Nat
  BY BoundAssumption DEF IInv, TypeOK
<1>2. Kept' /\ DocumentsAreWhole' /\ DeleteLeavesNothing'
  BY DEF IInv, Kept, DocumentsAreWhole, DeleteLeavesNothing
<1>3. \A n \in Name : n.caller \in Caller /\ n.call \in Nat
  BY <1>1 DEF Name
<1>4. \A d \in Caller : calls'[d] >= calls[d] /\ calls[d] \in Nat /\ calls'[d] \in Nat
                        /\ Rank(d)' >= Rank(d) /\ Rank(d) \in Nat /\ Rank(d)' \in Nat
  BY <1>1 DEF Rank
<1>5. Fresh'
  <2>1. ASSUME NEW n \in Name, n.call > calls'[n.caller]
        PROVE  files'[n] = "absent" /\ stable'.files[n] = "absent"
    <3>1. n.call > calls[n.caller]
      BY <1>3, <1>4, <2>1
    <3>2. files[n] = "absent" /\ stable.files[n] = "absent"
      BY <1>1, <3>1 DEF Fresh
    <3>3. n.caller # c \/ n.call # calls[c]
      BY <1>3, <1>4, <3>1
    <3>4. QED
      BY <3>2, <3>3
  <2>2. Begun \subseteq Begun'
    <3>1. Begun = {n \in Name : n.call < Rank(n.caller)}
          /\ Begun' = {n \in Name : n.call < Rank(n.caller)'}
      BY DEF Begun, Rank
    <3>2. QED
      BY <1>3, <1>4, <3>1
  <2>3. gone' \subseteq Begun'
    BY <1>1, <2>2 DEF Fresh
  <2>4. QED
    BY <2>1, <2>3 DEF Fresh
<1>6. Placed'
  <2> SUFFICES ASSUME NEW d \in Caller, d # c PROVE At(d)'
    BY DEF Placed
  <2>1. At(d) /\ pc'[d] = pc[d] /\ calls'[d] = calls[d]
    BY <1>1 DEF Placed
  <2>2. CASE pc[d] = "idle"
    BY <2>1, <2>2 DEF At
  <2>3. CASE pc[d] # "idle"
    <3> DEFINE t == Tmp(d)
               o == Doc(d)
    <3>1. calls[d] >= 1
      BY <2>1, <2>3 DEF At
    <3>2. t \in Name /\ o \in Name /\ t.caller = d /\ o.caller = d
      BY <1>1, <3>1, OwnNames
    <3>3. Tmp(d)' = t /\ Doc(d)' = o
      BY <2>1 DEF Tmp, Doc
    <3>4. files'[t] \in {files[t], "absent"} /\ files'[o] \in {files[o], "absent"}
      BY <3>2
    <3>5. gone' = gone \/ files'[t] = "absent"
      BY <3>2 DEF Present
    <3> HIDE DEF t, o
    <3>6. /\ pc[d] \in {"create", "write", "rename"} => files[o] = "absent"
          /\ pc[d] = "rename" => files[t] # "part"
          /\ pc[d] \in {"chmod", "readback"} => files[t] = "absent"
          /\ pc[d] = "cleanup" /\ files[o] # "absent" => o \in left
          /\ pc[d] \in {"write", "rename"} /\ files[t] # "absent" => o \notin gone
      BY <2>1 DEF At, t, o
    <3>7. QED
      BY <2>1, <3>1, <3>3, <3>4, <3>5, <3>6 DEF At
  <2>4. QED
    BY <2>2, <2>3
<1>7. LeftoversAreExplained'
  <2>1. ASSUME NEW n \in Present(files'), n.caller # c PROVE Explained(n)'
    <3>1. n \in Name /\ n \in Present(files)
      BY <2>1 DEF Present
    <3>2. Explained(n)
      BY <1>1, <3>1 DEF LeftoversAreExplained, Explained
    <3>3. pc'[n.caller] = pc[n.caller] /\ calls'[n.caller] = calls[n.caller]
      BY <1>3, <2>1, <3>1
    <3>4. Abandoned(n.caller)' = Abandoned(n.caller)
      BY <3>3 DEF Abandoned, Tmp, Doc
    <3>5. QED
      BY <3>2, <3>3, <3>4 DEF Explained
  <2>2. QED
    BY <2>1 DEF LeftoversAreExplained, Explained
<1>8. QED
  BY <1>2, <1>5, <1>6, <1>7 DEF IInv

-----------------------------------------------------------------------------
LEMMA InitInvariant == Init => IInv
<1> SUFFICES ASSUME Init PROVE IInv
  OBVIOUS
<1>1. Present(Empty) = {} /\ Empty \in [Name -> {"absent", "part", "whole"}]
      /\ \A n \in Name : Empty[n] = "absent"
  BY DEF Present, Empty
<1>2. TypeOK
  <2>1. /\ pc = [c \in Caller |-> "idle"] /\ calls = [c \in Caller |-> 0]
        /\ listing = [c \in Caller |-> {}] /\ dir = FALSE /\ files = Empty
        /\ confirmed = {} /\ left = {} /\ gone = {} /\ crashes = 0
        /\ stable = [dir |-> FALSE, files |-> Empty]
    BY DEF Init
  <2> HIDE DEF Empty
  <2>2. stable \in [dir : BOOLEAN, files : [Name -> {"absent", "part", "whole"}]]
    BY <1>1, <2>1
  <2>3. /\ 0 \in 0 .. MaxCalls /\ 0 \in 0 .. MaxCrashes
    BY BoundAssumption
  <2>4. QED
    BY <1>1, <2>1, <2>2, <2>3 DEF TypeOK
<1>3. Kept /\ Fresh /\ Placed
  BY <1>1 DEF Init, Kept, Fresh, Placed, At
<1>4. DocumentsAreWhole /\ LeftoversAreExplained /\ DeleteLeavesNothing
  BY <1>1 DEF Init, DocumentsAreWhole, LeftoversAreExplained, DeleteLeavesNothing
<1>5. QED
  BY <1>2, <1>3, <1>4 DEF IInv

LEMMA StutterInvariant == IInv /\ UNCHANGED vars => IInv'
BY DEF IInv, vars, TypeOK, Kept, Fresh, Begun, Placed, At, Tmp, Doc, Present,
   DocumentsAreWhole, LeftoversAreExplained, Abandoned, DeleteLeavesNothing

\* What a caller's own call has, in one place.
LEMMA Own ==
  ASSUME IInv, NEW c \in Caller
  PROVE  /\ TypeOK /\ At(c) /\ calls[c] \in Nat /\ MaxCalls \in Nat
         /\ \A n \in Name : n.kind = "doc" => files[n] # "part"
         /\ gone \cap Present(files) = {}
         /\ \A n \in Present(files) : n.caller = c => Explained(n)
         /\ \A n \in Name : n.call \in Nat /\ (n.call > calls[n.caller] => files[n] = "absent")
BY BoundAssumption DEF IInv, TypeOK, Placed, DocumentsAreWhole, DeleteLeavesNothing,
   LeftoversAreExplained, Explained, Fresh, Name

\* A call that begins: its names are new.
LEMMA BeginInvariant ==
  ASSUME NEW c \in Caller, IInv, BeginStore(c) \/ BeginDelete(c) PROVE IInv'
<1>1. /\ TypeOK /\ At(c) /\ calls[c] \in Nat /\ MaxCalls \in Nat
      /\ \A n \in Name : n.kind = "doc" => files[n] # "part"
      /\ gone \cap Present(files) = {}
      /\ \A n \in Present(files) : n.caller = c => Explained(n)
      /\ \A n \in Name : n.call \in Nat /\ (n.call > calls[n.caller] => files[n] = "absent")
  BY Own
<1>2. /\ pc[c] = "idle" /\ calls[c] < MaxCalls
      /\ calls' = [calls EXCEPT ![c] = @ + 1]
      /\ pc' = [pc EXCEPT ![c] = "create"] \/ pc' = [pc EXCEPT ![c] = "unlink"]
      /\ UNCHANGED <<files, stable, confirmed, left, gone>>
  BY DEF BeginStore, BeginDelete, Call, Goto
<1>3. TypeOK'
  <2>1. calls[c] + 1 \in 0 .. MaxCalls
    BY <1>1, <1>2
  <2>2. calls' \in [Caller -> 0 .. MaxCalls]
    BY <1>1, <1>2, <2>1 DEF TypeOK
  <2>3. listing' \in [Caller -> SUBSET Name]
    BY <1>1 DEF BeginStore, BeginDelete, TypeOK, Present
  <2>4. dir' \in BOOLEAN /\ (dir' \/ Present(files') = {}) /\ crashes' = crashes
    BY <1>1 DEF BeginStore, BeginDelete, TypeOK
  <2>5. QED
    BY <1>1, <1>2, <2>2, <2>3, <2>4 DEF TypeOK
<1>4. /\ pc'[c] \in {"create", "unlink"} /\ calls'[c] = calls[c] + 1
      /\ \A d \in Caller : d # c => pc'[d] = pc[d] /\ calls'[d] = calls[d]
  BY <1>1, <1>2 DEF TypeOK
<1>5. At(c)'
  <2>1. Doc(c)' \in Name /\ Doc(c)'.call = calls[c] + 1 /\ Doc(c)'.caller = c
    BY <1>1, <1>2, <1>4 DEF Doc, Name
  <2>2. files'[Doc(c)'] = "absent"
    BY <1>1, <1>2, <2>1
  <2>3. files'[Doc(c)'] = files[Doc(c)]'
    OBVIOUS
  <2>4. QED
    BY <1>1, <1>4, <2>2 DEF At
<1>6. \A n \in Present(files') : n.caller = c => Explained(n)'
  BY <1>1, <1>2 DEF Explained, Abandoned
<1>7. Rank(c)' >= Rank(c) /\ calls'[c] >= calls[c]
  BY <1>1, <1>2, <1>4 DEF Rank
<1>8. QED
  BY <1>1, <1>2, <1>3, <1>4, <1>5, <1>6, <1>7, CallerStep

\* A step of store() or of the read-back: it touches the two names of its call.
LEMMA StoreStep ==
  ASSUME NEW c \in Caller, IInv,
         pc[c] \in {"create", "write", "rename", "chmod", "cleanup", "readback"},
         NEW step \in {"write", "rename", "chmod", "cleanup", "readback", "idle"}, Goto(c, step),
         UNCHANGED <<calls, listing, dir, stable, gone, crashes>>,
         files' \in [Name -> {"absent", "part", "whole"}],
         \A n \in Name \ {Tmp(c), Doc(c)} : files'[n] = files[n],
         Present(files') # {} => dir,
         confirmed \subseteq confirmed', confirmed' \subseteq confirmed \cup {Doc(c)},
         left \subseteq left', left' \subseteq left \cup {Tmp(c), Doc(c)},
         files'[Tmp(c)] = "absent" \/ Tmp(c) \notin gone,
         files'[Doc(c)] = "absent" \/ (files'[Doc(c)] = "whole" /\ Doc(c) \notin gone),
         step \in {"write", "rename"} => files'[Doc(c)] = "absent"
           /\ (files'[Tmp(c)] = "absent" \/ Doc(c) \notin gone),
         step = "rename" => files'[Tmp(c)] # "part",
         step \in {"chmod", "readback"} => files'[Tmp(c)] = "absent",
         step = "cleanup" => files'[Doc(c)] = "absent" \/ Doc(c) \in left',
         step = "idle" => \A n \in {Tmp(c), Doc(c)} :
           files'[n] = "absent" \/ n \in confirmed' \cup left'
  PROVE  IInv'
<1> DEFINE t == Tmp(c)
           o == Doc(c)
<1>1. /\ TypeOK /\ At(c) /\ calls[c] \in Nat /\ MaxCalls \in Nat
      /\ \A n \in Name : n.kind = "doc" => files[n] # "part"
      /\ gone \cap Present(files) = {}
      /\ \A n \in Present(files) : n.caller = c => Explained(n)
  BY Own
<1>2. calls[c] >= 1
  BY <1>1 DEF At
<1>3. /\ t \in Name /\ o \in Name /\ t # o /\ t.kind = "tmp" /\ o.kind = "doc"
      /\ t.caller = c /\ o.caller = c /\ t.call = calls[c] /\ o.call = calls[c]
  BY <1>1, <1>2, OwnNames
<1>4. Tmp(c)' = t /\ Doc(c)' = o
  BY DEF Tmp, Doc
<1>5. pc' \in [Caller -> {"idle", "create", "write", "rename", "chmod", "cleanup",
                          "readback", "unlink"}]
      /\ pc'[c] = step /\ \A d \in Caller : d # c => pc'[d] = pc[d]
  BY <1>1 DEF Goto, TypeOK
<1>6. \A n \in Name : n.caller = c /\ n.call = calls[c] => n \in {t, o}
  BY DEF Name, Tmp, Doc
<1> HIDE DEF t, o
<1>7. TypeOK'
  <2>1. confirmed' \subseteq Name /\ left' \subseteq Name
    BY <1>1, <1>3 DEF TypeOK, t, o
  <2>2. QED
    BY <1>1, <1>5, <2>1 DEF TypeOK
<1>8. Rank(c)' >= Rank(c) /\ calls'[c] >= calls[c]
  BY <1>1, <1>5 DEF Rank
<1>9. At(c)'
  BY <1>2, <1>3, <1>4, <1>5 DEF At, t, o
<1>10. \A n \in Name : n.caller # c \/ n.call # calls[c] => files'[n] \in {files[n], "absent"}
  BY <1>3 DEF t, o
<1>11. \A n \in Name : n.kind = "doc" => files'[n] # "part"
  BY <1>1, <1>3 DEF t, o
<1>12. gone' \cap Present(files') = {}
  BY <1>1 DEF Present
<1>13. ASSUME NEW n \in Present(files'), n.caller = c PROVE Explained(n)'
  <2>1. n \in Name /\ files'[n] # "absent"
    BY DEF Present
  <2>2. CASE n \in {t, o}
    <3>1. CASE step = "idle"
      BY <2>1, <2>2, <3>1 DEF Explained, t, o
    <3>2. CASE step # "idle"
      <4>1. Abandoned(c)' = {t, o}
        BY <1>4, <1>5, <3>2 DEF Abandoned
      <4>2. QED
        BY <1>3, <2>2, <4>1 DEF Explained
    <3>3. QED
      BY <3>1, <3>2
  <2>3. CASE n \notin {t, o}
    <3>1. n \in Present(files)
      BY <2>1, <2>3 DEF Present, t, o
    <3>2. Explained(n) /\ n.call # calls[n.caller]
      BY <1>1, <1>6, <1>13, <2>1, <2>3, <3>1
    <3>3. QED
      BY <3>2 DEF Explained
  <2>4. QED
    BY <2>2, <2>3
<1>14. QED
  BY <1>5, <1>7, <1>8, <1>9, <1>10, <1>11, <1>12, <1>13, CallerStep

\* What a store may rely on in its own call.
LEMMA OwnCall ==
  ASSUME NEW c \in Caller, IInv,
         pc[c] \in {"create", "write", "rename", "chmod", "cleanup", "readback"}
  PROVE  /\ Tmp(c) \in Name /\ Doc(c) \in Name /\ Tmp(c) # Doc(c)
         /\ files \in [Name -> {"absent", "part", "whole"}]
         /\ files[Doc(c)] # "part"
         /\ Present(files) # {} => dir
         /\ files[Tmp(c)] = "absent" \/ Tmp(c) \notin gone
         /\ files[Doc(c)] = "absent" \/ Doc(c) \notin gone
         /\ pc[c] = "create" => Tmp(c) \notin gone /\ Doc(c) \notin gone
<1>1. /\ TypeOK /\ At(c) /\ calls[c] \in Nat
      /\ \A n \in Name : n.kind = "doc" => files[n] # "part"
      /\ gone \cap Present(files) = {}
  BY Own
<1>2. calls[c] >= 1
  BY <1>1 DEF At
<1>3. /\ Tmp(c) \in Name /\ Doc(c) \in Name /\ Tmp(c) # Doc(c) /\ Doc(c).kind = "doc"
      /\ Tmp(c).caller = c /\ Doc(c).caller = c
      /\ Tmp(c).call = calls[c] /\ Doc(c).call = calls[c]
  BY <1>1, <1>2, OwnNames
<1>4. pc[c] = "create" => Tmp(c) \notin Begun /\ Doc(c) \notin Begun
  BY <1>1, <1>3 DEF Begun
<1>5. gone \subseteq Begun
  BY DEF IInv, Fresh
<1>6. QED
  BY <1>1, <1>3, <1>4, <1>5 DEF TypeOK, Present

LEMMA CreateInvariant ==
  ASSUME NEW c \in Caller, IInv, Create(c) PROVE IInv'
<1> DEFINE t == Tmp(c)
           o == Doc(c)
<1>1. /\ pc[c] = "create" /\ dir /\ files' = [files EXCEPT ![t] = "part"]
      /\ Goto(c, "write")
      /\ UNCHANGED <<calls, listing, dir, stable, confirmed, left, gone, crashes>>
  BY DEF Create
<1>2. /\ t \in Name /\ o \in Name /\ t # o /\ t \notin gone /\ o \notin gone
      /\ files \in [Name -> {"absent", "part", "whole"}]
  BY <1>1, OwnCall
<1>3. files[o] = "absent"
  BY <1>1 DEF IInv, Placed, At
<1> HIDE DEF t, o
<1>4. /\ files' \in [Name -> {"absent", "part", "whole"}] /\ files'[o] = "absent"
      /\ \A n \in Name \ {t, o} : files'[n] = files[n]
  BY <1>1, <1>2, <1>3
<1>5. QED
  BY <1>1, <1>2, <1>4, StoreStep DEF t, o

LEMMA WriteInvariant ==
  ASSUME NEW c \in Caller, IInv, Write(c) PROVE IInv'
<1> DEFINE t == Tmp(c)
           o == Doc(c)
<1>1. /\ pc[c] = "write" /\ files' = [files EXCEPT ![t] = IF @ = "part" THEN "whole" ELSE @]
      /\ Goto(c, "rename")
      /\ UNCHANGED <<calls, listing, dir, stable, confirmed, left, gone, crashes>>
  BY DEF Write
<1>2. /\ t \in Name /\ o \in Name /\ t # o
      /\ files \in [Name -> {"absent", "part", "whole"}]
      /\ Present(files) # {} => dir
      /\ files[t] = "absent" \/ t \notin gone
  BY <1>1, OwnCall
<1>3. files[o] = "absent" /\ (files[t] # "absent" => o \notin gone)
  BY <1>1 DEF IInv, Placed, At
<1> HIDE DEF t, o
<1>4. /\ files' \in [Name -> {"absent", "part", "whole"}] /\ files'[o] = "absent"
      /\ \A n \in Name \ {t, o} : files'[n] = files[n]
      /\ files'[t] # "part" /\ (files'[t] = "absent" <=> files[t] = "absent")
  BY <1>1, <1>2, <1>3
<1>5. Present(files') = Present(files)
  BY <1>2, <1>3, <1>4 DEF Present
<1>6. QED
  BY <1>1, <1>2, <1>3, <1>4, <1>5, StoreStep DEF t, o

LEMMA RenameInvariant ==
  ASSUME NEW c \in Caller, IInv, Rename(c) PROVE IInv'
<1> DEFINE t == Tmp(c)
           o == Doc(c)
<1>1. /\ pc[c] = "rename" /\ files[t] # "absent"
      /\ files' = [files EXCEPT ![o] = files[t], ![t] = "absent"]
      /\ Goto(c, "chmod")
      /\ UNCHANGED <<calls, listing, dir, stable, confirmed, left, gone, crashes>>
  BY DEF Rename
<1>2. /\ t \in Name /\ o \in Name /\ t # o
      /\ files \in [Name -> {"absent", "part", "whole"}]
      /\ Present(files) # {} => dir
  BY <1>1, OwnCall
<1>3. files[t] = "whole" /\ o \notin gone
  BY <1>1, <1>2 DEF IInv, Placed, At
<1>4. dir
  BY <1>1, <1>2 DEF Present
<1> HIDE DEF t, o
<1>5. /\ files' \in [Name -> {"absent", "part", "whole"}]
      /\ files'[o] = "whole" /\ files'[t] = "absent"
      /\ \A n \in Name \ {t, o} : files'[n] = files[n]
  BY <1>1, <1>2, <1>3
<1>6. QED
  BY <1>1, <1>2, <1>3, <1>4, <1>5, StoreStep DEF t, o

\* The steps of a store that leave the directory as it is.
LEMMA StandstillInvariant ==
  ASSUME NEW c \in Caller, IInv,
         Chmod(c) \/ StoreFails(c) \/ CleanupFails(c) \/ ReadBack(c) \/ ReadBackFails(c)
  PROVE  IInv'
<1> DEFINE t == Tmp(c)
           o == Doc(c)
<1>1. /\ pc[c] \in {"create", "write", "rename", "chmod", "cleanup", "readback"}
      /\ UNCHANGED <<calls, listing, dir, files, stable, gone, crashes>>
  BY DEF Chmod, StoreFails, CleanupFails, ReadBack, ReadBackFails
<1>2. /\ t \in Name /\ o \in Name /\ t # o
      /\ files \in [Name -> {"absent", "part", "whole"}]
      /\ files[o] # "part" /\ (Present(files) # {} => dir)
      /\ files[t] = "absent" \/ t \notin gone
      /\ files[o] = "absent" \/ o \notin gone
  BY <1>1, OwnCall
<1>3. /\ pc[c] \in {"create", "write", "rename"} => files[o] = "absent"
      /\ pc[c] \in {"chmod", "readback"} => files[t] = "absent"
      /\ pc[c] = "cleanup" /\ files[o] # "absent" => o \in left
      /\ TypeOK
  BY DEF IInv, Placed, At
<1> HIDE DEF t, o
<1>4. CASE Chmod(c)
  BY <1>1, <1>2, <1>3, <1>4, StoreStep DEF Chmod, t, o
<1>5. CASE StoreFails(c)
  <2>1. Goto(c, "cleanup") /\ confirmed' = confirmed /\ left' \subseteq left \cup {t, o}
        /\ left \subseteq left' /\ (files[o] = "absent" \/ o \in left')
    BY <1>3, <1>5 DEF StoreFails, t, o
  <2>2. QED
    BY <1>1, <1>2, <1>3, <2>1, StoreStep DEF t, o
<1>6. CASE CleanupFails(c)
  <2>1. Goto(c, "idle") /\ confirmed' = confirmed /\ left' = left \cup {t}
        /\ pc[c] = "cleanup"
    BY <1>6 DEF CleanupFails, t
  <2>2. QED
    BY <1>1, <1>2, <1>3, <2>1, StoreStep DEF t, o
<1>7. CASE ReadBack(c)
  BY <1>1, <1>2, <1>3, <1>7, StoreStep DEF ReadBack, t, o
<1>8. CASE ReadBackFails(c)
  BY <1>1, <1>2, <1>3, <1>8, StoreStep DEF ReadBackFails, t, o
<1>9. QED
  BY <1>4, <1>5, <1>6, <1>7, <1>8

LEMMA CleanupInvariant ==
  ASSUME NEW c \in Caller, IInv, Cleanup(c) PROVE IInv'
<1> DEFINE t == Tmp(c)
           o == Doc(c)
<1>1. /\ pc[c] = "cleanup" /\ files' = [files EXCEPT ![t] = "absent"]
      /\ Goto(c, "idle")
      /\ UNCHANGED <<calls, listing, dir, stable, confirmed, left, gone, crashes>>
  BY DEF Cleanup
<1>2. /\ t \in Name /\ o \in Name /\ t # o
      /\ files \in [Name -> {"absent", "part", "whole"}]
      /\ files[o] # "part" /\ (Present(files) # {} => dir)
      /\ files[o] = "absent" \/ o \notin gone
  BY <1>1, OwnCall
<1>3. files[o] # "absent" => o \in left
  BY <1>1 DEF IInv, Placed, At
<1> HIDE DEF t, o
<1>4. /\ files' \in [Name -> {"absent", "part", "whole"}]
      /\ files'[o] = files[o] /\ files'[t] = "absent"
      /\ \A n \in Name \ {t, o} : files'[n] = files[n]
  BY <1>1, <1>2
<1>5. Present(files') \subseteq Present(files)
  BY <1>2, <1>4 DEF Present
<1>6. QED
  BY <1>1, <1>2, <1>3, <1>4, <1>5, StoreStep DEF t, o

-----------------------------------------------------------------------------
(***************************************************************************)
(* Deletions.                                                              *)
(***************************************************************************)
\* A deletion removes entries, answers or gives up.
LEMMA DeleteInvariant ==
  ASSUME NEW c \in Caller, IInv, Unlink(c) \/ RemoveDirectory(c) \/ DeleteFails(c)
  PROVE  IInv'
<1>1. /\ TypeOK /\ At(c) /\ calls[c] \in Nat
      /\ \A n \in Name : n.kind = "doc" => files[n] # "part"
      /\ gone \cap Present(files) = {}
      /\ \A n \in Present(files) : n.caller = c => Explained(n)
  BY Own
<1>2. /\ pc[c] = "unlink" /\ UNCHANGED <<calls, stable, confirmed, left, crashes>>
      /\ pc' = pc \/ Goto(c, "idle")
  BY DEF Unlink, RemoveDirectory, DeleteFails
<1>3. /\ pc' \in [Caller -> {"idle", "create", "write", "rename", "chmod", "cleanup",
                             "readback", "unlink"}]
      /\ pc'[c] \in {"unlink", "idle"} /\ \A d \in Caller : d # c => pc'[d] = pc[d]
  BY <1>1, <1>2 DEF Goto, TypeOK
<1>4. /\ files' \in [Name -> {"absent", "part", "whole"}]
      /\ \A n \in Name : files'[n] \in {files[n], "absent"}
  BY <1>1 DEF Unlink, RemoveDirectory, DeleteFails, TypeOK
<1>5. Present(files') \subseteq Present(files)
  BY <1>4 DEF Present
<1>6. gone' = gone \/ (gone' = gone \cup Begun /\ Present(files') = {})
  BY DEF Unlink, RemoveDirectory, DeleteFails
<1>7. TypeOK'
  <2>1. listing' \in [Caller -> SUBSET Name]
    BY <1>1 DEF Unlink, RemoveDirectory, DeleteFails, TypeOK
  <2>2. dir' \in BOOLEAN /\ (dir' \/ Present(files') = {})
    BY <1>1, <1>5 DEF Unlink, RemoveDirectory, DeleteFails, TypeOK
  <2>3. gone' \subseteq Name
    BY <1>1, <1>6 DEF TypeOK, Begun
  <2>4. QED
    BY <1>1, <1>2, <1>3, <1>4, <2>1, <2>2, <2>3 DEF TypeOK
<1>8. At(c)'
  BY <1>1, <1>2, <1>3 DEF At
<1>9. \A n \in Present(files') : n.caller = c => Explained(n)'
  BY <1>1, <1>2, <1>5 DEF Explained, Abandoned
<1>10. Rank(c)' >= Rank(c) /\ calls'[c] >= calls[c]
  BY <1>1, <1>2, <1>3 DEF Rank
<1>11. gone' \cap Present(files') = {}
  BY <1>1, <1>5, <1>6
<1>12. \A n \in Name : n.kind = "doc" => files'[n] # "part"
  BY <1>1, <1>4
<1>13. QED
  BY <1>2, <1>3, <1>4, <1>6, <1>7, <1>8, <1>9, <1>10, <1>11, <1>12, CallerStep

-----------------------------------------------------------------------------
(***************************************************************************)
(* Crashes.                                                                *)
(***************************************************************************)
LEMMA CrashInvariant ==
  ASSUME NEW c \in Caller, IInv, Crash(c) PROVE IInv'
<1>1. /\ TypeOK /\ At(c) /\ calls[c] \in Nat
      /\ \A n \in Name : n.kind = "doc" => files[n] # "part"
      /\ gone \cap Present(files) = {}
      /\ \A n \in Present(files) : n.caller = c => Explained(n)
  BY Own
<1>2. /\ pc[c] # "idle" /\ pc' = [pc EXCEPT ![c] = "idle"]
      /\ crashes < MaxCrashes /\ crashes' = crashes + 1
      /\ left' = left \cup Abandoned(c)
      /\ listing' = [listing EXCEPT ![c] = {}]
      /\ UNCHANGED <<calls, dir, files, stable, confirmed, gone>>
  BY DEF Crash, Goto
<1>3. calls[c] >= 1 /\ Tmp(c) \in Name /\ Doc(c) \in Name
  BY <1>1, <1>2, OwnNames DEF At
<1>4. Abandoned(c) \subseteq Name
  BY <1>3 DEF Abandoned
<1>5. TypeOK'
  <2>1. crashes' \in 0 .. MaxCrashes
    BY <1>1, <1>2, BoundAssumption DEF TypeOK
  <2>2. pc' \in [Caller -> {"idle", "create", "write", "rename", "chmod", "cleanup",
                            "readback", "unlink"}]
        /\ listing' \in [Caller -> SUBSET Name]
    BY <1>1, <1>2 DEF TypeOK
  <2>3. QED
    BY <1>1, <1>2, <1>4, <2>1, <2>2 DEF TypeOK
<1>6. pc'[c] = "idle" /\ \A d \in Caller : d # c => pc'[d] = pc[d]
  BY <1>1, <1>2 DEF TypeOK
<1>7. At(c)'
  BY <1>6 DEF At
<1>8. ASSUME NEW n \in Present(files'), n.caller = c PROVE Explained(n)'
  <2>1. Explained(n)
    BY <1>1, <1>2, <1>8
  <2>2. n \in confirmed' \cup left'
    BY <1>2, <1>8, <2>1 DEF Explained
  <2>3. QED
    BY <2>2 DEF Explained
<1>9. Rank(c)' >= Rank(c) /\ calls'[c] >= calls[c]
  BY <1>1, <1>2, <1>6 DEF Rank
<1>10. gone' \cap Present(files') = {}
  BY <1>1, <1>2
<1>11. QED
  BY <1>1, <1>2, <1>5, <1>6, <1>7, <1>8, <1>9, <1>10, CallerStep

\* What is written back is the directory, and the directory is sound.
LEMMA WriteBackInvariant == IInv /\ WriteBack => IInv'
<1> SUFFICES ASSUME IInv, WriteBack PROVE IInv'
  OBVIOUS
<1>1. /\ stable'.dir = dir /\ stable'.files = files
      /\ UNCHANGED <<pc, calls, listing, dir, files, confirmed, left, gone, crashes>>
  BY DEF WriteBack
<1>2. TypeOK'
  <2>1. stable' \in [dir : BOOLEAN, files : [Name -> {"absent", "part", "whole"}]]
    BY DEF WriteBack, IInv, TypeOK
  <2>2. QED
    BY <1>1, <2>1 DEF IInv, TypeOK
<1>3. Kept' /\ Fresh' /\ DocumentsAreWhole'
  BY <1>1 DEF IInv, TypeOK, Kept, Fresh, Begun, DocumentsAreWhole
<1>4. Placed' /\ LeftoversAreExplained' /\ DeleteLeavesNothing'
  BY <1>1 DEF IInv, Placed, At, Tmp, Doc, LeftoversAreExplained, Abandoned,
     DeleteLeavesNothing
<1>5. QED
  BY <1>2, <1>3, <1>4 DEF IInv

\* The directory is what was written back; every name there is confirmed or left,
\* and a deletion it undoes is not counted any more.
LEMMA PowerFailureInvariant == IInv /\ PowerFailure => IInv'
<1> SUFFICES ASSUME IInv, PowerFailure PROVE IInv'
  OBVIOUS
<1>1. /\ crashes < MaxCrashes /\ crashes' = crashes + 1
      /\ pc' = [c \in Caller |-> "idle"] /\ listing' = [c \in Caller |-> {}]
      /\ dir' = stable.dir /\ files' = stable.files
      /\ left' = left \cup (Present(stable.files) \ confirmed)
      /\ gone' = gone \ Present(stable.files)
      /\ UNCHANGED <<calls, stable, confirmed>>
  BY DEF PowerFailure
<1>2. TypeOK /\ Kept /\ Fresh /\ DocumentsAreWhole
  BY DEF IInv
<1>3. TypeOK'
  <2>1. crashes' \in 0 .. MaxCrashes
    BY <1>1, <1>2, BoundAssumption DEF TypeOK
  <2>2. /\ pc' \in [Caller -> {"idle", "create", "write", "rename", "chmod", "cleanup",
                               "readback", "unlink"}]
        /\ listing' \in [Caller -> SUBSET Name]
    BY <1>1
  <2>3. left' \subseteq Name /\ gone' \subseteq Name
    BY <1>1, <1>2 DEF TypeOK, Present
  <2>4. dir' \in BOOLEAN /\ files' \in [Name -> {"absent", "part", "whole"}]
        /\ (dir' \/ Present(files') = {})
    BY <1>1, <1>2 DEF TypeOK, Kept
  <2>5. QED
    BY <1>1, <1>2, <2>1, <2>2, <2>3, <2>4 DEF TypeOK
<1>4. Kept' /\ DocumentsAreWhole'
  BY <1>1, <1>2 DEF Kept, DocumentsAreWhole
<1>5. Fresh'
  <2>1. \A n \in Name : n.caller \in Caller /\ n.call \in Nat
    BY BoundAssumption DEF Name
  <2>2. \A n \in Name : n.call > calls'[n.caller] =>
          files'[n] = "absent" /\ stable'.files[n] = "absent"
    BY <1>1, <1>2 DEF Fresh
  <2>3. \A n \in Begun : n \in Begun'
    <3>1. \A d \in Caller : calls[d] \in Nat
      BY <1>2 DEF TypeOK
    <3>2. QED
      BY <1>1, <2>1, <3>1 DEF Begun
  <2>4. gone' \subseteq Begun'
    BY <1>1, <1>2, <2>3 DEF Fresh
  <2>5. QED
    BY <2>2, <2>4 DEF Fresh
<1>6. Placed'
  BY <1>1 DEF Placed, At
<1>7. LeftoversAreExplained'
  BY <1>1 DEF LeftoversAreExplained
<1>8. DeleteLeavesNothing'
  BY <1>1 DEF DeleteLeavesNothing
<1>9. QED
  BY <1>3, <1>4, <1>5, <1>6, <1>7, <1>8 DEF IInv

-----------------------------------------------------------------------------
(***************************************************************************)
(* The specification.                                                      *)
(***************************************************************************)
LEMMA NextInvariant == IInv /\ [Next]_vars => IInv'
<1> SUFFICES ASSUME IInv, [Next]_vars PROVE IInv'
  OBVIOUS
<1>1. ASSUME NEW c \in Caller, BeginStore(c) \/ BeginDelete(c) PROVE IInv'
  BY <1>1, BeginInvariant
<1>2. ASSUME NEW c \in Caller, Create(c) PROVE IInv'
  BY <1>2, CreateInvariant
<1>3. ASSUME NEW c \in Caller, Write(c) PROVE IInv'
  BY <1>3, WriteInvariant
<1>4. ASSUME NEW c \in Caller, Rename(c) PROVE IInv'
  BY <1>4, RenameInvariant
<1>5. ASSUME NEW c \in Caller,
             Chmod(c) \/ StoreFails(c) \/ CleanupFails(c) \/ ReadBack(c) \/ ReadBackFails(c)
      PROVE  IInv'
  BY <1>5, StandstillInvariant
<1>6. ASSUME NEW c \in Caller, Cleanup(c) PROVE IInv'
  BY <1>6, CleanupInvariant
<1>7. ASSUME NEW c \in Caller, Unlink(c) \/ RemoveDirectory(c) \/ DeleteFails(c) PROVE IInv'
  BY <1>7, DeleteInvariant
<1>8. ASSUME NEW c \in Caller, Crash(c) PROVE IInv'
  BY <1>8, CrashInvariant
<1>9. CASE WriteBack
  BY <1>9, WriteBackInvariant
<1>10. CASE PowerFailure
  BY <1>10, PowerFailureInvariant
<1>11. CASE Finished \/ UNCHANGED vars
  BY <1>11, StutterInvariant DEF Finished
<1>12. QED
  BY <1>1, <1>2, <1>3, <1>4, <1>5, <1>6, <1>7, <1>8, <1>9, <1>10, <1>11 DEF Next

\* The inductive invariant of the session directory.
THEOREM Invariance == Spec => []IInv
<1>1. QED
  BY InitInvariant, NextInvariant, PTL DEF Spec

\* Every variable keeps its type, and no entry is ever outside a directory.
THEOREM TypeCorrectness == Spec => []TypeOK
<1>1. IInv => TypeOK
  BY DEF IInv
<1>2. QED
  BY <1>1, Invariance, PTL

\* The write to a temporary file, the flush and the rename of storage.py keep every
\* document whole, in the directory and in what a power failure leaves of it,
\* whoever else stores, deletes or crashes meanwhile.
THEOREM DocumentsStayWhole == Spec => []DocumentsAreWhole
<1>1. IInv => DocumentsAreWhole
  BY DEF IInv
<1>2. QED
  BY <1>1, Invariance, PTL

\* No error of store() other than a crash, a failed unlink of the cleanup and a
\* failure after the rename leaves a file that nobody looks after.
THEOREM LeftoversExplained == Spec => []LeftoversAreExplained
<1>1. IInv => LeftoversAreExplained
  BY DEF IInv
<1>2. QED
  BY <1>1, Invariance, PTL

\* Once delete_session() has answered, nothing of a store that had reached its first
\* file comes back, unless a power failure undoes the deletion.
THEOREM DeletionsLeaveNothing == Spec => []DeleteLeavesNothing
<1>1. IInv => DeleteLeavesNothing
  BY DEF IInv
<1>2. QED
  BY <1>1, Invariance, PTL
=============================================================================
