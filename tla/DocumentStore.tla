------------------------------ MODULE DocumentStore ------------------------------
(***************************************************************************)
(* LocalDocumentStore: the directory of one review session, the callers    *)
(* that store documents in it and read them back, and those that delete    *)
(* the session (financial_reviewer/local/storage.py; the read-back is the  *)
(* workflow's, workflow.py).                                               *)
(*                                                                         *)
(* A caller is a thread or a process; there is no lock.  A file system     *)
(* call is atomic.  What it did is in memory until the file system writes  *)
(* the directory back, or, for the bytes of one file, until fsync.         *)
(***************************************************************************)
EXTENDS Naturals, FiniteSets

CONSTANTS
  Caller,
  MaxCalls,    \* bound of the model: calls of one caller
  MaxCrashes   \* bound of the model: crashes and power failures together

ASSUME BoundAssumption == MaxCalls \in Nat /\ MaxCrashes \in Nat

\* A call of store() has a name of its own for the temporary file and for the
\* document: both are random identifiers.
Name == [kind : {"tmp", "doc"}, caller : Caller, call : 1 .. MaxCalls]

VARIABLES
  pc,         \* where each caller is
  calls,      \* the calls each caller has begun
  listing,    \* the entries a deletion has still to remove
  dir,        \* the session directory exists
  files,      \* its entries: "part" until the bytes are flushed, then "whole"
  stable,     \* the directory as a power failure leaves it
  confirmed,  \* the documents the workflow was told of and read back
  left,       \* entries nobody looks after any more
  gone,       \* the names in use before a deletion answered
  crashes     \* counts the crashes, for the bound only

vars == <<pc, calls, listing, dir, files, stable, confirmed, left, gone, crashes>>

-----------------------------------------------------------------------------
Present(f) == {n \in Name : f[n] # "absent"}
Tmp(c) == [kind |-> "tmp", caller |-> c, call |-> calls[c]]
Doc(c) == [kind |-> "doc", caller |-> c, call |-> calls[c]]

\* The names of the stores that have reached their first file: what a deletion
\* must leave nothing of.
Begun == {n \in Name :
            n.call < calls[n.caller] + (IF pc[n.caller] = "create" THEN 0 ELSE 1)}

Empty == [n \in Name |-> "absent"]

Init ==
  /\ pc = [c \in Caller |-> "idle"]
  /\ calls = [c \in Caller |-> 0]
  /\ listing = [c \in Caller |-> {}]
  /\ dir = FALSE /\ files = Empty
  /\ stable = [dir |-> FALSE, files |-> Empty]
  /\ confirmed = {} /\ left = {} /\ gone = {}
  /\ crashes = 0

Goto(c, step) == pc' = [pc EXCEPT ![c] = step]

Call(c) ==
  /\ pc[c] = "idle" /\ calls[c] < MaxCalls
  /\ calls' = [calls EXCEPT ![c] = @ + 1]

-----------------------------------------------------------------------------
(***************************************************************************)
(* store(), and the workflow's read-back.                                  *)
(***************************************************************************)
\* The directory is made unless it exists.  A document that fails its checks, or
\* a directory that cannot be made, changes nothing.
BeginStore(c) ==
  /\ Call(c)
  /\ dir' = TRUE
  /\ Goto(c, "create")
  /\ UNCHANGED <<listing, files, stable, confirmed, left, gone, crashes>>

Create(c) ==
  /\ pc[c] = "create" /\ dir
  /\ files' = [files EXCEPT ![Tmp(c)] = "part"]
  /\ Goto(c, "write")
  /\ UNCHANGED <<calls, listing, dir, stable, confirmed, left, gone, crashes>>

\* Mutant: the bytes are written but not flushed.
WriteUnflushed(c) ==
  /\ pc[c] = "write"
  /\ Goto(c, "rename")
  /\ UNCHANGED <<calls, listing, dir, files, stable, confirmed, left, gone, crashes>>

\* The bytes reach the file also when its entry was removed meanwhile.
Write(c) ==
  /\ pc[c] = "write"
  /\ files' = [files EXCEPT ![Tmp(c)] = IF @ = "part" THEN "whole" ELSE @]
  /\ Goto(c, "rename")
  /\ UNCHANGED <<calls, listing, dir, stable, confirmed, left, gone, crashes>>

Rename(c) ==
  /\ pc[c] = "rename" /\ files[Tmp(c)] # "absent"
  /\ files' = [files EXCEPT ![Doc(c)] = files[Tmp(c)], ![Tmp(c)] = "absent"]
  /\ Goto(c, "chmod")
  /\ UNCHANGED <<calls, listing, dir, stable, confirmed, left, gone, crashes>>

Chmod(c) ==
  /\ pc[c] = "chmod" /\ files[Doc(c)] # "absent"
  /\ Goto(c, "readback")
  /\ UNCHANGED <<calls, listing, dir, files, stable, confirmed, left, gone, crashes>>

\* Any system call may fail, and those whose entry is gone do.  After the rename
\* the document stays where it is although the caller is told that it is not
\* stored.
StoreFails(c) ==
  /\ pc[c] \in {"create", "write", "rename", "chmod"}
  /\ Goto(c, "cleanup")
  /\ left' = IF pc[c] = "chmod" THEN left \cup {Doc(c)} ELSE left
  /\ UNCHANGED <<calls, listing, dir, files, stable, confirmed, gone, crashes>>

\* Mutant: the temporary file is left to the caller.
CleanupForgotten(c) ==
  /\ pc[c] = "cleanup"
  /\ Goto(c, "idle")
  /\ UNCHANGED <<calls, listing, dir, files, stable, confirmed, left, gone, crashes>>

Cleanup(c) ==
  /\ pc[c] = "cleanup"
  /\ files' = [files EXCEPT ![Tmp(c)] = "absent"]
  /\ Goto(c, "idle")
  /\ UNCHANGED <<calls, listing, dir, stable, confirmed, left, gone, crashes>>

\* The failure of the unlink is swallowed.
CleanupFails(c) ==
  /\ pc[c] = "cleanup" /\ files[Tmp(c)] # "absent"
  /\ left' = left \cup {Tmp(c)}
  /\ Goto(c, "idle")
  /\ UNCHANGED <<calls, listing, dir, files, stable, confirmed, gone, crashes>>

\* read_text and _verify_stored_document: length and digest must agree.
ReadBack(c) ==
  /\ pc[c] = "readback" /\ files[Doc(c)] # "absent"
  /\ confirmed' = confirmed \cup {Doc(c)}
  /\ Goto(c, "idle")
  /\ UNCHANGED <<calls, listing, dir, files, stable, left, gone, crashes>>

ReadBackFails(c) ==
  /\ pc[c] = "readback"
  /\ left' = left \cup {Doc(c)}
  /\ Goto(c, "idle")
  /\ UNCHANGED <<calls, listing, dir, files, stable, confirmed, gone, crashes>>

-----------------------------------------------------------------------------
(***************************************************************************)
(* delete_session()                                                        *)
(***************************************************************************)
\* The entries are listed once.
BeginDelete(c) ==
  /\ Call(c)
  /\ dir
  /\ listing' = [listing EXCEPT ![c] = Present(files)]
  /\ Goto(c, "unlink")
  /\ UNCHANGED <<dir, files, stable, confirmed, left, gone, crashes>>

Unlink(c) ==
  /\ pc[c] = "unlink"
  /\ \E n \in listing[c] :
       /\ files[n] # "absent"
       /\ files' = [files EXCEPT ![n] = "absent"]
       /\ listing' = [listing EXCEPT ![c] = @ \ {n}]
  /\ UNCHANGED <<pc, calls, dir, stable, confirmed, left, gone, crashes>>

\* Mutant: that the directory cannot be removed is no error.
AnswerAnyway(c) ==
  /\ pc[c] = "unlink" /\ listing[c] = {}
  /\ dir' = (Present(files) # {})
  /\ gone' = gone \cup Begun
  /\ Goto(c, "idle")
  /\ UNCHANGED <<calls, listing, files, stable, confirmed, left, crashes>>

\* rmdir succeeds on an empty directory only, and the count is answered.
RemoveDirectory(c) ==
  /\ pc[c] = "unlink" /\ listing[c] = {}
  /\ dir /\ Present(files) = {}
  /\ dir' = FALSE
  /\ gone' = gone \cup Begun
  /\ Goto(c, "idle")
  /\ UNCHANGED <<calls, listing, files, stable, confirmed, left, crashes>>

\* A listed entry has vanished, a new one keeps the directory, or a call fails.
DeleteFails(c) ==
  /\ pc[c] = "unlink"
  /\ listing' = [listing EXCEPT ![c] = {}]
  /\ Goto(c, "idle")
  /\ UNCHANGED <<calls, dir, files, stable, confirmed, left, gone, crashes>>

-----------------------------------------------------------------------------
(***************************************************************************)
(* Crashes.                                                                *)
(***************************************************************************)
\* A deletion that was never answered leaves nothing behind but what it did.
Abandoned(c) ==
  IF pc[c] \in {"create", "write", "rename", "chmod", "cleanup", "readback"}
  THEN {Tmp(c), Doc(c)} ELSE {}

Crash(c) ==
  /\ pc[c] # "idle"
  /\ crashes < MaxCrashes /\ crashes' = crashes + 1
  /\ left' = left \cup Abandoned(c)
  /\ listing' = [listing EXCEPT ![c] = {}]
  /\ Goto(c, "idle")
  /\ UNCHANGED <<calls, dir, files, stable, confirmed, gone>>

\* The file system writes the directory back whenever it likes; nothing in
\* store() or delete_session() asks for it.
WriteBack ==
  /\ stable' = [dir |-> dir, files |-> files]
  /\ UNCHANGED <<pc, calls, listing, dir, files, confirmed, left, gone, crashes>>

\* The directory is what was written back last: a document the workflow was told
\* of may be missing, and one that was deleted may be there again.
PowerFailure ==
  /\ crashes < MaxCrashes /\ crashes' = crashes + 1
  /\ pc' = [c \in Caller |-> "idle"]
  /\ listing' = [c \in Caller |-> {}]
  /\ dir' = stable.dir /\ files' = stable.files
  /\ left' = left \cup (Present(stable.files) \ confirmed)
  /\ gone' = gone \ Present(stable.files)
  /\ UNCHANGED <<calls, stable, confirmed>>

Finished ==
  /\ \A c \in Caller : pc[c] = "idle" /\ calls[c] = MaxCalls
  /\ UNCHANGED vars

Next ==
  \/ \E c \in Caller :
       \/ BeginStore(c) \/ Create(c) \/ Write(c) \/ Rename(c) \/ Chmod(c) \/ StoreFails(c)
       \/ Cleanup(c) \/ CleanupFails(c) \/ ReadBack(c) \/ ReadBackFails(c)
       \/ BeginDelete(c) \/ Unlink(c) \/ RemoveDirectory(c) \/ DeleteFails(c)
       \/ Crash(c)
  \/ WriteBack \/ PowerFailure \/ Finished
Spec == Init /\ [][Next]_vars

-----------------------------------------------------------------------------
\* Types of the state; no entry is outside a directory.
TypeOK ==
  /\ pc \in [Caller -> {"idle", "create", "write", "rename", "chmod", "cleanup",
                        "readback", "unlink"}]
  /\ calls \in [Caller -> 0 .. MaxCalls]
  /\ listing \in [Caller -> SUBSET Name]
  /\ dir \in BOOLEAN
  /\ files \in [Name -> {"absent", "part", "whole"}]
  /\ stable \in [dir : BOOLEAN, files : [Name -> {"absent", "part", "whole"}]]
  /\ confirmed \subseteq Name /\ left \subseteq Name /\ gone \subseteq Name
  /\ crashes \in 0 .. MaxCrashes
  /\ dir \/ Present(files) = {}

\* Whoever looks, at whatever moment and after whatever crash, finds a document
\* whole or not at all; only temporary files can be cut short.
DocumentsAreWhole ==
  \A n \in Name : n.kind = "doc" => files[n] # "part" /\ stable.files[n] # "part"

\* An entry is a document the workflow was told of, or belongs to a call that is
\* still running, or was left behind by a crash, by a cleanup that failed, or by
\* an error after the rename: no other error of store() leaves a file behind.
LeftoversAreExplained ==
  \A n \in Present(files) :
    \/ n \in confirmed \cup left
    \/ n.call = calls[n.caller] /\ n \in Abandoned(n.caller)

\* When a deletion answers, nothing of any store that had created its file is
\* there, its temporary file and what crashes left included; a store cut off in
\* the middle brings none of it back, even when another caller makes the directory
\* again, until a power failure undoes the deletion.
DeleteLeavesNothing == gone \cap Present(files) = {}
=============================================================================
