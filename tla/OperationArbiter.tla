-------------------------- MODULE OperationArbiter --------------------------
(***************************************************************************)
(* The mutex of COMSOL-bound tool calls (operation_arbiter.py).  Threads   *)
(* of several servers create operation.lock exclusively, write and verify  *)
(* it, run their tool, and remove it by content.  A caller that meets an   *)
(* existing file removes it when it is malformed or its owner is gone, and *)
(* is refused otherwise.                                                   *)
(***************************************************************************)
EXTENDS ClaimFile

CONSTANTS
    MaxKills,   \* bound on the processes that are killed
    Attempts    \* the attempts of one try_acquire: 2 in the code

ASSUME BoundAssumption == MaxKills \in Nat /\ Attempts \in Nat \ {0}

VARIABLES
    try,        \* which attempt of try_acquire a caller makes
    guard,      \* per process, the caller inside _thread_lock, or None
    dead        \* the processes that were killed

vars == <<fileVars, pc, file, fd, why, kept, poll, try, guard, dead>>

Alive(c) == ProcessOf[c] \notin dead

Init ==
    /\ path = None /\ doomed = {} /\ retained = {}
    /\ text = [f \in File |-> "empty"]
    /\ maker = [f \in File |-> None]
    /\ pc = [c \in Caller |-> "idle"]
    /\ file = [c \in Caller |-> None]
    /\ fd = [c \in Caller |-> None]
    /\ why = [c \in Caller |-> "none"]
    /\ kept = [c \in Caller |-> None]
    /\ try = [c \in Caller |-> 1]
    /\ poll = [q \in Poller |-> None]
    /\ guard = [p \in Process |-> None]
    /\ dead = {}

-----------------------------------------------------------------------------
Goto(c, next) == pc' = [pc EXCEPT ![c] = next]

\* What a call remembers is dropped and the call stands at next.
Restart(c, next, attempt) ==
    /\ Goto(c, next)
    /\ file' = [file EXCEPT ![c] = None]
    /\ fd' = [fd EXCEPT ![c] = None]
    /\ why' = [why EXCEPT ![c] = "none"]
    /\ kept' = [kept EXCEPT ![c] = None]
    /\ try' = [try EXCEPT ![c] = attempt]

Enter(c) == guard' = [guard EXCEPT ![ProcessOf[c]] = c]
Exit(c) == guard' = [guard EXCEPT ![ProcessOf[c]] = None]

\* try_acquire returns no claim, or release returns; the with statement frees
\* the thread lock.
Leave(c) == Restart(c, "idle", 1) /\ Exit(c)

\* try_acquire enters the thread lock.
Ask(c) ==
    /\ pc[c] = "idle" /\ Alive(c) /\ guard[ProcessOf[c]] = None
    /\ Enter(c) /\ Goto(c, "create")
    /\ UNCHANGED <<fileVars, file, fd, why, kept, poll, try, dead>>

Create(c) ==
    /\ pc[c] = "create"
    /\ \E f \in File :
          /\ CreateExclusive(c, f)
          /\ file' = [file EXCEPT ![c] = f]
    /\ Goto(c, "write")
    /\ UNCHANGED <<fd, why, kept, poll, try, guard, dead>>

\* FileExistsError: read the lock that is there.
CreateExists(c) ==
    /\ pc[c] = "create" /\ path # None /\ path \notin doomed
    /\ Goto(c, "open_lock")
    /\ UNCHANGED <<fileVars, file, fd, why, kept, poll, try, guard, dead>>

\* Any other OSError, which on nt a file pending deletion is.
CreateFails(c) ==
    /\ pc[c] = "create"
    /\ path \in doomed \/ "create" \in Faults
    /\ Leave(c)
    /\ UNCHANGED <<fileVars, poll, dead>>

\* The three places that read the lock: _read_lock, the verification of the
\* publication, and release.  A missing or unreadable file ends the call.
OpenToRead(c, at, reading) ==
    /\ pc[c] = at
    /\ \/ /\ path # None /\ CanRead(path)
          /\ Goto(c, reading)
          /\ fd' = [fd EXCEPT ![c] = path]
          /\ UNCHANGED <<file, why, kept, try, guard>>
       \/ /\ path = None \/ ~CanRead(path) \/ "read" \in Faults
          /\ Leave(c)
    /\ UNCHANGED <<fileVars, poll, dead>>

OpenLock(c) == OpenToRead(c, "open_lock", "read_lock")
OpenPublished(c) == OpenToRead(c, "verify", "verify_read")
OpenClaim(c) == OpenToRead(c, "release", "release_read")

\* The file is read and closed; its bytes are to be removed for this reason.
RemoveFor(c, f, reason) ==
    /\ Goto(c, "remove")
    /\ file' = [file EXCEPT ![c] = f]
    /\ fd' = [fd EXCEPT ![c] = None]
    /\ why' = [why EXCEPT ![c] = reason]
    /\ UNCHANGED <<kept, try, guard>>

\* Mutant of ReadLock: a malformed lock refuses the call.
ReadLockKeepsMalformed(c) ==
    /\ pc[c] = "read_lock"
    /\ \/ /\ text[fd[c]] = "full" /\ ProcessOf[maker[fd[c]]] \in dead
          /\ RemoveFor(c, fd[c], "stale")
       \/ /\ text[fd[c]] # "full" \/ ProcessOf[maker[fd[c]]] \notin dead
          /\ Leave(c)
    /\ UNCHANGED <<fileVars, poll, dead>>

\* A malformed lock, or one of an owner that is gone, is removed by its exact
\* bytes.  An active owner, or one that cannot be probed, refuses the call.
ReadLock(c) ==
    LET f == fd[c]
        whole == text[f] = "full"
        stale == ProcessOf[maker[f]] \in dead
    IN  /\ pc[c] = "read_lock"
        /\ \/ ~whole /\ RemoveFor(c, f, text[f])
           \/ whole /\ stale /\ RemoveFor(c, f, "stale")
           \/ whole /\ (~stale \/ "probe" \in Faults) /\ Leave(c)
        /\ UNCHANGED <<fileVars, poll, dead>>

-----------------------------------------------------------------------------
\* os.write may write less than it is given; _write_all goes on.
ShortWrite(c) ==
    /\ pc[c] = "write" /\ text[file[c]] = "empty"
    /\ text' = [text EXCEPT ![file[c]] = "partial"]
    /\ UNCHANGED <<path, maker, doomed, retained, pc, file, fd, why, kept, poll, try, guard, dead>>

Write(c) ==
    /\ pc[c] = "write"
    /\ text' = [text EXCEPT ![file[c]] = "full"]
    /\ Goto(c, "close")
    /\ UNCHANGED <<path, maker, doomed, retained, file, fd, why, kept, poll, try, guard, dead>>

\* Written, flushed and closed.
Close(c) ==
    /\ pc[c] = "close"
    /\ Goto(c, "verify")
    /\ UNCHANGED <<fileVars, file, fd, why, kept, poll, try, guard, dead>>

\* fstat, write, fsync or close failed: remove the file up to a prefix.
WriteFails(c) ==
    /\ pc[c] \in WritePcs /\ "write" \in Faults
    /\ RemoveFor(c, file[c], "cleanup")
    /\ UNCHANGED <<fileVars, poll, dead>>

\* The bytes that were read are the ones this call wrote.
IsOwn(c) == fd[c] = file[c] /\ text[file[c]] = "full"

\* The published bytes are compared: the claim is this caller's and the thread
\* lock is free again, or the publication is withdrawn.
Verify(c) ==
    /\ pc[c] = "verify_read"
    /\ \/ /\ IsOwn(c) /\ Goto(c, "hold") /\ Exit(c)
          /\ fd' = [fd EXCEPT ![c] = None]
          /\ try' = [try EXCEPT ![c] = 1]
          /\ UNCHANGED <<file, why, kept>>
       \/ ~IsOwn(c) /\ RemoveFor(c, file[c], "cleanup")
    /\ UNCHANGED <<fileVars, poll, dead>>

\* The tool returned or raised: the finally clause of guard_tool_call.
Finish(c) ==
    /\ pc[c] = "hold" /\ guard[ProcessOf[c]] = None
    /\ Enter(c) /\ Goto(c, "release")
    /\ UNCHANGED <<fileVars, file, fd, why, kept, poll, try, dead>>

\* release compares the bytes before it removes them.
ReadClaim(c) ==
    /\ pc[c] = "release_read"
    /\ \/ IsOwn(c) /\ RemoveFor(c, file[c], "release")
       \/ ~IsOwn(c) /\ Leave(c)
    /\ UNCHANGED <<fileVars, poll, dead>>

-----------------------------------------------------------------------------
\* unlink_if_content returned.  Only the removal of a lock that was met has a
\* next attempt; every other one ends try_acquire or release.
MetLock(c) == why[c] \in {"empty", "partial", "stale"}

Removed(c) ==
    \/ MetLock(c) /\ try[c] < Attempts /\ Restart(c, "create", try[c] + 1) /\ UNCHANGED guard
    \/ ~(MetLock(c) /\ try[c] < Attempts) /\ Leave(c)

NotRemoved(c) == Leave(c)

\* The file is opened and its content compared; nt keeps the handle and
\* compares next, posix goes on by name.
OpenToRemove(c) ==
    /\ pc[c] = "remove"
    /\ \/ /\ path # None /\ CanDelete(path)
          /\ \/ Platform = "nt" /\ Goto(c, "mark")
             \/ Platform = "posix" /\ TRUE \in Matches(c, path) /\ Goto(c, "move")
          /\ fd' = [fd EXCEPT ![c] = path]
          /\ UNCHANGED <<file, why, kept, try, guard>>
       \/ /\ \/ path = None \/ ~CanDelete(path) \/ "unlink" \in Faults
             \/ path # None /\ Platform = "posix" /\ FALSE \in Matches(c, path)
          /\ NotRemoved(c)
    /\ UNCHANGED <<fileVars, poll, dead>>

\* Mutant of Mark: the opened file is deleted whatever it holds.
MarkUnread(c) ==
    /\ pc[c] = "mark"
    /\ doomed' = doomed \cup {fd[c]}
    /\ Goto(c, "close_delete")
    /\ UNCHANGED <<path, file, fd, why, kept, try, guard, text, maker, retained, poll, dead>>

\* nt: the deletion is attached to the opened file, not to its name.
Mark(c) ==
    /\ pc[c] = "mark"
    /\ \/ /\ TRUE \in Matches(c, fd[c])
          /\ doomed' = doomed \cup {fd[c]}
          /\ Goto(c, "close_delete")
          /\ UNCHANGED <<path, file, fd, why, kept, try, guard>>
       \/ /\ FALSE \in Matches(c, fd[c]) \/ "unlink" \in Faults
          /\ CloseHandle(fd[c], Deleters(fd[c]) \ {c})
          /\ NotRemoved(c)
    /\ UNCHANGED <<text, maker, retained, poll, dead>>

CloseDelete(c) ==
    /\ pc[c] = "close_delete"
    /\ CloseHandle(fd[c], Deleters(fd[c]) \ {c})
    /\ Removed(c)
    /\ UNCHANGED <<text, maker, retained, poll, dead>>

\* posix: whatever the name is bound to now moves to the quarantine.
Move(c) ==
    /\ pc[c] = "move"
    /\ \/ /\ path # None /\ path' = None
          /\ kept' = [kept EXCEPT ![c] = path]
          /\ Goto(c, "check")
          /\ UNCHANGED <<file, fd, why, try, guard>>
       \/ /\ path = None \/ "unlink" \in Faults
          /\ NotRemoved(c)
          /\ UNCHANGED path
    /\ UNCHANGED <<text, maker, doomed, retained, poll, dead>>

\* Mutant of Check: the moved inode is deleted whichever it is.
CheckUnread(c) ==
    /\ pc[c] = "check" /\ Removed(c)
    /\ UNCHANGED <<fileVars, poll, dead>>

\* The moved inode is deleted when it is the opened one and still matches; an
\* error of the directory's fsync is raised after the deletion.
Check(c) ==
    /\ pc[c] = "check"
    /\ \/ /\ kept[c] = fd[c] /\ TRUE \in Matches(c, fd[c])
          /\ Removed(c) \/ ("unlink" \in Faults /\ NotRemoved(c))
       \/ /\ kept[c] # fd[c] \/ FALSE \in Matches(c, fd[c]) \/ "unlink" \in Faults
          /\ Goto(c, "restore")
          /\ UNCHANGED <<file, fd, why, kept, try, guard>>
    /\ UNCHANGED <<fileVars, poll, dead>>

\* Otherwise it is linked back.  When the name was taken meanwhile, or the link
\* fails, it stays in the quarantine and RuntimeError ends the call.
Restore(c) ==
    /\ pc[c] = "restore"
    /\ \/ path = None /\ path' = kept[c] /\ UNCHANGED retained
       \/ /\ path # None \/ "unlink" \in Faults
          /\ retained' = retained \cup {kept[c]}
          /\ UNCHANGED path
    /\ NotRemoved(c)
    /\ UNCHANGED <<text, maker, doomed, poll, dead>>

-----------------------------------------------------------------------------
\* get_operation_status opens and closes the file without the thread lock.
PollOpen(q) ==
    /\ poll[q] = None /\ path # None /\ CanRead(path)
    /\ poll' = [poll EXCEPT ![q] = path]
    /\ UNCHANGED <<fileVars, pc, file, fd, why, kept, try, guard, dead>>

PollClose(q) ==
    /\ poll[q] # None
    /\ poll' = [poll EXCEPT ![q] = None]
    /\ UNCHANGED <<fileVars, pc, file, fd, why, kept, try, guard, dead>>

\* A killed process loses its handles and its locks; what it had moved stays
\* in the quarantine, what it had doomed goes with the last handle.
Kill(p) ==
    LET mine == {c \in Caller : ProcessOf[c] = p}
        handles == {f \in File : Deleters(f) \ mine # {}}
    IN  /\ p \notin dead /\ Cardinality(dead) < MaxKills
        /\ dead' = dead \cup {p}
        /\ guard' = [guard EXCEPT ![p] = None]
        /\ pc' = [c \in Caller |-> IF c \in mine THEN "idle" ELSE pc[c]]
        /\ file' = [c \in Caller |-> IF c \in mine THEN None ELSE file[c]]
        /\ fd' = [c \in Caller |-> IF c \in mine THEN None ELSE fd[c]]
        /\ why' = [c \in Caller |-> IF c \in mine THEN "none" ELSE why[c]]
        /\ kept' = [c \in Caller |-> IF c \in mine THEN None ELSE kept[c]]
        /\ try' = [c \in Caller |-> IF c \in mine THEN 1 ELSE try[c]]
        /\ retained' = retained \cup {kept[c] : c \in {d \in mine : pc[d] \in MovedPcs}}
        /\ path' = IF path \in doomed \ handles THEN None ELSE path
        /\ doomed' = doomed \cap handles
        /\ UNCHANGED <<text, maker, poll>>

TryAcquire(c) ==
    \/ Create(c) \/ CreateExists(c) \/ CreateFails(c)
    \/ OpenLock(c) \/ ReadLock(c)
    \/ ShortWrite(c) \/ Write(c) \/ Close(c) \/ WriteFails(c)
    \/ OpenPublished(c) \/ Verify(c)

Release(c) == OpenClaim(c) \/ ReadClaim(c)

UnlinkIfContent(c) ==
    \/ OpenToRemove(c) \/ Mark(c) \/ CloseDelete(c)
    \/ Move(c) \/ Check(c) \/ Restore(c)

Inside(c) == TryAcquire(c) \/ Release(c) \/ UnlinkIfContent(c)

Next ==
    \/ \E c \in Caller : Ask(c) \/ Inside(c) \/ Finish(c)
    \/ \E q \in Poller : PollOpen(q) \/ PollClose(q)
    \/ \E p \in Process : Kill(p)

Spec == Init /\ [][Next]_vars

\* A call that is under way goes on unless its process dies, and a client that
\* was refused asks again, as the retry_after_ms of the reply tells it to.
FairSpec == Spec /\ \A c \in Caller : WF_vars(Inside(c)) /\ WF_vars(Finish(c)) /\ WF_vars(Ask(c))
=============================================================================
