------------------------------- MODULE JobLock -------------------------------
(***************************************************************************)
(* jobs/store.py's JobLock: a lock per process, a lock of the operating    *)
(* system on a guard file that is never removed, and a lock file that      *)
(* names its owner and outlives it.                                        *)
(*                                                                         *)
(* The lock file is its maker, whose identity it holds, and how much of    *)
(* the identity is written.  A thread makes one file at a time, so no two  *)
(* files that exist together hold equal bytes.                             *)
(***************************************************************************)
EXTENDS Naturals, FiniteSets

CONSTANTS
    Thread,     \* the threads that enter locked sections
    Process,    \* their processes
    ProcessOf,  \* the process of each thread
    None,       \* no thread, no file
    Faults,     \* the system calls that may fail for a reason of their own
    MaxDeaths   \* bound on the processes that die

ASSUME ProcessAssumption == ProcessOf \in [Thread -> Process]
ASSUME NoneAssumption ==
    None \notin Thread \cup [maker : Thread, text : {"partial", "full"}]
ASSUME FaultsAssumption ==
    Faults \subseteq {"create", "write", "read", "inspect", "unlink"}
ASSUME BoundAssumption == MaxDeaths \in Nat

VARIABLES
    alive,          \* the processes that run
    processGuard,   \* per process, the thread that has its threading.Lock
    osGuard,        \* the thread that has the lock on the guard file
    file,           \* the lock file, or None
    old,            \* the lock file is past LOCK_RECOVERY_GRACE_SECONDS
    pc,             \* the step each thread is about to take
    seen,           \* the bytes it read, or means to remove
    why,            \* why it removes them
    late,           \* its deadline has passed
    stuck           \* the maker of the file was refused its removal

vars == <<alive, processGuard, osGuard, file, old, pc, seen, why, late, stuck>>

LockFile == [maker : Thread, text : {"partial", "full"}]
Partial(t) == [maker |-> t, text |-> "partial"]
Full(t) == [maker |-> t, text |-> "full"]

Why == {"none", "stale", "malformed", "cleanup", "release"}

\* The steps of acquire and release that follow the operating system's lock.
InsidePcs == {"create", "read", "judge", "compare", "unlink", "write", "sync",
              "cleanup", "poll", "held", "free"}
GuardedPcs == InsidePcs \cup {"os_guard", "leave"}
WaitingPcs == {"process_guard", "os_guard", "create", "read", "judge", "compare", "unlink", "poll"}
Pcs == GuardedPcs \cup {"idle", "process_guard", "down"}

Init ==
    /\ alive = Process
    /\ processGuard = [p \in Process |-> None]
    /\ osGuard = None
    /\ file = None
    /\ old = FALSE
    /\ pc = [t \in Thread |-> "idle"]
    /\ seen = [t \in Thread |-> None]
    /\ why = [t \in Thread |-> "none"]
    /\ late = [t \in Thread |-> FALSE]
    /\ stuck = FALSE

Dead(f) == ProcessOf[f.maker] \notin alive

Goto(t, step) == pc' = [pc EXCEPT ![t] = step]
Guards == <<processGuard, osGuard>>
OnDisk == <<file, old>>
Local == <<seen, why, late>>

-----------------------------------------------------------------------------
(* acquire: the two guards                                                 *)

Begin(t) ==
    /\ pc[t] = "idle"
    /\ Goto(t, "process_guard")
    /\ UNCHANGED <<alive, Guards, OnDisk, Local, stuck>>

EnterProcess(t) ==
    /\ pc[t] = "process_guard"
    /\ processGuard[ProcessOf[t]] = None
    /\ processGuard' = [processGuard EXCEPT ![ProcessOf[t]] = t]
    /\ Goto(t, "os_guard")
    /\ UNCHANGED <<alive, osGuard, OnDisk, Local, stuck>>

ProcessBusy(t) ==
    /\ pc[t] = "process_guard"
    /\ late[t]
    /\ processGuard[ProcessOf[t]] # None
    /\ Goto(t, "idle")
    /\ late' = [late EXCEPT ![t] = FALSE]
    /\ UNCHANGED <<alive, Guards, OnDisk, seen, why, stuck>>

\* Mutant of EnterSystem: the guard file is opened and not locked.
EnterUnguarded(t) ==
    /\ pc[t] = "os_guard"
    /\ osGuard' = t
    /\ Goto(t, "create")
    /\ UNCHANGED <<alive, processGuard, OnDisk, Local, stuck>>

EnterSystem(t) ==
    /\ pc[t] = "os_guard"
    /\ osGuard = None
    /\ osGuard' = t
    /\ Goto(t, "create")
    /\ UNCHANGED <<alive, processGuard, OnDisk, Local, stuck>>

\* The guard is polled until the deadline.
SystemBusy(t) ==
    /\ pc[t] = "os_guard"
    /\ late[t]
    /\ osGuard # None
    /\ Goto(t, "leave")
    /\ UNCHANGED <<alive, Guards, OnDisk, Local, stuck>>

-----------------------------------------------------------------------------
(* acquire: the lock file                                                  *)

Create(t) ==
    /\ pc[t] = "create"
    /\ file = None
    /\ file' = Partial(t)
    /\ Goto(t, "write")
    /\ UNCHANGED <<alive, Guards, old, Local, stuck>>

\* FileExistsError leads to a look at the file, PermissionError to a poll: the
\* name of a removed file may stay taken until a scanner closes it.
CreateFails(t) ==
    /\ pc[t] = "create"
    /\ \/ file # None /\ Goto(t, "read")
       \/ file = None /\ "create" \in Faults /\ Goto(t, "poll")
    /\ UNCHANGED <<alive, Guards, OnDisk, Local, stuck>>

Read(t) ==
    /\ pc[t] = "read"
    /\ IF file = None
       THEN Goto(t, "poll") /\ UNCHANGED seen
       ELSE Goto(t, "judge") /\ seen' = [seen EXCEPT ![t] = file]
    /\ UNCHANGED <<alive, Guards, OnDisk, why, late, stuck>>

\* Mutant of Abandoned: an unparseable file is left to its creator for ever.
AbandonedWhole(t) == seen[t].text = "full" /\ Dead(seen[t])

\* A whole file is stale when its owner is provably gone, an unparseable one
\* when it is old: its creator crashed while writing.
Abandoned(t) ==
    \/ seen[t].text = "full" /\ Dead(seen[t])
    \/ seen[t].text = "partial" /\ old

\* The second read must return the same bytes.
Reclaim(t) ==
    /\ pc[t] = "judge"
    /\ Abandoned(t)
    /\ file = seen[t]
    /\ why' = [why EXCEPT ![t] = IF seen[t].text = "full" THEN "stale" ELSE "malformed"]
    /\ Goto(t, "compare")
    /\ UNCHANGED <<alive, Guards, OnDisk, seen, late, stuck>>

\* A live or uncertain owner is waited for, and so is a file that could not be
\* read, the first time or the second.
Wait(t) ==
    /\ pc[t] = "judge"
    /\ \/ ~Abandoned(t)
       \/ file # seen[t]
       \/ "inspect" \in Faults /\ seen[t].text = "full"
       \/ "read" \in Faults
    /\ Goto(t, "poll")
    /\ UNCHANGED <<alive, Guards, OnDisk, Local, stuck>>

\* Mutant of Poll: the deadline is not looked at.
PollForever(t) ==
    /\ pc[t] = "poll"
    /\ Goto(t, "create")
    /\ UNCHANGED <<alive, Guards, OnDisk, Local, stuck>>

Poll(t) ==
    /\ pc[t] = "poll"
    /\ Goto(t, IF late[t] THEN "free" ELSE "create")
    /\ UNCHANGED <<alive, Guards, OnDisk, Local, stuck>>

\* The creator's descriptor fills the file it made, if that still has a name.
Write(t) ==
    /\ pc[t] = "write"
    /\ file' = IF file = Partial(t) THEN Full(t) ELSE file
    /\ Goto(t, "sync")
    /\ UNCHANGED <<alive, Guards, old, Local, stuck>>

Sync(t) ==
    /\ pc[t] = "sync"
    /\ Goto(t, "held")
    /\ late' = [late EXCEPT ![t] = FALSE]
    /\ UNCHANGED <<alive, Guards, OnDisk, seen, why, stuck>>

WriteFails(t) ==
    /\ pc[t] \in {"write", "sync"}
    /\ "write" \in Faults
    /\ Goto(t, "cleanup")
    /\ UNCHANGED <<alive, Guards, OnDisk, Local, stuck>>

\* Mutant of Cleanup: a failed write leaves its file to its successors.
AbandonWrite(t) ==
    /\ pc[t] = "cleanup"
    /\ Goto(t, "free")
    /\ UNCHANGED <<alive, Guards, OnDisk, Local, stuck>>

\* A failed write takes away whatever it left.
Cleanup(t) ==
    /\ pc[t] = "cleanup"
    /\ \/ /\ file # None
          /\ seen' = [seen EXCEPT ![t] = file]
          /\ why' = [why EXCEPT ![t] = "cleanup"]
          /\ Goto(t, "compare")
          /\ UNCHANGED stuck
       \/ /\ file = None
          /\ Goto(t, "free")
          /\ UNCHANGED <<seen, why, stuck>>
       \/ /\ file # None /\ "read" \in Faults
          /\ Goto(t, "free")
          /\ stuck' = TRUE
          /\ UNCHANGED <<seen, why>>
    /\ UNCHANGED <<alive, Guards, OnDisk, late>>

-----------------------------------------------------------------------------
(* release, and the removal of a lock file                                 *)

Release(t) ==
    /\ pc[t] = "held"
    /\ seen' = [seen EXCEPT ![t] = Full(t)]
    /\ why' = [why EXCEPT ![t] = "release"]
    /\ Goto(t, "compare")
    /\ UNCHANGED <<alive, Guards, OnDisk, late, stuck>>

Reclaims(t) == why[t] \in {"stale", "malformed"}
AfterRemoval(t) == IF Reclaims(t) THEN "create" ELSE "free"

Compare(t) ==
    /\ pc[t] = "compare"
    /\ Goto(t, IF file = seen[t] THEN "unlink" ELSE AfterRemoval(t))
    /\ UNCHANGED <<alive, Guards, OnDisk, Local, stuck>>

\* It removes what the name stands for by now.
Unlink(t) ==
    /\ pc[t] = "unlink"
    /\ file' = None
    /\ old' = FALSE
    /\ stuck' = FALSE
    /\ Goto(t, AfterRemoval(t))
    /\ UNCHANGED <<alive, Guards, Local>>

\* PermissionError for two seconds.  The handler around the stale branch takes
\* it for an unreadable lock and tries once more if the file is old.
UnlinkRefused(t) ==
    /\ pc[t] = "unlink"
    /\ "unlink" \in Faults
    /\ IF why[t] = "stale"
       THEN /\ Goto(t, IF old /\ file = seen[t] THEN "compare" ELSE "poll")
            /\ why' = [why EXCEPT ![t] = "malformed"]
       ELSE Goto(t, "free") /\ UNCHANGED why
    /\ stuck' = (stuck \/ ~Reclaims(t))
    /\ UNCHANGED <<alive, Guards, OnDisk, seen, late>>

Free(t) ==
    /\ pc[t] = "free"
    /\ osGuard' = None
    /\ Goto(t, "leave")
    /\ UNCHANGED <<alive, processGuard, OnDisk, Local, stuck>>

Leave(t) ==
    /\ pc[t] = "leave"
    /\ processGuard' = [processGuard EXCEPT ![ProcessOf[t]] = None]
    /\ seen' = [seen EXCEPT ![t] = None]
    /\ why' = [why EXCEPT ![t] = "none"]
    /\ late' = [late EXCEPT ![t] = FALSE]
    /\ Goto(t, "idle")
    /\ UNCHANGED <<alive, osGuard, OnDisk, stuck>>

-----------------------------------------------------------------------------
(* Time and death                                                          *)

Expire(t) ==
    /\ pc[t] \in WaitingPcs
    /\ ~late[t]
    /\ late' = [late EXCEPT ![t] = TRUE]
    /\ UNCHANGED <<alive, Guards, OnDisk, pc, seen, why, stuck>>

Age ==
    /\ file # None
    /\ ~old
    /\ old' = TRUE
    /\ UNCHANGED <<alive, Guards, file, pc, Local, stuck>>

Forget(p) ==
    /\ seen' = [t \in Thread |-> IF ProcessOf[t] = p THEN None ELSE seen[t]]
    /\ why' = [t \in Thread |-> IF ProcessOf[t] = p THEN "none" ELSE why[t]]
    /\ late' = [t \in Thread |-> late[t] /\ ProcessOf[t] # p]

\* The operating system drops the locks of a dead process.
Die(p) ==
    /\ p \in alive
    /\ Cardinality(Process \ alive) < MaxDeaths
    /\ alive' = alive \ {p}
    /\ osGuard' = IF osGuard # None /\ ProcessOf[osGuard] = p THEN None ELSE osGuard
    /\ pc' = [t \in Thread |-> IF ProcessOf[t] = p THEN "down" ELSE pc[t]]
    /\ Forget(p)
    /\ UNCHANGED <<processGuard, OnDisk, stuck>>

Step(t) ==
    \/ Begin(t) \/ EnterProcess(t) \/ ProcessBusy(t) \/ EnterSystem(t) \/ SystemBusy(t)
    \/ Create(t) \/ CreateFails(t) \/ Read(t) \/ Reclaim(t) \/ Wait(t) \/ Poll(t)
    \/ Write(t) \/ Sync(t) \/ WriteFails(t) \/ Cleanup(t)
    \/ Compare(t) \/ Unlink(t) \/ UnlinkRefused(t) \/ Free(t) \/ Leave(t) \/ Release(t)

Next ==
    \/ \E t \in Thread : Step(t) \/ Expire(t)
    \/ Age
    \/ \E p \in Process : Die(p)

Spec == Init /\ [][Next]_vars

\* A thread goes on until its process dies, its deadline arrives and a file gets
\* old.  Sections end and are entered again, and an inspection or a removal that
\* is tried again and again succeeds at last.
FairSpec ==
    /\ Spec
    /\ WF_vars(Age)
    /\ \A t \in Thread : WF_vars(Step(t)) /\ WF_vars(Expire(t))
    /\ SF_vars(\E t \in Thread : Reclaim(t))
    /\ SF_vars(\E t \in Thread : Unlink(t))

=============================================================================
