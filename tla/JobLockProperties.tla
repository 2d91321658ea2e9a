-------------------------- MODULE JobLockProperties --------------------------
(***************************************************************************)
(* What JobLock promises: it implements AtomicLock, its file tells the     *)
(* truth, and neither a crash nor a deadline blocks it for ever.           *)
(***************************************************************************)
EXTENDS JobLock

TypeOK ==
    /\ alive \subseteq Process
    /\ processGuard \in [Process -> Thread \cup {None}]
    /\ osGuard \in Thread \cup {None}
    /\ file \in LockFile \cup {None}
    /\ old \in BOOLEAN
    /\ pc \in [Thread -> Pcs]
    /\ seen \in [Thread -> LockFile \cup {None}]
    /\ why \in [Thread -> Why]
    /\ late \in [Thread -> BOOLEAN]
    /\ stuck \in BOOLEAN

\* A thread past a guard has it, and only a thread of a dead process is down.
GuardsHeld ==
    \A t \in Thread :
        /\ pc[t] = "down" <=> ProcessOf[t] \notin alive
        /\ pc[t] \in InsidePcs <=> osGuard = t
        /\ pc[t] \in GuardedPcs => processGuard[ProcessOf[t]] = t

\* What a thread inside knows of the file is what the file is: the guard keeps
\* everybody else from it.
FileKnown ==
    \A t \in Thread :
        /\ pc[t] = "write" => file = Partial(t)
        /\ pc[t] \in {"sync", "held"} => file = Full(t)
        /\ pc[t] = "cleanup" => file \in {Partial(t), Full(t)}
        /\ pc[t] \in {"judge", "compare", "unlink"} => seen[t] = file /\ file # None
        /\ pc[t] \in {"compare", "unlink"} =>
            /\ why[t] # "none"
            /\ why[t] = "release" => file = Full(t)
            /\ file.text = "full" /\ file.maker # t => Dead(file)

\* A lock file whose maker runs is one it is writing, holding or removing, or
\* one it could not remove.
FileExplained ==
    file # None =>
        \/ Dead(file)
        \/ stuck
        \/ pc[file.maker] \in {"write", "sync", "cleanup", "held"}
        \/ pc[file.maker] \in {"compare", "unlink"} /\ why[file.maker] \in {"cleanup", "release"}

\* The inductive invariant: types, who is behind which guard, that only the
\* thread behind the guard changes the file, and why there is one.
JobLockInv == TypeOK /\ GuardsHeld /\ FileKnown /\ FileExplained

\* A lock file nobody works on names a process that is gone, or a thread that
\* was refused the removal (store.py 384 frees the guards then).  In every
\* other case the file would lock everybody out for the life of its maker.
LeftLockIsDead ==
    osGuard = None /\ file # None => Dead(file) \/ stuck

\* A whole lock is only taken from a dead process, whatever the clock says.
StealsFromTheDead ==
    [][\A t \in Thread :
        /\ osGuard = t /\ file # None /\ file' = None
        /\ file.text = "full" /\ file.maker # t
        => ProcessOf[file.maker] \notin alive]_vars

\* The thread inside its locked section.
Inside == {t \in Thread : pc[t] = "held"}
Holder == IF Inside = {} THEN None ELSE CHOOSE t \in Inside : TRUE

\* JobLock implements the lock its users think of.
Abstract == INSTANCE AtomicLock WITH holder <- Holder, alive <- alive
ImplementsAtomicLock == Abstract!Spec

\* Every call of acquire returns, by its deadline if need be, even if the lock
\* file belongs to a live process that never removes it.
AcquireEnds ==
    \A t \in Thread :
        pc[t] \in {"process_guard", "os_guard"} ~> pc[t] \in {"held", "idle", "down"}

\* What a crash leaves, whole or half written, is out of the way some time, as
\* long as somebody alive keeps asking for the lock.
DeadLockRecovered ==
    [](file # None /\ Dead(file) => <>(file = None \/ ~Dead(file)))

=============================================================================
