----------------------------- MODULE AtomicLock -----------------------------
(***************************************************************************)
(* What users of jobs/store.py's JobLock rely on: a lock that one thread   *)
(* holds at a time and that the death of its process frees.                *)
(***************************************************************************)
CONSTANTS
    Thread,
    Process,
    ProcessOf,
    None

VARIABLES
    holder,     \* the thread inside its locked section, or None
    alive       \* the processes that run

atomicVars == <<holder, alive>>

Init ==
    /\ holder = None
    /\ alive = Process

Acquire(t) ==
    /\ ProcessOf[t] \in alive
    /\ holder = None
    /\ holder' = t
    /\ UNCHANGED alive

Release(t) ==
    /\ holder = t
    /\ holder' = None
    /\ UNCHANGED alive

Die(p) ==
    /\ p \in alive
    /\ alive' = alive \ {p}
    /\ holder' = IF holder # None /\ ProcessOf[holder] = p THEN None ELSE holder

Next ==
    \/ \E t \in Thread : Acquire(t) \/ Release(t)
    \/ \E p \in Process : Die(p)

Spec == Init /\ [][Next]_atomicVars

=============================================================================
