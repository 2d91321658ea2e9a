------------------------------ MODULE SolveSlot ------------------------------
(***************************************************************************)
(* What AsyncSolver promises: solves run one at a time, in the order of    *)
(* their starts, and each ends once.                                       *)
(***************************************************************************)
EXTENDS Naturals

CONSTANT Run        \* numbered in the order of the starts

VARIABLES
    current,    \* the last run that was started; 0 before the first
    outcome     \* per run "none", "running" or how it ended

vars == <<current, outcome>>

Ends == {"completed", "failed", "cancelled"}

Init ==
    /\ current = 0
    /\ outcome = [r \in Run |-> "none"]

Idle == \A r \in Run : outcome[r] # "running"

\* A thread that could not be started has failed.
Begin(r) ==
    /\ Idle
    /\ r = current + 1
    /\ current' = r
    /\ \E o \in {"running", "failed"} : outcome' = [outcome EXCEPT ![r] = o]

End(r) ==
    /\ outcome[r] = "running"
    /\ \E o \in Ends : outcome' = [outcome EXCEPT ![r] = o]
    /\ UNCHANGED current

Next == \E r \in Run : Begin(r) \/ End(r)

Spec == Init /\ [][Next]_vars

=============================================================================
