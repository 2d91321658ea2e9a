----------------------------- MODULE AsyncSolver -----------------------------
(***************************************************************************)
(* AsyncSolver: solves in background threads, one at a time.  Callbacks    *)
(* run without the lock, in the worker's thread and in the threads that    *)
(* start and cancel, and may themselves start, cancel, wait and reset.     *)
(*                                                                         *)
(* A locked section of the code is one action.  A thread's calls are a     *)
(* stack of frames; a worker goes on when its stack is empty.              *)
(***************************************************************************)
EXTENDS Naturals, Sequences

CONSTANTS
    Client,     \* threads of the server that call the solver
    Stages,     \* announced stages before the study runs
    None,
    MaxRuns,    \* bound on the starts
    MaxStudies, \* bound on the studies of a run that come after its first
    MaxCalls,   \* bound on the calls
    MaxDepth    \* bound on the frames of a thread

ASSUME StagesAssumption == Stages \in Nat \ {0}
ASSUME ThreadAssumption == Client \cap Nat = {} /\ None \notin Client \cup Nat
ASSUME BoundsAssumption == MaxRuns \in Nat /\ MaxStudies \in Nat /\ MaxCalls \in Nat
                          /\ MaxDepth \in Nat

\* A run, its worker thread, its callback and its launch gate have one name.
Run == 1..MaxRuns
Thread == Client \cup Run

VARIABLES
    status,     \* _progress.status
    current,    \* the run _progress is about; 0 before the first
    thread,     \* _thread
    flag,       \* _cancel_flag
    stored,     \* _progress_callback
    gate,       \* _launch_gate
    owner,      \* _launch_owner_ident
    open,       \* launch gates that are set
    work,       \* per run what its worker is about to do
    left,       \* per run the stages not yet announced
    studies,    \* per run the studies that may still follow
    stack,      \* per thread its frames, the innermost first
    outcome,    \* per run how it ended
    asked,      \* per run whether a cancellation was accepted, and when
    heard,      \* runs whose callback was told of the end
    calls

solver == <<status, current, thread, flag, stored, gate, owner>>
ghosts == <<outcome, asked, heard>>
vars == <<solver, open, work, left, studies, stack, ghosts, calls>>

Before == {"gate", "stage", "check"}
Active == Before \cup {"study"}
Works == Active \cup {"none", "exit", "dead"}
Ends == {"completed", "failed", "cancelled"}
Frame == [at : {"callback", "open", "clear", "drop", "join"}, run : Run]

Init ==
    /\ status = "idle"
    /\ current = 0
    /\ thread = None
    /\ flag = FALSE
    /\ stored = None
    /\ gate = None
    /\ owner = None
    /\ open = {}
    /\ work = [r \in Run |-> "none"]
    /\ left = [r \in Run |-> Stages]
    /\ studies = [r \in Run |-> MaxStudies]
    /\ stack = [t \in Thread |-> <<>>]
    /\ outcome = [r \in Run |-> "none"]
    /\ asked = [r \in Run |-> "no"]
    /\ heard = {}
    /\ calls = 0

IsAlive(r) == work[r] \notin {"none", "dead"}
ThreadAlive == thread # None /\ IsAlive(thread)
Notified(cb) == IF cb = None THEN <<>> ELSE <<[at |-> "callback", run |-> cb]>>
Ended(cb) == IF cb = None THEN heard ELSE heard \cup {cb}

-----------------------------------------------------------------------------
(* Calls                                                                   *)

\* A client calls of its own, any thread from a callback.  Only calls that
\* change something are counted.
Calls(t) ==
    /\ calls < MaxCalls
    /\ Len(stack[t]) + 2 <= MaxDepth
    /\ \/ t \in Client /\ stack[t] = <<>>
       \/ stack[t] # <<>> /\ Head(stack[t]).at = "callback"

Push(t, frames) == stack' = [stack EXCEPT ![t] = frames \o @]

StartRefused(t) ==
    /\ Calls(t)
    /\ status = "running" \/ ThreadAlive
    /\ UNCHANGED vars

MayStart(t) ==
    /\ Calls(t)
    /\ status # "running"
    /\ ~ThreadAlive
    /\ current < MaxRuns
    /\ current' = current + 1
    /\ calls' = calls + 1

\* Mutant of Start: the flag of the last run is not cleared.
StartFlagged(t) ==
    LET r == current + 1 IN
    /\ MayStart(t)
    /\ status' = "running"
    /\ UNCHANGED flag
    /\ thread' = r
    /\ stored' = r
    /\ gate' = r
    /\ owner' = t
    /\ work' = [work EXCEPT ![r] = "gate"]
    /\ outcome' = [outcome EXCEPT ![r] = "running"]
    /\ Push(t, Notified(r) \o <<[at |-> "open", run |-> r]>>)
    /\ UNCHANGED <<open, left, studies, asked, heard>>

\* The worker waits at its gate until the callback has been told of the start.
Start(t) ==
    LET r == current + 1 IN
    /\ MayStart(t)
    /\ status' = "running"
    /\ flag' = FALSE
    /\ thread' = r
    /\ stored' = r
    /\ gate' = r
    /\ owner' = t
    /\ work' = [work EXCEPT ![r] = "gate"]
    /\ outcome' = [outcome EXCEPT ![r] = "running"]
    /\ Push(t, Notified(r) \o <<[at |-> "open", run |-> r]>>)
    /\ UNCHANGED <<open, left, studies, asked, heard>>

\* Thread.start raises.
StartFails(t) ==
    LET r == current + 1 IN
    /\ MayStart(t)
    /\ status' = "failed"
    /\ flag' = FALSE
    /\ thread' = None
    /\ stored' = r
    /\ gate' = None
    /\ owner' = None
    /\ open' = open \cup {r}
    /\ outcome' = [outcome EXCEPT ![r] = "failed"]
    /\ heard' = heard \cup {r}
    /\ Push(t, Notified(r) \o <<[at |-> "drop", run |-> r]>>)
    /\ UNCHANGED <<work, left, studies, asked>>

Cancel(t) ==
    /\ Calls(t)
    /\ IF status # "running"
       THEN UNCHANGED <<flag, asked, stack, calls>>
       ELSE /\ calls' = calls + 1
            /\ flag' = TRUE
            /\ asked' = [asked EXCEPT ![current] =
                           IF @ = "no" /\ work[current] \notin Before THEN "late"
                           ELSE IF work[current] \in Before THEN "early" ELSE @]
            /\ Push(t, Notified(stored))
    /\ UNCHANGED <<status, current, thread, stored, gate, owner, open, work, left, studies,
                   outcome, heard>>

\* A thread cannot wait for the worker it has not let go yet, nor for itself.
WaitInVain(t) == (gate # None /\ gate \notin open /\ owner = t) \/ thread = t

\* Mutant of Wait: the thread that holds the gate is not told apart.
WaitAtGate(t) ==
    /\ Calls(t)
    /\ IF thread = None \/ thread = t
       THEN UNCHANGED <<stack, calls>>
       ELSE Push(t, <<[at |-> "join", run |-> thread]>>) /\ calls' = calls + 1
    /\ UNCHANGED <<solver, open, work, left, studies, ghosts>>

\* wait() without a timeout.
Wait(t) ==
    /\ Calls(t)
    /\ IF thread = None \/ WaitInVain(t)
       THEN UNCHANGED <<stack, calls>>
       ELSE Push(t, <<[at |-> "join", run |-> thread]>>) /\ calls' = calls + 1
    /\ UNCHANGED <<solver, open, work, left, studies, ghosts>>

\* Mutant of Reset: a worker that was not seen to run is forgotten.
ResetAnyway(t) ==
    /\ Calls(t)
    /\ calls' = calls + 1
    /\ status' = "idle"
    /\ flag' = FALSE
    /\ stored' = None
    /\ thread' = None
    /\ UNCHANGED <<current, gate, owner, open, work, left, studies, stack, ghosts>>

Reset(t) ==
    \/ ~ThreadAlive /\ ResetAnyway(t)
    \/ /\ ThreadAlive
       /\ Calls(t)
       /\ UNCHANGED vars

-----------------------------------------------------------------------------
(* What is left of a call                                                  *)

At(t, step) == stack[t] # <<>> /\ Head(stack[t]).at = step
Pop(t) == stack' = [stack EXCEPT ![t] = Tail(@)]
RunOf(t) == Head(stack[t]).run

CallbackReturns(t) ==
    /\ At(t, "callback")
    /\ Pop(t)
    /\ UNCHANGED <<solver, open, work, left, studies, ghosts, calls>>

Open(t) ==
    /\ At(t, "open")
    /\ open' = open \cup {RunOf(t)}
    /\ stack' = [stack EXCEPT ![t] = <<[at |-> "clear", run |-> RunOf(t)]>> \o Tail(@)]
    /\ UNCHANGED <<solver, work, left, studies, ghosts, calls>>

\* Mutant of Clear: the stored callback is dropped as after a failed start.
ClearStored(t) ==
    /\ At(t, "clear")
    /\ gate' = IF gate = RunOf(t) THEN None ELSE gate
    /\ owner' = IF gate = RunOf(t) THEN None ELSE owner
    /\ stored' = None
    /\ Pop(t)
    /\ UNCHANGED <<status, current, thread, flag, open, work, left, studies, ghosts, calls>>

\* The gate may be that of a later start by now.
Clear(t) ==
    /\ At(t, "clear")
    /\ gate' = IF gate = RunOf(t) THEN None ELSE gate
    /\ owner' = IF gate = RunOf(t) THEN None ELSE owner
    /\ Pop(t)
    /\ UNCHANGED <<status, current, thread, flag, stored, open, work, left, studies, ghosts, calls>>

\* The callback may be that of a later start by now.
Drop(t) ==
    /\ At(t, "drop")
    /\ stored' = None
    /\ Pop(t)
    /\ UNCHANGED <<status, current, thread, flag, gate, owner, open, work, left, studies, ghosts, calls>>

Join(t) ==
    /\ At(t, "join")
    /\ ~IsAlive(RunOf(t))
    /\ Pop(t)
    /\ UNCHANGED <<solver, open, work, left, studies, ghosts, calls>>

-----------------------------------------------------------------------------
(* solve_thread                                                            *)

Ready(r, step) == work[r] = step /\ stack[r] = <<>>

PassGate(r) ==
    /\ Ready(r, "gate")
    /\ r \in open
    /\ work' = [work EXCEPT ![r] = "stage"]
    /\ UNCHANGED <<solver, open, left, studies, stack, ghosts, calls>>

Announce(r) ==
    /\ Ready(r, "stage")
    /\ left' = [left EXCEPT ![r] = @ - 1]
    /\ work' = [work EXCEPT ![r] = "check"]
    /\ Push(r, Notified(r))
    /\ UNCHANGED <<solver, open, studies, ghosts, calls>>

Check(r) ==
    /\ Ready(r, "check")
    /\ ~flag
    /\ work' = [work EXCEPT ![r] = IF left[r] > 0 THEN "stage" ELSE "study"]
    /\ UNCHANGED <<solver, open, left, studies, stack, ghosts, calls>>

\* The end is published before the last callback, which may start a new run.
Publish(r, end) ==
    /\ status' = end
    /\ outcome' = [outcome EXCEPT ![r] = end]
    /\ work' = [work EXCEPT ![r] = "exit"]
    /\ UNCHANGED <<current, flag, stored, gate, owner, open, left, studies, asked, calls>>

\* _set_cancelled uses the callback it finds stored.
SetCancelled(r) ==
    /\ Ready(r, "check")
    /\ flag
    /\ Publish(r, "cancelled")
    /\ thread' = None
    /\ heard' = Ended(stored)
    /\ Push(r, Notified(stored))

\* With no study named each study is run, and the flag read before each.
NextStudy(r) ==
    /\ Ready(r, "study")
    /\ studies[r] > 0
    /\ studies' = [studies EXCEPT ![r] = @ - 1]
    /\ work' = [work EXCEPT ![r] = "check"]
    /\ UNCHANGED <<solver, open, left, stack, ghosts, calls>>

Finish(r) ==
    /\ Ready(r, "study")
    /\ \E end \in {"completed", "failed"} : Publish(r, end)
    /\ thread' = None
    /\ heard' = Ended(r)
    /\ Push(r, Notified(r))

Exit(r) ==
    /\ Ready(r, "exit")
    /\ work' = [work EXCEPT ![r] = "dead"]
    /\ UNCHANGED <<solver, open, left, studies, stack, ghosts, calls>>

-----------------------------------------------------------------------------
Call(t) == StartRefused(t) \/ Start(t) \/ StartFails(t) \/ Cancel(t) \/ Wait(t) \/ Reset(t)

Frames(t) == CallbackReturns(t) \/ Open(t) \/ Clear(t) \/ Drop(t) \/ Join(t)

Worker(r) ==
    \/ PassGate(r) \/ Announce(r) \/ Check(r) \/ SetCancelled(r) \/ NextStudy(r) \/ Finish(r)
    \/ Exit(r)

Next ==
    \/ \E t \in Thread : Call(t) \/ Frames(t)
    \/ \E r \in Run : Worker(r)

Spec == Init /\ [][Next]_vars

\* Threads are scheduled, callbacks return, a study ends and studies are few.
FairSpec ==
    /\ Spec
    /\ \A t \in Thread : WF_vars(Frames(t))
    /\ \A r \in Run : WF_vars(Worker(r))

Slot == INSTANCE SolveSlot

=============================================================================
