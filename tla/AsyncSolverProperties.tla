----------------------- MODULE AsyncSolverProperties -----------------------
(***************************************************************************)
(* What the users of AsyncSolver may rely on.                              *)
(***************************************************************************)
EXTENDS AsyncSolver

\* Shapes of the solver's attributes, of the workers and of the frames.
TypeOK ==
    /\ status \in {"idle", "running"} \cup Ends
    /\ current \in 0..MaxRuns
    /\ {thread, stored, gate} \subseteq Run \cup {None}
    /\ owner \in Thread \cup {None}
    /\ flag \in BOOLEAN
    /\ open \subseteq Run
    /\ work \in [Run -> Works]
    /\ left \in [Run -> 0..Stages]
    /\ studies \in [Run -> 0..MaxStudies]
    /\ outcome \in [Run -> {"none", "running"} \cup Ends]
    /\ asked \in [Run -> {"no", "early", "late"}]
    /\ heard \subseteq Run
    /\ calls \in 0..MaxCalls

\* While a run is under way it is the last one, and _thread is its worker.
RunningIsCurrent ==
    \A r \in Run : work[r] \in Active =>
        r = current /\ thread = r /\ status = "running" /\ outcome[r] = "running"

\* When none is, nothing is left that would refuse the next start, although
\* the worker of the last run may still be in its callback.
IdleIsFree ==
    (\A r \in Run : work[r] \notin Active) => status # "running" /\ thread = None

\* Runs that were not started have left no trace, and a run is under way as
\* long as its worker is.
RunsInOrder ==
    \A r \in Run :
        /\ r > current => work[r] = "none" /\ outcome[r] = "none" /\ asked[r] = "no"
        /\ outcome[r] = "running" <=> work[r] \in Active
        /\ work[r] \in {"none", "gate", "stage"} => left[r] > 0

\* The flag is a request for the run under way, and one that came before the
\* first study keeps the worker before it.
FlagIsOfTheRun ==
    \A r \in Run : work[r] \in Active =>
        /\ flag <=> asked[r] # "no"
        /\ asked[r] = "early" => work[r] \in Before

\* A start whose thread could not be started.
StartedInVain(r) == outcome[r] = "failed" /\ work[r] = "none"

\* Only such a start may drop the callback of the run under way.
CallbackIsKept ==
    \A r \in Run : work[r] \in Active => stored = r \/ \E q \in Run : StartedInVain(q)

KnownFrame == {f \in Frame : f.at = "drop" => StartedInVain(f.run)}
StacksOK == stack \in [Thread -> Seq(KnownFrame)]

SolverInv ==
    /\ TypeOK /\ RunningIsCurrent /\ IdleIsFree
    /\ RunsInOrder /\ FlagIsOfTheRun /\ CallbackIsKept /\ StacksOK

\* A run ends as cancelled only if its own cancellation was asked for, and a
\* request that comes before the first study is run is never overlooked.
CancelIsHeeded ==
    \A r \in Run :
        /\ outcome[r] = "cancelled" => asked[r] # "no"
        /\ asked[r] = "early" => outcome[r] # "completed"

\* The callback of a run is told of its end, except that of a cancelled run
\* after a start that failed.
EndIsHeard ==
    \A r \in Run : work[r] \in {"exit", "dead"} =>
        \/ r \in heard
        \/ /\ outcome[r] = "cancelled"
           /\ \E q \in Run : StartedInVain(q)

\* Every run's callback is told of the run's end.
EveryEndIsHeard == \A r \in Run : work[r] = "dead" => r \in heard

\* Solves run one at a time and end once.
ImplementsSlot == Slot!Spec

\* Nothing waits for ever: once the last call has been made all calls return,
\* waits in callbacks too, every run ends and every worker is gone.
Quiet ==
    /\ \A t \in Thread : stack[t] = <<>>
    /\ \A r \in Run : work[r] \in {"none", "dead"}
AllReturn == <>[]Quiet

=============================================================================
