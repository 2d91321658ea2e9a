------------------------ MODULE WallWatchdogProperties ------------------------
(***************************************************************************)
(* What a wall budget and its record promise, whatever attempts, servers   *)
(* and watchdogs meet.                                                     *)
(***************************************************************************)
EXTENDS WallWatchdog

\* Shapes of the job, the file and the processes.
TypeOK ==
    /\ attempt \in Attempt
    /\ status \in {"active", "completed", "ended"}
    /\ request \in 0..MaxAttempts
    /\ record \in Record
    /\ server \in [Attempt -> {"none", "launch", "mark", "spawn", "arm", "abort", "gone"}]
    /\ worker \in [Attempt -> {"none", "waiting", "native", "over"}]
    /\ watchdog \in [Attempt -> {"none", "arming", "watching", "firing", "reread", "report",
                                 "writing", "over"}]
    /\ note \in [Attempt -> Outcome]
    /\ holder \in 0..MaxAttempts
    /\ late \subseteq Attempt
    /\ lost \subseteq Attempt
    /\ disowned \subseteq Attempt
    /\ faults \in 0..MaxFaults

Watched(a) == watchdog[a] \notin {"none", "over"}

\* What may be said of an attempt: that it is armed if it got a watchdog, that it is
\* stale if it has a successor, terminal if it has ended, cancelled if it is asked to
\* stop.
IsTrueOf(a, what) ==
    /\ what = "armed" => watchdog[a] # "none"
    /\ what = "stale" => attempt > a
    /\ what = "terminal" => attempt > a \/ status # "active"
    /\ what = "requested" => attempt > a \/ request = a

\* What the file says of an attempt is so, whoever wrote it and however late
\* (_write_outcome; "re-read the durable state before refusing").
RecordIsTrue == IsTrueOf(record.attempt, record.status)

\* No native run begins without a watchdog that was started for its attempt
\* (await_native_wall_watchdog: "the exact worker, attempt and declared deadline").
NativeHadWatchdog == \A a \in Attempt : worker[a] = "native" => watchdog[a] # "none"

\* A deadline that races a resume cancels its own attempt or nothing.
CancelsItsOwn ==
    [][\A a \in Attempt :
        watchdog[a] = "firing" /\ watchdog'[a] # "firing" /\ request' # request =>
            request' = a]_vars

\* A native run past its deadline ends, unless its watchdog was not told that it is
\* armed, was killed, or could not read the job, get its lock or start the coordinator;
\* or unless a worker or server of another attempt has ended the attempt under it: its
\* watchdog meets an ended attempt then, and leaves (native_wall_watchdog.py, run).
DeadlineStops ==
    \A a \in Attempt :
        worker[a] = "native" /\ a \in late
            ~> worker[a] # "native" \/ a \in lost \/ a \in disowned

\* The same without the last excuse.
DeadlineAlwaysStops ==
    \A a \in Attempt :
        worker[a] = "native" /\ a \in late
            ~> worker[a] # "native" \/ a \in lost

\* A watchdog that meets a later attempt leaves the record of that attempt alone
\* (test_native_wall_watchdog.py 94: "stale attempt is refused without touching new
\* attempt"; 242: the record is still armed).
TouchesItsOwn ==
    [][\A a \in Attempt :
        watchdog[a] = "writing" /\ record' = [attempt |-> a, status |-> note[a]] =>
            ~ (record.status = "armed" /\ record.attempt > a)]_vars

\* A native run is under the eyes of its watchdog, or is asked to stop.
NativeIsWatched == \A a \in Attempt : worker[a] = "native" => Watched(a) \/ request = a

-----------------------------------------------------------------------------
(* The inductive invariant                                                 *)

\* The file is of an attempt that was made as soon as it says anything.
RecordKnown == record.status # "none" => record.attempt \in Attempt /\ record.attempt <= attempt

\* Only the current attempt is to be cancelled.
RequestIsCurrent == request \in {0, attempt}

\* Nobody works for an attempt that has not been made.
NobodyEarly ==
    \A a \in Attempt : server[a] # "none" \/ watchdog[a] # "none" => a <= attempt

\* A server arms what it has started.
ArmsStarted == \A a \in Attempt : server[a] = "arm" => watchdog[a] # "none"

\* What a watchdog is about to write stays so until it writes it.
NotesAreTrue == \A a \in Attempt : watchdog[a] \in {"report", "writing"} => IsTrueOf(a, note[a])

WatchInv ==
    /\ TypeOK
    /\ RecordIsTrue
    /\ NativeHadWatchdog
    /\ RecordKnown
    /\ RequestIsCurrent
    /\ NobodyEarly
    /\ ArmsStarted
    /\ NotesAreTrue

=============================================================================
