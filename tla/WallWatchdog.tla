----------------------------- MODULE WallWatchdog -----------------------------
(***************************************************************************)
(* The wall budget of a native job.  The server that launches an attempt   *)
(* starts a watchdog process for it and says so in wall-watchdog.json; the *)
(* worker makes no native client before it has read that; the watchdog     *)
(* asks for the cancellation of the attempt when its time is over.         *)
(*                                                                         *)
(* Servers, workers and watchdogs are processes, and those of an attempt   *)
(* may still run when a later attempt is launched.  The watchdogs write    *)
(* the file under the job lock, the servers without it.  What runs wholly  *)
(* under the job lock is one step.  The job is seen as far as a watchdog   *)
(* sees it: DurableJob has its states and its cancellation.                *)
(***************************************************************************)
EXTENDS Naturals

CONSTANTS
    MaxAttempts,    \* bound on the launches of the job
    MaxFaults       \* bound on what fails, dies or is too slow

ASSUME BoundsAssumption == MaxAttempts \in Nat \ {0} /\ MaxFaults \in Nat

Attempt == 1..MaxAttempts

VARIABLES
    attempt,    \* state.json: the attempt of the job
    status,     \* state.json: "active", "completed", or "ended" in another terminal state
    request,    \* control.json: the attempt to be cancelled, or 0
    record,     \* wall-watchdog.json
    server,     \* per attempt the step of the server that launches it
    worker,     \* per attempt its worker
    watchdog,   \* per attempt the step of its watchdog
    note,       \* per attempt the outcome its watchdog is about to write
    holder,     \* the watchdog between its reading and its writing of the file, or 0
    late,       \* attempts whose deadline has passed
    lost,       \* attempts whose watchdog gave up, failed or was killed
    disowned,   \* attempts that a worker or server of another attempt has ended
    faults

vars == <<attempt, status, request, record, server, worker, watchdog, note, holder, late,
          lost, disowned, faults>>
job == <<attempt, status, request>>

Outcome == {"stale", "terminal", "requested", "refused", "failed"}
Record == [attempt : 0..MaxAttempts, status : {"none", "launching", "armed", "launch_failed"} \cup Outcome]

Init ==
    /\ attempt = 1
    /\ status = "active"
    /\ request = 0
    /\ record = [attempt |-> 0, status |-> "none"]
    /\ server = [a \in Attempt |-> IF a = 1 THEN "launch" ELSE "none"]
    /\ worker = [a \in Attempt |-> "none"]
    /\ watchdog = [a \in Attempt |-> "none"]
    /\ note = [a \in Attempt |-> "stale"]
    /\ holder = 0
    /\ late = {}
    /\ lost = {}
    /\ disowned = {}
    /\ faults = 0

\* Something fails, or nothing does.
Fault == faults < MaxFaults /\ faults' = faults + 1
NoFault == UNCHANGED faults

\* The job lock can be had.
Unlocked == holder = 0

ServerGoes(a, step) == server' = [server EXCEPT ![a] = step]
WatchdogGoes(a, step) == watchdog' = [watchdog EXCEPT ![a] = step]
Say(a, what) == record' = [attempt |-> a, status |-> what]

\* A worker or a server of attempt a ends the job: update_state compares no attempt,
\* so what it ends may be a later one.  The status is read before the write: one that
\* had read an ended attempt, or a cancellation, leaves the job alone.
Ends(a, how) ==
    \/ /\ status = "active"
       /\ how = "completed" => request = 0
       /\ status' = how
       /\ disowned' = IF attempt = a THEN disowned ELSE disowned \cup {attempt}
    \/ /\ attempt # a \/ status # "active" \/ request = a
       /\ UNCHANGED <<status, disowned>>

\* Mutant of Cancel: whatever attempt the job is in is cancelled.
CancelCurrent(a) == request' = IF status = "active" THEN attempt ELSE request

\* request_cancel for the expected attempt.
CanCancel(a) == attempt = a /\ status = "active"
Cancel(a) == request' = IF CanCancel(a) THEN a ELSE request

-----------------------------------------------------------------------------
(* The server of attempt a                                                 *)

\* A launched worker goes on, unless it finds that the job has ended.
WorkerRuns(a) ==
    worker' = [worker EXCEPT ![a] = IF status = "active" THEN "waiting" ELSE "over"]

\* The worker is launched and bound; what fails there fails the job, and the worker
\* may run all the same.
Launch(a) ==
    /\ server[a] = "launch"
    /\ Unlocked
    /\ \/ WorkerRuns(a) /\ ServerGoes(a, "mark") /\ NoFault /\ UNCHANGED <<status, disowned>>
       \/ /\ WorkerRuns(a) \/ UNCHANGED worker
          /\ Ends(a, "ended")
          /\ ServerGoes(a, "gone")
          /\ Fault
    /\ UNCHANGED <<attempt, request, record, watchdog, note, holder, late, lost>>

\* "launching" is written before there is a watchdog.
Mark(a) ==
    /\ server[a] = "mark"
    /\ \/ Say(a, "launching") /\ ServerGoes(a, "spawn") /\ NoFault
       \/ ServerGoes(a, "abort") /\ Fault /\ UNCHANGED record
    /\ UNCHANGED <<job, worker, watchdog, note, holder, late, lost, disowned>>

\* The watchdog is started; one whose identity is not seen in time may run all
\* the same.
Spawn(a) ==
    /\ server[a] = "spawn"
    /\ \/ WatchdogGoes(a, "arming") /\ ServerGoes(a, "arm") /\ NoFault /\ UNCHANGED record
       \/ /\ WatchdogGoes(a, "arming") \/ UNCHANGED watchdog
          /\ Say(a, "launch_failed")
          /\ ServerGoes(a, "abort")
          /\ Fault
    /\ UNCHANGED <<job, worker, note, holder, late, lost, disowned>>

\* The event that follows the record may fail too.
Arm(a) ==
    /\ server[a] = "arm"
    /\ \/ Say(a, "armed") /\ ServerGoes(a, "gone") /\ NoFault
       \/ (Say(a, "armed") \/ UNCHANGED record) /\ ServerGoes(a, "abort") /\ Fault
    /\ UNCHANGED <<job, worker, watchdog, note, holder, late, lost, disowned>>

\* An attempt that has no watchdog is cancelled, if the lock can be had in time.
Abort(a) ==
    /\ server[a] = "abort"
    /\ \/ Unlocked /\ Cancel(a) /\ NoFault
       \/ Fault /\ UNCHANGED request
    /\ ServerGoes(a, "gone")
    /\ UNCHANGED <<attempt, status, record, worker, watchdog, note, holder, late, lost, disowned>>

ServerDies(a) ==
    /\ server[a] \notin {"none", "gone"}
    /\ ServerGoes(a, "gone")
    /\ Fault
    /\ UNCHANGED <<job, record, worker, watchdog, note, holder, late, lost, disowned>>

\* Any server may resume a job that has ended and was not completed.
Resume ==
    /\ Unlocked
    /\ status = "ended"
    /\ attempt < MaxAttempts
    /\ attempt' = attempt + 1
    /\ status' = "active"
    /\ request' = 0
    /\ ServerGoes(attempt + 1, "launch")
    /\ UNCHANGED <<record, worker, watchdog, note, holder, late, lost, faults, disowned>>

\* A client may cancel at any time.
Client ==
    /\ Unlocked
    /\ Cancel(attempt)
    /\ UNCHANGED <<attempt, status, record, server, worker, watchdog, note, holder, late, lost,
                   faults, disowned>>

-----------------------------------------------------------------------------
(* The worker of attempt a                                                 *)

\* await_native_wall_watchdog: armed for this attempt, whose worker the job names,
\* and in time; and no cancellation was asked for.
Armed(a) == record = [attempt |-> a, status |-> "armed"]

\* The worker stops, and with it the job fails or completes unless a cancellation
\* owns its end.
WorkerStops(a, how) ==
    /\ worker' = [worker EXCEPT ![a] = "over"]
    /\ Ends(a, how)

StartNative(a) ==
    /\ worker[a] = "waiting"
    /\ Armed(a) /\ attempt = a /\ a \notin late /\ request # a
    /\ worker' = [worker EXCEPT ![a] = "native"]
    /\ UNCHANGED <<job, record, server, watchdog, note, holder, late, lost, faults, disowned>>

\* Its two seconds are over, or what it has read is not for it.
StartRefused(a) ==
    /\ worker[a] = "waiting"
    /\ Unlocked
    /\ WorkerStops(a, "ended")
    /\ UNCHANGED <<attempt, request, record, server, watchdog, note, holder, late, lost, faults>>

NativeEnds(a) ==
    /\ worker[a] = "native"
    /\ Unlocked
    /\ \E how \in {"completed", "ended"} : WorkerStops(a, how)
    /\ UNCHANGED <<attempt, request, record, server, watchdog, note, holder, late, lost, faults>>

\* The worker obeys, or the coordinator ends it; both come to an end (DurableJob).
Obey(a) ==
    /\ worker[a] \in {"waiting", "native"}
    /\ request = a
    /\ WorkerStops(a, "ended")
    /\ UNCHANGED <<attempt, request, record, server, watchdog, note, holder, late, lost, faults>>

\* A coordinator commits when the worker, which it must be able to name, is gone.
Commit(a) ==
    /\ Unlocked
    /\ attempt = a /\ request = a /\ status = "active"
    /\ worker[a] = "over"
    /\ status' = "ended"
    /\ UNCHANGED <<attempt, request, record, server, worker, watchdog, note, holder, late, lost,
                   faults, disowned>>

\* The wall time of a launched attempt runs out.
Deadline(a) ==
    /\ worker[a] # "none" /\ a \notin late
    /\ late' = late \cup {a}
    /\ UNCHANGED <<job, record, server, worker, watchdog, note, holder, lost, faults, disowned>>

-----------------------------------------------------------------------------
(* The watchdog of attempt a                                               *)

Report(a, what) == note' = [note EXCEPT ![a] = what] /\ WatchdogGoes(a, "report")

\* It waits two seconds for its own arming.
WaitArmed(a) ==
    /\ watchdog[a] = "arming"
    /\ Armed(a)
    /\ WatchdogGoes(a, "watching")
    /\ UNCHANGED <<job, record, server, worker, note, holder, late, lost, faults, disowned>>

\* A server that has seen the watchdog start has two seconds to say so: one that
\* does not is too slow.
GiveUp(a) ==
    /\ watchdog[a] = "arming"
    /\ ~Armed(a)
    /\ IF record.status # "launch_failed" /\ server[a] = "arm" THEN Fault ELSE NoFault
    /\ WatchdogGoes(a, "over")
    /\ lost' = lost \cup {a}
    /\ UNCHANGED <<job, record, server, worker, note, holder, late, disowned>>

\* What it raises ends it: it may only note that it has failed.
Fails(a) == Report(a, "failed") /\ Fault /\ lost' = lost \cup {a}

\* Mutant of Watch: the loop ends with the deadline.
WatchUntilDeadline(a) ==
    /\ watchdog[a] = "watching"
    /\ \/ attempt # a /\ Report(a, "stale")
       \/ attempt = a /\ (status # "active" \/ a \in late) /\ Report(a, "terminal")
    /\ UNCHANGED <<job, record, server, worker, holder, late, lost, faults, disowned>>

Watch(a) ==
    /\ watchdog[a] = "watching"
    /\ \/ /\ \/ attempt # a /\ Report(a, "stale")
             \/ attempt = a /\ status # "active" /\ Report(a, "terminal")
             \/ CanCancel(a) /\ a \in late /\ WatchdogGoes(a, "firing") /\ UNCHANGED note
          /\ NoFault /\ UNCHANGED lost
       \/ Fails(a)
    /\ UNCHANGED <<job, record, server, worker, holder, late, disowned>>

\* JobManager.cancel.  It is refused when the attempt has ended or is no longer the
\* one of the job, and when its cancellation is already under way; the lock may not
\* be had in time, and the coordinator may not start.
Fire(a) ==
    /\ watchdog[a] = "firing"
    /\ \/ Unlocked /\ Cancel(a) /\ CanCancel(a) /\ Report(a, "requested")
          /\ NoFault /\ UNCHANGED lost
       \/ Unlocked /\ Cancel(a) /\ (~CanCancel(a) \/ request = a) /\ WatchdogGoes(a, "reread")
          /\ NoFault /\ UNCHANGED <<note, lost>>
       \/ Unlocked /\ Cancel(a) /\ CanCancel(a) /\ WatchdogGoes(a, "reread")
          /\ Fault /\ lost' = lost \cup {a} /\ UNCHANGED note
       \/ Fails(a) /\ UNCHANGED request
    /\ UNCHANGED <<attempt, status, record, server, worker, holder, late, disowned>>

\* Mutant of Reread: what refused the cancel must be the end of the attempt.
RereadBlind(a) ==
    /\ watchdog[a] = "reread"
    /\ Report(a, "terminal")
    /\ UNCHANGED <<job, record, server, worker, holder, late, lost, faults, disowned>>

\* A cancel that was refused has raced the end of the attempt, or a resume.
Reread(a) ==
    /\ watchdog[a] = "reread"
    /\ \/ /\ Report(a, IF attempt # a THEN "stale" ELSE IF status # "active" THEN "terminal"
                        ELSE "refused")
          /\ NoFault /\ UNCHANGED lost
       \/ Fails(a)
    /\ UNCHANGED <<job, record, server, worker, holder, late, disowned>>

\* _write_outcome: under the lock, and only if the file is still of the attempt;
\* an outcome that could not be written is replaced by "failed", once.
ReadRecord(a) ==
    /\ watchdog[a] = "report"
    /\ \/ Unlocked /\ record.attempt = a /\ holder' = a
          /\ WatchdogGoes(a, "writing") /\ NoFault /\ UNCHANGED note
       \/ Unlocked /\ record.attempt # a
          /\ WatchdogGoes(a, "over") /\ NoFault /\ UNCHANGED <<note, holder>>
       \/ note[a] # "failed" /\ Report(a, "failed") /\ Fault /\ UNCHANGED holder
       \/ note[a] = "failed" /\ WatchdogGoes(a, "over") /\ Fault /\ UNCHANGED <<note, holder>>
    /\ UNCHANGED <<job, record, server, worker, late, lost, disowned>>

WriteRecord(a) ==
    /\ watchdog[a] = "writing"
    /\ Say(a, note[a])
    /\ holder' = 0
    /\ WatchdogGoes(a, "over")
    /\ UNCHANGED <<job, server, worker, note, late, lost, faults, disowned>>

\* Killed; the lock of a dead process is free.
WatchdogDies(a) ==
    /\ watchdog[a] \notin {"none", "over"}
    /\ WatchdogGoes(a, "over")
    /\ holder' = IF holder = a THEN 0 ELSE holder
    /\ lost' = lost \cup {a}
    /\ Fault
    /\ UNCHANGED <<job, record, server, worker, note, late, disowned>>

-----------------------------------------------------------------------------

Server(a) == Launch(a) \/ Mark(a) \/ Spawn(a) \/ Arm(a) \/ Abort(a)

Worker(a) == StartNative(a) \/ StartRefused(a) \/ NativeEnds(a) \/ Obey(a) \/ Commit(a)

Watchdog(a) ==
    \/ WaitArmed(a) \/ GiveUp(a) \/ Watch(a) \/ Fire(a) \/ Reread(a)
    \/ ReadRecord(a) \/ WriteRecord(a)

Next ==
    \/ \E a \in Attempt :
        Server(a) \/ ServerDies(a) \/ Worker(a) \/ Deadline(a) \/ Watchdog(a) \/ WatchdogDies(a)
    \/ Resume
    \/ Client

Spec == Init /\ [][Next]_vars

\* Processes that run go on, and time passes; a native run need not end by itself.
FairSpec ==
    /\ Spec
    /\ \A a \in Attempt :
        WF_vars(Server(a)) /\ WF_vars(Watchdog(a)) /\ WF_vars(Obey(a)) /\ WF_vars(Commit(a))

=============================================================================
