----------------------------- MODULE SessionStart -----------------------------
(***************************************************************************)
(* SessionManager: the interactive session of a server.  start() returns   *)
(* at once and leaves the construction of the client, which may block for  *)
(* minutes, to a worker thread with a watchdog; disconnect() may come      *)
(* while the client is being made, connect() takes a remote server, and    *)
(* every client is covered by the solver lease.                            *)
(*                                                                         *)
(* What runs under _start_lock is one action.  Tool calls come one after   *)
(* the other; workers and watchdogs, one of each per start, run with them. *)
(* SolverLease models the lease: here the process has it or not.           *)
(***************************************************************************)
EXTENDS Naturals

CONSTANTS
    SessionFaults,  \* {"clear", "release", "persist"}: what may be refused
    MaxStarts,      \* bound on the starts
    MaxConnects     \* bound on the connects

ASSUME BoundsAssumption == MaxStarts \in Nat /\ MaxConnects \in Nat

Attempt == 1..MaxStarts
Kind == {"standalone", "remote"}
MaybeClient == Kind \cup {"none"}

VARIABLES
    client,         \* _client
    reusable,       \* _reusable_client, by its kind
    starting,       \* _starting
    cancelled,      \* _start_cancel_requested
    cleanup,        \* _start_cleanup_pending
    error,          \* whether _start_error is set
    restart,        \* _host_restart_required
    attempt,        \* _start_attempt_id; 0 before the first
    owns,           \* _owns_solver_lease
    hasLease,       \* whether the process has the lease
    guard,          \* the attempt of _start_watchdog; 0 for None
    watchdog,       \* per attempt its timer
    worker,         \* per attempt its thread and locals
    tool,           \* what the tool call in progress is about to do
    retiring,       \* the client that the disconnect in progress has taken
    ended,          \* attempts that were cancelled or timed out (for the properties)
    early,          \* whether a tool has acted beside a worker in its last clauses (ditto)
    refused,        \* whether the lease is kept because its release was refused (ditto)
    connects

session == <<client, reusable, starting, cancelled, cleanup, error, restart, attempt>>
possession == <<owns, hasLease, refused>>
sessionVars ==
    <<session, possession, guard, watchdog, worker, tool, retiring, ended, early, connects>>

EndSteps == {"retire_failed", "fail", "finally", "retire_cancelled", "discard", "give_up"}
WorkerPcs == EndSteps \cup
             {"none", "grace", "preflight", "check", "obey_check", "acquire", "own", "obey_own",
              "load", "check_construct", "construct", "publish", "done"}
ToolPcs == {"idle", "launch", "arm", "retire", "drop", "release"}

\* client, cleanup_errors, whether MPh was loaded, whether the client's
\* retirement was attempted and the lease's release.
NewWorker == [pc |-> "none", client |-> "none", errors |-> FALSE, loaded |-> FALSE,
              retired |-> FALSE, released |-> FALSE]

SessionInit ==
    /\ client = "none"
    /\ reusable = "none"
    /\ starting = FALSE
    /\ cancelled = FALSE
    /\ cleanup = FALSE
    /\ error = FALSE
    /\ restart = FALSE
    /\ attempt = 0
    /\ owns = FALSE
    /\ hasLease = FALSE
    /\ guard = 0
    /\ watchdog = [a \in Attempt |-> "none"]
    /\ worker = [a \in Attempt |-> NewWorker]
    /\ tool = "idle"
    /\ retiring = "none"
    /\ ended = {}
    /\ early = FALSE
    /\ refused = FALSE
    /\ connects = 0

-----------------------------------------------------------------------------
(* Leases and clients                                                      *)

\* _release_owned_lease; a refused release leaves the lease owned.
Release ==
    \/ ~owns /\ UNCHANGED possession
    \/ owns /\ hasLease' = FALSE /\ owns' = FALSE /\ refused' = FALSE
    \/ owns /\ "release" \in SessionFaults /\ refused' = TRUE /\ UNCHANGED <<hasLease, owns>>

Possess == owns' = TRUE /\ hasLease' = TRUE /\ refused' = FALSE

\* _retire_client: a stand-alone client can be used again whatever happens, a
\* remote one if it was disconnected.
Retire(kind, errors) ==
    /\ errors => "clear" \in SessionFaults
    /\ reusable' = IF kind = "standalone" THEN "standalone"
                   ELSE IF errors THEN "none" ELSE "remote"

-----------------------------------------------------------------------------
(* Tool calls                                                              *)

\* Tools are called one after the other.
MayCall == tool = "idle"

\* A tool that starts, connects or disconnects acts on the session; nothing tells it
\* whether the worker of the last start is still in its except or finally clause.
Acts == early' = (early \/ \E a \in Attempt : worker[a].pc \in EndSteps)

MayStart ==
    /\ MayCall
    /\ client = "none" /\ ~starting /\ ~cleanup /\ ~error /\ ~restart
    /\ reusable # "remote"
    /\ attempt < MaxStarts

Start ==
    /\ MayStart /\ Acts
    /\ attempt' = attempt + 1
    /\ cancelled' = FALSE
    /\ starting' = TRUE
    /\ tool' = "launch"
    /\ UNCHANGED <<client, reusable, cleanup, error, restart, possession, guard, watchdog,
                   worker, ended, connects, retiring>>

\* The record of the start cannot be written.
StartUnrecorded ==
    /\ MayStart /\ Acts
    /\ "persist" \in SessionFaults
    /\ attempt' = attempt + 1
    /\ cancelled' = FALSE
    /\ error' = TRUE
    /\ Release
    /\ UNCHANGED <<client, reusable, starting, cleanup, restart, guard, watchdog, worker, tool,
                   ended, connects, retiring>>

\* The two timers are made without the lock.
Launch ==
    /\ tool = "launch"
    /\ worker' = [worker EXCEPT ![attempt].pc = "grace"]
    /\ tool' = "arm"
    /\ UNCHANGED <<session, possession, guard, watchdog, ended, connects, retiring, early>>

Arm ==
    /\ tool = "arm"
    /\ guard' = attempt
    /\ watchdog' = [watchdog EXCEPT ![attempt] = "armed"]
    /\ tool' = "idle"
    /\ UNCHANGED <<session, possession, worker, ended, connects, retiring, early>>

\* A client under construction cannot be interrupted: it is marked.
DisconnectLater ==
    /\ MayCall
    /\ client = "none" /\ (starting \/ cleanup)
    /\ cancelled' = TRUE
    /\ ended' = IF starting THEN ended \cup {attempt} ELSE ended
    /\ UNCHANGED <<client, reusable, starting, cleanup, error, restart, attempt, possession,
                   guard, watchdog, worker, tool, connects, retiring, early>>

Disconnect ==
    /\ MayCall /\ Acts
    /\ client # "none" \/ ~(starting \/ cleanup)
    /\ error' = FALSE
    /\ IF client = "none"
       THEN Release /\ UNCHANGED <<tool, retiring>>
       ELSE tool' = "retire" /\ retiring' = client /\ UNCHANGED possession
    /\ UNCHANGED <<client, reusable, starting, cancelled, cleanup, restart, attempt, guard,
                   watchdog, worker, ended, connects>>

\* Client and lease are kept for another try when retirement fails.
DisconnectRetire ==
    /\ tool = "retire"
    /\ \E errors \in BOOLEAN :
        /\ Retire(retiring, errors)
        /\ tool' = IF errors THEN "idle" ELSE "drop"
    /\ retiring' = "none"
    /\ UNCHANGED <<client, starting, cancelled, cleanup, error, restart, attempt, possession,
                   guard, watchdog, worker, ended, connects, early>>

DisconnectDrop ==
    /\ tool = "drop"
    /\ client' = "none"
    /\ tool' = "release"
    /\ UNCHANGED <<reusable, starting, cancelled, cleanup, error, restart, attempt, possession,
                   guard, watchdog, worker, ended, connects, retiring, early>>

DisconnectRelease ==
    /\ tool = "release"
    /\ Release
    /\ tool' = "idle"
    /\ UNCHANGED <<session, guard, watchdog, worker, ended, connects, retiring, early>>

\* The lease is free or the process has it already.
Connect ==
    /\ MayCall /\ Acts
    /\ connects < MaxConnects
    /\ connects' = connects + 1
    /\ ~starting /\ ~cleanup /\ client = "none" /\ reusable # "standalone"
    /\ \/ client' = "remote" /\ reusable' = "none" /\ Possess
       \* no client can be made, or one fails to connect and is retired
       \/ /\ (reusable = "none" /\ UNCHANGED reusable) \/ Retire("remote", FALSE)
          /\ owns' \in {FALSE} \cup (IF "release" \in SessionFaults THEN {TRUE} ELSE {})
          /\ hasLease' = owns' /\ refused' = owns'
          /\ UNCHANGED client
       \* it cannot be retired, and stays the client
       \/ Retire("remote", TRUE) /\ client' = "remote" /\ Possess
    /\ UNCHANGED <<starting, cancelled, cleanup, error, restart, attempt, guard, watchdog, worker,
                   tool, ended, retiring>>

-----------------------------------------------------------------------------
(* The watchdog                                                            *)

\* A timer that has expired can no longer be cancelled.
Expire(a) ==
    /\ watchdog[a] = "armed"
    /\ watchdog' = [watchdog EXCEPT ![a] = "expired"]
    /\ UNCHANGED <<session, possession, guard, worker, tool, ended, connects, retiring, early>>

\* Mutant of Timeout: the attempt is over although its client may yet come.
TimeoutUnmarked(a) ==
    /\ watchdog[a] = "expired"
    /\ watchdog' = [watchdog EXCEPT ![a] = "off"]
    /\ IF a = attempt /\ starting
       THEN /\ starting' = FALSE
            /\ error' = TRUE
            /\ ended' = ended \cup {a}
       ELSE UNCHANGED <<starting, error, ended>>
    /\ UNCHANGED <<client, reusable, cancelled, cleanup, restart, attempt, possession, guard,
                   worker, tool, connects, retiring, early>>

\* Mutant of Timeout: the start stays under way until its client comes.
TimeoutUnended(a) ==
    /\ watchdog[a] = "expired"
    /\ watchdog' = [watchdog EXCEPT ![a] = "off"]
    /\ IF a = attempt /\ starting
       THEN /\ cancelled' = TRUE
            /\ cleanup' = TRUE
            /\ error' = TRUE
            /\ ended' = ended \cup {a}
       ELSE UNCHANGED <<cancelled, cleanup, error, ended>>
    /\ UNCHANGED <<client, reusable, starting, restart, attempt, possession, guard, worker, tool,
                   connects, retiring, early>>

Timeout(a) ==
    /\ watchdog[a] = "expired"
    /\ watchdog' = [watchdog EXCEPT ![a] = "off"]
    /\ IF a = attempt /\ starting
       THEN /\ cancelled' = TRUE
            /\ cleanup' = TRUE
            /\ starting' = FALSE
            /\ error' = TRUE
            /\ ended' = ended \cup {a}
       ELSE UNCHANGED <<cancelled, cleanup, starting, error, ended>>
    /\ UNCHANGED <<client, reusable, restart, attempt, possession, guard, worker, tool, connects,
                   retiring, early>>

-----------------------------------------------------------------------------
(* The worker of an attempt                                                *)

At(a, step) == worker[a].pc = step
WorkerGoto(a, step) == worker' = [worker EXCEPT ![a].pc = step]
Elsewhere == UNCHANGED <<guard, watchdog, tool, retiring, ended, early, connects>>

\* An exception: a client is retired first.
Raise(a) ==
    WorkerGoto(a, IF worker[a].client # "none" THEN "retire_failed" ELSE "fail")

\* The record of the startup cannot be written.
Unrecorded(a) == "persist" \in SessionFaults /\ Raise(a)

BeginWork(a) ==
    /\ At(a, "grace")
    /\ \/ worker' = [worker EXCEPT ![a].pc = IF a = attempt THEN "preflight" ELSE "finally",
                                   ![a].client = IF a = attempt THEN reusable ELSE "none"]
       \/ a = attempt /\ Unrecorded(a)
    /\ UNCHANGED <<session, possession>> /\ Elsewhere

Preflight(a) ==
    /\ At(a, "preflight")
    /\ WorkerGoto(a, "check") \/ Raise(a)
    /\ UNCHANGED <<session, possession>> /\ Elsewhere

\* Under the lock a cancellation is noted, or else the phase recorded.
Note(a, to) ==
    /\ \/ cleanup' = (cleanup \/ cancelled) /\ WorkerGoto(a, to)
       \/ ~cancelled /\ Unrecorded(a) /\ UNCHANGED cleanup
    /\ UNCHANGED <<client, reusable, starting, cancelled, error, restart, attempt>> /\ Elsewhere

Check(a) ==
    /\ At(a, "check")
    /\ Note(a, "obey_check")
    /\ UNCHANGED possession

\* The flag is read again without the lock.
Obey(a, from, to) ==
    /\ At(a, from)
    /\ WorkerGoto(a, IF cancelled THEN "finally" ELSE to)
    /\ UNCHANGED <<session, possession>> /\ Elsewhere

Acquire(a) ==
    /\ At(a, "acquire")
    /\ \/ hasLease' = TRUE /\ WorkerGoto(a, "own")
       \/ Raise(a) /\ UNCHANGED hasLease
    /\ UNCHANGED <<session, owns, refused>> /\ Elsewhere

\* The phase is recorded first, and the cancellation noted then.
Own(a) ==
    /\ At(a, "own")
    /\ owns' = TRUE /\ refused' = FALSE
    /\ \/ cleanup' = (cleanup \/ cancelled) /\ WorkerGoto(a, "obey_own")
       \/ Unrecorded(a) /\ UNCHANGED cleanup
    /\ UNCHANGED <<client, reusable, starting, cancelled, error, restart, attempt, hasLease>>
    /\ Elsewhere

\* MPh is loaded; a client the process kept is used again.
Load(a) ==
    LET next == IF worker[a].client # "none" THEN "publish" ELSE "check_construct" IN
    /\ At(a, "load")
    /\ \/ /\ cleanup' = (cleanup \/ cancelled)
          /\ worker' = [worker EXCEPT ![a].pc = IF cancelled THEN "finally" ELSE next,
                                      ![a].loaded = TRUE]
       \/ /\ ~cancelled /\ "persist" \in SessionFaults
          /\ worker' = [worker EXCEPT
                 ![a].pc = IF worker[a].client # "none" THEN "retire_failed" ELSE "fail",
                 ![a].loaded = TRUE]
          /\ UNCHANGED cleanup
    /\ UNCHANGED <<client, reusable, starting, cancelled, error, restart, attempt, possession>>
    /\ Elsewhere

CheckConstruct(a) ==
    /\ At(a, "check_construct")
    /\ Note(a, IF cancelled THEN "finally" ELSE "construct")
    /\ UNCHANGED possession

\* mph.Client
Construct(a) ==
    /\ At(a, "construct")
    /\ worker' = [worker EXCEPT ![a].pc = "publish", ![a].client = "standalone"] \/ Raise(a)
    /\ UNCHANGED <<session, possession>> /\ Elsewhere

\* The client is published before the heartbeat of the lease and the record,
\* which may fail.
Publish(a) ==
    /\ At(a, "publish")
    /\ IF cancelled
       THEN /\ WorkerGoto(a, "finally")
            /\ UNCHANGED <<session, possession>> /\ Elsewhere
       ELSE /\ client' = worker[a].client
            /\ reusable' = "none"
            /\ \/ starting' = FALSE /\ WorkerGoto(a, "finally")
               \/ starting' \in {starting, FALSE} /\ Raise(a)
            /\ UNCHANGED <<cancelled, cleanup, error, restart, attempt, possession>> /\ Elsewhere

RetireFailed(a) ==
    /\ At(a, "retire_failed")
    /\ \E errors \in BOOLEAN :
        /\ Retire(worker[a].client, errors)
        /\ worker' = [worker EXCEPT ![a].pc = "fail", ![a].errors = errors, ![a].retired = TRUE]
    /\ UNCHANGED <<client, starting, cancelled, cleanup, error, restart, attempt, possession>>
    /\ Elsewhere

\* A client that could not be retired stays visible, with its lease.  Without
\* a client the JVM may have been left behind.
Fail(a) ==
    LET w == worker[a] IN
    /\ At(a, "fail")
    /\ client' = IF w.errors THEN w.client ELSE "none"
    /\ cleanup' = w.errors
    /\ restart' \in (IF w.client = "none" /\ w.loaded THEN BOOLEAN ELSE {FALSE})
    /\ error' = TRUE
    /\ starting' = FALSE
    /\ IF w.errors THEN UNCHANGED possession ELSE Release
    /\ worker' = [worker EXCEPT ![a].pc = "finally", ![a].released = ~w.errors /\ owns]
    /\ UNCHANGED <<reusable, cancelled, attempt>> /\ Elsewhere

\* Mutant of AfterFinally: an attempt that made no client releases nothing.
AfterFinallyOfClient(w) ==
    IF cancelled /\ w.client # "none" /\ w.loaded
    THEN IF w.retired THEN "discard" ELSE "retire_cancelled"
    ELSE "done"

AfterFinally(w) ==
    IF cancelled /\ w.client # "none" /\ w.loaded
    THEN IF w.retired THEN "discard" ELSE "retire_cancelled"
    ELSE IF cancelled /\ ~w.released THEN "give_up" ELSE "done"

\* The flags and the watchdog are those of the session, whoever set them.
Finally(a) ==
    /\ At(a, "finally")
    /\ WorkerGoto(a, AfterFinally(worker[a]))
    /\ starting' = (starting /\ cleanup)
    /\ cancelled' = FALSE
    /\ guard' = 0
    /\ watchdog' = IF guard # 0 /\ watchdog[guard] = "armed"
                   THEN [watchdog EXCEPT ![guard] = "off"] ELSE watchdog
    /\ UNCHANGED <<client, reusable, cleanup, error, restart, attempt, possession, tool, ended,
                   connects, retiring, early>>

RetireCancelled(a) ==
    /\ At(a, "retire_cancelled")
    /\ \E errors \in BOOLEAN :
        /\ Retire(worker[a].client, errors)
        /\ worker' = [worker EXCEPT ![a].pc = "discard", ![a].errors = errors, ![a].retired = TRUE]
    /\ UNCHANGED <<client, starting, cancelled, cleanup, error, restart, attempt, possession>>
    /\ Elsewhere

\* Mutant of Discard: the lease is released although the client is there.
DiscardReleasing(a) ==
    LET w == worker[a] IN
    /\ At(a, "discard")
    /\ WorkerGoto(a, "done")
    /\ client' = IF w.errors THEN w.client ELSE "none"
    /\ IF w.released THEN UNCHANGED possession ELSE Release
    /\ cleanup' = (w.errors \/ owns')
    /\ starting' = FALSE
    /\ UNCHANGED <<reusable, cancelled, error, restart, attempt>> /\ Elsewhere

\* The client of a cancelled attempt is gone and the lease released, or the
\* cleanup stays pending.
Discard(a) ==
    LET w == worker[a] IN
    /\ At(a, "discard")
    /\ WorkerGoto(a, "done")
    /\ client' = IF w.errors THEN w.client ELSE "none"
    /\ IF w.errors \/ w.released THEN UNCHANGED possession ELSE Release
    /\ cleanup' = (w.errors \/ owns')
    /\ starting' = FALSE
    /\ UNCHANGED <<reusable, cancelled, error, restart, attempt>> /\ Elsewhere

\* A cancelled attempt that made no client.
GiveUp(a) ==
    /\ At(a, "give_up")
    /\ WorkerGoto(a, "done")
    /\ Release
    /\ cleanup' = owns'
    /\ starting' = FALSE
    /\ UNCHANGED <<client, reusable, cancelled, error, restart, attempt>> /\ Elsewhere

Work(a) ==
    \/ BeginWork(a) \/ Preflight(a) \/ Check(a) \/ Obey(a, "obey_check", "acquire")
    \/ Acquire(a) \/ Own(a) \/ Obey(a, "obey_own", "load") \/ Load(a) \/ CheckConstruct(a)
    \/ Publish(a) \/ RetireFailed(a) \/ Fail(a)
    \/ Finally(a) \/ RetireCancelled(a) \/ Discard(a) \/ GiveUp(a)

ToolCall == Start \/ StartUnrecorded \/ DisconnectLater \/ Disconnect \/ Connect
ToolGoesOn == Launch \/ Arm \/ DisconnectRetire \/ DisconnectDrop \/ DisconnectRelease

SessionNext ==
    \/ ToolCall \/ ToolGoesOn
    \/ \E a \in Attempt : Work(a) \/ Construct(a) \/ Expire(a) \/ Timeout(a)

SessionSpec == SessionInit /\ [][SessionNext]_sessionVars

\* Threads are scheduled and timers expire; the constructor may never return.
FairSpec ==
    /\ SessionSpec
    /\ WF_sessionVars(ToolGoesOn)
    /\ \A a \in Attempt : WF_sessionVars(Work(a)) /\ WF_sessionVars(Expire(a) \/ Timeout(a))

=============================================================================
