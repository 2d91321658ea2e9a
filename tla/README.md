# COMSOL MCP in TLA+: durable jobs, locks, leases and sessions

Models, model-checking runs and proofs for the concurrent core of the COMSOL
Multiphysics MCP server (`src/comsol_mcp`). The repository is Python; line
numbers below refer to its sources.

## 1. The system

An MCP server answers tool calls of an assistant and drives COMSOL. Long solves
are *durable jobs*: a directory of files, a detached worker process, and, when
someone cancels, a detached coordinator process. Several servers may work on the
same job root. Nothing is shared but files, and any process may be killed.

| Component | State it keeps | Operations | Talks to |
| --- | --- | --- | --- |
| Job store (`jobs/store.py`) | `state.json`, `control.json`, journals, per job | create, bind, update_state, request_cancel, cooperative observation, write_control | every process, under `JobLock` |
| Job lock (`jobs/store.py` 188-394) | guards, lock file with owner identity | acquire, stale recovery, release | all writers |
| Worker (`jobs/worker.py`) | COMSOL client, outcome so far | bind, start, lease, smoke and broad sweeps, publish | store, lease, COMSOL |
| Cancellation coordinator (`jobs/cancel_worker.py`) | its copy of the evidence | claim, checkpoint, capture, signal, verify, commit, block | store, worker process, lease |
| Process control (`jobs/process_control.py`) | none | inspect, capture, contain, terminate exactly, verify absence | the operating system |
| Job manager (`jobs/manager.py`) | launch marker, request records, duplicate index | submit, launch, resume, cancel, status, reconcile | store, all processes |
| Solver lease (`tools/ownership.py`) | `solver_owner.json` | preflight, acquire, heartbeat, release, recover | worker, coordinator, operator |
| Operation arbiter (`operation_arbiter.py`) | `operation.lock`, one thread lock per server | try_acquire, release, inspect | every COMSOL-bound tool call, `durable/io.py` |
| Asynchronous solver (`async_handler/solver.py`) | status, callback, cancel flag, thread and launch gate of one run | start_solve, cancel, wait, reset, the callback | its thread, the callers' callbacks, COMSOL |
| Interactive session (`tools/session.py`) | client, reusable client, start attempt, possession of the lease | start, disconnect, reset, connect; a worker thread and a watchdog timer | solver lease, MPh |
| Native wall watchdog (`jobs/native_wall_watchdog.py`) | `wall-watchdog.json`: the attempt that is watched and what became of it | arm, await, fire, record | manager, worker, store |
| Shared session (`shared_session/lifecycle.py`) | client and lease of an attached server, adopted model, its lock, receipts | attach, adopt, lock, unlock, detach, handoff, reclaim | solver lease, COMSOL, `job_submit` |
| Attached submission (`tools/jobs.py`, `jobs/manager.py` 1130-1312) | request binding, in-flight guard | reserve, hand over, record, submit, reclaim | shared session, manager |
| Operation ledger, resource admission, tasks bridge | see PROJECT.json | append-only decisions; admission; task records | tools |
| Tools, evidence, adapters, contracts, knowledge, surrogate, GUI, launcher, bridge | files and COMSOL models | validation, numerics, user interface | not control logic |

Tool calls that may touch COMSOL are serialized by the operation arbiter: a file
that a call creates exclusively, writes, reads back, and removes by content. Every
locked section of the job core is under a `JobLock`: an in-process guard, a lock of the
operating system, and a file that names its owner. The solver itself belongs to one
process at a time, the one the solver lease names; workers and the interactive session
both take it.

What makes this hard:

- *Interleaving.* The store is atomic per locked section, but `worker.py` decides
  from reads outside the lock (752, 891), and `request_cancel` and `resume` each
  replace two files in an order readers can see.
- *Attempts.* `resume` starts a new attempt while a worker or a coordinator of
  the old one may still run. Only some writes are tied to an attempt.
- *Crashes.* Servers, workers and coordinators die between any two steps; a
  coordinator is replaced and continues from the persisted phase.
- *Proof of absence.* "cancelled" must mean that worker, descendants and lease
  are gone although processes start children and inspections can be inconclusive.
- *Liveness.* Cancellation is driven by processes nobody waits for.
- *Files as locks.* The arbiter's file exists before it is written, is judged by
  callers that read it at different times, and is removed by name (POSIX) or by
  handle (Windows), where an open handle of anybody may refuse a removal. The job lock
  and the solver lease are created and then written too, and are recovered from owners
  that died in between.
- *Retries.* A submit whose answer was lost is sent again, perhaps to another server,
  while the first is still at work or has died anywhere.
- *Calls that never return.* `mph.Client()` may block for ever; a start is cancelled or
  times out beside it, and its client appears later.
- *Handing over.* `job_submit` gives a shared model from a session to a worker by giving up
  the lease, which it cannot do twice; a retry continues from receipts.
- *Callbacks.* The asynchronous solver calls its client back from two threads, and the
  client may call the solver from there.

Properties that make each component correct: the store keeps its two files
telling one story and an attempt cancellable; the worker completes only its own
attempt and with the solver released; at most one coordinator acts and what it
commits is true; the manager never launches a second worker next to a pending
one, notices a dead worker and drives every cancellation; the arbiter lets one call
run at a time, answers at once, and gets the lock of a dead server out of the way; the
job lock excludes, is never taken from the living and always from the dead; a request
makes one job that is launched once, and every answer names it; the solver lease is
granted to one process, and only when no other solver runs; a cancel of an asynchronous
solve stops that solve and no other, and nothing waits for ever; the session has the
lease as long as it may have a client, and no longer; a shared model belongs to a session or
to a job, and one that was handed over gets its job; a native run has a watchdog, which stops it in
time and nobody else.

## 2. Modules

| Module | Models | Extends |
| --- | --- | --- |
| `JobStates` | status sets and `TRANSITIONS` | |
| `JobStore` | the two files and each locked operation | `JobStates` |
| `JobWorker` | the worker from bind to exit, the solver lease, its child process | `JobStore` |
| `CancelWorker` | the coordinator | `JobWorker` |
| `JobManager` | server calls: launch, resume, cancel, poll, reconcile, restart | `CancelWorker` |
| `DurableJob` | composition, kills, fairness, properties | `JobManager` |
| `JobLifecycle` | abstract specification of status, attempt and authorization | `JobStates` |
| `CancelInvariant` | the inductive invariant `CancelInv` | `DurableJob` |
| `AttemptInvariant` | the inductive invariants of what relates attempts, `AttemptInv` first | `CancelInvariant` |
| `MCDurableJob` | symmetry for TLC | `AttemptInvariant` |
| `DurableJobProofs` | the proofs of the job core | `AttemptInvariant` |
| `ClaimFile` | a file created exclusively, read, and removed by content, with the sharing rules of Windows and POSIX | |
| `OperationArbiter` | acquisition, tool call, release, status reader, kills | `ClaimFile` |
| `OperationArbiterProperties` | its properties and the inductive invariant `ArbiterInv` | `OperationArbiter` |
| `MCOperationArbiter` | its instances, symmetry and view for TLC | `OperationArbiterProperties` |
| `OperationArbiterProofs` | the proofs of the arbiter | `OperationArbiterProperties` |
| `AtomicLock` | abstract specification: one holder, released by it or by its death | |
| `JobLock`, `JobLockProperties`, `MCJobLock`, `JobLockProofs` | acquire and release of `JobLock`; implements `AtomicLock` | |
| `RequestBinding`, `RequestBindingProperties`, `MCRequestBinding`, `RequestBindingProofs` | `submit` with request records, launch marker and duplicate index; the inductive invariant `SubmitInv` | `JobStates` |
| `SolverLease`, `SolverLeaseProperties`, `MCSolverLease`, `SolverLeaseProofs` | `solver_owner.json` between several processes; implements `AtomicLock`; the proofs are those of the lease and of the session | |
| `SolveSlot` | abstract specification: one run at a time, which ends once | |
| `AsyncSolver`, `AsyncSolverProperties`, `MCAsyncSolver`, `AsyncSolverProofs` | the asynchronous solver; implements `SolveSlot` | |
| `SessionStart`, `SessionStartProperties`, `MCSessionStart` | start, disconnect, reset and connect of a session; the inductive invariant `StartInv`, proved in `SolverLeaseProofs` | |
| `AttachedHandoff`, `AttachedHandoffProperties`, `MCAttachedHandoff`, `AttachedHandoffProofs` | shared sessions of several servers, and the submission of a job from one | |
| `WallWatchdog`, `WallWatchdogProperties`, `MCWallWatchdog`, `WallWatchdogProofs` | arming, watchdog and start of a native attempt, against resumes and cancellations | |

State of the job core. `status`, `attempt`, `bound`, `contained`, `cancel` are fields of
`state.json`, `control` is `control.json`; a process identity (pid, creation time,
command signature) is a model value, never reused, which is what the exact
identity is for. A request id is a number (`uuid4` in the code). `target = 0`
stands for no request. `lock` is set only between the two writes of a two-file
operation: every other locked section is one step. `worker[w]`, `coordinator[c]`
and `mgr[m]` hold a program counter and the locals that survive a step;
`lease` is `solver_owner.json` with its holder and whether the holder's server
process is recorded in it; `marker` is the launch marker.

State of the arbiter. `path` is the file that `operation.lock` names. A file is a
model value: one inode with the payload of the call that made it (`maker`), which no
other payload equals because of its `uuid4`; `text` is how much of it is written.
`file[c]` are the bytes a call writes, claims or wants removed, `fd[c]` what it has
open, `why[c]` why it removes, `kept[c]` the inode in its quarantine directory;
`guard[p]` is `_thread_lock` of a server. `doomed` (Windows) are files whose deletion
waits for their handles, `retained` (POSIX) those left in a quarantine directory.

How they fit together. `JobStore` and `RequestBinding` take a locked section as one step
or as a lock variable: `JobLock` is shown to implement that lock. `JobWorker` and
`CancelWorker` take the lease as held by one owner and freed by verified recovery;
`SessionStart` as a Boolean that is true from a granted acquisition to an accepted
release: `SolverLease` is shown to implement an atomic lock. `AttachedHandoff` takes lease and
`.submit.lock` the same way. `RequestBinding` ends where
`DurableJob` begins, with a worker that is launched and bound.

State of the lock and the lease. `file` is the lock file with its maker and whether its
text is whole; `processGuard`, `osGuard` the two guards; `late[t]` that the deadline of a
call has passed; `stuck` that a removal was refused for two seconds. `lease` is the
process that the file names, or "absent", or "unreadable"; `mine` the processes that were
told they own it; `overlap[p]` (history) the servers that have run ever since `p` wrote it.

State of a submission. `record[r]` is the binding of a request, `index` the duplicate
index, `job[j]` the directory, worker and launch marker of a job, with two pieces of
history: how often it was launched (`launches`) and for which request (`origin`);
`told[r]` are the jobs that clients of the request were told of. A caller is a thread of a
server of its own.

State of the asynchronous solver. `solver` is the fields of the object; `work[r]` the
step of the thread of a run; `stack[t]` what a thread has still to do for the calls it is
in: a callback pushes the calls it makes, so a callback that cancels, waits or starts
again is one on top of the other. `asked`, `heard`, `outcome` are history.

State of the session. `worker[a]` is the thread of a start attempt with its locals,
`watchdog[a]` its timer, `tool` the step of the one tool call under way; `hasLease` whether the
process has the lease, `owns` whether it believes so, `refused` that a release was refused;
`retiring` is the client that a disconnect has taken and is about to retire. `early` is history: a
tool has started, connected or disconnected while a worker was in its `except` or `finally` clause.

State of the shared sessions. `session[s]` is the `SharedSessionManager` of a server;
`record`, `guard` and `stored` are the files of a request: its binding, who works on it, and
the receipts, named by model lock; `call[s]` is the `job_submit` that a server is in and what
the connection or detach under way is for; `job[r]` the job of the id reserved for `r`.

State of the wall budget. `server[a]`, `worker[a]` and `watchdog[a]` are the processes of attempt `a`,
which may outlive it; `record` is `wall-watchdog.json`; `note[a]` what a watchdog is about to
write, `holder` the one between reading and writing it under the job lock; `late` are the attempts
whose deadline has passed, `lost` those whose watchdog is no longer any use, `disowned` those that a worker
or a server of another attempt has ended. The job is seen as a
watchdog sees it: `status` is active, completed or otherwise ended, `request` the attempt to be cancelled.

Actions. There is one action per read outside the lock, per locked section and
per effect on another process. A `pc` is named for the step it is about to take.
Guards are the code's tests; the branch where the code raises or returns early is
a disjunct of the same action. The definition-to-line table is `map` in
PROJECT.json.

Abstractions:

- A worker has at most one descendant, which stands for all of them; an
  enumeration of a live worker sees it or it does not exist yet, atomically.
- Events, journals, rows, progress, timestamps and budgets are left out; a
  bounded wait is a choice between its two ends.
- The checkpoint that follows a signal repeats the phase already persisted; its
  ownership test is the one of the next checkpoint. A signal takes effect at
  once or never.
- Cleanup of the client and release of the lease are one step. Each may fail.
- `_run`'s `try` body may raise at every call to COMSOL and at every guarded write.
- An inspection answers active or stale truthfully, or, with
  `InspectionMayFail`, "uncertain".
- Arbiter: every system call that another caller can interleave with is a step;
  reading the bytes of an open file is one step. `Faults` names the calls that may
  fail for reasons outside the model; `read` also stands for
  `FileIdentityChangedError` and the size limit. Two partial payloads may or may not
  coincide (`Matches`). A whole lock is always valid, since only the protocol writes
  it: the branches for valid JSON with wrong fields are not reached. A process
  identity is never reused.
- Job lock: an unreadable first read counts as a file that is waited for; the retries of
  a refused removal are one refusal; empty and partial text are one value. Left out:
  errors opening the guard file, lock paths that are not regular files, interrupts.
- Requests: one file per step; the journal of a job and the content of a specification
  are left out, specs are equal or not. Reads and writes of a record do not fail.
- Lease: a server on the host starts and stops at will; a scan sees all of them at once
  or fails; process identities are exact.
- Solver: every run has a callback; what a call does when it has no effect is left out;
  a wait has no timeout. A start may fail at the start of its thread.
- Session: what runs under `_start_lock` is one step; retiring a client is one step that
  may fail; `connect`, which holds the lock throughout, is one step; one tool call at a
  time. `mph.Client()` may block for ever.
- Shared session: one call at a time per server, as `_lock` and the arbiter see to; a lock is
  a number; the arguments of a call are right or it fails; a retry that finds its job is
  answered (`RequestBinding` has what the answer says); a worker runs or does not.
- Wall budget: the two seconds for which a worker and a watchdog wait may end at any time, except that a
  server that has seen the watchdog start is too slow only by a fault. The specification is immutable, so
  the outcomes for a wrong budget are not reached. The events are left out.

## 3. What TLC checks

Sizes are distinct states. `CHECK_DEADLOCK FALSE` everywhere because a job comes
to rest: after a terminal status nobody has to act.

| Run | Instance | Checks | States |
| --- | --- | --- | --- |
| `Recovery` | 1 worker, 2 coordinators, 1 server, 2 kills, failed and unidentified launches, inconclusive inspections | `CancelledIsProved`, `NoSurvivor` | 583 thousand |
| `TwoServers` | 2 servers, 2 attempts, 2 workers, 2 coordinators, 1 request | `SolverIsBound`, `OldRequestStopsNoNewWorker`, `RequestCoherent`, `Cancellable`, `CompletedByItsWorker`, `ResumeWaitsForLaunch`, `ImplementsLifecycle` | 708 thousand |
| `Liveness` | 1 kill of anything, 3 coordinators, restarts, polling | `OneCoordinator`, `CancelEnds`, `DeadWorkerNoticed` | 238 thousand |
| `ArbiterWindows` | 3 servers, 3 files, a status reader, failing writes and removals, 1 kill | `MutualExclusion`, `MalformedIsAbandoned` | 253 thousand |
| `ArbiterPosix` | 2 servers, 2 files, failing writes, 1 kill, fair calls | `ClaimSurvives`, `DeadOwnerRecovered` | 66 thousand |
| `JobLock` | 3 threads of 2 servers, every fault, 1 death, fair | `LeftLockIsDead`, `ImplementsAtomicLock`, `AcquireEnds`, `DeadLockRecovered` | 106 thousand |
| `RequestBinding` | 3 callers, 1 request, 2 specs of which 1 indexed, 3 jobs, 1 death, 1 loss of the index | `BindingInv`, `OneLaunchPerRequest`, `AnswersAgree`, `OneJobPerSpec` | 968 thousand |
| `AsyncSolver` | 2 clients, 2 runs, 4 calls, callbacks that call, fair | `CancelIsHeeded`, `EndIsHeard`, `ImplementsSlot`, `AllReturn` | 147 thousand |
| `SolverLease` | 3 processes, 2 servers, every fault, 2 deaths | `GrantedAlone`, `ImplementsAtomicLock` | 4 thousand |
| `SessionStart` | 2 starts, 1 connect, every fault, fair | `SessionInv`, `NothingLeaks`, `EndedStaysEnded`, `StartEnds` | 883 thousand |
| `AttachedHandoff` | 2 servers, 1 request, 2 model locks, 2 faults, 1 death, fair | `OneOwner`, `ReclaimsOnlyUnlaunched`, `HandoffResolves` | 194 thousand |
| `WallWatchdog` | 2 attempts, 2 faults or deaths, fair | `RecordIsTrue`, `CancelsItsOwn`, `DeadlineStops` | 109 thousand |

The inductive invariants `CancelInv`, `AttemptInv`, `ArbiterInv`, `JobLockInv`, `SubmitInv`, `LeaseInv`, `StartInv`, `SolverInv`,
`HandoffInv` and `WatchInv`, and `ClaimIsNamed` and `TakenFromTheDead`, are in no run: TLC agreed with them on these
instances before they were proved (section 4), with `SubmitInv` also on two requests and two callers (1.6 million
states) and `StartInv` with a second connect (1.5 million).

Bounds. Two attempts let an old actor meet a new attempt, and a third adds nothing. A
fourth does: `resume` launches without a marker and its binding is not tied to an attempt, so
a server that pauses between the two may meet an attempt that was opened meanwhile (table
below). The theorems of section 4 say exactly when that is excluded. Two
coordinators are a claimant and its successor, and a kill plus its reconciliation
uses one each: `ServerStarts` keeps as many identities free as kills remain. Two
servers give every pair of calls. `MaxRequest` is one per attempt at most, which
the store enforces; `TwoServers` passes with `MaxRequest = 2` as well (2.8 million states),
which adds a request on each attempt. Processes of a kind are symmetric (nothing compares or chooses
them); the liveness runs use no symmetry.

`SolverIsBound`, `OneCoordinator`, `CompletedByItsWorker`,
`ResumeWaitsForLaunch` and `ImplementsLifecycle` are checked with
`LaunchMayFail = FALSE`: an unidentified worker breaks them (below). `OneCoordinator` also
holds with two servers and inconclusive inspections, and `CancelledIsProved` without containers.
`NoSurvivor` needs `Contained = TRUE`, and `Cancellable` is checked without kills
(both below).

Arbiter bounds. On Windows the races need a caller that owns the lock, one that
removes it and one that takes a freed name: three. On POSIX two callers already move,
restore and retain each other's files; a third is what breaks `MutualExclusion` (below). `Attempts`
is 2 as in the code. A file is created again once nothing refers to it, so the number
of files only bounds how many are referred to at once. The view `Referenced` hides
what unreferenced files held, which no guard reads; `ArbiterPosix`, which checks
liveness, uses neither view nor symmetry.

Lock and lease bounds. Two threads of one server meet at the process guard, a third of
another one at the guard of the operating system and at the file. A lease needs an
owner, one that wants it and one that recovers; two servers are the one asked for and a
foreign one; two deaths are an owner and the process that was recovering it.

Requests: the first caller, a retry beside it, and one that meets what the two left;
three jobs are one for each. A second request id has no relation to the first but through
the specification, which the calls without an id already exercise. Jobs run the states that
`submit` reads: started, failed, removed.

Solver: the second run is what a late step of the first could disturb; four calls let both
clients call and call again from a callback (`MaxDepth` bounds the nesting TLC explores
and is never reached). Session: the second start meets what the first left, and a connect
gives and takes a client between them; the safety properties also hold with a second connect.

Shared sessions: the second server takes over from a first that died or hands over a model of
its own; the second lock is made after the first was handed over; two faults are a call and the
cleanup that follows it. A second request adds the contention of two workers: the three
properties also hold with two requests, one lock and one fault (305 thousand states).

Wall budget: a server, a worker or a watchdog compares attempts with its own only, or, when it ends the
job, with none, so one earlier attempt stands for all; two faults are a failure and a failure of what
handles it.

Fairness. A coordinator process and a server call that has started keep running
unless killed, so each has weak fairness. Workers have none: a solve may never
return, and the coordinator must cope. `Polling` (somebody calls `job_status`)
and the repeated start of a server, which is when `JobManager.__init__` reconciles,
are assumed in `AttendedSpec` only, because the code has no timer of its own:
`DeadWorkerNoticed` needs the first, `CancelEnds` the second; the third item of the list
below shows what its absence means (below). `CancelEnds` allows the outcome `Blocked`: the code deliberately leaves an
unprovable cancellation to an operator.

`FairSpec` of the arbiter says that a call under way goes on unless its process dies,
that a tool returns, and that a refused client asks again, as the `retry_after_ms` of
the reply tells it to. `DeadOwnerRecovered` is claimed on POSIX only. On Windows an
open handle may refuse a removal, so status readers that come and go can keep the lock
of a dead server in place, and the code has no queue.

`FairSpec` of the job lock: a thread goes on unless its process dies, and its deadline
arrives. The inspection of an owner and a removal that are tried again and again succeed
at last (strong fairness): other callers interrupt them, and a fault may hit any single one
of them, but not all. `AsyncSolver`: threads are scheduled, callbacks return (what they
call may wait), a study ends. `SessionStart`: threads are scheduled and timers expire; there
is none for the constructor, and `StartEnds` holds through the watchdog. `AttachedHandoff`: a
call under way goes on, and a client that heard no answer asks again and is heard at last
(strong fairness, since a server is busy at times); workers have no fairness. `WallWatchdog`: servers and
watchdogs go on, and a cancellation that was asked for comes to an end, which is `CancelEnds` of the job
core; a native run does not.

Nothing tells a tool that the worker of the last start is still in its `except` or `finally`
clause, and the model lets tools in there as the code does. What may follow, the code does not
prevent: `Finally` resets the flag and the watchdog of whichever start has them by then, and a
disconnect frees the lease under a client that the worker is retiring (below). `early` becomes true
at the first start, connect or disconnect in these clauses, and the properties of the session are claimed until
then. Nothing else is excused: whatever comes while the client is on its way, a
disconnect that only marks an ended start, and the steps of workers and timers in any order.

### Disagreements between code and text

`HeldUntilRetired` as an invariant of `SessionStart`, which needs no fault: while the worker of
a cancelled start retires its client, `_starting` is already false (`session.py` 767). A second
disconnect, or a reset, then finds no client, no start and no pending cleanup and frees the lease
(965-966) under a client that is still alive, against `DEPLOYMENT.md` 404-406. In the same window a
new start or connect is accepted.

`TouchesItsOwn`, with no fault in `WallWatchdog`: a server writes `wall-watchdog.json` without the
job lock (`manager.py` 1692, 1740). The watchdog of the attempt before, under the lock, reads its
own record and then writes its outcome (`native_wall_watchdog.py` 98-108) over the one that was
armed in between, against `test_native_wall_watchdog.py` 94 and 242-244.

These two and the others are visible by changing a passing configuration; the properties
are defined in the modules.

| Change | What it shows |
| --- | --- |
| `CancellationOwnsOutcome` added to `Recovery` | A worker that read the status before a request was accepted fails the job over the cancellation (`worker.py` 752, 765; comment at `manager.py` 2184). |
| `MaxFaults = 1`, `Killable = {"server"}` in `TwoServers` | `Cancellable` fails: a crash between `manager.py` 2099 and 2100 leaves an attempt no cancel reaches (`store.py` 542-550). |
| `FairSpec` for `AttendedSpec` in `Liveness` | `CancelEnds` fails: a request repeated after a crash is accepted but nothing drives it until a server starts (`manager.py` 1781). |
| `MaxAttempt = 4` with four workers, two servers, no request and no fault in `TwoServers` | `SolverIsBound`, `CompletedByItsWorker` and `ResumeWaitsForLaunch` fail: `resume` keeps no launch marker between `_launch_worker` and `bind_worker_identity` (`manager.py` 2108-2111; `submit` does), and the binding is not fenced by the attempt (`store.py` 450-482). A server that pauses there while its worker binds itself, fails, and two more attempts are opened binds that dead worker to the newest one. |
| `Contained = FALSE` in `Recovery` | `NoSurvivor` fails: a child that a worker without a process container starts after the only live capture outlives "cancelled" (`cancel_worker.py` 631). |
| `LaunchMayFail = TRUE` in `TwoServers` | `ResumeWaitsForLaunch` fails: a worker that is not identified in two seconds keeps running while its job is failed and resumed (`manager.py` 1652). `OneCoordinator` added to `Recovery`, which has such launches, fails too. |
| `MutualExclusion` added to `ArbiterPosix`, with three callers and three files | POSIX: a removal renames a file it did not compare; the name of a live lock is free until it is linked back, and two calls run (`durable/io.py` 430; `operation_arbiter.py` 73). |
| `MalformedIsAbandoned` added to `ArbiterPosix` | The empty file of a call that is acquiring is removed as malformed (`operation_arbiter.py` 215, against the comment at 228). |
| `ActiveIsOwned` added to `ArbiterWindows` | A release or read-back that meets another handle gives up, and the lock names a live process with no operation (`operation_arbiter.py` 296, 340; answer at 475). |
| `OrphanIsUnbound` added to `RequestBinding` | A replay waits for the submit lock and then tests the state it read before (`manager.py` 1045-1049): a worker bound meanwhile is answered as an orphan and its job is interrupted. |
| `WaitsForOthers` added to `RequestBinding` | `_bind_request_under_lock` calls `_request_job_replay` while it has `.submit.lock`, which asks for that lock again (`manager.py` 1018, 1371): the call waits thirty seconds for itself and answers that a launch is in flight. |
| `EveryHandoffResolves` added to `AttachedHandoff` | The guard of a request is armed again outside the `try` that disarms it, and a failed removal of it is ignored (`tools/jobs.py` 277, `manager.py` 1152): it then names a live server, every retry is "in flight", and the job is not made until that server ends. |
| `SubmitsDetached` added to `AttachedHandoff` | After a failed submit the session is reclaimed and told to lock the model "before further mutation or execution" (`lifecycle.py` 1347); the same request sent again uses the old receipt and publishes a job that cannot have the lease, because this session has it. |
| `OneJobPerHandoff` added to `AttachedHandoff`, with two requests | A receipt is found by its lock, not by its request: a second request id with the same lock gets a job too. |
| `PendingIsInert` added to `AttachedHandoff` | A failed attach may retain its client until it is cleaned up; `adopt_model` and `lock_model` accept it (`lifecycle.py` 737, 778). |
| `NativeIsWatched` added to `WallWatchdog` | A watchdog that finds the record overwritten by a server or a watchdog of an earlier attempt gives up after two seconds (`native_wall_watchdog.py` 146), while its worker, which has read the record before, runs natively; nothing enforces its budget. |
| `DeadlineAlwaysStops` for `DeadlineStops` in `WallWatchdog` | One fault: a launch fails although its worker runs, and the job is resumed. The first worker is refused by the record of the second (`native_wall_watchdog.py` 74) and fails the job, whose attempt nobody compares (`validation_worker.py` 384-403, `store.py` 779-804). The second watchdog meets an ended job and leaves (193-202); the second worker runs natively past its budget, and a cancel is refused because the job has ended. |
| `EveryEndIsHeard` added to `AsyncSolver` | A start that fails clears the callback of a cancelled run that has not announced its end (`solver.py` 216). |

`SessionStart` leaves two more out of its properties. *StuckCleanup*: when the retirement at the
end of a start fails, a disconnect may repeat it and succeed, but nothing resets
`_start_cleanup_pending` (`session.py` 936-1034), so every later start is refused, although
the answer says "retained for a cleanup retry" (982-983). `NothingLeaks` therefore accepts a
pending cleanup. *LeftBehind*: a client kept from before that cannot be retired when a start
fails early is shown as the client without a lease, and `LeaseCoversClient` excepts it.
`HandoffResolves` starts at the receipt: a server that dies between the detach and the receipt, or
that cannot verify the preservation, leaves a request no retry can complete (`lifecycle.py` 1111-1139).

## 4. What is proved

For every value of the constants, under the named assumptions on them
(`BoundsAssumption`, `IdentityAssumption`, `ContainedAssumption`,
`InspectionAssumption`, `LaunchAssumption`, `FaultAssumption`: the bounds are
naturals, the flags Booleans, `None` is no process, and a worker is not a
coordinator):

- `InvariantHolds`: `Spec => []CancelInv`
- `TypeCorrect`: `Spec => []TypeOK`
- `CancelledProved`: `Spec => []CancelledIsProved`

They cover launch failures, inconclusive inspections, missing containment and any
number of kills, servers and attempts.

Why `CancelledIsProved` is not inductive: it speaks of `cancelled` only, and must
be re-established at the commit from what was seen earlier at `verify`. Between
the two the coordinator can lose its claim, the files can be written by a late
server and the attempt can be resumed. `CancelInv` adds:

- `IdentitiesBorn`: a recorded identity has been launched, so a dead one cannot
  start (identities are never reused);
- `RequestsIssued`, `TargetsAgree`: ids are fresh, so a coordinator whose id is in
  `control.json` names the same worker as `control.json`;
- `EvidenceOwned`: nobody but the claimant changes the evidence; the stale copies
  a server may write back carry none and put the claim back to nobody;
- `VerifiedStands`: from `verify` to `commit` the worker stays dead, its lease stays
  gone and its captured descendants stay dead;
- `SectionsHeld`: who is between two writes holds the lock.

The first part of `DurableJobProofs` has, for each process, a *shape* lemma (which variables a step
can change and how) and a *keeps* lemma (a step of that shape preserves `CancelInv`).

### The job core across attempts

Each theorem has the hypothesis under which the code keeps the promise; section 3 shows what
happens without it, and each hypothesis is one of the configurations TLC runs.

| Theorem | Hypothesis | Concludes |
| --- | --- | --- |
| `FilesAgree` | no launch fails | `[]RequestCoherent` |
| `NothingSurvives` | `Contained` | `[]NoSurvivor` |
| `AlwaysCancellable` | no server is killed | `[]Cancellable` |
| `AttemptsInOrder` | no launch fails, `ResumeAfterLaunch` | `[](CancelInv /\ AttemptInv)` |
| `SolverBound`, `OneActsPerRequest`, `ResumedWorkerSafe`, `WorkerCompletes`, `ResumeWaits`, `LifecycleImplemented` | no launch fails, `ResumeAfterLaunch` | `[]SolverIsBound`, `[]OneCoordinator`, `[]OldRequestStopsNoNewWorker`, `CompletedByItsWorker`, `ResumeWaitsForLaunch`, `ImplementsLifecycle` |
| `MarkerKeepsResumeAway` | at most two attempts | `ResumeAfterLaunch` |
| `ResumedOnce` | at most two attempts, no launch fails | the six promises above |

`ResumeAfterLaunch` says that no attempt is opened while a server is between the launch of a worker and
the binding of it. `submit` sees to that with its launch marker, `resume` does not. `MarkerKeepsResumeAway`
shows that the hypothesis is no restriction for a job that is resumed once, whatever fails and
whoever is killed, and `ResumedOnce` then states the promises of `Spec` alone. With four attempts it is
false, and so are some of the promises.

None of them is inductive. `SolverIsBound` needs to know that the only worker that works is the one that is
bound, or that the launching server is about to bind (`WorkerIsCurrent`, `LauncherIsAlone`), which holds
because a job is resumed only from a status that no working worker leaves. `OneCoordinator` needs that whoever acts for
the current request has its claim or finds the job over (`ActorsOwnTheClaim`), and that follows from the single
owner of the evidence in `CancelInv`. `OldRequestStopsNoNewWorker` is about what a coordinator remembers: its target was
bound to the attempt of its request, so a newer attempt has retired it (`OldTargetsRetired`,
`ControlIsCurrent`). `CompletedByItsWorker` needs that a sweep that is done has the lease or has released it
(`LeaseIsTheWorkers`, `DoneIsLate`). `NoSurvivor` needs that a contained worker takes its descendants with it (`DeadTakeChildren`),
`Cancellable` that a request of an older attempt is left only inside a resume (`StaleControlHeld`), and
`RequestCoherent` that nothing in the state is a copy made before a failed launch (`NoLaunchError`) and that the
half-made request is still to be made (`RequestOpen`). `LifecycleImplemented` maps every step to a step of
`JobLifecycle` or to a stutter.

For each process an *effect* says which status a step may write and what the process must be to go on; the
actions are shown to have it once, and one lemma per part of the invariant uses only the effect.

### The arbiter

Under `CallerAssumption`, `NoneAssumption`, `PlatformAssumption`, `FaultsAssumption`
and `BoundAssumption`, for any callers, servers, files, faults and kills:

- `ArbiterInvariant`: `Spec => []ArbiterInv`
- `ClaimsSurvive`: `Spec => []ClaimSurvives`
- with `Platform = "nt"`: `WindowsMutualExclusion`, `WindowsClaimIsNamed`,
  `WindowsMalformedIsAbandoned`. On POSIX the first and the last are false
  (section 3), and so is the second.

`MutualExclusion` follows from `ClaimIsNamed`: two claims cannot name one path. That is
inductive only with `Sharing` (an open handle keeps the name bound to its file and
excludes the handles it does not share with), `OwnFiles` (a call publishes and claims
files it made, so two never share one), `Reasons` (a stale removal concerns a file of a
dead process) and `LiveCalls`. On POSIX nothing keeps the name; `SecuredExist` says
instead that from the read-back on the file exists somewhere: a removal of something
else can move it but its second comparison fails. The proof has one lemma per action
and one step per conjunct the action can disturb.

### The job lock

Under `ProcessAssumption`, `NoneAssumption`, `FaultsAssumption` and `BoundAssumption`, for any threads, processes and
faults: `LockInvariant` (`JobLockInv`), `LeftLockDead`, `OnlyTheDeadAreRobbed` and
`LockIsAtomic`, that `JobLock` implements `AtomicLock`. Mutual exclusion is that of the operating system
guard, as long as a thread is inside only with both guards (`GuardsHeld`); the rest is about the file.
`FileKnown` says that the thread behind the guard knows what the file is, since nobody
else changes it, and `FileExplained` why there is a file: its maker is inside, is dead, or was refused the
removal. Both are needed for `LeftLockIsDead`, which is not inductive alone.

### Submission

Under `FamilyAssumption`, `NoneAssumption`, `BoundsAssumption` and `BindingAssumption`, for any callers, requests,
specifications, jobs, deaths and losses of the index: `SubmitInvariant` (`SubmitInv`), `EvidenceIsAhead` (`BindingInv`),
`LaunchedOnce` (`OneLaunchPerRequest`), `OneAnswer` (`AnswersAgree`) and `SpecsAreSubmittedOnce` (`OneJobPerSpec`).

`OneLaunchPerRequest` relates a job to the request it was made for, and a binding that is still "unknown" may leave
its job for a duplicate: `OriginIsBound` says when, `AttemptsDistinct` that two open attempts never share a job and that
none of them was launched, and `OwnsJob` that a caller that will launch has the job for itself. `AnswersAgree` speaks of
jobs that are there. It is inductive only with `ToldIsBound`: what a client was told of is the bound job or is gone
for good (`Gone`: no caller and no binding is left to publish it). `OneJobPerSpec` is decided long before it could
fail, at the search: `SearchStands` says that between a search that found nothing and the new
directory nothing appears, because the lock is held, and `IndexIsTrue` that an entry, rebuilt or
not, names the only job of its specification. `LockedPcs` and `SectionLocked` give the lock its meaning; a retry
that consults its binding without the lock is covered by `FollowsBinding`.

The proof separates *quiet* steps, which neither bind, publish, launch nor remove, from the others. A quiet step
keeps the part of every other caller by one lemma (`BystanderKeeps`); the six others each have to
show what they leave to them (`OthersKeep`).

### The solver lease

Under `NoneAssumption`, `LeaseAssumption` and `DeathsAssumption`: `LeaseInvariant` (`LeaseInv`), `OnlyTheDeadLoseIt`,
`LeaseIsGrantedAlone`, `UnreadableLease` and `LeaseIsALock`. `TakenFromTheDead` needs that what a
process read under the operation lock is still so when it acts (`LockedIsCurrent`), that what it is about to
remove is its own or that of a process that was dead when it looked, and the dead do not return
(`StepsAreFounded`). `overlap` makes `GrantedAlone` provable: it can only shrink after the lease is
written, and the second scan grants the lease only when it is empty.

### The interactive session

Under `BoundsAssumption` of `SessionStart`, for any faults and any numbers of starts and connects, and with no
other hypothesis: `SessionInvariant` (`StartInv`), `OneClient` (`SessionInv`), `NothingIsLeaked` (`NothingLeaks`)
and `EndedNeverPublishes` (`EndedStaysEnded`). They are about every behaviour; what each claims of a state ends
when `early` has become true (section 3). `StartInv` is the types, `LaunchKnown` and, unless `early`, `Undisturbed`,
whose parts follow. The types and `LaunchKnown` are proved of every step alone (`TypesKeep`); the rest, of a step
after which `early` is still false (`SessionStepKeeps`).

`SessionInv` is about the attempts that make a client and is not inductive: a start is accepted on the flags of
the session, never on the threads. `UnderWay` says that the flags tell: a worker that is on its way is
shown as starting or as a pending cleanup, with no client, and `OneWorker` that only the latest attempt has
a worker. `LeaseKnown` and `LocalsTell` are about the worker's locals: one that has loaded MPh has the lease until
it has released it, one that has released it has no client left to retire. `NothingLeaks` is decided at the start of
the `finally` clause and not at its end, so `EndIsReported` says what holds there: the cancellation flag is still
to be obeyed, or the lease is explained. `EndedStaysEnded` needs that nothing clears the mark of an ended attempt
before its last clause (`EndedIsMarked`), which fails if two workers could run. In the proof every step of a
worker is reduced to what the one busy worker owes (`WorkerTells`, `MoveKeeps`), and every tool call but
`DisconnectLater` to a step in which no worker is busy (`IdleKeeps`): the flags put a tool that acts outside the
way of every client (`UnderWay`), and a tool that is not early outside the last clauses too (`CalledAlone`).

### The asynchronous solver

Under `StagesAssumption`, `ThreadAssumption` and `BoundsAssumption`: `SolverInvariant` (`SolverInv`), `CancelHeeded`,
`EndHeard` and `SolverIsASlot`, that `AsyncSolver` implements `SolveSlot`, for any clients and any nesting
of callbacks. `RunningIsCurrent` ties the status to the one live run, `RunsInOrder` says that an
older run has ended before the next began, `FlagIsOfTheRun` that the cancel flag is the current run's, and
`CallbackIsKept` that its callback is stored until it has heard of the end. A stack can be of any
length, so `StacksOK` bounds what its frames may say: only a start that failed drops a callback.

### The attached handoff

Under `IdentityAssumption`, `BoundsAssumption` and `BindingAssumption`, for any servers, requests, locks,
faults and deaths: `HandoffInvariant` (`HandoffInv`), `OneOwnerHolds` and `ReclaimsOnlyUnlaunchedHolds`.
A client is covered by the lease because the lease is taken before the client is made and given back only
where the client has left (`ClientsCovered`). That a session never holds a lock with which a job was
submitted needs more: every evidence that lets a submission go on without its session, the memory, the
file or the binding, is of a lock that no session holds any more (`HandedOver`), which a lock made later
cannot revive, since locks are not made twice (`LocksMade`). `CallsKnown` says that the guard admits one
server to a request, that it knows how far the job is until it launches it, and that nobody reclaims after
that. `AttachedHandoffProofs` has, for the steps that change a part of a session, a call or a binding, a
*shape* lemma, and for each step a *keeps* lemma.

### The wall watchdog

Under `BoundsAssumption`, for any number of attempts and faults, with workers that may fail an attempt that
is not theirs: `WatchInvariant` (`WatchInv`), `RecordTrue`, `NativeWatched` and `CancelsOwn`. `RecordIsTrue` is not inductive: a watchdog decides what to write before
it has the lock, so `NotesAreTrue` says that every note stays so while the job moves forward (`IsTrueOf` is
stable because attempts only grow, an ended attempt stays ended, and only the current attempt is to be
cancelled), and `ArmsStarted` that a server arms what it has started.

Proved and in no run, because other checked properties are close to them: `StealsFromTheDead` (job lock),
`UnreadableIsTorn` (solver lease) and `NativeHadWatchdog` (wall watchdog).

Only model-checked: liveness (fairness and `ENABLED` are outside the prover).

## 5. Not modelled

The reasons are in PROJECT.json per component. Within the modelled ones: the attached
backend of a worker and its preservation proof; attached submissions without a request id, the
refused snapshot and the cap on receipts; the
native cancel call and its evidence; the controlled leaf worker and `test_sequence`, which are
test drivers; schema-v1 controls; resource telemetry and the journal. Around the
arbiter: revision tokens, path policy and the asynchronous wrapper, which take no
lock. Around the lease: the content of a heartbeat, the background inventory of processes, preflight
as a call of its own, child servers. Around the session: the models of a session, their artefacts and
revisions, which one tool call at a time changes, and status reports.

The repository has 122 thousand lines, of which most are the validation of arguments, calls to
COMSOL, physics and numerics, reports and user interfaces: sequential code over data, whose
correctness is not a matter of states and interleavings. The modules cover the
concurrent core, a small share of all lines.

## 6. Plan

1. Done: job core, operation arbiter, job lock, request binding, solver lease, asynchronous
   solver, session start, shared session and attached submission, native wall watchdog.
2. Done: every safety property that a run checks is a theorem, under the hypotheses of section 4.
3. `OperationLedger` and JSONL tail recovery as functions over bounded inputs.
4. Resource admission with its bounded journal; the tasks bridge; the attached backend of a worker.
