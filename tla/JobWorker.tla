----------------------------- MODULE JobWorker ------------------------------
(***************************************************************************)
(* The detached worker process of jobs/worker.py (a staged sweep that owns *)
(* its COMSOL client): bind, start, take the solver lease, run the smoke   *)
(* and broad stages, and publish the outcome from the except and finally   *)
(* blocks.  Every read of state.json or control.json that the code makes   *)
(* without the lock is a step of its own, so that the store can move       *)
(* between the read and the locked write that relies on it.                *)
(***************************************************************************)
EXTENDS JobStore

CONSTANT Contained  \* the platform kills a worker's descendants when it exits

ASSUME ContainedAssumption == Contained \in BOOLEAN

VARIABLES
  worker,  \* the worker processes
  lease    \* solver_owner.json: its holder, and whether it records the holder's server

workerVars == <<worker, lease>>

WorkerPCs ==
  {"unborn", "bind", "record_containment", "read_state", "startup_gate",
   "observe_before_startup", "mark_starting", "acquire_lease", "open_client",
   "heartbeat", "stop_before_smoke", "mark_smoke_running", "smoke_sweep",
   "mark_smoke_validated", "mark_running", "broad_sweep", "resource_gate",
   "observe_cancel", "except", "mark_failed", "cleanup", "read_final",
   "publish", "exit", "dead"}

(* seen: the status ReadState saw, until the startup decision uses it.      *)
(* done: owned_completion_count is set.  clean: no cleanup error.          *)
WorkerRecords ==
  [pc: WorkerPCs, attempt: 0..MaxAttempt, seen: Status, done: BOOLEAN,
   clean: BOOLEAN, child: {"none", "alive", "dead"}]

Leases == [holder: Workers \union {None}, server: BOOLEAN]

NoLease == [holder |-> None, server |-> FALSE]

WorkerTypeOK ==
  /\ worker \in [Workers -> WorkerRecords]
  /\ lease \in Leases

(* A process that has not started, or that left nothing but a child.       *)
Idle(pc, child) ==
  [pc |-> pc, attempt |-> 0, seen |-> "submitted", done |-> FALSE, clean |-> TRUE,
   child |-> child]

WorkerInit ==
  /\ worker = [w \in Workers |-> Idle("unborn", "none")]
  /\ lease = NoLease

-----------------------------------------------------------------------------

Alive(w) == worker[w].pc \notin {"unborn", "dead"}

Orphans == {w \in Workers : worker[w].child = "alive"}

(* Mutant of Exited: the containment the worker recorded does not hold.     *)
ExitedUncontained(w) == Idle("dead", worker[w].child)

(* What process exit leaves, however it happens: a contained descendant     *)
(* goes with the worker.                                                   *)
Exited(w) ==
  Idle("dead", IF Contained /\ worker[w].child = "alive" THEN "dead" ELSE worker[w].child)

Becomes(w, record) == worker' = [worker EXCEPT ![w] = record]

Goto(w, pc) == Becomes(w, [worker[w] EXCEPT !.pc = pc])

(* SolverOwnership.preflight and acquire: no lease, not even a stale one,   *)
(* and no solver process outside the caller.                               *)
SolverAvailable == lease.holder = None /\ Orphans = {}

(* bind_worker_identity raises RuntimeError for another worker's job.      *)
Bind(w) ==
  /\ worker[w].pc = "bind"
  /\ LockFree
  /\ \/ /\ MayBind(w)
        /\ BindWorkerIdentity(w)
        /\ Goto(w, "record_containment")
     \/ /\ ~MayBind(w)
        /\ Goto(w, "exit")
        /\ UNCHANGED storeVars
  /\ UNCHANGED lease

(* A patch of a completed job raises.                                      *)
RecordContainment(w) ==
  /\ worker[w].pc = "record_containment"
  /\ LockFree
  /\ \/ /\ status # "completed"
        /\ contained' = Contained
        /\ Goto(w, "read_state")
     \/ /\ status = "completed"
        /\ Goto(w, "exit")
        /\ UNCHANGED contained
  /\ UNCHANGED <<status, attempt, bound, cancel, control, requests, lock, lease>>

ReadState(w) ==
  /\ worker[w].pc = "read_state"
  /\ Becomes(w, [worker[w] EXCEPT !.pc = "startup_gate", !.attempt = attempt, !.seen = status])
  /\ UNCHANGED <<storeVars, lease>>

(* The startup decision: the status is the one read before, the control is *)
(* read now.                                                               *)
StartupGate(w) ==
  /\ worker[w].pc = "startup_gate"
  /\ LET me == worker[w]
         stop == me.seen = "cancel_requested" \/ Targets(me.attempt)
         next == CASE stop -> "observe_before_startup"
                   [] ~stop /\ me.seen = "submitted" -> "mark_starting"
                   [] ~stop /\ me.seen = "starting" -> "acquire_lease"
                   [] OTHER -> "exit"
     IN  Becomes(w, [me EXCEPT !.pc = next, !.seen = "submitted"])
  /\ UNCHANGED <<storeVars, lease>>

ObserveBeforeStartup(w) ==
  /\ worker[w].pc = "observe_before_startup"
  /\ LockFree
  /\ RecordCooperativeCancelObserved(worker[w].attempt)
  /\ Goto(w, "exit")
  /\ UNCHANGED lease

(* A status write from step "from": the transition is legal and the worker *)
(* goes on, or update_state raises ValueError and it goes to "refused".    *)
Advance(w, from, new, next, refused) ==
  /\ worker[w].pc = from
  /\ LockFree
  /\ \/ /\ MayBecome(new)
        /\ SetStatus(new)
        /\ \E pc \in next : Goto(w, pc)
     \/ /\ ~MayBecome(new)
        /\ Goto(w, refused)
        /\ UNCHANGED storeVars
  /\ UNCHANGED lease

MarkStarting(w) == Advance(w, "mark_starting", "starting", {"acquire_lease"}, "exit")

(* Inside the try block: any failure (source changed, preflight, refused    *)
(* claim) is an exception.                                                 *)
AcquireLease(w) ==
  /\ worker[w].pc = "acquire_lease"
  /\ \/ /\ SolverAvailable
        /\ lease' = [holder |-> w, server |-> FALSE]
        /\ Goto(w, "open_client")
     \/ /\ Goto(w, "except")
        /\ UNCHANGED lease
  /\ UNCHANGED storeVars

(* mph.Client: the solver may run as a descendant process.                 *)
OpenClient(w) ==
  /\ worker[w].pc = "open_client"
  /\ \E child \in {"none", "alive"}, pc \in {"heartbeat", "except"} :
       Becomes(w, [worker[w] EXCEPT !.pc = pc, !.child = child])
  /\ UNCHANGED <<storeVars, lease>>

(* heartbeat(refresh_server_processes=True), then the model load           *)
Heartbeat(w) ==
  /\ worker[w].pc = "heartbeat"
  /\ \/ /\ lease.holder = w
        /\ lease' = [lease EXCEPT !.server = worker[w].child = "alive"]
        /\ \E pc \in {"stop_before_smoke", "except"} : Goto(w, pc)
     \/ /\ Goto(w, "except")
        /\ UNCHANGED lease
  /\ UNCHANGED storeVars

(* should_stop() reads only control.json.                                  *)
StopBeforeSmoke(w) ==
  /\ worker[w].pc = "stop_before_smoke"
  /\ Goto(w, IF Targets(worker[w].attempt) THEN "observe_cancel" ELSE "mark_smoke_running")
  /\ UNCHANGED <<storeVars, lease>>

MarkSmokeRunning(w) ==
  Advance(w, "mark_smoke_running", "smoke_running", {"smoke_sweep"}, "except")

(* A sweep stage ends because should_stop() is true, or with success, a    *)
(* resource stop or a failure.                                             *)
SmokeSweep(w) ==
  /\ worker[w].pc = "smoke_sweep"
  /\ IF Targets(worker[w].attempt)
     THEN Goto(w, "observe_cancel")
     ELSE \E pc \in {"mark_smoke_validated", "resource_gate", "except"} : Goto(w, pc)
  /\ UNCHANGED <<storeVars, lease>>

(* The smoke rows may already be all the rows there are.                   *)
MarkSmokeValidated(w) ==
  /\ worker[w].pc = "mark_smoke_validated"
  /\ LockFree
  /\ \/ /\ MayBecome("smoke_validated")
        /\ SetStatus("smoke_validated")
        /\ \E all \in BOOLEAN :
             Becomes(w, [worker[w] EXCEPT !.pc = IF all THEN "cleanup" ELSE "mark_running",
                                          !.done = all])
     \/ /\ ~MayBecome("smoke_validated")
        /\ Goto(w, "except")
        /\ UNCHANGED storeVars
  /\ UNCHANGED lease

MarkRunning(w) == Advance(w, "mark_running", "running", {"broad_sweep"}, "except")

BroadSweep(w) ==
  /\ worker[w].pc = "broad_sweep"
  /\ IF Targets(worker[w].attempt)
     THEN Goto(w, "observe_cancel")
     ELSE \/ Becomes(w, [worker[w] EXCEPT !.pc = "cleanup", !.done = TRUE])
          \/ \E pc \in {"resource_gate", "except"} : Goto(w, pc)
  /\ UNCHANGED <<storeVars, lease>>

(* _resource_gate_stop *)
ResourceGateStop(w) == Advance(w, "resource_gate", "interrupted", {"cleanup"}, "except")

ObserveCancel(w) ==
  /\ worker[w].pc = "observe_cancel"
  /\ LockFree
  /\ RecordCooperativeCancelObserved(worker[w].attempt)
  /\ Goto(w, "cleanup")
  /\ UNCHANGED lease

(* The except branch chooses from a status it reads without the lock.      *)
Except(w) ==
  /\ worker[w].pc = "except"
  /\ Goto(w, CASE status = "cancel_requested" -> "observe_cancel"
               [] status \in {"cancelling", "completed", "interrupted"} -> "cleanup"
               [] OTHER -> "mark_failed")
  /\ UNCHANGED <<storeVars, lease>>

(* A refused write raises ValueError through the finally block; run() then *)
(* at most adds evidence, so nothing but the exit is left of it.           *)
MarkFailed(w) == Advance(w, "mark_failed", "failed", {"cleanup"}, "cleanup")

(* The finally block: close the client, release the lease if it is ours.   *)
(* Only a finished sweep has an outcome left to publish; otherwise the      *)
(* final write is a patch of cleanup evidence.                             *)
Cleanup(w) ==
  /\ worker[w].pc = "cleanup"
  /\ \E closed, released, clean \in BOOLEAN :
       /\ clean /\ lease.holder = w => released
       /\ Becomes(w, [worker[w] EXCEPT
                         !.pc = IF worker[w].done THEN "read_final" ELSE "exit",
                         !.clean = worker[w].done => clean,
                         !.child = IF closed /\ @ = "alive" THEN "dead" ELSE @])
       /\ lease' = IF released /\ lease.holder = w THEN NoLease ELSE lease
  /\ UNCHANGED storeVars

(* The status that decides whether to publish is read without the lock.    *)
ReadFinal(w) ==
  /\ worker[w].pc = "read_final"
  /\ Goto(w, IF status \in CANCELLING_STATES THEN "exit" ELSE "publish")
  /\ UNCHANGED <<storeVars, lease>>

(* Mutant of Publish: a cleanup error does not change the outcome.         *)
PublishUnclean(w) ==
  /\ worker[w].pc = "publish"
  /\ LockFree
  /\ \/ /\ status # "completed" /\ MayBecome("completed")
        /\ SetStatus("completed")
     \/ /\ status = "completed" \/ ~MayBecome("completed")
        /\ UNCHANGED storeVars
  /\ Goto(w, "exit")
  /\ UNCHANGED lease

(* A completed job refuses even the patch.                                 *)
Publish(w) ==
  /\ worker[w].pc = "publish"
  /\ LockFree
  /\ LET outcome == IF worker[w].clean THEN "completed" ELSE "failed"
     IN  \/ /\ status # "completed" /\ MayBecome(outcome)
            /\ SetStatus(outcome)
         \/ /\ status = "completed" \/ ~MayBecome(outcome)
            /\ UNCHANGED storeVars
  /\ Goto(w, "exit")
  /\ UNCHANGED lease

Exit(w) ==
  /\ worker[w].pc = "exit"
  /\ Becomes(w, Exited(w))
  /\ UNCHANGED <<storeVars, lease>>

WorkerStep(w) ==
  \/ Bind(w) \/ RecordContainment(w) \/ ReadState(w) \/ StartupGate(w)
  \/ ObserveBeforeStartup(w) \/ MarkStarting(w) \/ AcquireLease(w) \/ OpenClient(w)
  \/ Heartbeat(w) \/ StopBeforeSmoke(w) \/ MarkSmokeRunning(w) \/ SmokeSweep(w)
  \/ MarkSmokeValidated(w) \/ MarkRunning(w) \/ BroadSweep(w) \/ ResourceGateStop(w)
  \/ ObserveCancel(w) \/ Except(w) \/ MarkFailed(w) \/ Cleanup(w) \/ ReadFinal(w)
  \/ Publish(w) \/ Exit(w)

(* The operating system or a user kills the worker at any point.           *)
WorkerKilled(w) ==
  /\ Alive(w)
  /\ Becomes(w, Exited(w))
  /\ UNCHANGED <<storeVars, lease>>

=============================================================================
