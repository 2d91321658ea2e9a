----------------------------- MODULE JobManager -----------------------------
(***************************************************************************)
(* The server side of one durable job (jobs/manager.py): the launch that   *)
(* submit and resume share, cancel with its coordinator launch, status     *)
(* polling, and the reconciliation every new JobManager runs.  Several     *)
(* servers may hold a JobManager on the same root; each is a member of     *)
(* Managers and runs one call at a time.                                   *)
(***************************************************************************)
EXTENDS CancelWorker

CONSTANT LaunchMayFail  \* Popen may fail, or the new process miss the identity deadline

ASSUME LaunchAssumption == LaunchMayFail \in BOOLEAN

VARIABLES
  mgr,    \* the managers
  marker  \* launch-in-progress.json: the manager that owns the launch, or None

managerVars == <<mgr, marker>>

ManagerPCs ==
  {"idle", "boot", "launch", "bind", "launch_failed", "resume_state",
   "resume_control", "cancel_state", "launch_coordinator",
   "coordinator_launch_failed", "clear_launch_error"}

(* w: the worker it launched.  rid: the request it answers.                *)
(* snap: state.cancel as request_cancel returned it.                       *)
ManagerRecords ==
  [pc: ManagerPCs, w: Workers \union {None}, rid: 0..MaxRequest, snap: CancelRecords]

ManagerTypeOK ==
  /\ mgr \in [Managers -> ManagerRecords]
  /\ marker \in Managers \union {None}

NoCall(pc) == [pc |-> pc, w |-> None, rid |-> 0, snap |-> NoCancel]

(* submit has published the job and its launch marker under the submit     *)
(* lock; one manager is about to launch the worker.                        *)
ManagerInit ==
  \E m \in Managers :
    /\ marker = m
    /\ mgr = [n \in Managers |-> NoCall(IF n = m THEN "launch" ELSE "idle")]

-----------------------------------------------------------------------------

ManagerGoto(m, pc) == mgr' = [mgr EXCEPT ![m].pc = pc]

Returns(m) == mgr' = [mgr EXCEPT ![m] = NoCall("idle")]

(* submit's finally block removes its marker; resume has none.             *)
ClearMarker(m) == marker' = IF marker = m THEN None ELSE marker

(* _launch_worker: no process; or a process that is, or is not, identified *)
(* within the deadline (an unidentified one keeps running).                *)
Launch(m) ==
  /\ mgr[m].pc = "launch"
  /\ \/ /\ LaunchMayFail
        /\ ManagerGoto(m, "launch_failed")
        /\ ClearMarker(m)
        /\ UNCHANGED worker
     \/ \E w \in Workers :
          /\ worker[w].pc = "unborn"
          /\ Goto(w, "bind")
          /\ \/ /\ mgr' = [mgr EXCEPT ![m].pc = "bind", ![m].w = w]
                /\ UNCHANGED marker
             \/ /\ LaunchMayFail
                /\ ManagerGoto(m, "launch_failed")
                /\ ClearMarker(m)
  /\ UNCHANGED <<storeVars, lease, coordinator>>

(* store.bind_worker_identity by the launcher                              *)
BindLaunched(m) ==
  /\ mgr[m].pc = "bind"
  /\ LockFree
  /\ \/ /\ MayBind(mgr[m].w)
        /\ BindWorkerIdentity(mgr[m].w)
        /\ Returns(m)
     \/ /\ ~MayBind(mgr[m].w)
        /\ mgr' = [mgr EXCEPT ![m] = NoCall("launch_failed")]
        /\ UNCHANGED storeVars
  /\ ClearMarker(m)
  /\ UNCHANGED <<workerVars, coordinator>>

(* The launcher records the failure whatever the job has become meanwhile; *)
(* a refused transition raises to the caller.                              *)
LaunchFailed(m) ==
  /\ mgr[m].pc = "launch_failed"
  /\ LockFree
  /\ \/ status # "completed" /\ MayBecome("failed") /\ SetStatus("failed")
     \/ /\ status = "completed" \/ ~MayBecome("failed")
        /\ UNCHANGED storeVars
  /\ Returns(m)
  /\ UNCHANGED <<workerVars, coordinator, marker>>

(* resume, until the preflight it runs outside the lock                    *)
ResumeCheck(m) ==
  /\ mgr[m].pc = "idle"
  /\ LockFree
  /\ marker = None
  /\ status \in RESUMABLE_STATES
  /\ SolverAvailable
  /\ ManagerGoto(m, "resume_state")
  /\ UNCHANGED <<storeVars, workerVars, coordinator, marker>>

(* resume, the second locked validation and the first of two writes        *)
ResumeState(m) ==
  /\ mgr[m].pc = "resume_state"
  /\ LockFree
  /\ \/ /\ status \in RESUMABLE_STATES
        /\ attempt < MaxAttempt
        /\ WriteResumeState(m)
        /\ ManagerGoto(m, "resume_control")
     \/ /\ status \notin RESUMABLE_STATES
        /\ Returns(m)
        /\ UNCHANGED storeVars
  /\ UNCHANGED <<workerVars, coordinator, marker>>

ResumeControl(m) ==
  /\ mgr[m].pc = "resume_control"
  /\ WriteResumeControl
  /\ ManagerGoto(m, "launch")
  /\ UNCHANGED <<workerVars, coordinator, marker>>

(* cancel(expected_attempt = e, 0 for none), up to the end of              *)
(* request_cancel.  A refused request changes nothing.  A request that     *)
(* already exists launches a coordinator only after a recorded failure.    *)
Cancel(m, e) ==
  /\ mgr[m].pc = "idle"
  /\ LockFree
  /\ \/ /\ CancelVerdict(e) = "new"
        /\ requests < MaxRequest
        /\ WriteCancelControl(m)
        /\ ManagerGoto(m, "cancel_state")
     \/ /\ CancelVerdict(e) = "reconciled"
        /\ ReconcileCancelState
        /\ UNCHANGED mgr
     \/ /\ CancelVerdict(e) = "idempotent"
        /\ cancel.launchError
        /\ mgr' = [mgr EXCEPT ![m] = [NoCall("launch_coordinator") EXCEPT
                                        !.rid = control.rid, !.snap = cancel]]
        /\ UNCHANGED storeVars
  /\ UNCHANGED <<workerVars, coordinator, marker>>

CancelState(m) ==
  /\ mgr[m].pc = "cancel_state"
  /\ WriteCancelState
  /\ mgr' = [mgr EXCEPT ![m] = [NoCall("launch_coordinator") EXCEPT
                                  !.rid = control.rid,
                                  !.snap = RequestedCancel(control.rid, attempt)]]
  /\ UNCHANGED <<workerVars, coordinator, marker>>

CoordinatorLaunched(c, rid) ==
  /\ coordinator[c].pc = "unborn"
  /\ coordinator' = [coordinator EXCEPT ![c].pc = "claim", ![c].rid = rid]

LaunchCoordinator(m) ==
  /\ mgr[m].pc = "launch_coordinator"
  /\ \/ /\ \E c \in Coordinators : CoordinatorLaunched(c, mgr[m].rid)
        /\ IF mgr[m].snap.launchError
           THEN ManagerGoto(m, "clear_launch_error")
           ELSE Returns(m)
     \/ /\ LaunchMayFail
        /\ ManagerGoto(m, "coordinator_launch_failed")
        /\ UNCHANGED coordinator
  /\ UNCHANGED <<storeVars, workerVars, marker>>

(* update_state(patch={"cancel": {**state["cancel"], ...}}): the copy of    *)
(* state.cancel taken by request_cancel replaces whatever is there now.    *)
PatchLaunchError(m, failed) ==
  /\ LockFree
  /\ IF status = "completed"
     THEN UNCHANGED storeVars
     ELSE PatchCancel([mgr[m].snap EXCEPT !.launchError = failed])
  /\ Returns(m)
  /\ UNCHANGED <<workerVars, coordinator, marker>>

CoordinatorLaunchFailed(m) ==
  /\ mgr[m].pc = "coordinator_launch_failed"
  /\ PatchLaunchError(m, TRUE)

ClearLaunchError(m) ==
  /\ mgr[m].pc = "clear_launch_error"
  /\ PatchLaunchError(m, FALSE)

(* Mutants of StatusPoll: the worker is not inspected, and an early death   *)
(* is not looked for.                                                      *)
PollWithoutInspection(m) ==
  /\ mgr[m].pc = "idle"
  /\ LockFree
  /\ status \in ACTIVE_STATES \ {"cancelling"}
  /\ bound # None
  /\ ~(status = "cancel_requested" /\ Targets(attempt))
  /\ SetStatus("interrupted")
  /\ UNCHANGED <<workerVars, coordinator, mgr, marker>>

PollRunningOnly(m) ==
  /\ mgr[m].pc = "idle"
  /\ LockFree
  /\ status \in {"smoke_running", "smoke_validated", "running"}
  /\ bound # None
  /\ ~Alive(bound)
  /\ SetStatus("interrupted")
  /\ UNCHANGED <<workerVars, coordinator, mgr, marker>>

(* status: a stale worker makes an active job interrupted, unless a        *)
(* matching cancellation owns the outcome.                                 *)
StatusPoll(m) ==
  /\ mgr[m].pc = "idle"
  /\ LockFree
  /\ status \in ACTIVE_STATES \ {"cancelling"}
  /\ bound # None
  /\ ~Alive(bound)
  /\ ~(status = "cancel_requested" /\ Targets(attempt))
  /\ SetStatus("interrupted")
  /\ UNCHANGED <<workerVars, coordinator, mgr, marker>>

(* reconcile_cancellations: what it concludes from the verdicts vc on the  *)
(* claimant and vw on the target worker.                                   *)
CaptureProved ==
  \/ cancel.capture = "live_enumeration"
  \/ cancel.capture = "contained_worker_exit" /\ contained

Orphaned ==
  /\ status \in CANCELLING_STATES
  /\ control.rid # 0 /\ Targets(attempt)
  /\ cancel.rid \in {0, control.rid}

(* Mutant of Relaunches: a request nobody has claimed is not relaunched.    *)
RelaunchesClaimed(vc, vw) ==
  /\ vc # "active"
  /\ status = "cancelling" /\ vc = "stale" /\ vw = "stale" /\ CaptureProved

(* A relaunch: of a claimed request only on proof, of an unclaimed one      *)
(* unless a verdict is inconclusive.                                       *)
Relaunches(vc, vw) ==
  /\ vc # "active"
  /\ \/ status = "cancelling" /\ vc = "stale" /\ vw = "stale" /\ CaptureProved
     \/ /\ "uncertain" \notin {vc, vw}
        /\ ~(status = "cancelling" /\ vc = "stale" /\ vw = "stale")

(* reconcile_cancellations.  A request made before any worker was bound    *)
(* names a worker without a pid, which inspect_identity finds uncertain.   *)
ReconcileCancellations(vc, vw) ==
  /\ Orphaned
  /\ Relaunches(vc, vw)
  /\ \E c \in Coordinators : CoordinatorLaunched(c, control.rid)

ClaimantVerdicts ==
  IF cancel.coordinator = None THEN {"missing"}
  ELSE Verdicts(CoordinatorAlive(cancel.coordinator))

TargetVerdicts ==
  IF control.worker = None THEN {"uncertain"} ELSE Verdicts(Alive(control.worker))

(* The JobManager of a server that starts again after it was killed.       *)
Boot(m) ==
  /\ mgr[m].pc = "boot"
  /\ LockFree
  /\ \E vc \in ClaimantVerdicts, vw \in TargetVerdicts :
       \/ ReconcileCancellations(vc, vw)
       \/ ~(Orphaned /\ Relaunches(vc, vw)) /\ UNCHANGED coordinator
  /\ Returns(m)
  /\ UNCHANGED <<storeVars, workerVars, marker>>

(* One more JobManager on the same root, in a server of its own.           *)
Start(m) ==
  /\ mgr[m].pc = "idle"
  /\ LockFree
  /\ \E vc \in ClaimantVerdicts, vw \in TargetVerdicts : ReconcileCancellations(vc, vw)
  /\ UNCHANGED <<storeVars, workerVars, managerVars>>

ManagerStep(m) ==
  \/ Launch(m) \/ BindLaunched(m) \/ LaunchFailed(m) \/ ResumeState(m)
  \/ ResumeControl(m) \/ CancelState(m) \/ LaunchCoordinator(m)
  \/ CoordinatorLaunchFailed(m) \/ ClearLaunchError(m) \/ Boot(m)

ManagerRequest(m) ==
  \/ ResumeCheck(m) \/ StatusPoll(m)
  \/ \E e \in 0..MaxAttempt : Cancel(m, e)

(* The server dies, and its locks and its marker lose their live owner;    *)
(* it is started again.                                                    *)
ManagerKilled(m) ==
  /\ mgr[m].pc \notin {"idle", "boot"}
  /\ mgr' = [mgr EXCEPT ![m] = NoCall("boot")]
  /\ lock' = IF lock = m THEN None ELSE lock
  /\ ClearMarker(m)
  /\ UNCHANGED <<status, attempt, bound, contained, cancel, control, requests,
                 workerVars, coordinator>>

=============================================================================
