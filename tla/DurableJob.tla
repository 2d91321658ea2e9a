----------------------------- MODULE DurableJob -----------------------------
(***************************************************************************)
(* A durable job from its submission on: the servers that launch, resume,  *)
(* cancel, poll and reconcile it, the workers they launch, the detached    *)
(* cancellation coordinators, and the kills any of them may suffer, all    *)
(* over the two files of the job directory.                                *)
(***************************************************************************)
EXTENDS JobManager

CONSTANTS
  MaxFaults,  \* bound: kills of processes
  Killable    \* which kinds of process may be killed

ASSUME FaultAssumption ==
  MaxFaults \in Nat /\ Killable \subseteq {"worker", "coordinator", "server"}

VARIABLE faults  \* kills so far

vars == <<storeVars, workerVars, coordinator, managerVars, faults>>

TypeOK ==
  /\ StoreTypeOK
  /\ WorkerTypeOK
  /\ CoordinatorTypeOK
  /\ ManagerTypeOK
  /\ faults \in 0..MaxFaults

Init ==
  /\ StoreInit
  /\ WorkerInit
  /\ CoordinatorInit
  /\ ManagerInit
  /\ faults = 0

WorkerActs(w) == WorkerStep(w) /\ UNCHANGED <<coordinator, managerVars, faults>>

CoordinatorActs(c) == CoordinatorStep(c) /\ UNCHANGED <<managerVars, faults>>

ManagerActs(m) == ManagerStep(m) /\ UNCHANGED faults

ManagerAsked(m) == ManagerRequest(m) /\ UNCHANGED faults

(* Bound: a server started on the side leaves as many coordinator           *)
(* identities unused as kills may still ask for.                           *)
ServerStarts(m) ==
  /\ Cardinality({c \in Coordinators : coordinator[c].pc = "unborn"}) > MaxFaults - faults
  /\ Start(m)
  /\ UNCHANGED faults

(* solver_recover_stale_lease: a user may ask for it at any time.          *)
OperatorRecoversLease ==
  /\ LeaseRecoverable
  /\ lease' = NoLease
  /\ UNCHANGED <<storeVars, worker, coordinator, managerVars, faults>>

Fault ==
  /\ faults < MaxFaults
  /\ faults' = faults + 1
  /\ \/ /\ "worker" \in Killable
        /\ \E w \in Workers : WorkerKilled(w)
        /\ UNCHANGED <<coordinator, managerVars>>
     \/ /\ "coordinator" \in Killable
        /\ \E c \in Coordinators : CoordinatorKilled(c)
        /\ UNCHANGED managerVars
     \/ /\ "server" \in Killable
        /\ \E m \in Managers : ManagerKilled(m)

Next ==
  \/ \E w \in Workers : WorkerActs(w)
  \/ \E c \in Coordinators : CoordinatorActs(c)
  \/ \E m \in Managers : ManagerActs(m) \/ ManagerAsked(m) \/ ServerStarts(m)
  \/ OperatorRecoversLease
  \/ Fault

Spec == Init /\ [][Next]_vars

(* Fairness.  A coordinator and a server call keep running until they end   *)
(* or are killed.  Nothing is assumed of the workers: a solve may never     *)
(* return.                                                                 *)
Fairness ==
  /\ \A c \in Coordinators : WF_vars(CoordinatorActs(c))
  /\ \A m \in Managers : WF_vars(ManagerActs(m))

(* Somebody polls job_status (each poll serves every caller).              *)
Polling == WF_vars(\E m \in Managers : StatusPoll(m) /\ UNCHANGED faults)

FairSpec == Spec /\ Fairness

(* The job is attended: it is polled, and a server is started again and    *)
(* again, as a desktop client does.                                        *)
AttendedSpec == FairSpec /\ Polling /\ WF_vars(\E m \in Managers : ServerStarts(m))

-----------------------------------------------------------------------------
(* Safety                                                                  *)

(* "cancelled" is a proof, not a wish: while state.json says it, the       *)
(* request targets this attempt, the exact worker it named is gone, no      *)
(* descendant recorded as evidence runs, and the solver lease is not that   *)
(* worker's (_commit_cancelled after _verified_cancel).                    *)
CancelledIsProved ==
  status = "cancelled" =>
    /\ Targets(attempt)
    /\ control.worker \in Workers
    /\ ~Alive(control.worker)
    /\ lease.holder # control.worker
    /\ \A w \in cancel.descendants : ~ChildActive(w)

(* A cancelled attempt leaves no solver process behind: whatever its        *)
(* worker had started, captured or not, is gone (cancel_worker.run).        *)
NoSurvivor ==
  status = "cancelled" => \A w \in {control.worker} \intersect Workers : ~ChildActive(w)

ActingPCs == CoordinatorPCs \ {"unborn", "claim", "dead"}

(* At most one live coordinator acts for a request: a claim is taken over   *)
(* only from a coordinator proved dead (_claim).                           *)
OneCoordinator ==
  \A c, d \in Coordinators :
    /\ coordinator[c].pc \in ActingPCs
    /\ coordinator[d].pc \in ActingPCs
    /\ coordinator[c].rid = coordinator[d].rid
    => c = d

(* "An old request must never stop a resumed worker": a worker about to be *)
(* signalled is not the one bound to a newer attempt than the request's    *)
(* (cancel_request_targets_attempt, terminate_exact).                      *)
OldRequestStopsNoNewWorker ==
  \A c \in Coordinators :
    /\ coordinator[c].pc \in {"terminate", "force_kill"}
    /\ bound # None
    /\ coordinator[c].target = bound
    => coordinator[c].goal = attempt

(* Outside the critical sections the two files tell the same story: a job  *)
(* in cancellation carries in state.cancel the request that control.json   *)
(* authorizes for this attempt (request_cancel, _claim, resume).           *)
RequestCoherent ==
  LockFree /\ status \in CANCELLING_STATES =>
    /\ Targets(attempt)
    /\ cancel.rid = control.rid
    /\ cancel.target = attempt

(* A running attempt can be cancelled: no request of an older attempt is    *)
(* left to refuse the new one (request_cancel against resume).             *)
Cancellable ==
  LockFree /\ CanCancel(status) => control.rid = 0 \/ Targets(attempt)

SolvingPCs ==
  {"open_client", "heartbeat", "stop_before_smoke", "mark_smoke_running",
   "smoke_sweep", "mark_smoke_validated", "mark_running", "broad_sweep"}

(* A worker that runs the solver is the one state.json names for the        *)
(* current attempt, so that a cancellation can find it (bind, resume).      *)
SolverIsBound ==
  \A w \in Workers :
    worker[w].pc \in SolvingPCs => bound = w /\ worker[w].attempt = attempt

(* Only the current attempt's own worker, with all its rows and a clean    *)
(* cleanup, completes the job, and the solver is free by then: a staged     *)
(* sweep "reports completed only after its client and lease cleanup         *)
(* succeeds" (the finally block of _run).                                  *)
CompletedByItsWorker ==
  [][status' = "completed" =>
       \/ status = "completed"
       \/ \E w \in Workers : /\ worker[w].pc = "publish"
                             /\ worker[w].done /\ worker[w].clean
                             /\ worker[w].attempt = attempt /\ bound = w
                             /\ lease.holder = None]_vars

(* A matching cancellation owns the attempt's outcome: once accepted, only  *)
(* the coordinator's proof ends it.                                        *)
CancellationOwnsOutcome ==
  [][Targets(attempt) /\ status \in CANCELLING_STATES =>
       status' \in {status, "cancelling", "cancelled"}]_vars

PendingPCs ==
  {"bind", "record_containment", "read_state", "startup_gate", "mark_starting"}

(* A resume never races a worker that is still on its way to its startup    *)
(* decision "into a second launch for one job" (resume, launch marker).     *)
ResumeWaitsForLaunch ==
  [][attempt' # attempt => \A w \in Workers : worker[w].pc \notin PendingPCs]_vars

Lifecycle == INSTANCE JobLifecycle WITH authorized <- control.target

(* The files, read as (status, attempt, authorized attempt), follow the     *)
(* lifecycle.                                                              *)
ImplementsLifecycle == Lifecycle!LifecycleSpec

-----------------------------------------------------------------------------
(* Liveness                                                                *)

Blocked ==
  \/ cancel.phase = "blocked"
  \/ control.worker = None
  \/ /\ status = "cancelling" /\ cancel.coordinator # None
     /\ ~CoordinatorAlive(cancel.coordinator) /\ ~Alive(control.worker)
     /\ ~CaptureProved

(* A cancellation that state.json shows ends in a terminal status, or in   *)
(* a blocker that only an operator can resolve: a request made before any  *)
(* worker was bound, a failed verification, or a worker that exited before *)
(* its descendants were captured.                                          *)
CancelEnds ==
  status \in CANCELLING_STATES ~> status \in TERMINAL_STATES \/ Blocked

(* A job whose bound worker died does not stay active, unless a            *)
(* cancellation is in charge of it (JobManager.status).                    *)
DeadWorkerNoticed ==
  bound # None /\ status \in ACTIVE_STATES \ CANCELLING_STATES /\ ~Alive(bound)
    ~> \/ status \in TERMINAL_STATES \union CANCELLING_STATES
       \/ bound = None

=============================================================================
