-------------------------- MODULE AttemptInvariant --------------------------
(***************************************************************************)
(* The inductive invariants behind the properties that relate attempts:    *)
(* whose worker runs the solver, whose request a coordinator serves, and   *)
(* what a server that launches a worker may rely on.  CancelInvariant is    *)
(* about the evidence of one cancellation; this is about who is out of      *)
(* date.                                                                   *)
(***************************************************************************)
EXTENDS CancelInvariant

(* The hypothesis of the theorems about several attempts: no attempt is     *)
(* opened while a server is between the launch of a worker and the binding  *)
(* of it (manager.py 1652-1660, 1695-1710).  submit holds its launch marker *)
(* meanwhile, resume holds none.                                           *)
Timely == attempt' # attempt => \A m \in Managers : mgr[m].pc # "bind"

ResumeAfterLaunch == [][Timely]_vars

-----------------------------------------------------------------------------
(* A contained worker takes its descendants with it (worker.py).           *)
DeadTakeChildren ==
  Contained => \A w \in Workers : worker[w].pc = "dead" => ~ChildActive(w)

(* A request of an older attempt is left only by a resume that is between  *)
(* its two writes (JobManager.resume).                                     *)
StaleControlHeld ==
  control.rid # 0 /\ control.target # attempt =>
    \E m \in Managers : mgr[m].pc = "resume_control"

-----------------------------------------------------------------------------
(* The two files.                                                          *)

(* No coordinator launch has failed, so no copy of state.cancel says so.    *)
NoLaunchError ==
  /\ \A m \in Managers : /\ mgr[m].pc \notin {"coordinator_launch_failed", "clear_launch_error"}
                         /\ ~mgr[m].snap.launchError
  /\ ~cancel.launchError

(* Between its two writes a request is authorized and the state may follow. *)
RequestOpen ==
  \A m \in Managers :
    mgr[m].pc = "cancel_state" => lock = m /\ CanCancel(status) /\ Targets(attempt)

(* RequestCoherent, inside the critical sections too.                      *)
RequestMatches ==
  status \in CANCELLING_STATES =>
    Targets(attempt) /\ cancel.rid = control.rid /\ cancel.target = attempt

RequestInv == NoLaunchError /\ RequestOpen /\ RequestMatches

-----------------------------------------------------------------------------
(* The workers.                                                            *)

EarlyPCs == {"bind", "record_containment", "read_state"}

HoldingPCs == SolvingPCs \union {"resource_gate", "read_final", "publish"}

(* The worker has the solver lease, unless it was taken from it.           *)
Holding(w) == worker[w].pc \in HoldingPCs \/ (worker[w].pc = "cleanup" /\ worker[w].done)

(* The worker may still write the status of the job.                       *)
Working(w) ==
  \/ Holding(w)
  \/ worker[w].pc \in EarlyPCs
  \/ worker[w].pc \in {"startup_gate", "mark_starting", "acquire_lease", "except", "mark_failed"}

(* A finished sweep is on its way to publish its outcome.                  *)
DoneIsLate ==
  \A w \in Workers :
    /\ worker[w].done => worker[w].pc \in {"cleanup", "read_final", "publish", "exit"}
    /\ worker[w].pc \in {"read_final", "publish"} => worker[w].done

(* One worker works, the job is its, and the job is not over.              *)
WorkerIsCurrent ==
  \A w \in Workers :
    Working(w) =>
      /\ status \notin RESUMABLE_STATES
      /\ bound = w \/ (bound = None /\ worker[w].pc = "bind")
      /\ worker[w].pc \notin EarlyPCs => worker[w].attempt = attempt
      /\ \A v \in Workers : Working(v) => v = w

(* A cleanup that reports no error has released the lease.                 *)
LeaseIsTheWorkers ==
  \A w \in Workers :
    Holding(w) =>
      /\ lease.holder \in {w, None}
      /\ worker[w].pc \in {"read_final", "publish"} /\ worker[w].clean => lease.holder = None

-----------------------------------------------------------------------------
(* The servers.                                                            *)

LaunchingPCs == {"resume_control", "launch", "bind"}

(* One server launches; until it has, the job has no worker; after that it  *)
(* is the launched worker that is bound, by whoever comes first.           *)
LauncherIsAlone ==
  \A m \in Managers :
    /\ mgr[m].pc # "launch_failed"
    /\ mgr[m].pc \in LaunchingPCs => \A n \in Managers : mgr[n].pc \in LaunchingPCs => n = m
    /\ mgr[m].pc \in {"resume_control", "launch"} =>
         bound = None /\ status \notin RESUMABLE_STATES /\ \A w \in Workers : ~Working(w)
    /\ mgr[m].pc = "bind" =>
         /\ mgr[m].w \in Workers
         /\ bound \in {None, mgr[m].w}
         /\ \A w \in Workers : Working(w) => w = mgr[m].w

(* A request names the worker of its attempt, and no attempt to come.       *)
ControlIsCurrent ==
  /\ control.target <= attempt
  /\ Targets(attempt) /\ control.worker \in Workers => bound = control.worker
  /\ \A m \in Managers : mgr[m].pc = "resume_control" => control.target < attempt

-----------------------------------------------------------------------------
(* The coordinators.                                                       *)

(* Who acts for the current request has the claim, or the job is over.      *)
ActorsOwnTheClaim ==
  \A c \in Coordinators :
    Acting(c) /\ coordinator[c].rid = control.rid /\ Targets(attempt) =>
      status \in TERMINAL_STATES \/ (status = "cancelling" /\ cancel.coordinator = c)

(* The worker a coordinator of an older attempt is after is out of date.    *)
OldTargetsRetired ==
  \A c \in Coordinators, w \in Workers :
    Acting(c) /\ coordinator[c].target = w =>
      /\ coordinator[c].goal <= attempt
      /\ coordinator[c].goal # attempt =>
           /\ ~Working(w) /\ bound # w
           /\ \A m \in Managers : mgr[m].pc = "bind" => mgr[m].w # w

(* The invariant: the parts above (manager.py, worker.py, cancel_worker.py).*)
AttemptInv ==
  /\ RequestInv
  /\ DoneIsLate
  /\ WorkerIsCurrent
  /\ LeaseIsTheWorkers
  /\ LauncherIsAlone
  /\ ControlIsCurrent
  /\ ActorsOwnTheClaim
  /\ OneCoordinator
  /\ OldTargetsRetired

-----------------------------------------------------------------------------
(* A server launches before the second attempt only as the one whose marker *)
(* says so, and a resume that has seen no marker meets no launch.          *)
LaunchIsMarked ==
  /\ attempt = 1 => \A m \in Managers : mgr[m].pc \in {"launch", "bind"} => marker = m
  /\ \A m \in Managers : /\ mgr[m].pc = "resume_state" => marker = None
                         /\ mgr[m].pc = "resume_control" => attempt > 1

=============================================================================
