------------------------------ MODULE JobStore ------------------------------
(***************************************************************************)
(* One durable job as jobs/store.py keeps it: the fields of state.json and *)
(* control.json that decide what happens next, and the read-check-write    *)
(* operations every actor performs on them under the job's JobLock.        *)
(*                                                                         *)
(* Each operation is one locked critical section and so one step, except   *)
(* the two that replace both files: request_cancel writes control.json     *)
(* before state.json and resume writes state.json before control.json.     *)
(* Those keep "lock" across two steps, because lock-free readers see the    *)
(* files in between and a crash can end the section there.                 *)
(***************************************************************************)
EXTENDS JobStates, FiniteSets

CONSTANTS
  Workers,      \* identities of the worker processes that can be launched
  Coordinators, \* identities of the detached cancellation coordinators
  Managers,     \* JobManager instances (one per server process)
  None,         \* JSON null
  MaxAttempt,   \* bound: attempts of the job
  MaxRequest    \* bound: cancellation request ids issued for the job

ASSUME BoundsAssumption == MaxAttempt \in Nat \ {0} /\ MaxRequest \in Nat

ASSUME IdentityAssumption ==
  /\ None \notin Workers \union Coordinators \union Managers
  /\ Workers \intersect Coordinators = {}

VARIABLES
  status,     \* state.status
  attempt,    \* state.attempt
  bound,      \* state.worker_pid + create time + signature: one exact identity
  contained,  \* state.process_tree_contained
  cancel,     \* state.cancel
  control,    \* control.json
  requests,   \* cancellation request ids issued so far (uuid4: never reused)
  lock        \* the manager inside a two-file critical section, or None

storeVars == <<status, attempt, bound, contained, cancel, control, requests, lock>>

Phases == {"none", "requested", "native_grace", "terminate", "force_kill",
           "verifying", "blocked", "verified"}

(* How cancel.descendant_capture was proved: not at all, by enumerating a  *)
(* live worker, or by the exit of a worker inside its process container.   *)
Captures == {"none", "live_enumeration", "contained_worker_exit"}

CancelRecords ==
  [rid: 0..MaxRequest, target: 0..MaxAttempt, phase: Phases,
   coordinator: Coordinators \union {None}, descendants: SUBSET Workers,
   capture: Captures, launchError: BOOLEAN]

Controls == [rid: 0..MaxRequest, target: 0..MaxAttempt, worker: Workers \union {None}]

NoCancel == [rid |-> 0, target |-> 0, phase |-> "none", coordinator |-> None,
             descendants |-> {}, capture |-> "none", launchError |-> FALSE]

NoControl == [rid |-> 0, target |-> 0, worker |-> None]

RequestedCancel(rid, target) ==
  [NoCancel EXCEPT !.rid = rid, !.target = target, !.phase = "requested"]

StoreTypeOK ==
  /\ status \in Status
  /\ attempt \in 1..MaxAttempt
  /\ bound \in Workers \union {None}
  /\ contained \in BOOLEAN
  /\ cancel \in CancelRecords
  /\ control \in Controls
  /\ requests \in 0..MaxRequest
  /\ lock \in Managers \union {None}

StoreInit ==
  /\ status = "submitted"
  /\ attempt = 1
  /\ bound = None
  /\ contained = FALSE
  /\ cancel = NoCancel
  /\ control = NoControl
  /\ requests = 0
  /\ lock = None

-----------------------------------------------------------------------------
(* Predicates the code evaluates on the two files.                         *)

LockFree == lock = None

(* cancel_request_targets_attempt *)
Targets(a) == control.rid # 0 /\ control.target = a

(* update_state with new_status = new does not raise *)
MayBecome(new) == new = status \/ new \in TRANSITIONS[status]

(* What request_cancel decides once it holds the lock.                     *)
CancelVerdict(expected) ==
  IF expected # 0 /\ expected # attempt THEN "attempt_mismatch"
  ELSE IF status \in TERMINAL_STATES THEN "terminal"
  ELSE IF control.rid # 0 /\ control.target # attempt THEN "stale_control_attempt"
  ELSE IF control.rid # 0 /\ status = "cancel_requested" THEN "idempotent"
  ELSE IF ~CanCancel(status) THEN "state_cannot_accept_cancel"
  ELSE IF control.rid # 0 THEN "reconciled"
  ELSE "new"

-----------------------------------------------------------------------------
(* Operations: each says what the critical section writes.                 *)

(* bind_worker_identity: the caller is w itself or the launcher of w; the  *)
(* guard is the branch that does not raise.                                *)
MayBind(w) == bound \in {None, w}

BindWorkerIdentity(w) ==
  /\ bound' = w
  /\ UNCHANGED <<status, attempt, contained, cancel, control, requests, lock>>

(* update_state(new_status) where the transition is legal *)
SetStatus(new) ==
  /\ status' = new
  /\ UNCHANGED <<attempt, bound, contained, cancel, control, requests, lock>>

(* state["cancel"] replaced as a whole, status kept *)
PatchCancel(record) ==
  /\ cancel' = record
  /\ UNCHANGED <<status, attempt, bound, contained, control, requests, lock>>

(* request_cancel, first write: the durable authorization *)
WriteCancelControl(m) ==
  /\ requests' = requests + 1
  /\ control' = [rid |-> requests + 1, target |-> attempt, worker |-> bound]
  /\ lock' = m
  /\ UNCHANGED <<status, attempt, bound, contained, cancel>>

(* Mutant of WriteCancelState: the request is merged into the old record.  *)
MergeCancelState ==
  /\ status' = "cancel_requested"
  /\ cancel' = [cancel EXCEPT !.target = attempt, !.phase = "requested"]
  /\ lock' = None
  /\ UNCHANGED <<attempt, bound, contained, control, requests>>

(* request_cancel, second write: the state follows the control *)
WriteCancelState ==
  /\ status' = "cancel_requested"
  /\ cancel' = RequestedCancel(control.rid, attempt)
  /\ lock' = None
  /\ UNCHANGED <<attempt, bound, contained, control, requests>>

(* The state catches up with a control whose first writer crashed: shared   *)
(* by request_cancel and record_cooperative_cancel_observed.               *)
ReconcileCancelState ==
  /\ status' = "cancel_requested"
  /\ cancel' = RequestedCancel(control.rid, attempt)
  /\ UNCHANGED <<attempt, bound, contained, control, requests, lock>>

(* record_cooperative_cancel_observed: the observation itself is evidence  *)
(* no later step reads; what it changes is a state behind its control.     *)
RecordCooperativeCancelObserved(a) ==
  IF attempt = a /\ Targets(a) /\ status \notin CANCELLING_STATES /\ CanCancel(status)
  THEN ReconcileCancelState
  ELSE UNCHANGED storeVars

(* Mutants of WriteResumeState: the old worker stays bound, and the attempt *)
(* is not counted.                                                         *)
ResumeKeepingWorker(m) ==
  /\ status' = "starting"
  /\ attempt' = attempt + 1
  /\ lock' = m
  /\ UNCHANGED <<bound, contained, cancel, control, requests>>

ResumeSameAttempt(m) ==
  /\ status' = "starting"
  /\ bound' = None
  /\ lock' = m
  /\ UNCHANGED <<attempt, contained, cancel, control, requests>>

(* resume, first write: a new attempt with no worker *)
WriteResumeState(m) ==
  /\ status' = "starting"
  /\ attempt' = attempt + 1
  /\ bound' = None
  /\ lock' = m
  /\ UNCHANGED <<contained, cancel, control, requests>>

(* Mutant of WriteResumeControl: the old request is left in place.         *)
ResumeKeepingControl ==
  /\ lock' = None
  /\ UNCHANGED <<status, attempt, bound, contained, cancel, control, requests>>

(* resume, second write: write_control(None) *)
WriteResumeControl ==
  /\ control' = NoControl
  /\ lock' = None
  /\ UNCHANGED <<status, attempt, bound, contained, cancel, requests>>

=============================================================================
