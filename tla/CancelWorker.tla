---------------------------- MODULE CancelWorker ----------------------------
(***************************************************************************)
(* The detached cancellation coordinator of jobs/cancel_worker.py.  It     *)
(* claims a request in state.json, checkpoints each phase there before the *)
(* side effect of the phase, stops the exact worker and its captured       *)
(* descendants, proves them and the solver lease gone, and only then       *)
(* commits "cancelled".  A dead coordinator can be replaced: the next one  *)
(* resumes from the persisted phase.                                       *)
(***************************************************************************)
EXTENDS JobWorker

CONSTANT InspectionMayFail  \* a process inspection may be inconclusive

ASSUME InspectionAssumption == InspectionMayFail \in BOOLEAN

VARIABLE coordinator  \* the coordinator processes

CoordinatorPCs ==
  {"unborn", "claim", "check_target", "first_capture", "grace", "recapture",
   "enter_terminate", "terminate", "enter_force_kill", "force_kill",
   "last_capture", "reap", "enter_verifying", "verify", "commit", "block",
   "dead"}

RESUMABLE_PHASES == {"terminate", "force_kill", "verifying"}

(* rid: its argument.  target, goal: the claimed request's worker and      *)
(* attempt.  resume: the phase it resumes.  inTree: process_tree_contained *)
(* as it read it.  descendants, capture: its copy of the evidence.         *)
CoordinatorRecords ==
  [pc: CoordinatorPCs, rid: 0..MaxRequest, target: Workers \union {None},
   goal: 0..MaxAttempt, resume: Phases, inTree: BOOLEAN,
   descendants: SUBSET Workers, capture: Captures]

CoordinatorTypeOK == coordinator \in [Coordinators -> CoordinatorRecords]

NoCoordinator(pc) ==
  [pc |-> pc, rid |-> 0, target |-> None, goal |-> 0, resume |-> "none",
   inTree |-> FALSE, descendants |-> {}, capture |-> "none"]

CoordinatorInit == coordinator = [c \in Coordinators |-> NoCoordinator("unborn")]

-----------------------------------------------------------------------------

CoordinatorAlive(c) == coordinator[c].pc \notin {"unborn", "dead"}

(* inspect_identity: the possible verdicts on a process.                   *)
Verdicts(live) ==
  {IF live THEN "active" ELSE "stale"}
    \union (IF InspectionMayFail THEN {"uncertain"} ELSE {})

ChildActive(w) == worker[w].child = "alive"

CoordinatorGoto(c, pc) == coordinator' = [coordinator EXCEPT ![c].pc = pc]

CoordinatorExits(c) == coordinator' = [coordinator EXCEPT ![c] = NoCoordinator("dead")]

(* _owns_cancel_write *)
OwnsCancelWrite(c) ==
  /\ status = "cancelling"
  /\ control.rid = coordinator[c].rid
  /\ Targets(attempt)
  /\ cancel.target \in {0, attempt}
  /\ cancel.coordinator = c

(* A write of state.cancel under the lock and its ownership test (all of    *)
(* _checkpoint): the coordinator becomes "next", or, if it lost the claim,  *)
(* exits without writing.                                                  *)
OwnedWrite(c, record, next) ==
  /\ LockFree
  /\ \/ /\ OwnsCancelWrite(c)
        /\ PatchCancel(record)
        /\ coordinator' = [coordinator EXCEPT ![c] = next]
     \/ /\ ~OwnsCancelWrite(c)
        /\ CoordinatorExits(c)
        /\ UNCHANGED storeVars
  /\ UNCHANGED workerVars

(* Mutant of ClaimAllowed: any previous claimant is taken for dead.        *)
ClaimUninspected(c) ==
  /\ control.rid # 0 /\ control.rid = coordinator[c].rid
  /\ Targets(attempt)
  /\ cancel.target \in {0, attempt}
  /\ status \in CANCELLING_STATES

(* _claim: refused unless the request is the current one and any previous  *)
(* claimant is proved stale.                                               *)
ClaimAllowed(c) ==
  /\ control.rid # 0 /\ control.rid = coordinator[c].rid
  /\ Targets(attempt)
  /\ cancel.target \in {0, attempt}
  /\ status \in CANCELLING_STATES
  /\ \/ cancel.coordinator \in {None, c}
     \/ cancel.coordinator \in Coordinators /\ ~CoordinatorAlive(cancel.coordinator)

Claim(c) ==
  /\ coordinator[c].pc = "claim"
  /\ LockFree
  /\ LET resumed == IF cancel.phase \in RESUMABLE_PHASES THEN cancel.phase ELSE "native_grace"
     IN  \/ /\ ClaimAllowed(c)
            /\ status' = "cancelling"
            /\ cancel' = [cancel EXCEPT !.coordinator = c, !.phase = resumed]
            /\ coordinator' = [coordinator EXCEPT
                                 ![c].pc = "check_target",
                                 ![c].target = control.worker,
                                 ![c].goal = attempt,
                                 ![c].resume = resumed,
                                 ![c].descendants = cancel.descendants,
                                 ![c].capture = cancel.capture]
            /\ UNCHANGED <<attempt, bound, contained, control, requests, lock>>
         \/ /\ ~ClaimAllowed(c) \/ (InspectionMayFail /\ cancel.coordinator \notin {None, c})
            /\ CoordinatorExits(c)
            /\ UNCHANGED storeVars
  /\ UNCHANGED workerVars

At(c, pc) == [coordinator[c] EXCEPT !.pc = pc]

(* A request without a worker identity is a blocker; otherwise the first   *)
(* checkpoint persists the timing policy under the resumed phase.          *)
CheckTarget(c) ==
  /\ coordinator[c].pc = "check_target"
  /\ IF coordinator[c].target = None
     THEN /\ CoordinatorGoto(c, "block")
          /\ UNCHANGED <<storeVars, workerVars>>
     ELSE OwnedWrite(c, [cancel EXCEPT !.phase = coordinator[c].resume],
                     At(c, "first_capture"))

(* refresh_descendants: an enumeration of the target's children, and its   *)
(* checkpoint.  It counts only while the worker is live, inside its        *)
(* container, or after an earlier live enumeration.                        *)
RefreshDescendants(c, inTree, phase, next) ==
  LET me == coordinator[c]
      w == me.target
  IN  \E v \in Verdicts(Alive(w)) :
        LET complete == v = "active"
            proved == complete \/ inTree \/ me.capture = "live_enumeration"
            found == {d \in {w} : complete /\ ChildActive(d)}
            method == CASE complete -> "live_enumeration"
                        [] ~complete /\ inTree -> "contained_worker_exit"
                        [] OTHER -> me.capture
            after == [me EXCEPT !.pc = next, !.inTree = inTree, !.capture = method,
                                !.descendants = @ \union found]
        IN  \/ /\ v = "uncertain" \/ ~proved
               /\ CoordinatorGoto(c, "block")
               /\ UNCHANGED <<storeVars, workerVars>>
            \/ /\ v # "uncertain" /\ proved
               /\ OwnedWrite(c, [cancel EXCEPT !.phase = phase, !.capture = method,
                                               !.descendants = after.descendants],
                             after)

(* process_tree_contained is read once, after the first checkpoint.        *)
FirstCapture(c) ==
  /\ coordinator[c].pc = "first_capture"
  /\ RefreshDescendants(c, contained, coordinator[c].resume,
                        IF coordinator[c].resume \in RESUMABLE_PHASES
                        THEN "recapture" ELSE "grace")

(* No process that the coordinator knows of is seen active.                *)
NothingActive(c) ==
  /\ InspectionMayFail \/ ~Alive(coordinator[c].target)
  /\ InspectionMayFail \/ \A w \in coordinator[c].descendants : ~ChildActive(w)

(* The native grace: the worker stops by itself, or the budget runs out.   *)
Grace(c) ==
  /\ coordinator[c].pc = "grace"
  /\ \/ /\ NothingActive(c)
        /\ CoordinatorGoto(c, "enter_verifying")
     \/ CoordinatorGoto(c, "recapture")
  /\ UNCHANGED <<storeVars, workerVars>>

(* The capture before the first signal: not persisted, and decides where   *)
(* a resumed coordinator continues.  A descendant whose inspection is       *)
(* inconclusive is not seen active.                                        *)
Recapture(c) ==
  /\ coordinator[c].pc = "recapture"
  /\ LET me == coordinator[c]
         w == me.target
     IN  \E v \in Verdicts(Alive(w)) :
           LET found == {d \in {w} : v = "active" /\ ChildActive(d)}
               merged == me.descendants \union found
               active == {d \in merged : ChildActive(d)}
           IN  \E seen \in (IF InspectionMayFail THEN SUBSET active ELSE {active}) :
               LET quiet == /\ v = "stale"
                            /\ me.resume \notin {"terminate", "force_kill"}
                            /\ seen = {}
               IN  coordinator' = [coordinator EXCEPT
                      ![c].pc =
                        CASE v = "uncertain" -> "block"
                          [] quiet -> "enter_verifying"
                          [] v # "uncertain" /\ ~quiet /\ me.resume = "verifying" -> "last_capture"
                          [] v # "uncertain" /\ ~quiet /\ me.resume = "force_kill" -> "enter_force_kill"
                          [] OTHER -> "enter_terminate",
                      ![c].descendants = merged]
  /\ UNCHANGED <<storeVars, workerVars>>

EnterTerminate(c) ==
  /\ coordinator[c].pc = "enter_terminate"
  /\ OwnedWrite(c, [cancel EXCEPT !.phase = "terminate",
                                  !.descendants = coordinator[c].descendants],
                At(c, "terminate"))

(* terminate_exact acts on a verified identity only; the signal may fail   *)
(* or be ignored, and the wait that follows is bounded.                    *)
Signal(c, pc) ==
  /\ \/ /\ Alive(coordinator[c].target)
        /\ Becomes(coordinator[c].target, Exited(coordinator[c].target))
     \/ UNCHANGED worker
  /\ CoordinatorGoto(c, pc)
  /\ UNCHANGED <<storeVars, lease>>

Terminate(c) ==
  /\ coordinator[c].pc = "terminate"
  /\ Signal(c, "enter_force_kill")

(* The ownership test of the checkpoint after a signal is the one of the   *)
(* next checkpoint: nothing is done in between.                            *)
EnterForceKill(c) ==
  /\ coordinator[c].pc = "enter_force_kill"
  /\ \E v \in Verdicts(Alive(coordinator[c].target)) :
       IF v = "active"
       THEN OwnedWrite(c, [cancel EXCEPT !.phase = "force_kill"], At(c, "force_kill"))
       ELSE /\ CoordinatorGoto(c, "last_capture")
            /\ UNCHANGED <<storeVars, workerVars>>

ForceKill(c) ==
  /\ coordinator[c].pc = "force_kill"
  /\ Signal(c, "last_capture")

LastCapture(c) ==
  /\ coordinator[c].pc = "last_capture"
  /\ RefreshDescendants(c, coordinator[c].inTree, cancel.phase, "reap")

(* Every captured descendant still active is killed; a kill may fail.      *)
Reap(c) ==
  /\ coordinator[c].pc = "reap"
  /\ \E killed \in SUBSET {w \in coordinator[c].descendants : ChildActive(w)} :
       worker' = [w \in Workers |->
                    IF w \in killed THEN [worker[w] EXCEPT !.child = "dead"] ELSE worker[w]]
  /\ CoordinatorGoto(c, "enter_verifying")
  /\ UNCHANGED <<storeVars, lease>>

EnterVerifying(c) ==
  /\ coordinator[c].pc = "enter_verifying"
  /\ OwnedWrite(c, [cancel EXCEPT !.phase = "verifying",
                                  !.descendants = coordinator[c].descendants],
                At(c, "verify"))

(* _verify_solver_cleanup: the lease is gone, or its holder and recorded   *)
(* servers are, and then it is recovered.                                  *)
LeaseRecoverable ==
  /\ lease.holder \in Workers
  /\ ~Alive(lease.holder)
  /\ lease.server => ~ChildActive(lease.holder)

(* Mutants of Verify: one never looks at the processes, and one takes an    *)
(* inconclusive inspection for an absence.                                 *)
VerifyWithoutProcesses(c) ==
  /\ coordinator[c].pc = "verify"
  /\ IF lease.holder = None \/ LeaseRecoverable
     THEN lease' = NoLease /\ CoordinatorGoto(c, "commit")
     ELSE UNCHANGED lease /\ CoordinatorGoto(c, "block")
  /\ UNCHANGED <<storeVars, worker>>

VerifyOnDoubt(c) ==
  /\ coordinator[c].pc = "verify"
  /\ LET absent == \/ InspectionMayFail
                   \/ /\ ~Alive(coordinator[c].target)
                      /\ \A w \in coordinator[c].descendants : ~ChildActive(w)
     IN  IF absent /\ (lease.holder = None \/ LeaseRecoverable)
         THEN lease' = NoLease /\ CoordinatorGoto(c, "commit")
         ELSE UNCHANGED lease /\ CoordinatorGoto(c, "block")
  /\ UNCHANGED <<storeVars, worker>>

(* _verified_cancel.  Only "stale" verdicts prove absence: an inconclusive  *)
(* one keeps the job nonterminal.  The lease is looked at whatever the     *)
(* processes show.                                                         *)
Verify(c) ==
  /\ coordinator[c].pc = "verify"
  /\ LET me == coordinator[c]
         absent == ~Alive(me.target) /\ \A w \in me.descendants : ~ChildActive(w)
         released == lease.holder = None \/ LeaseRecoverable
     IN  \/ /\ absent /\ released
            /\ lease' = NoLease
            /\ CoordinatorGoto(c, "commit")
         \/ /\ ~absent \/ ~released \/ InspectionMayFail
            /\ \/ lease' = IF LeaseRecoverable THEN NoLease ELSE lease
               \/ InspectionMayFail /\ UNCHANGED lease
            /\ CoordinatorGoto(c, "block")
  /\ UNCHANGED <<storeVars, worker>>

(* _commit_cancelled *)
CommitCancelled(c) ==
  /\ coordinator[c].pc = "commit"
  /\ LockFree
  /\ \/ /\ OwnsCancelWrite(c)
        /\ status' = "cancelled"
        /\ cancel' = [cancel EXCEPT !.phase = "verified"]
        /\ UNCHANGED <<attempt, bound, contained, control, requests, lock>>
     \/ /\ ~OwnsCancelWrite(c)
        /\ UNCHANGED storeVars
  /\ CoordinatorExits(c)
  /\ UNCHANGED workerVars

(* _record_blocker *)
RecordBlocker(c) ==
  /\ coordinator[c].pc = "block"
  /\ OwnedWrite(c, [cancel EXCEPT !.phase = "blocked"], NoCoordinator("dead"))

CoordinatorStep(c) ==
  \/ Claim(c) \/ CheckTarget(c) \/ FirstCapture(c) \/ Grace(c) \/ Recapture(c)
  \/ EnterTerminate(c) \/ Terminate(c) \/ EnterForceKill(c) \/ ForceKill(c)
  \/ LastCapture(c) \/ Reap(c) \/ EnterVerifying(c) \/ Verify(c)
  \/ CommitCancelled(c) \/ RecordBlocker(c)

CoordinatorKilled(c) ==
  /\ CoordinatorAlive(c)
  /\ CoordinatorExits(c)
  /\ UNCHANGED <<storeVars, workerVars>>

=============================================================================
