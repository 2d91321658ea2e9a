-------------------------- MODULE DurableJobProofs --------------------------
(***************************************************************************)
(* What is proved of the specification of a durable job.  First CancelInv, *)
(* for every value of the constants: type correctness and                  *)
(* CancelledIsProved.  For a worker, for a coordinator and for a server: a *)
(* "shape" that says what any of its steps may do to the variables of the  *)
(* job, the proof that every action has the shape, and the proof that a    *)
(* step of that shape keeps the invariant.                                 *)
(*                                                                         *)
(* Then what the job promises across its requests and its attempts: the    *)
(* two files agree, no process survives, a running attempt can be          *)
(* cancelled, and the promises that relate attempts (AttemptInv).  For each *)
(* kind of process an "effect" says more than the shape, and a lemma per   *)
(* part of the invariant says that such a step keeps it.                   *)
(***************************************************************************)
EXTENDS AttemptInvariant, TLAPS

-----------------------------------------------------------------------------
(* Workers.  What any step of worker w may do, whatever the step is.       *)

WorkerMoves(w) ==
  /\ worker[w].pc \notin {"unborn", "dead"}
  /\ worker' \in [Workers -> WorkerRecords]
  /\ \A v \in Workers \ {w} : worker'[v] = worker[v]
  /\ worker'[w].pc # "unborn"

WorkerLeaves(w) ==
  /\ UNCHANGED <<attempt, control, requests, lock>>
  /\ contained' \in BOOLEAN
  /\ bound' \in {bound, w}
  /\ lease' \in Leases
  /\ lease'.holder \in {lease.holder, None, w}
  /\ \/ UNCHANGED <<status, cancel>>
     \/ /\ lock = None
        /\ status' \in Status \ (CANCELLING_STATES \union {"cancelled"})
        /\ UNCHANGED cancel
     \/ /\ lock = None
        /\ status' = "cancel_requested"
        /\ cancel' = RequestedCancel(control.rid, attempt)

WorkerShape(w) == WorkerMoves(w) /\ WorkerLeaves(w)

(* A worker that becomes a record of the right type moves.                 *)
LEMMA BecomesMoves ==
  ASSUME TypeOK, NEW w \in Workers, worker[w].pc \notin {"unborn", "dead"},
         NEW r \in WorkerRecords, r.pc # "unborn", Becomes(w, r)
  PROVE  WorkerMoves(w)
  BY DEF TypeOK, WorkerTypeOK, Becomes, WorkerMoves

(* So does one that only changes its program counter.                      *)
LEMMA GotoMoves ==
  ASSUME TypeOK, NEW w \in Workers, worker[w].pc \notin {"unborn", "dead"},
         NEW pc \in WorkerPCs \ {"unborn"}, Goto(w, pc)
  PROVE  WorkerMoves(w)
<1> DEFINE r == [worker[w] EXCEPT !.pc = pc]
<1>1. worker[w] \in WorkerRecords
  BY DEF TypeOK, WorkerTypeOK
<1>2. r \in WorkerRecords /\ r.pc # "unborn"
  BY <1>1 DEF WorkerRecords
<1> QED BY <1>2, BecomesMoves DEF Goto

(* A worker that writes neither file nor lease leaves everything.          *)
LEMMA LeasesKept ==
  ASSUME TypeOK, NEW w \in Workers, UNCHANGED storeVars, UNCHANGED lease
  PROVE  WorkerLeaves(w)
  BY DEF TypeOK, StoreTypeOK, WorkerTypeOK, storeVars, WorkerLeaves

(* A status write of a worker never touches a cancellation status.         *)
LEMMA SetStatusLeaves ==
  ASSUME TypeOK, NEW w \in Workers,
         NEW new \in Status \ (CANCELLING_STATES \union {"cancelled"}),
         LockFree, SetStatus(new), UNCHANGED lease
  PROVE  WorkerLeaves(w)
  BY DEF TypeOK, StoreTypeOK, WorkerTypeOK, LockFree, SetStatus, WorkerLeaves

(* An observed cancellation at most brings the state up to its control.     *)
LEMMA ObserveLeaves ==
  ASSUME TypeOK, NEW w \in Workers, NEW a,
         LockFree, RecordCooperativeCancelObserved(a), UNCHANGED lease
  PROVE  WorkerLeaves(w)
<1>1. CASE ReconcileCancelState
  BY <1>1 DEF TypeOK, StoreTypeOK, WorkerTypeOK, LockFree, ReconcileCancelState, WorkerLeaves
<1>2. CASE UNCHANGED storeVars
  BY <1>2, LeasesKept
<1> QED BY <1>1, <1>2 DEF RecordCooperativeCancelObserved

(* A status write, done or refused, is a step of that shape.               *)
LEMMA AdvanceShape ==
  ASSUME TypeOK, NEW w \in Workers,
         NEW from \in WorkerPCs \ {"unborn", "dead"},
         NEW new \in Status \ (CANCELLING_STATES \union {"cancelled"}),
         NEW next \in SUBSET (WorkerPCs \ {"unborn"}), NEW refused \in WorkerPCs \ {"unborn"},
         Advance(w, from, new, next, refused)
  PROVE  WorkerShape(w)
<1>1. WorkerMoves(w)
  BY GotoMoves DEF Advance
<1>2. WorkerLeaves(w)
  BY SetStatusLeaves, LeasesKept DEF Advance
<1> QED BY <1>1, <1>2 DEF WorkerShape

(* The process is gone, and only what it spawned may be left.              *)
LEMMA ExitedRecord ==
  ASSUME TypeOK, NEW w \in Workers
  PROVE  Exited(w) \in WorkerRecords /\ Exited(w).pc = "dead"
<1>1. worker[w] \in WorkerRecords /\ MaxAttempt \in Nat
  BY BoundsAssumption DEF TypeOK, WorkerTypeOK
<1> QED BY <1>1 DEF Exited, Idle, WorkerRecords, WorkerPCs, Status, ACTIVE_STATES

(* Every step of a worker (all of _run, in jobs/worker.py) has that shape.  *)
LEMMA WorkerStepShape ==
  ASSUME TypeOK, NEW w \in Workers, WorkerStep(w)
  PROVE  WorkerShape(w)
<1>0. worker[w] \in WorkerRecords /\ attempt \in 0..MaxAttempt /\ status \in Status
  BY BoundsAssumption DEF TypeOK, WorkerTypeOK, StoreTypeOK
<1>a. {"submitted", "starting", "smoke_running", "smoke_validated", "running", "interrupted",
       "failed", "completed"} \subseteq Status \ (CANCELLING_STATES \union {"cancelled"})
  BY DEF Status, ACTIVE_STATES, TERMINAL_STATES, CANCELLING_STATES
<1>1. CASE Bind(w)
  <2>1. WorkerMoves(w)
    BY <1>1, GotoMoves DEF Bind, WorkerPCs
  <2>2. WorkerLeaves(w)
    BY <1>1, LeasesKept DEF Bind, BindWorkerIdentity, WorkerLeaves, TypeOK, StoreTypeOK,
                            WorkerTypeOK
  <2> QED BY <2>1, <2>2 DEF WorkerShape
<1>2. CASE RecordContainment(w)
  <2>1. WorkerMoves(w)
    BY <1>2, GotoMoves DEF RecordContainment, WorkerPCs
  <2>2. WorkerLeaves(w)
    BY <1>2, ContainedAssumption DEF RecordContainment, WorkerLeaves, TypeOK, StoreTypeOK,
                                     WorkerTypeOK
  <2> QED BY <2>1, <2>2 DEF WorkerShape
<1>3. CASE ReadState(w)
  <2> DEFINE r == [worker[w] EXCEPT !.pc = "startup_gate", !.attempt = attempt, !.seen = status]
  <2>1. r \in WorkerRecords /\ r.pc # "unborn"
    BY <1>0 DEF WorkerRecords, WorkerPCs
  <2>2. WorkerMoves(w)
    BY <1>3, <2>1, BecomesMoves DEF ReadState
  <2> QED BY <1>3, <2>2, LeasesKept DEF ReadState, WorkerShape
<1>4. CASE StartupGate(w)
  <2>1. PICK next \in {"observe_before_startup", "mark_starting", "acquire_lease", "exit"} :
          Becomes(w, [worker[w] EXCEPT !.pc = next, !.seen = "submitted"])
    BY <1>4 DEF StartupGate
  <2> DEFINE r == [worker[w] EXCEPT !.pc = next, !.seen = "submitted"]
  <2>2. r \in WorkerRecords /\ r.pc # "unborn"
    BY <1>0, <1>a DEF WorkerRecords, WorkerPCs
  <2>3. WorkerMoves(w)
    BY <1>4, <2>1, <2>2, BecomesMoves DEF StartupGate
  <2> QED BY <1>4, <2>3, LeasesKept DEF StartupGate, WorkerShape
<1>5. CASE ObserveBeforeStartup(w)
  BY <1>5, GotoMoves, ObserveLeaves DEF ObserveBeforeStartup, WorkerPCs, WorkerShape
<1>6. CASE MarkStarting(w)
  BY <1>6, <1>a, AdvanceShape DEF MarkStarting, WorkerPCs
<1>7. CASE AcquireLease(w)
  <2>1. WorkerMoves(w)
    BY <1>7, GotoMoves DEF AcquireLease, WorkerPCs
  <2>2. lease' \in {lease, [holder |-> w, server |-> FALSE]}
    BY <1>7 DEF AcquireLease
  <2>3. lease \in Leases /\ [holder |-> w, server |-> FALSE] \in Leases
    BY DEF TypeOK, WorkerTypeOK, Leases
  <2>4. lease' \in Leases /\ lease'.holder \in {lease.holder, w}
    <3>1. CASE lease' = lease
      BY <3>1, <2>3
    <3>2. CASE lease' = [holder |-> w, server |-> FALSE]
      BY <3>2, <2>3
    <3> QED BY <2>2, <3>1, <3>2
  <2>5. WorkerLeaves(w)
    BY <1>7, <2>4 DEF AcquireLease, WorkerLeaves, storeVars, TypeOK, StoreTypeOK
  <2> QED BY <2>1, <2>5 DEF WorkerShape
<1>8. CASE OpenClient(w)
  <2>1. PICK child \in {"none", "alive"}, pc \in {"heartbeat", "except"} :
          Becomes(w, [worker[w] EXCEPT !.pc = pc, !.child = child])
    BY <1>8 DEF OpenClient
  <2> DEFINE r == [worker[w] EXCEPT !.pc = pc, !.child = child]
  <2>2. r \in WorkerRecords /\ r.pc # "unborn"
    BY <1>0 DEF WorkerRecords, WorkerPCs
  <2>3. WorkerMoves(w)
    BY <1>8, <2>1, <2>2, BecomesMoves DEF OpenClient
  <2> QED BY <1>8, <2>3, LeasesKept DEF OpenClient, WorkerShape
<1>9. CASE Heartbeat(w)
  <2>1. WorkerMoves(w)
    BY <1>9, GotoMoves DEF Heartbeat, WorkerPCs
  <2>2. WorkerLeaves(w)
    BY <1>9 DEF Heartbeat, Leases, WorkerLeaves, storeVars, TypeOK, StoreTypeOK, WorkerTypeOK
  <2> QED BY <2>1, <2>2 DEF WorkerShape
<1>10. CASE StopBeforeSmoke(w)
  BY <1>10, GotoMoves, LeasesKept DEF StopBeforeSmoke, WorkerPCs, WorkerShape
<1>11. CASE MarkSmokeRunning(w)
  BY <1>11, <1>a, AdvanceShape DEF MarkSmokeRunning, WorkerPCs
<1>12. CASE SmokeSweep(w)
  BY <1>12, GotoMoves, LeasesKept DEF SmokeSweep, WorkerPCs, WorkerShape
<1>13. CASE MarkSmokeValidated(w)
  <2>1. WorkerMoves(w)
    <3>1. CASE Goto(w, "except")
      BY <1>13, <3>1, GotoMoves DEF MarkSmokeValidated, WorkerPCs
    <3>2. CASE \E all \in BOOLEAN :
                 Becomes(w, [worker[w] EXCEPT !.pc = IF all THEN "cleanup" ELSE "mark_running",
                                              !.done = all])
      <4>1. PICK all \in BOOLEAN :
              Becomes(w, [worker[w] EXCEPT !.pc = IF all THEN "cleanup" ELSE "mark_running",
                                           !.done = all])
        BY <3>2
      <4> DEFINE pc == IF all THEN "cleanup" ELSE "mark_running"
      <4> DEFINE r == [worker[w] EXCEPT !.pc = pc, !.done = all]
      <4>2. pc \in WorkerPCs \ {"unborn"}
        BY DEF WorkerPCs
      <4> HIDE DEF pc
      <4>3. r \in WorkerRecords /\ r.pc # "unborn"
        BY <1>0, <4>2 DEF WorkerRecords
      <4> QED BY <1>13, <4>1, <4>3, BecomesMoves DEF MarkSmokeValidated, pc
    <3> QED BY <1>13, <3>1, <3>2 DEF MarkSmokeValidated
  <2>2. WorkerLeaves(w)
    BY <1>13, <1>a, SetStatusLeaves, LeasesKept DEF MarkSmokeValidated
  <2> QED BY <2>1, <2>2 DEF WorkerShape
<1>14. CASE MarkRunning(w)
  BY <1>14, <1>a, AdvanceShape DEF MarkRunning, WorkerPCs
<1>15. CASE BroadSweep(w)
  <2> DEFINE r == [worker[w] EXCEPT !.pc = "cleanup", !.done = TRUE]
  <2>1. r \in WorkerRecords /\ r.pc # "unborn"
    BY <1>0 DEF WorkerRecords, WorkerPCs
  <2>2. CASE Becomes(w, r)
    BY <1>15, <2>1, <2>2, BecomesMoves, LeasesKept DEF BroadSweep, WorkerShape
  <2>3. CASE \E pc \in {"observe_cancel", "resource_gate", "except"} : Goto(w, pc)
    BY <1>15, <2>3, GotoMoves, LeasesKept DEF BroadSweep, WorkerPCs, WorkerShape
  <2> QED BY <1>15, <2>2, <2>3 DEF BroadSweep
<1>16. CASE ResourceGateStop(w)
  BY <1>16, <1>a, AdvanceShape DEF ResourceGateStop, WorkerPCs
<1>17. CASE ObserveCancel(w)
  BY <1>17, GotoMoves, ObserveLeaves DEF ObserveCancel, WorkerPCs, WorkerShape
<1>18. CASE Except(w)
  <2>1. \E pc \in {"observe_cancel", "cleanup", "mark_failed"} : Goto(w, pc)
    BY <1>18 DEF Except
  <2> QED BY <1>18, <2>1, GotoMoves, LeasesKept DEF Except, WorkerPCs, WorkerShape
<1>19. CASE MarkFailed(w)
  BY <1>19, <1>a, AdvanceShape DEF MarkFailed, WorkerPCs
<1>20. CASE Cleanup(w)
  <2>1. PICK pc \in {"read_final", "exit"}, clean \in BOOLEAN, child \in {"none", "alive", "dead"} :
          Becomes(w, [worker[w] EXCEPT !.pc = pc, !.clean = clean, !.child = child])
    BY <1>0, <1>20 DEF Cleanup, WorkerRecords
  <2> DEFINE r == [worker[w] EXCEPT !.pc = pc, !.clean = clean, !.child = child]
  <2>2. r \in WorkerRecords /\ r.pc # "unborn"
    BY <1>0 DEF WorkerRecords, WorkerPCs
  <2>3. WorkerMoves(w)
    BY <1>20, <2>1, <2>2, BecomesMoves DEF Cleanup
  <2>4. WorkerLeaves(w)
    BY <1>20 DEF Cleanup, NoLease, Leases, WorkerLeaves, storeVars, TypeOK, StoreTypeOK,
                 WorkerTypeOK
  <2> QED BY <2>3, <2>4 DEF WorkerShape
<1>21. CASE ReadFinal(w)
  BY <1>21, GotoMoves, LeasesKept DEF ReadFinal, WorkerPCs, WorkerShape
<1>22. CASE Publish(w)
  <2>1. WorkerMoves(w)
    BY <1>22, GotoMoves DEF Publish, WorkerPCs
  <2>2. WorkerLeaves(w)
    BY <1>22, <1>a, SetStatusLeaves, LeasesKept DEF Publish
  <2> QED BY <2>1, <2>2 DEF WorkerShape
<1>23. CASE Exit(w)
  BY <1>23, ExitedRecord, BecomesMoves, LeasesKept DEF Exit, WorkerShape
<1> QED BY <1>1, <1>2, <1>3, <1>4, <1>5, <1>6, <1>7, <1>8, <1>9, <1>10, <1>11, <1>12, <1>13,
           <1>14, <1>15, <1>16, <1>17, <1>18, <1>19, <1>20, <1>21, <1>22, <1>23 DEF WorkerStep

(* A fresh request record has its type.                                    *)
LEMMA RequestedType ==
  ASSUME NEW rid \in 0..MaxRequest, NEW target \in 0..MaxAttempt
  PROVE  /\ RequestedCancel(rid, target) \in CancelRecords
         /\ RequestedCancel(rid, target).coordinator = None
         /\ RequestedCancel(rid, target).descendants = {}
  BY BoundsAssumption DEF RequestedCancel, NoCancel, CancelRecords, Phases, Captures

(* A cancelled job's worker was launched and is dead.                       *)
LEMMA CancelledWorkerDead ==
  ASSUME CancelInv, status = "cancelled"
  PROVE  control.worker \in Workers /\ worker[control.worker].pc = "dead"
  BY DEF CancelInv, CancelledIsProved, IdentitiesBorn, Born, Alive

(* No step of a worker disturbs the evidence: a dead worker takes no step,  *)
(* and a lease can pass only to the worker that acquires it (worker.py).    *)
LEMMA WorkerKeeps ==
  ASSUME CancelInv, NEW w \in Workers, WorkerShape(w),
         UNCHANGED <<coordinator, managerVars>>, faults' \in 0..MaxFaults
  PROVE  CancelInv'
<1> USE DEF CancelInv, WorkerShape, managerVars
<1>0. /\ worker[w].pc \notin {"unborn", "dead"}
      /\ worker'[w].pc # "unborn"
      /\ \A v \in Workers \ {w} : worker'[v] = worker[v]
      /\ UNCHANGED <<attempt, control, requests, lock>>
      /\ lease'.holder \in {lease.holder, None, w}
  BY DEF WorkerMoves, WorkerLeaves
<1>1. TypeOK'
  <2>1. cancel' \in CancelRecords /\ status' \in Status
    <3>1. RequestedCancel(control.rid, attempt) \in CancelRecords
      BY RequestedType, BoundsAssumption DEF TypeOK, StoreTypeOK, Controls
    <3>2. "cancel_requested" \in Status
      BY DEF Status, ACTIVE_STATES
    <3> QED BY <3>1, <3>2 DEF TypeOK, StoreTypeOK, WorkerLeaves
  <2>2. StoreTypeOK'
    BY <2>1 DEF TypeOK, StoreTypeOK, WorkerLeaves
  <2>3. WorkerTypeOK'
    BY DEF TypeOK, WorkerTypeOK, WorkerMoves, WorkerLeaves
  <2> QED BY <2>2, <2>3 DEF TypeOK, CoordinatorTypeOK, ManagerTypeOK
<1>2. SectionsHeld'
  BY IdentityAssumption DEF SectionsHeld, WorkerLeaves
<1>3. IdentitiesBorn'
  BY <1>0 DEF IdentitiesBorn, Born, WorkerLeaves
<1>4. RequestsIssued' /\ TargetsAgree'
  BY <1>0 DEF RequestsIssued, TargetsAgree, Acting
<1>5. EvidenceOwned'
  <2>1. CASE UNCHANGED cancel /\ (status' = status \/ status' \notin CANCELLING_STATES \union {"cancelled"})
    BY <1>0, <2>1 DEF EvidenceOwned, CANCELLING_STATES
  <2>2. CASE status' = "cancel_requested" /\ cancel' = RequestedCancel(control.rid, attempt)
    <3>1. cancel'.coordinator = None /\ cancel'.descendants = {}
      BY <2>2, RequestedType, BoundsAssumption DEF TypeOK, StoreTypeOK, Controls
    <3> QED BY <1>0, <2>2, <3>1, IdentityAssumption DEF EvidenceOwned
  <2> QED BY <2>1, <2>2 DEF WorkerLeaves
<1>6. VerifiedStands'
  <2> SUFFICES ASSUME NEW c \in Coordinators, coordinator[c].pc = "commit"
               PROVE  /\ worker'[coordinator[c].target].pc = "dead"
                      /\ lease'.holder # coordinator[c].target
                      /\ \A v \in coordinator[c].descendants : ~(ChildActive(v)')
    BY DEF VerifiedStands
  <2>1. /\ coordinator[c].target \in Workers
        /\ coordinator[c].descendants \subseteq {coordinator[c].target}
    BY DEF TargetsAgree, Acting, ActingPCs, CoordinatorPCs
  <2>2. coordinator[c].target # w
    BY <1>0 DEF VerifiedStands
  <2> QED BY <1>0, <2>1, <2>2, IdentityAssumption DEF VerifiedStands, ChildActive
<1>7. CancelledIsProved'
  <2> SUFFICES ASSUME status' = "cancelled" PROVE CancelledIsProved'
    BY DEF CancelledIsProved
  <2>1. status = "cancelled" /\ UNCHANGED cancel
    BY DEF WorkerLeaves
  <2>2. control.worker \in Workers /\ worker[control.worker].pc = "dead"
    BY <2>1, CancelledWorkerDead
  <2>3. cancel.descendants \subseteq {control.worker}
    BY <2>1 DEF EvidenceOwned
  <2> QED BY <1>0, <2>1, <2>2, <2>3, IdentityAssumption
          DEF CancelledIsProved, Targets, Alive, ChildActive
<1> QED BY <1>1, <1>2, <1>3, <1>4, <1>5, <1>6, <1>7

-----------------------------------------------------------------------------
(* Coordinators.  What any step of coordinator c may do, its death          *)
(* included.                                                               *)

(* Workers and descendants only die, and a lease is only given up.          *)
OnlyDeaths ==
  /\ worker' \in [Workers -> WorkerRecords]
  /\ \A v \in Workers :
       /\ worker'[v].pc \in {worker[v].pc, "dead"}
       /\ worker[v].pc = "unborn" => worker'[v].pc = "unborn"
       /\ worker'[v].child = "alive" => worker[v].child = "alive"
       /\ Contained /\ worker'[v].pc = "dead" => worker[v].pc = "dead" \/ ~(ChildActive(v)')
       /\ \/ worker'[v].pc = "dead" /\ ~worker'[v].done
          \/ /\ worker'[v].pc = worker[v].pc
             /\ worker'[v].attempt = worker[v].attempt
             /\ worker'[v].done = worker[v].done
             /\ worker'[v].clean = worker[v].clean
  /\ lease' \in Leases
  /\ lease'.holder \in {lease.holder, None}

(* The record keeps what it says of the request itself.                    *)
SameRequest(record) ==
  /\ record.rid = cancel.rid
  /\ record.target = cancel.target
  /\ record.launchError = cancel.launchError

(* state.cancel is written only under the claim, and the evidence in it     *)
(* only replaced by the coordinator's own.                                 *)
OwnedPatch(c) ==
  \/ UNCHANGED cancel
  \/ /\ OwnsCancelWrite(c)
     /\ cancel' \in CancelRecords
     /\ cancel'.coordinator = c
     /\ SameRequest(cancel')
     /\ cancel'.descendants \in {cancel.descendants, coordinator'[c].descendants}

Leaves(c) ==
  /\ coordinator'[c] = NoCoordinator("dead")
  /\ UNCHANGED status
  /\ \/ UNCHANGED cancel
     \/ /\ OwnsCancelWrite(c)
        /\ cancel' \in CancelRecords
        /\ cancel'.coordinator = c
        /\ SameRequest(cancel')
        /\ cancel'.descendants = cancel.descendants

Works(c) ==
  /\ Acting(c)
  /\ coordinator'[c] \in CoordinatorRecords
  /\ coordinator'[c].pc \in ActingPCs \ {"check_target"}
  /\ coordinator'[c].rid = coordinator[c].rid
  /\ coordinator'[c].target = coordinator[c].target
  /\ coordinator'[c].goal = coordinator[c].goal
  /\ coordinator'[c].descendants \subseteq {coordinator[c].target}
  /\ coordinator'[c].pc # "block" => coordinator[c].target \in Workers
  /\ coordinator'[c].pc = "verify" =>
       cancel'.descendants = coordinator'[c].descendants
  /\ coordinator'[c].pc = "commit" =>
       /\ coordinator[c].pc = "verify"
       /\ UNCHANGED cancel
       /\ coordinator'[c].descendants = coordinator[c].descendants
       /\ worker'[coordinator[c].target].pc = "dead"
       /\ lease'.holder # coordinator[c].target
       /\ \A w \in coordinator[c].descendants : worker'[w].child # "alive"
  /\ UNCHANGED status
  /\ OwnedPatch(c)

Claims(c) ==
  /\ ClaimAllowed(c)
  /\ coordinator'[c] \in CoordinatorRecords
  /\ coordinator'[c].pc = "check_target"
  /\ coordinator'[c].rid = coordinator[c].rid
  /\ coordinator'[c].target = control.worker
  /\ coordinator'[c].goal = attempt
  /\ coordinator'[c].descendants = cancel.descendants
  /\ status' = "cancelling"
  /\ cancel' \in CancelRecords
  /\ cancel'.coordinator = c
  /\ SameRequest(cancel')
  /\ cancel'.descendants = cancel.descendants
  /\ UNCHANGED workerVars

Commits(c) ==
  /\ coordinator[c].pc = "commit"
  /\ OwnsCancelWrite(c)
  /\ coordinator'[c] = NoCoordinator("dead")
  /\ status' = "cancelled"
  /\ cancel' \in CancelRecords
  /\ cancel'.coordinator = c
  /\ SameRequest(cancel')
  /\ cancel'.descendants = cancel.descendants
  /\ UNCHANGED workerVars

CoordinatorShape(c) ==
  /\ UNCHANGED <<attempt, bound, contained, control, requests, lock>>
  /\ status' # status => LockFree
  /\ coordinator' = [coordinator EXCEPT ![c] = coordinator'[c]]
  /\ OnlyDeaths
  /\ Leaves(c) \/ Works(c) \/ Claims(c) \/ Commits(c)

(* No step of a coordinator disturbs the evidence of another, and its own   *)
(* commit rests on what it verified (cancel_worker.py).                    *)
LEMMA CoordinatorKeeps ==
  ASSUME CancelInv, NEW c \in Coordinators, CoordinatorShape(c),
         UNCHANGED managerVars, faults' \in 0..MaxFaults
  PROVE  CancelInv'
<1> USE DEF CancelInv, CoordinatorShape, managerVars
<1>0. /\ \A d \in Coordinators \ {c} : coordinator'[d] = coordinator[d]
      /\ coordinator' \in [Coordinators -> CoordinatorRecords]
  <2>1. NoCoordinator("dead") \in CoordinatorRecords
    BY BoundsAssumption DEF NoCoordinator, CoordinatorRecords, CoordinatorPCs, Phases, Captures
  <2>2. coordinator'[c] \in CoordinatorRecords
    BY <2>1 DEF Leaves, Works, Claims, Commits
  <2> QED BY <2>2 DEF TypeOK, CoordinatorTypeOK
<1>1. TypeOK'
  <2>1. cancel' \in CancelRecords /\ status' \in Status
    BY DEF TypeOK, StoreTypeOK, Leaves, Works, OwnedPatch, Claims, Commits, Status,
           ACTIVE_STATES, TERMINAL_STATES
  <2> QED BY <1>0, <2>1 DEF TypeOK, StoreTypeOK, WorkerTypeOK, OnlyDeaths, CoordinatorTypeOK,
                            ManagerTypeOK
<1>2. SectionsHeld'
  BY IdentityAssumption DEF SectionsHeld, LockFree
<1>d. NoCoordinator("dead").pc = "dead" /\ NoCoordinator("dead").rid = 0
      /\ NoCoordinator("dead").target = None
  BY DEF NoCoordinator
<1>a. coordinator'[c].rid \in {coordinator[c].rid, 0}
  BY <1>d DEF Leaves, Works, Claims, Commits
<1>b. coordinator'[c].target \in {coordinator[c].target, control.worker, None}
  BY <1>d DEF Leaves, Works, Claims, Commits
<1>3. IdentitiesBorn'
  <2>1. \A v \in Workers : worker[v].pc # "unborn" => worker'[v].pc # "unborn"
    BY DEF OnlyDeaths
  <2> QED BY <1>0, <1>b, <2>1, IdentityAssumption DEF IdentitiesBorn, Born
<1>4. RequestsIssued'
  <2>1. requests \in Nat
    BY BoundsAssumption DEF TypeOK, StoreTypeOK
  <2> QED BY <1>0, <1>a, <2>1 DEF RequestsIssued
<1>e. Claims(c) => cancel.descendants \subseteq {control.worker}
  BY DEF Claims, ClaimAllowed, CANCELLING_STATES, EvidenceOwned
<1>5. TargetsAgree'
  <2> SUFFICES ASSUME NEW d \in Coordinators, Acting(d)'
               PROVE  /\ coordinator'[d].rid # 0
                      /\ control.rid = coordinator'[d].rid => coordinator'[d].target = control.worker
                      /\ coordinator'[d].descendants \subseteq {coordinator'[d].target}
                      /\ coordinator'[d].pc \notin {"check_target", "block"}
                           => coordinator'[d].target \in Workers
    BY DEF TargetsAgree
  <2>1. CASE d # c
    BY <1>0, <2>1 DEF TargetsAgree, Acting
  <2>2. CASE d = c /\ Works(c)
    BY <2>2 DEF Works, TargetsAgree, Acting
  <2>3. CASE d = c /\ Claims(c)
    BY <2>3, <1>e DEF Claims, ClaimAllowed
  <2>4. CASE d = c /\ (Leaves(c) \/ Commits(c))
    BY <2>4, <1>d DEF Leaves, Commits, Acting, ActingPCs
  <2> QED BY <2>1, <2>2, <2>3, <2>4
<1>6. EvidenceOwned'
  <2>1. status' = "cancel_requested" => status = "cancel_requested" /\ UNCHANGED cancel
    BY DEF Leaves, Works, OwnedPatch, Claims, Commits, OwnsCancelWrite
  <2>2. OwnsCancelWrite(c) /\ Works(c) => coordinator[c].target = control.worker
    BY DEF Works, OwnsCancelWrite, TargetsAgree
  <2>3. status' \in {"cancelling", "cancelled"} => cancel'.descendants \subseteq {control.worker}
    <3>1. CASE Works(c)
      BY <2>2, <3>1 DEF Works, OwnedPatch, EvidenceOwned, OwnsCancelWrite
    <3>2. CASE Leaves(c) \/ Commits(c)
      BY <3>2 DEF Leaves, Commits, EvidenceOwned, OwnsCancelWrite
    <3>3. CASE Claims(c)
      BY <3>3, <1>e DEF Claims
    <3> QED BY <3>1, <3>2, <3>3
  <2>4. ASSUME NEW d \in Coordinators, cancel'.coordinator = d,
               coordinator'[d].pc \in {"verify", "commit"}
        PROVE  cancel'.descendants = coordinator'[d].descendants
    <3>1. CASE d = c
      <4>1. Works(c)
        BY <2>4, <3>1, <1>d DEF Leaves, Commits, Claims
      <4>2. coordinator'[c].pc = "commit" =>
              coordinator[c].pc = "verify" /\ UNCHANGED cancel
              /\ coordinator'[c].descendants = coordinator[c].descendants
        BY <4>1 DEF Works
      <4> QED BY <2>4, <3>1, <4>1, <4>2 DEF Works, EvidenceOwned
    <3>2. CASE d # c
      <4>1. UNCHANGED cancel
        BY <2>4, <3>2 DEF Leaves, Works, OwnedPatch, Claims, Commits
      <4> QED BY <1>0, <2>4, <3>2, <4>1 DEF EvidenceOwned
    <3> QED BY <3>1, <3>2
  <2> QED BY <2>1, <2>3, <2>4 DEF EvidenceOwned
<1>7. VerifiedStands'
  <2> SUFFICES ASSUME NEW d \in Coordinators, coordinator'[d].pc = "commit"
               PROVE  /\ worker'[coordinator'[d].target].pc = "dead"
                      /\ lease'.holder # coordinator'[d].target
                      /\ \A v \in coordinator'[d].descendants : ~(ChildActive(v)')
    BY DEF VerifiedStands
  <2>1. CASE d = c
    <3>1. Works(c)
      BY <2>1, <1>d DEF Leaves, Commits, Claims
    <3> QED BY <2>1, <3>1 DEF Works, ChildActive
  <2>2. CASE d # c
    <3>1. /\ coordinator[d].pc = "commit" /\ coordinator'[d] = coordinator[d]
          /\ coordinator[d].target \in Workers
          /\ coordinator[d].descendants \subseteq {coordinator[d].target}
      BY <1>0, <2>2 DEF TargetsAgree, Acting, ActingPCs, CoordinatorPCs
    <3> QED BY <3>1, IdentityAssumption DEF VerifiedStands, OnlyDeaths, ChildActive
  <2> QED BY <2>1, <2>2
<1>8. CancelledIsProved'
  <2> SUFFICES ASSUME status' = "cancelled" PROVE CancelledIsProved'
    BY DEF CancelledIsProved
  <2>1. CASE Commits(c)
    <3>1. control.rid = coordinator[c].rid /\ Targets(attempt) /\ cancel.coordinator = c
      BY <2>1 DEF Commits, OwnsCancelWrite
    <3>2. coordinator[c].target = control.worker /\ coordinator[c].target \in Workers
      BY <2>1, <3>1 DEF Commits, TargetsAgree, Acting, ActingPCs, CoordinatorPCs
    <3>3. cancel'.descendants = coordinator[c].descendants
      BY <2>1, <3>1 DEF Commits, EvidenceOwned
    <3> QED BY <2>1, <3>1, <3>2, <3>3
            DEF Commits, workerVars, VerifiedStands, CancelledIsProved, Targets, Alive, ChildActive
  <2>2. CASE ~Commits(c)
    <3>1. status = "cancelled" /\ UNCHANGED cancel
      BY <2>2 DEF Leaves, Works, OwnedPatch, Claims, OwnsCancelWrite
    <3>2. control.worker \in Workers /\ worker[control.worker].pc = "dead"
      BY <3>1, CancelledWorkerDead
    <3>3. cancel.descendants \subseteq {control.worker}
      BY <3>1 DEF EvidenceOwned
    <3> QED BY <3>1, <3>2, <3>3, IdentityAssumption
            DEF OnlyDeaths, CancelledIsProved, Targets, Alive, ChildActive
  <2> QED BY <2>1, <2>2
<1> QED BY <1>1, <1>2, <1>3, <1>4, <1>5, <1>6, <1>7, <1>8

(* A coordinator that becomes a record changes no other.                   *)
LEMMA CoordinatorBecomes ==
  ASSUME TypeOK, NEW c \in Coordinators, NEW r,
         coordinator' = [coordinator EXCEPT ![c] = r]
  PROVE  /\ coordinator'[c] = r
         /\ coordinator' = [coordinator EXCEPT ![c] = coordinator'[c]]
  BY DEF TypeOK, CoordinatorTypeOK

(* What changes no process and no lease kills nothing.                     *)
LEMMA NothingDies ==
  ASSUME TypeOK, UNCHANGED workerVars
  PROVE  OnlyDeaths
  BY DEF TypeOK, WorkerTypeOK, OnlyDeaths, workerVars

(* A coordinator that exits without writing has that shape.                *)
LEMMA ExitShape ==
  ASSUME TypeOK, NEW c \in Coordinators, CoordinatorExits(c),
         UNCHANGED <<storeVars, workerVars>>
  PROVE  CoordinatorShape(c)
<1>1. coordinator'[c] = NoCoordinator("dead")
      /\ coordinator' = [coordinator EXCEPT ![c] = coordinator'[c]]
  BY CoordinatorBecomes DEF CoordinatorExits
<1> QED BY <1>1, NothingDies DEF CoordinatorShape, Leaves, storeVars, workerVars

(* So has a write under the ownership test, done or lost.                  *)
LEMMA OwnedWriteShape ==
  ASSUME CancelInv, NEW c \in Coordinators, Acting(c),
         NEW record \in CancelRecords, record.coordinator = cancel.coordinator,
         SameRequest(record),
         NEW next \in CoordinatorRecords,
         next.pc \in ActingPCs \ {"check_target", "commit"},
         next.rid = coordinator[c].rid, next.target = coordinator[c].target,
         next.goal = coordinator[c].goal,
         next.descendants \subseteq {next.target},
         next.pc # "block" => next.target \in Workers,
         record.descendants \in {cancel.descendants, next.descendants},
         next.pc = "verify" => record.descendants = next.descendants,
         OwnedWrite(c, record, next)
  PROVE  CoordinatorShape(c)
<1>0. TypeOK
  BY DEF CancelInv
<1>1. CASE OwnsCancelWrite(c) /\ PatchCancel(record) /\ coordinator' = [coordinator EXCEPT ![c] = next]
  <2>1. coordinator'[c] = next /\ coordinator' = [coordinator EXCEPT ![c] = coordinator'[c]]
    BY <1>0, <1>1, CoordinatorBecomes
  <2>2. OnlyDeaths
    BY <1>0, NothingDies DEF OwnedWrite, workerVars
  <2>3. cancel' = record /\ UNCHANGED <<status, attempt, bound, contained, control, requests, lock>>
    BY <1>1 DEF PatchCancel
  <2>4. cancel'.coordinator = c
    BY <1>1, <2>3 DEF OwnsCancelWrite
  <2>5. Works(c)
    BY <1>1, <2>1, <2>3, <2>4 DEF Works, OwnedPatch
  <2> QED BY <2>1, <2>2, <2>3, <2>5 DEF CoordinatorShape
<1>2. CASE CoordinatorExits(c) /\ UNCHANGED storeVars
  BY <1>0, <1>2, ExitShape DEF OwnedWrite, workerVars
<1> QED BY <1>1, <1>2 DEF OwnedWrite

(* A step that only moves the coordinator on.                              *)
LEMMA GoesOn ==
  ASSUME CancelInv, NEW c \in Coordinators, Acting(c),
         NEW next \in CoordinatorRecords,
         next.pc \in ActingPCs \ {"check_target", "commit", "verify"},
         next.rid = coordinator[c].rid, next.target = coordinator[c].target,
         next.goal = coordinator[c].goal,
         next.descendants \subseteq {next.target},
         next.pc # "block" => next.target \in Workers,
         coordinator' = [coordinator EXCEPT ![c] = next],
         OnlyDeaths, UNCHANGED storeVars
  PROVE  CoordinatorShape(c)
<1>1. coordinator'[c] = next /\ coordinator' = [coordinator EXCEPT ![c] = coordinator'[c]]
  BY CoordinatorBecomes DEF CancelInv
<1>2. UNCHANGED <<status, cancel, attempt, bound, contained, control, requests, lock>>
  BY DEF storeVars
<1>3. Works(c)
  BY <1>1, <1>2 DEF Works, OwnedPatch
<1> QED BY <1>1, <1>2, <1>3 DEF CoordinatorShape

(* A coordinator moved to another step keeps all it knows.                 *)
LEMMA AtFacts ==
  ASSUME TypeOK, NEW c \in Coordinators, NEW pc \in CoordinatorPCs
  PROVE  /\ At(c, pc) \in CoordinatorRecords
         /\ At(c, pc).pc = pc
         /\ At(c, pc).rid = coordinator[c].rid
         /\ At(c, pc).target = coordinator[c].target
         /\ At(c, pc).goal = coordinator[c].goal
         /\ At(c, pc).descendants = coordinator[c].descendants
         /\ CoordinatorGoto(c, pc) => coordinator' = [coordinator EXCEPT ![c] = At(c, pc)]
<1>1. coordinator[c] \in CoordinatorRecords
  BY DEF TypeOK, CoordinatorTypeOK
<1> QED BY <1>1 DEF At, CoordinatorGoto, CoordinatorRecords

(* What an acting coordinator knows of its target.                         *)
LEMMA ActingKnows ==
  ASSUME CancelInv, NEW c \in Coordinators, Acting(c)
  PROVE  /\ coordinator[c] \in CoordinatorRecords
         /\ coordinator[c].descendants \subseteq {coordinator[c].target}
         /\ coordinator[c].pc \notin {"check_target", "block"} => coordinator[c].target \in Workers
  BY DEF CancelInv, TypeOK, CoordinatorTypeOK, TargetsAgree

(* A step that changes only the program counter.                           *)
LEMMA GotoGoesOn ==
  ASSUME CancelInv, NEW c \in Coordinators, Acting(c),
         NEW pc \in ActingPCs \ {"check_target", "commit", "verify"},
         pc # "block" => coordinator[c].target \in Workers,
         CoordinatorGoto(c, pc), OnlyDeaths, UNCHANGED storeVars
  PROVE  CoordinatorShape(c)
<1>1. TypeOK /\ pc \in CoordinatorPCs
  BY DEF CancelInv, ActingPCs
<1>2. /\ At(c, pc) \in CoordinatorRecords
      /\ At(c, pc).pc = pc
      /\ At(c, pc).rid = coordinator[c].rid
      /\ At(c, pc).target = coordinator[c].target
      /\ At(c, pc).goal = coordinator[c].goal
      /\ At(c, pc).descendants = coordinator[c].descendants
      /\ coordinator' = [coordinator EXCEPT ![c] = At(c, pc)]
  BY <1>1, AtFacts
<1>3. coordinator[c].descendants \subseteq {coordinator[c].target}
  BY ActingKnows
<1> QED BY <1>2, <1>3, GoesOn

(* refresh_descendants blocks or checkpoints what it found.                *)
LEMMA RefreshShape ==
  ASSUME CancelInv, NEW c \in Coordinators, Acting(c), coordinator[c].target \in Workers,
         NEW inTree \in BOOLEAN, NEW phase \in Phases,
         NEW next \in ActingPCs \ {"check_target", "commit", "verify"},
         RefreshDescendants(c, inTree, phase, next)
  PROVE  CoordinatorShape(c)
<1> DEFINE me == coordinator[c]
           w == me.target
           proved(v) == v = "active" \/ inTree \/ me.capture = "live_enumeration"
           found(v) == {d \in {w} : v = "active" /\ ChildActive(d)}
           method(v) == CASE v = "active" -> "live_enumeration"
                          [] ~(v = "active") /\ inTree -> "contained_worker_exit"
                          [] OTHER -> me.capture
           after(v) == [me EXCEPT !.pc = next, !.inTree = inTree, !.capture = method(v),
                                  !.descendants = @ \union found(v)]
           record(v) == [cancel EXCEPT !.phase = phase, !.capture = method(v),
                                       !.descendants = after(v).descendants]
<1>0. TypeOK
  BY DEF CancelInv
<1>1. PICK v \in Verdicts(Alive(w)) :
        \/ CoordinatorGoto(c, "block") /\ UNCHANGED <<storeVars, workerVars>>
        \/ OwnedWrite(c, record(v), after(v))
  BY DEF RefreshDescendants
<1>2. CASE CoordinatorGoto(c, "block") /\ UNCHANGED <<storeVars, workerVars>>
  BY <1>0, <1>2, GotoGoesOn, NothingDies DEF ActingPCs, CoordinatorPCs, workerVars
<1>3. CASE OwnedWrite(c, record(v), after(v))
  <2>1. me \in CoordinatorRecords /\ me.descendants \subseteq {w}
    BY ActingKnows
  <2>2. method(v) \in Captures
    BY <2>1 DEF Captures, CoordinatorRecords
  <2>3. found(v) \subseteq {w}
    OBVIOUS
  <2> HIDE DEF method, found
  <2>4. /\ after(v) \in CoordinatorRecords
        /\ after(v).pc = next /\ after(v).rid = me.rid /\ after(v).target = w
        /\ after(v).goal = me.goal
        /\ after(v).descendants = me.descendants \union found(v)
    BY <2>1, <2>2, <2>3 DEF CoordinatorRecords, ActingPCs
  <2>5. after(v).descendants \subseteq {w}
    BY <2>1, <2>3, <2>4
  <2> HIDE DEF after
  <2>6. /\ record(v) \in CancelRecords
        /\ record(v).coordinator = cancel.coordinator
        /\ SameRequest(record(v))
        /\ record(v).descendants = after(v).descendants
    <3> DEFINE d == after(v).descendants
               m == method(v)
    <3>1. d \in SUBSET Workers /\ m \in Captures
      BY <2>2, <2>5
    <3> HIDE DEF d, m
    <3>2. cancel \in CancelRecords
      BY <1>0 DEF TypeOK, StoreTypeOK
    <3>3. /\ [cancel EXCEPT !.phase = phase, !.capture = m, !.descendants = d] \in CancelRecords
          /\ SameRequest([cancel EXCEPT !.phase = phase, !.capture = m, !.descendants = d])
          /\ [cancel EXCEPT !.phase = phase, !.capture = m, !.descendants = d].coordinator
               = cancel.coordinator
          /\ [cancel EXCEPT !.phase = phase, !.capture = m, !.descendants = d].descendants = d
      BY <3>1, <3>2 DEF CancelRecords, SameRequest
    <3> QED BY <3>3 DEF d, m
  <2> HIDE DEF record
  <2> QED BY <1>3, <2>4, <2>5, <2>6, OwnedWriteShape
<1> QED BY <1>1, <1>2, <1>3

(* The phase a coordinator resumes, and the one state.cancel is in.        *)
LEMMA PhasesKnown ==
  ASSUME CancelInv, NEW c \in Coordinators
  PROVE  /\ coordinator[c].resume \in Phases /\ coordinator[c].inTree \in BOOLEAN
         /\ cancel.phase \in Phases /\ cancel.descendants \in SUBSET Workers
         /\ contained \in BOOLEAN
  BY DEF CancelInv, TypeOK, StoreTypeOK, CoordinatorTypeOK, CancelRecords, CoordinatorRecords

(* A claim serves the current request with the evidence it finds.          *)
LEMMA ClaimShape ==
  ASSUME CancelInv, NEW c \in Coordinators, Claim(c)
  PROVE  CoordinatorShape(c)
<1> DEFINE resumed == IF cancel.phase \in RESUMABLE_PHASES THEN cancel.phase ELSE "native_grace"
<1>0. TypeOK /\ UNCHANGED workerVars /\ LockFree
  BY DEF CancelInv, Claim
<1>1. CASE CoordinatorExits(c) /\ UNCHANGED storeVars
  BY <1>0, <1>1, ExitShape
<1>2. CASE ~(CoordinatorExits(c) /\ UNCHANGED storeVars)
  <2> DEFINE r == [coordinator[c] EXCEPT !.pc = "check_target", !.target = control.worker,
                                         !.goal = attempt, !.resume = resumed,
                                         !.descendants = cancel.descendants,
                                         !.capture = cancel.capture]
             record == [cancel EXCEPT !.coordinator = c, !.phase = resumed]
  <2>1. /\ ClaimAllowed(c)
        /\ status' = "cancelling"
        /\ cancel' = record
        /\ UNCHANGED <<attempt, bound, contained, control, requests, lock>>
    BY <1>2 DEF Claim
  <2>2. resumed \in Phases
    BY DEF Phases, RESUMABLE_PHASES
  <2>3. /\ coordinator[c] \in CoordinatorRecords /\ cancel \in CancelRecords
        /\ control.worker \in Workers \union {None} /\ attempt \in 0..MaxAttempt
    BY <1>0, BoundsAssumption DEF TypeOK, CoordinatorTypeOK, StoreTypeOK, Controls
  <2>4. coordinator' = [coordinator EXCEPT ![c] = r]
    <3>1. coordinator \in [Coordinators -> CoordinatorRecords]
      BY <1>0 DEF TypeOK, CoordinatorTypeOK
    <3>2. coordinator' = [coordinator EXCEPT
                                 ![c].pc = "check_target",
                                 ![c].target = control.worker,
                                 ![c].goal = attempt,
                                 ![c].resume = resumed,
                                 ![c].descendants = cancel.descendants,
                                 ![c].capture = cancel.capture]
      BY <1>2 DEF Claim
    <3> HIDE DEF resumed
    <3> QED BY <3>1, <3>2 DEF CoordinatorRecords
  <2> HIDE DEF resumed
  <2>5. /\ r \in CoordinatorRecords
        /\ r.pc = "check_target" /\ r.rid = coordinator[c].rid
        /\ r.target = control.worker /\ r.goal = attempt /\ r.descendants = cancel.descendants
    BY <2>2, <2>3 DEF CoordinatorRecords, CoordinatorPCs, CancelRecords
  <2>6. /\ record \in CancelRecords /\ record.coordinator = c
        /\ record.descendants = cancel.descendants /\ SameRequest(record)
    BY <2>2, <2>3 DEF CancelRecords, SameRequest
  <2> HIDE DEF r, record
  <2>7. coordinator'[c] = r /\ coordinator' = [coordinator EXCEPT ![c] = coordinator'[c]]
    BY <1>0, <2>4, CoordinatorBecomes
  <2>8. Claims(c)
    BY <1>0, <2>1, <2>5, <2>6, <2>7 DEF Claims
  <2> QED BY <1>0, <2>1, <2>7, <2>8, NothingDies DEF CoordinatorShape
<1> QED BY <1>1, <1>2

(* A capture before the first signal only adds children of the target.     *)
LEMMA RecaptureShape ==
  ASSUME CancelInv, NEW c \in Coordinators, Recapture(c)
  PROVE  CoordinatorShape(c)
<1> DEFINE me == coordinator[c]
           w == me.target
<1>0. /\ TypeOK /\ Acting(c) /\ UNCHANGED <<storeVars, workerVars>>
      /\ coordinator \in [Coordinators -> CoordinatorRecords]
  BY DEF CancelInv, TypeOK, CoordinatorTypeOK, Recapture, Acting, ActingPCs, CoordinatorPCs
<1>1. me \in CoordinatorRecords /\ me.descendants \subseteq {w} /\ w \in Workers
  BY <1>0, ActingKnows DEF Recapture
<1>2. PICK v \in Verdicts(Alive(w)) :
        \E pc \in {"block", "enter_verifying", "last_capture", "enter_force_kill",
                   "enter_terminate"} :
          coordinator' = [coordinator EXCEPT
                            ![c].pc = pc,
                            ![c].descendants =
                               me.descendants \union {d \in {w} : v = "active" /\ ChildActive(d)}]
  BY DEF Recapture
<1>3. PICK pc \in {"block", "enter_verifying", "last_capture", "enter_force_kill",
                   "enter_terminate"} :
          coordinator' = [coordinator EXCEPT
                            ![c].pc = pc,
                            ![c].descendants =
                               me.descendants \union {d \in {w} : v = "active" /\ ChildActive(d)}]
  BY <1>2
<1> DEFINE D == me.descendants \union {d \in {w} : v = "active" /\ ChildActive(d)}
<1>4. D \subseteq {w}
  BY <1>1
<1> HIDE DEF D
<1> DEFINE r == [coordinator[c] EXCEPT !.pc = pc, !.descendants = D]
<1>5. /\ r \in CoordinatorRecords
      /\ r.pc = pc /\ r.rid = me.rid /\ r.target = w /\ r.goal = me.goal /\ r.descendants = D
  BY <1>1, <1>4 DEF CoordinatorRecords, CoordinatorPCs
<1>6. coordinator' = [coordinator EXCEPT ![c] = r]
  <2>1. coordinator' = [coordinator EXCEPT ![c].pc = pc, ![c].descendants = D]
    BY <1>3 DEF D
  <2> QED BY <1>0, <2>1 DEF CoordinatorRecords
<1> HIDE DEF r
<1>7. pc \in ActingPCs \ {"check_target", "commit", "verify"}
  BY DEF ActingPCs, CoordinatorPCs
<1> QED BY <1>0, <1>1, <1>4, <1>5, <1>6, <1>7, NothingDies, GoesOn

(* A signal kills at most the exact target.                                *)
LEMMA SignalShape ==
  ASSUME CancelInv, NEW c \in Coordinators, Acting(c), coordinator[c].target \in Workers,
         NEW pc \in ActingPCs \ {"check_target", "commit", "verify"}, Signal(c, pc)
  PROVE  CoordinatorShape(c)
<1>0. TypeOK /\ worker \in [Workers -> WorkerRecords]
  BY DEF CancelInv, TypeOK, WorkerTypeOK
<1>1. OnlyDeaths
  <2>1. CASE UNCHANGED worker
    BY <1>0, <2>1, NothingDies DEF Signal, workerVars
  <2>2. CASE Alive(coordinator[c].target)
             /\ Becomes(coordinator[c].target, Exited(coordinator[c].target))
    <3> DEFINE w == coordinator[c].target
    <3>1. Exited(w) \in WorkerRecords /\ Exited(w).pc = "dead"
      BY <1>0, ExitedRecord
    <3>2. /\ Exited(w).child = "alive" => worker[w].child = "alive" /\ ~Contained
          /\ ~Exited(w).done
      BY DEF Exited, Idle
    <3>3. lease' = lease /\ lease \in Leases
      BY <1>0 DEF Signal, TypeOK, WorkerTypeOK
    <3> QED BY <1>0, <2>2, <3>1, <3>2, <3>3 DEF Becomes, Alive, ChildActive, OnlyDeaths
  <2> QED BY <2>1, <2>2 DEF Signal
<1> QED BY <1>1, GotoGoesOn DEF Signal

(* Reaping kills captured children and nothing else.                       *)
LEMMA ReapShape ==
  ASSUME CancelInv, NEW c \in Coordinators, Reap(c)
  PROVE  CoordinatorShape(c)
<1>0. TypeOK /\ Acting(c) /\ worker \in [Workers -> WorkerRecords] /\ lease \in Leases
  BY DEF CancelInv, TypeOK, WorkerTypeOK, Reap, Acting, ActingPCs, CoordinatorPCs
<1>1. PICK killed \in SUBSET Workers :
        worker' = [w \in Workers |->
                     IF w \in killed THEN [worker[w] EXCEPT !.child = "dead"] ELSE worker[w]]
  <2>1. coordinator[c].descendants \subseteq Workers
    BY <1>0, ActingKnows DEF Reap
  <2> QED BY <2>1 DEF Reap
<1>2. ASSUME NEW w \in Workers
      PROVE  /\ worker'[w] \in WorkerRecords
             /\ worker'[w].pc = worker[w].pc
             /\ worker'[w].child \in {worker[w].child, "dead"}
             /\ worker'[w].attempt = worker[w].attempt
             /\ worker'[w].done = worker[w].done
             /\ worker'[w].clean = worker[w].clean
  BY <1>0, <1>1 DEF WorkerRecords
<1>3. OnlyDeaths
  BY <1>0, <1>1, <1>2 DEF OnlyDeaths, ChildActive, Reap
<1>4. coordinator[c].target \in Workers
  BY <1>0, ActingKnows DEF Reap
<1> QED BY <1>0, <1>3, <1>4, GotoGoesOn DEF Reap, ActingPCs, CoordinatorPCs

(* Verification moves to the commit only on a dead target with dead         *)
(* descendants and no lease (_verified_cancel).                            *)
LEMMA VerifyShape ==
  ASSUME CancelInv, NEW c \in Coordinators, Verify(c)
  PROVE  CoordinatorShape(c)
<1> DEFINE me == coordinator[c]
<1>0. /\ TypeOK /\ Acting(c) /\ UNCHANGED <<storeVars, worker>> /\ me.pc = "verify"
      /\ worker \in [Workers -> WorkerRecords] /\ lease \in Leases
  BY DEF CancelInv, TypeOK, WorkerTypeOK, Verify, Acting, ActingPCs, CoordinatorPCs
<1>1. me.target \in Workers /\ me.descendants \subseteq {me.target}
  BY <1>0, ActingKnows
<1>2. NoLease \in Leases /\ NoLease.holder = None
  BY DEF NoLease, Leases
<1>3. OnlyDeaths
  BY <1>0, <1>2 DEF Verify, OnlyDeaths
<1>4. CASE CoordinatorGoto(c, "block")
  BY <1>0, <1>1, <1>3, <1>4, GotoGoesOn DEF ActingPCs, CoordinatorPCs
<1>5. CASE /\ ~Alive(me.target) /\ \A w \in me.descendants : ~ChildActive(w)
           /\ lease' = NoLease
           /\ CoordinatorGoto(c, "commit")
  <2>1. /\ At(c, "commit") \in CoordinatorRecords
        /\ At(c, "commit").pc = "commit"
        /\ At(c, "commit").rid = me.rid
        /\ At(c, "commit").target = me.target
        /\ At(c, "commit").goal = me.goal
        /\ At(c, "commit").descendants = me.descendants
        /\ coordinator' = [coordinator EXCEPT ![c] = At(c, "commit")]
    BY <1>0, <1>5, AtFacts DEF CoordinatorPCs
  <2>2. coordinator'[c] = At(c, "commit") /\ coordinator' = [coordinator EXCEPT ![c] = coordinator'[c]]
    BY <1>0, <2>1, CoordinatorBecomes
  <2>3. worker'[me.target].pc = "dead"
    BY <1>0, <1>1, <1>5 DEF CancelInv, IdentitiesBorn, Born, Alive
  <2>4. Works(c)
    BY <1>0, <1>1, <1>2, <1>5, <2>1, <2>2, <2>3, IdentityAssumption
       DEF Works, OwnedPatch, storeVars, ChildActive, ActingPCs, CoordinatorPCs
  <2> QED BY <1>0, <1>3, <2>2, <2>4 DEF CoordinatorShape, storeVars
<1> QED BY <1>4, <1>5 DEF Verify

(* The commit writes the terminal status it owns, or nothing.              *)
LEMMA CommitShape ==
  ASSUME CancelInv, NEW c \in Coordinators, CommitCancelled(c)
  PROVE  CoordinatorShape(c)
<1>0. TypeOK /\ CoordinatorExits(c) /\ UNCHANGED workerVars /\ LockFree /\ cancel \in CancelRecords
  BY DEF CancelInv, TypeOK, StoreTypeOK, CommitCancelled
<1>1. CASE UNCHANGED storeVars
  BY <1>0, <1>1, ExitShape
<1>2. CASE OwnsCancelWrite(c) /\ ~UNCHANGED storeVars
  <2>1. /\ cancel' = [cancel EXCEPT !.phase = "verified"] /\ status' = "cancelled"
        /\ UNCHANGED <<attempt, bound, contained, control, requests, lock>>
    BY <1>2 DEF CommitCancelled
  <2>2. /\ cancel' \in CancelRecords /\ cancel'.coordinator = cancel.coordinator
        /\ cancel'.descendants = cancel.descendants /\ SameRequest(cancel')
    BY <1>0, <2>1 DEF CancelRecords, Phases, SameRequest
  <2>3. coordinator'[c] = NoCoordinator("dead")
        /\ coordinator' = [coordinator EXCEPT ![c] = coordinator'[c]]
    BY <1>0, CoordinatorBecomes DEF CoordinatorExits
  <2>4. cancel'.coordinator = c
    BY <1>2, <2>2 DEF OwnsCancelWrite
  <2>5. Commits(c)
    BY <1>0, <1>2, <2>1, <2>2, <2>3, <2>4 DEF Commits, CommitCancelled
  <2> QED BY <1>0, <2>1, <2>3, <2>5, NothingDies DEF CoordinatorShape
<1> QED BY <1>1, <1>2 DEF CommitCancelled

(* A blocker is written under the claim, and the coordinator exits.        *)
LEMMA BlockerShape ==
  ASSUME CancelInv, NEW c \in Coordinators, RecordBlocker(c)
  PROVE  CoordinatorShape(c)
<1>0. TypeOK /\ UNCHANGED workerVars /\ cancel \in CancelRecords
  BY DEF CancelInv, TypeOK, StoreTypeOK, RecordBlocker, OwnedWrite
<1>1. CASE CoordinatorExits(c) /\ UNCHANGED storeVars
  BY <1>0, <1>1, ExitShape
<1>2. CASE /\ OwnsCancelWrite(c) /\ PatchCancel([cancel EXCEPT !.phase = "blocked"])
           /\ coordinator' = [coordinator EXCEPT ![c] = NoCoordinator("dead")]
  <2>1. /\ cancel' = [cancel EXCEPT !.phase = "blocked"]
        /\ UNCHANGED <<status, attempt, bound, contained, control, requests, lock>>
    BY <1>2 DEF PatchCancel
  <2>2. /\ cancel' \in CancelRecords /\ cancel'.coordinator = cancel.coordinator
        /\ cancel'.descendants = cancel.descendants /\ SameRequest(cancel')
    BY <1>0, <2>1 DEF CancelRecords, Phases, SameRequest
  <2>3. coordinator'[c] = NoCoordinator("dead")
        /\ coordinator' = [coordinator EXCEPT ![c] = coordinator'[c]]
    BY <1>0, <1>2, CoordinatorBecomes
  <2>4. Leaves(c)
    BY <1>2, <2>1, <2>2, <2>3 DEF Leaves, OwnsCancelWrite
  <2> QED BY <1>0, <2>1, <2>3, <2>4, NothingDies DEF CoordinatorShape
<1> QED BY <1>1, <1>2 DEF RecordBlocker, OwnedWrite

(* A checkpoint that changes the phase only.                               *)
LEMMA PhaseCheckpoint ==
  ASSUME CancelInv, NEW c \in Coordinators, Acting(c), coordinator[c].target \in Workers,
         NEW phase \in Phases, NEW pc \in ActingPCs \ {"check_target", "commit", "verify"},
         OwnedWrite(c, [cancel EXCEPT !.phase = phase], At(c, pc))
  PROVE  CoordinatorShape(c)
<1> DEFINE record == [cancel EXCEPT !.phase = phase]
<1>1. TypeOK /\ pc \in CoordinatorPCs /\ cancel \in CancelRecords
  BY DEF CancelInv, TypeOK, StoreTypeOK, ActingPCs
<1>2. /\ record \in CancelRecords /\ record.coordinator = cancel.coordinator
      /\ record.descendants = cancel.descendants /\ SameRequest(record)
  BY <1>1 DEF CancelRecords, SameRequest
<1>3. /\ At(c, pc) \in CoordinatorRecords
      /\ At(c, pc).pc = pc
      /\ At(c, pc).rid = coordinator[c].rid
      /\ At(c, pc).target = coordinator[c].target
      /\ At(c, pc).goal = coordinator[c].goal
      /\ At(c, pc).descendants = coordinator[c].descendants
  BY <1>1, AtFacts
<1>4. coordinator[c].descendants \subseteq {coordinator[c].target}
  BY ActingKnows
<1> HIDE DEF record
<1>5. OwnedWrite(c, record, At(c, pc))
  BY DEF record
<1> QED BY <1>2, <1>3, <1>4, <1>5, OwnedWriteShape

(* A checkpoint that changes the phase and persists the descendants.       *)
LEMMA EvidenceCheckpoint ==
  ASSUME CancelInv, NEW c \in Coordinators, Acting(c), coordinator[c].target \in Workers,
         NEW phase \in Phases, NEW pc \in ActingPCs \ {"check_target", "commit"},
         OwnedWrite(c, [cancel EXCEPT !.phase = phase,
                                      !.descendants = coordinator[c].descendants],
                    At(c, pc))
  PROVE  CoordinatorShape(c)
<1> DEFINE record == [cancel EXCEPT !.phase = phase, !.descendants = coordinator[c].descendants]
<1>1. TypeOK /\ pc \in CoordinatorPCs /\ cancel \in CancelRecords
  BY DEF CancelInv, TypeOK, StoreTypeOK, ActingPCs
<1>2. coordinator[c].descendants \subseteq {coordinator[c].target}
  BY ActingKnows
<1>3. /\ record \in CancelRecords /\ record.coordinator = cancel.coordinator
      /\ record.descendants = coordinator[c].descendants /\ SameRequest(record)
  BY <1>1, <1>2 DEF CancelRecords, SameRequest
<1>4. /\ At(c, pc) \in CoordinatorRecords
      /\ At(c, pc).pc = pc
      /\ At(c, pc).rid = coordinator[c].rid
      /\ At(c, pc).target = coordinator[c].target
      /\ At(c, pc).goal = coordinator[c].goal
      /\ At(c, pc).descendants = coordinator[c].descendants
  BY <1>1, AtFacts
<1> HIDE DEF record
<1>5. OwnedWrite(c, record, At(c, pc))
  BY DEF record
<1> QED BY <1>2, <1>3, <1>4, <1>5, OwnedWriteShape

(* Every step of a coordinator (all of run, in jobs/cancel_worker.py) has   *)
(* that shape.                                                             *)
LEMMA CoordinatorStepShape ==
  ASSUME CancelInv, NEW c \in Coordinators, CoordinatorStep(c)
  PROVE  CoordinatorShape(c)
<1>0. TypeOK
  BY DEF CancelInv
<1>a. ASSUME coordinator[c].pc \in ActingPCs \ {"check_target", "block"}
      PROVE  Acting(c) /\ coordinator[c].target \in Workers
  BY <1>a, ActingKnows DEF Acting
<1>b. ActingPCs = {"check_target", "first_capture", "grace", "recapture", "enter_terminate",
                   "terminate", "enter_force_kill", "force_kill", "last_capture", "reap",
                   "enter_verifying", "verify", "commit", "block"}
  BY DEF ActingPCs, CoordinatorPCs
<1>1. CASE Claim(c)
  BY <1>1, ClaimShape
<1>2. CASE CheckTarget(c)
  <2>1. Acting(c) /\ coordinator[c] \in CoordinatorRecords
    BY <1>0, <1>2, <1>b DEF CheckTarget, Acting, TypeOK, CoordinatorTypeOK
  <2>2. CASE CoordinatorGoto(c, "block") /\ UNCHANGED <<storeVars, workerVars>>
    BY <1>0, <1>b, <2>1, <2>2, NothingDies, GotoGoesOn DEF workerVars
  <2>3. CASE /\ coordinator[c].target # None
             /\ OwnedWrite(c, [cancel EXCEPT !.phase = coordinator[c].resume],
                           At(c, "first_capture"))
    <3>1. coordinator[c].target \in Workers
      BY <2>1, <2>3 DEF CoordinatorRecords
    <3> QED BY <1>b, <2>1, <2>3, <3>1, PhasesKnown, PhaseCheckpoint
  <2> QED BY <1>2, <2>2, <2>3 DEF CheckTarget
<1>3. CASE FirstCapture(c)
  BY <1>3, <1>a, <1>b, PhasesKnown, RefreshShape DEF FirstCapture
<1>4. CASE Grace(c)
  BY <1>0, <1>4, <1>a, <1>b, NothingDies, GotoGoesOn DEF Grace
<1>5. CASE Recapture(c)
  BY <1>5, RecaptureShape
<1>6. CASE EnterTerminate(c)
  BY <1>6, <1>a, <1>b, EvidenceCheckpoint DEF EnterTerminate, Phases
<1>7. CASE Terminate(c)
  BY <1>7, <1>a, <1>b, SignalShape DEF Terminate
<1>8. CASE EnterForceKill(c)
  <2>1. Acting(c) /\ coordinator[c].target \in Workers
    BY <1>8, <1>a, <1>b DEF EnterForceKill
  <2>2. CASE OwnedWrite(c, [cancel EXCEPT !.phase = "force_kill"], At(c, "force_kill"))
    BY <1>b, <2>1, <2>2, PhaseCheckpoint DEF Phases
  <2>3. CASE CoordinatorGoto(c, "last_capture") /\ UNCHANGED <<storeVars, workerVars>>
    BY <1>0, <1>b, <2>1, <2>3, NothingDies, GotoGoesOn
  <2> QED BY <1>8, <2>2, <2>3 DEF EnterForceKill
<1>9. CASE ForceKill(c)
  BY <1>9, <1>a, <1>b, SignalShape DEF ForceKill
<1>10. CASE LastCapture(c)
  BY <1>10, <1>a, <1>b, PhasesKnown, RefreshShape DEF LastCapture
<1>11. CASE Reap(c)
  BY <1>11, ReapShape
<1>12. CASE EnterVerifying(c)
  BY <1>12, <1>a, <1>b, EvidenceCheckpoint DEF EnterVerifying, Phases
<1>13. CASE Verify(c)
  BY <1>13, VerifyShape
<1>14. CASE CommitCancelled(c)
  BY <1>14, CommitShape
<1>15. CASE RecordBlocker(c)
  BY <1>15, BlockerShape
<1> QED BY <1>1, <1>2, <1>3, <1>4, <1>5, <1>6, <1>7, <1>8, <1>9, <1>10, <1>11, <1>12, <1>13,
           <1>14, <1>15 DEF CoordinatorStep

-----------------------------------------------------------------------------
(* Servers.  What any step of manager m may do, its death included.         *)

(* A process starts, or nothing does.                                      *)
WorkersStart ==
  /\ worker' \in [Workers -> WorkerRecords]
  /\ \A w \in Workers :
       \/ worker'[w] = worker[w]
       \/ /\ worker[w].pc = "unborn" /\ worker'[w].pc = "bind"
          /\ worker'[w].done = worker[w].done

CoordinatorsStart ==
  /\ coordinator' \in [Coordinators -> CoordinatorRecords]
  /\ \A c \in Coordinators :
       \/ coordinator'[c] = coordinator[c]
       \/ /\ coordinator'[c].pc = "claim"
          /\ coordinator'[c].rid <= requests
          /\ coordinator'[c].target = coordinator[c].target

ManagerMoves(m) ==
  /\ mgr' \in [Managers -> ManagerRecords]
  /\ \A n \in Managers \ {m} : mgr'[n] = mgr[n]
  /\ mgr'[m].pc \in {"resume_control", "cancel_state"} => lock' = m
  /\ mgr'[m].pc = "resume_control" => status' = "starting"
  /\ mgr'[m].w \in Workers => worker'[mgr'[m].w].pc # "unborn"
  /\ mgr'[m].rid <= requests
  /\ mgr'[m].snap.coordinator = None
  /\ mgr'[m].snap.descendants = {}
  /\ marker' \in Managers \union {None}

StatusMoves(m) ==
  /\ UNCHANGED <<cancel, control, requests>>
  /\ attempt' \in 1..MaxAttempt
  /\ bound' \in {bound, None, mgr[m].w}
  /\ \/ UNCHANGED <<status, attempt>>
     \/ status' \in Status \ (CANCELLING_STATES \union {"cancelled"})

Requested ==
  /\ status' = "cancel_requested"
  /\ cancel' = RequestedCancel(control.rid, attempt)
  /\ UNCHANGED <<attempt, bound, control, requests>>

Authorized ==
  /\ status \notin CANCELLING_STATES \union {"cancelled"}
  /\ requests < MaxRequest
  /\ requests' = requests + 1
  /\ control' = [rid |-> requests + 1, target |-> attempt, worker |-> bound]
  /\ UNCHANGED <<status, attempt, bound, cancel>>

Withdrawn ==
  /\ status = "starting"
  /\ control' = NoControl
  /\ UNCHANGED <<status, attempt, bound, cancel, requests>>

Patched ==
  /\ cancel' \in CancelRecords
  /\ cancel'.coordinator = None
  /\ cancel'.descendants = {}
  /\ UNCHANGED <<status, attempt, bound, control, requests>>

ManagerShape(m) ==
  /\ UNCHANGED <<lease, contained>>
  /\ lock' \in Managers \union {None}
  /\ lock' # lock => lock \in {None, m}
  /\ status' # status => lock \in {None, m}
  /\ WorkersStart /\ CoordinatorsStart /\ ManagerMoves(m)
  /\ StatusMoves(m) \/ Requested \/ Authorized \/ Withdrawn \/ Patched

(* No step of a server disturbs the evidence: a new request has a new id,   *)
(* and the copy of state.cancel it may write back has none (manager.py).   *)
LEMMA ManagerKeeps ==
  ASSUME CancelInv, NEW m \in Managers, ManagerShape(m), faults' \in 0..MaxFaults
  PROVE  CancelInv'
<1> USE DEF CancelInv, ManagerShape
<1>0. /\ requests \in Nat /\ requests' \in Nat /\ requests <= requests'
      /\ requests' \in 0..MaxRequest
  BY BoundsAssumption DEF TypeOK, StoreTypeOK, StatusMoves, Requested, Authorized, Withdrawn,
                          Patched
<1>r. /\ RequestedCancel(control.rid, attempt) \in CancelRecords
      /\ RequestedCancel(control.rid, attempt).coordinator = None
      /\ RequestedCancel(control.rid, attempt).descendants = {}
  BY RequestedType, BoundsAssumption DEF TypeOK, StoreTypeOK, Controls
<1>1. TypeOK'
  <2>1. cancel' \in CancelRecords
    BY <1>r DEF TypeOK, StoreTypeOK, StatusMoves, Requested, Authorized, Withdrawn, Patched
  <2>2. control' \in Controls
    BY <1>0, BoundsAssumption
       DEF TypeOK, StoreTypeOK, StatusMoves, Requested, Authorized, Withdrawn, Patched, Controls,
           NoControl
  <2>3. status' \in Status /\ attempt' \in 1..MaxAttempt
    BY DEF TypeOK, StoreTypeOK, StatusMoves, Requested, Authorized, Withdrawn, Patched, Status,
           ACTIVE_STATES
  <2>4. bound' \in Workers \union {None}
    BY DEF TypeOK, StoreTypeOK, ManagerTypeOK, ManagerRecords, StatusMoves, Requested, Authorized,
           Withdrawn, Patched
  <2>5. StoreTypeOK'
    BY <1>0, <2>1, <2>2, <2>3, <2>4 DEF TypeOK, StoreTypeOK
  <2> QED BY <2>5 DEF TypeOK, WorkerTypeOK, CoordinatorTypeOK, ManagerTypeOK, WorkersStart,
                      CoordinatorsStart, ManagerMoves
<1>2. SectionsHeld'
  BY IdentityAssumption DEF SectionsHeld, ManagerMoves
<1>w. \A w \in Workers : worker[w].pc # "unborn" => worker'[w] = worker[w]
  BY DEF WorkersStart
<1>c. \A c \in Coordinators :
        coordinator'[c].pc # "claim" => coordinator'[c] = coordinator[c]
  BY DEF CoordinatorsStart
<1>3. IdentitiesBorn'
  <2>1. bound' \in {bound, None, mgr[m].w}
    BY DEF StatusMoves, Requested, Authorized, Withdrawn, Patched
  <2>2. Born(bound)' /\ Born(control.worker)'
    <3>1. control'.worker \in {control.worker, bound, None}
      BY DEF StatusMoves, Requested, Authorized, Withdrawn, Patched, NoControl
    <3> QED BY <1>w, <2>1, <3>1, IdentityAssumption DEF IdentitiesBorn, Born
  <2>3. \A n \in Managers : Born(mgr[n].w)'
    BY <1>w DEF IdentitiesBorn, Born, ManagerMoves
  <2>4. \A c \in Coordinators : Born(coordinator[c].target)'
    BY <1>w DEF IdentitiesBorn, Born, CoordinatorsStart
  <2> QED BY <2>2, <2>3, <2>4 DEF IdentitiesBorn
<1>4. RequestsIssued'
  <2>1. control'.rid <= requests' /\ control.rid \in Nat
    BY <1>0 DEF TypeOK, StoreTypeOK, Controls, RequestsIssued, StatusMoves, Requested, Authorized,
                Withdrawn, Patched, NoControl
  <2>2. \A n \in Managers : mgr'[n].rid \in Nat /\ mgr'[n].rid <= requests'
    BY <1>0 DEF RequestsIssued, ManagerMoves, ManagerRecords
  <2>3. \A c \in Coordinators : coordinator'[c].rid \in Nat /\ coordinator'[c].rid <= requests'
    BY <1>0 DEF RequestsIssued, CoordinatorsStart, CoordinatorRecords
  <2> QED BY <2>1, <2>2, <2>3 DEF RequestsIssued
<1>5. TargetsAgree'
  <2> SUFFICES ASSUME NEW c \in Coordinators, coordinator'[c].pc \in ActingPCs
               PROVE  /\ coordinator'[c].rid # 0
                      /\ control'.rid = coordinator'[c].rid => coordinator'[c].target = control'.worker
                      /\ coordinator'[c].descendants \subseteq {coordinator'[c].target}
                      /\ coordinator'[c].pc \notin {"check_target", "block"}
                           => coordinator'[c].target \in Workers
    BY DEF TargetsAgree, Acting
  <2>1. coordinator'[c] = coordinator[c] /\ Acting(c)
    BY <1>c DEF ActingPCs, Acting
  <2>2. coordinator[c].rid \in Nat /\ coordinator[c].rid <= requests
    BY DEF TypeOK, CoordinatorTypeOK, CoordinatorRecords, RequestsIssued
  <2>3. control'.rid = coordinator[c].rid => control' = control
    BY <1>0, <2>1, <2>2
       DEF TargetsAgree, StatusMoves, Requested, Authorized, Withdrawn, Patched, NoControl
  <2> QED BY <2>1, <2>3 DEF TargetsAgree
<1>6. EvidenceOwned'
  <2>1. \A n \in Managers : mgr'[n].snap.coordinator = None /\ mgr'[n].snap.descendants = {}
    BY DEF EvidenceOwned, ManagerMoves
  <2>2. CASE /\ UNCHANGED cancel
             /\ \/ status' \notin CANCELLING_STATES \union {"cancelled"}
                \/ status' = status /\ control' = control
    <3>1. \A c \in Coordinators :
            cancel.coordinator = c /\ coordinator'[c].pc \in {"verify", "commit"}
              => cancel.descendants = coordinator'[c].descendants
      BY <1>c DEF EvidenceOwned
    <3> QED BY <2>1, <2>2, <3>1 DEF EvidenceOwned, CANCELLING_STATES
  <2>3. CASE cancel'.coordinator = None /\ cancel'.descendants = {}
    BY <2>1, <2>3, IdentityAssumption DEF EvidenceOwned
  <2> QED BY <1>r, <2>2, <2>3
          DEF StatusMoves, Requested, Authorized, Withdrawn, Patched, CANCELLING_STATES
<1>7. VerifiedStands'
  <2> SUFFICES ASSUME NEW c \in Coordinators, coordinator'[c].pc = "commit"
               PROVE  /\ worker'[coordinator'[c].target].pc = "dead"
                      /\ lease.holder # coordinator'[c].target
                      /\ \A v \in coordinator'[c].descendants : ~(ChildActive(v)')
    BY DEF VerifiedStands
  <2>1. /\ coordinator'[c] = coordinator[c]
        /\ coordinator[c].target \in Workers
        /\ coordinator[c].descendants \subseteq {coordinator[c].target}
    BY <1>c DEF TargetsAgree, Acting, ActingPCs, CoordinatorPCs
  <2>2. worker'[coordinator[c].target] = worker[coordinator[c].target]
    BY <1>w, <2>1 DEF VerifiedStands
  <2> QED BY <2>1, <2>2 DEF VerifiedStands, ChildActive
<1>8. CancelledIsProved'
  <2> SUFFICES ASSUME status' = "cancelled" PROVE CancelledIsProved'
    BY DEF CancelledIsProved
  <2>1. /\ status = "cancelled" /\ UNCHANGED <<attempt, control>>
        /\ cancel' = cancel \/ cancel'.descendants = {}
    BY DEF StatusMoves, Requested, Authorized, Withdrawn, Patched
  <2>2. control.worker \in Workers /\ worker[control.worker].pc = "dead"
    BY <2>1, CancelledWorkerDead
  <2>3. worker'[control.worker] = worker[control.worker]
    BY <1>w, <2>2
  <2>4. cancel'.descendants \subseteq {control.worker}
    BY <2>1 DEF EvidenceOwned
  <2>5. \A w \in cancel'.descendants : ~(ChildActive(w)')
    BY <2>1, <2>3, <2>4 DEF CancelledIsProved, ChildActive
  <2> QED BY <2>1, <2>2, <2>3, <2>5 DEF CancelledIsProved, Targets, Alive
<1> QED BY <1>1, <1>2, <1>3, <1>4, <1>5, <1>6, <1>7, <1>8

(* A call that holds no worker and no copy of state.cancel.                *)
LEMMA NoCallFacts ==
  ASSUME NEW pc \in ManagerPCs
  PROVE  /\ NoCall(pc) \in ManagerRecords
         /\ NoCall(pc).pc = pc /\ NoCall(pc).w = None /\ NoCall(pc).rid = 0
         /\ NoCall(pc).snap.coordinator = None /\ NoCall(pc).snap.descendants = {}
<1>1. NoCancel \in CancelRecords /\ NoCancel.coordinator = None /\ NoCancel.descendants = {}
  BY BoundsAssumption DEF NoCancel, CancelRecords, Phases, Captures
<1> QED BY <1>1, BoundsAssumption DEF NoCall, ManagerRecords

(* A manager that becomes a record of the right kind moves.                *)
LEMMA ManagerBecomes ==
  ASSUME CancelInv, NEW m \in Managers, NEW r \in ManagerRecords,
         mgr' = [mgr EXCEPT ![m] = r],
         r.pc \in {"resume_control", "cancel_state"} => lock' = m,
         r.pc = "resume_control" => status' = "starting",
         r.w \in Workers => worker'[r.w].pc # "unborn",
         r.rid <= requests, r.snap.coordinator = None, r.snap.descendants = {},
         marker' \in Managers \union {None}
  PROVE  ManagerMoves(m)
<1>1. mgr'[m] = r /\ mgr' \in [Managers -> ManagerRecords]
      /\ \A n \in Managers \ {m} : mgr'[n] = mgr[n]
  BY DEF CancelInv, TypeOK, ManagerTypeOK
<1> QED BY <1>1 DEF ManagerMoves

(* A call that ends, or goes back to a step that needs nothing.            *)
LEMMA NoCallMoves ==
  ASSUME CancelInv, NEW m \in Managers, NEW pc \in ManagerPCs \ {"resume_control", "cancel_state"},
         mgr' = [mgr EXCEPT ![m] = NoCall(pc)], marker' \in Managers \union {None}
  PROVE  ManagerMoves(m)
<1>1. /\ NoCall(pc) \in ManagerRecords
      /\ NoCall(pc).pc = pc /\ NoCall(pc).w = None /\ NoCall(pc).rid = 0
      /\ NoCall(pc).snap.coordinator = None /\ NoCall(pc).snap.descendants = {}
  BY NoCallFacts
<1>2. 0 <= requests
  BY DEF CancelInv, TypeOK, StoreTypeOK
<1> QED BY <1>1, <1>2, ManagerBecomes, IdentityAssumption

(* A call that goes on with what it has.                                   *)
LEMMA CallGoesOn ==
  ASSUME CancelInv, NEW m \in Managers, NEW pc \in ManagerPCs, ManagerGoto(m, pc),
         pc \in {"resume_control", "cancel_state"} => lock' = m,
         pc = "resume_control" => status' = "starting",
         WorkersStart, marker' \in Managers \union {None}
  PROVE  ManagerMoves(m)
<1> DEFINE r == [mgr[m] EXCEPT !.pc = pc]
<1>1. mgr[m] \in ManagerRecords
  BY DEF CancelInv, TypeOK, ManagerTypeOK
<1>2. /\ r \in ManagerRecords /\ r.pc = pc /\ r.w = mgr[m].w /\ r.rid = mgr[m].rid
      /\ r.snap = mgr[m].snap
  BY <1>1 DEF ManagerRecords
<1>3. mgr' = [mgr EXCEPT ![m] = r]
  BY DEF ManagerGoto
<1>4. r.w \in Workers => worker'[r.w].pc # "unborn"
  BY <1>2 DEF CancelInv, IdentitiesBorn, Born, WorkersStart
<1>5. r.rid <= requests /\ r.snap.coordinator = None /\ r.snap.descendants = {}
  BY <1>2 DEF CancelInv, RequestsIssued, EvidenceOwned
<1> HIDE DEF r
<1> QED BY <1>2, <1>3, <1>4, <1>5, ManagerBecomes

(* A call that touches no process starts none.                             *)
LEMMA NothingStarts ==
  ASSUME CancelInv, UNCHANGED <<worker, coordinator>>
  PROVE  WorkersStart /\ CoordinatorsStart
  BY DEF CancelInv, TypeOK, WorkerTypeOK, CoordinatorTypeOK, WorkersStart, CoordinatorsStart

(* A coordinator starts with the id of an issued request.                  *)
LEMMA CoordinatorStarts ==
  ASSUME CancelInv, NEW c \in Coordinators, NEW rid \in 0..MaxRequest, rid <= requests,
         CoordinatorLaunched(c, rid)
  PROVE  CoordinatorsStart
<1> DEFINE r == [coordinator[c] EXCEPT !.pc = "claim", !.rid = rid]
<1>1. coordinator \in [Coordinators -> CoordinatorRecords]
  BY DEF CancelInv, TypeOK, CoordinatorTypeOK
<1>2. /\ r \in CoordinatorRecords /\ r.pc = "claim" /\ r.rid = rid
      /\ r.target = coordinator[c].target
  BY <1>1 DEF CoordinatorRecords, CoordinatorPCs
<1>3. coordinator' = [coordinator EXCEPT ![c] = r]
  BY <1>1 DEF CoordinatorLaunched, CoordinatorRecords
<1> HIDE DEF r
<1> QED BY <1>1, <1>2, <1>3 DEF CoordinatorsStart

(* A marker is a live launcher's, before and after.                        *)
LEMMA MarkerType ==
  ASSUME CancelInv, NEW m \in Managers, ClearMarker(m) \/ UNCHANGED marker
  PROVE  marker' \in Managers \union {None}
  BY DEF CancelInv, TypeOK, ManagerTypeOK, ClearMarker

(* A call that changes no file keeps the store as it is.                   *)
LEMMA StoreKept ==
  ASSUME CancelInv, NEW m \in Managers, UNCHANGED <<storeVars, lease>>,
         WorkersStart, CoordinatorsStart, ManagerMoves(m)
  PROVE  ManagerShape(m)
  BY DEF CancelInv, TypeOK, StoreTypeOK, storeVars, ManagerShape, StatusMoves

(* _launch_worker starts a process or reports a failure.                   *)
LEMMA LaunchShape ==
  ASSUME CancelInv, NEW m \in Managers, Launch(m)
  PROVE  ManagerShape(m)
<1>0. /\ UNCHANGED <<storeVars, lease, coordinator>>
      /\ worker \in [Workers -> WorkerRecords] /\ mgr \in [Managers -> ManagerRecords]
  BY DEF Launch, CancelInv, TypeOK, WorkerTypeOK, ManagerTypeOK
<1>1. CASE ManagerGoto(m, "launch_failed") /\ ClearMarker(m) /\ UNCHANGED worker
  <2>1. WorkersStart /\ CoordinatorsStart
    BY <1>0, <1>1, NothingStarts
  <2>2. ManagerMoves(m)
    BY <1>1, <2>1, MarkerType, CallGoesOn DEF ManagerPCs
  <2> QED BY <1>0, <2>1, <2>2, StoreKept
<1>2. ASSUME NEW w \in Workers, worker[w].pc = "unborn", Goto(w, "bind"),
             \/ mgr' = [mgr EXCEPT ![m].pc = "bind", ![m].w = w] /\ UNCHANGED marker
             \/ ManagerGoto(m, "launch_failed") /\ ClearMarker(m)
      PROVE  ManagerShape(m)
  <2> DEFINE born == [worker[w] EXCEPT !.pc = "bind"]
  <2>1. born \in WorkerRecords /\ born.pc = "bind" /\ born.done = worker[w].done
    BY <1>0 DEF WorkerRecords, WorkerPCs
  <2>2. worker' = [worker EXCEPT ![w] = born]
    BY <1>2 DEF Goto, Becomes
  <2> HIDE DEF born
  <2>3. WorkersStart /\ worker'[w].pc # "unborn"
    BY <1>0, <1>2, <2>1, <2>2 DEF WorkersStart
  <2>4. CoordinatorsStart
    BY <1>0 DEF CancelInv, TypeOK, CoordinatorTypeOK, CoordinatorsStart
  <2>5. CASE mgr' = [mgr EXCEPT ![m].pc = "bind", ![m].w = w] /\ UNCHANGED marker
    <3> DEFINE r == [mgr[m] EXCEPT !.pc = "bind", !.w = w]
    <3>1. /\ r \in ManagerRecords /\ r.pc = "bind" /\ r.w = w /\ r.rid = mgr[m].rid
          /\ r.snap = mgr[m].snap
      BY <1>0 DEF ManagerRecords, ManagerPCs
    <3>2. mgr' = [mgr EXCEPT ![m] = r]
      BY <1>0, <2>5 DEF ManagerRecords
    <3> HIDE DEF r
    <3>3. r.rid <= requests /\ r.snap.coordinator = None /\ r.snap.descendants = {}
      BY <3>1 DEF CancelInv, RequestsIssued, EvidenceOwned
    <3>4. marker' \in Managers \union {None}
      BY <2>5, MarkerType
    <3>5. ManagerMoves(m)
      BY <2>3, <3>1, <3>2, <3>3, <3>4, ManagerBecomes
    <3> QED BY <1>0, <2>3, <2>4, <3>5, StoreKept
  <2>6. CASE ManagerGoto(m, "launch_failed") /\ ClearMarker(m)
    <3>1. ManagerMoves(m)
      BY <2>3, <2>6, MarkerType, CallGoesOn DEF ManagerPCs
    <3> QED BY <1>0, <2>3, <2>4, <3>1, StoreKept
  <2> QED BY <1>2, <2>5, <2>6
<1> QED BY <1>1, <1>2 DEF Launch

(* The launcher binds the worker it identified.                            *)
LEMMA BindLaunchedShape ==
  ASSUME CancelInv, NEW m \in Managers, BindLaunched(m)
  PROVE  ManagerShape(m)
<1>0. /\ UNCHANGED <<workerVars, coordinator>> /\ ClearMarker(m) /\ LockFree
      /\ WorkersStart /\ CoordinatorsStart /\ marker' \in Managers \union {None}
  BY NothingStarts, MarkerType DEF BindLaunched, workerVars
<1>1. CASE BindWorkerIdentity(mgr[m].w) /\ Returns(m)
  <2>1. ManagerMoves(m)
    BY <1>0, <1>1, NoCallMoves DEF Returns, ManagerPCs
  <2> QED BY <1>0, <1>1, <2>1
          DEF BindWorkerIdentity, ManagerShape, StatusMoves, workerVars, LockFree, CancelInv, TypeOK,
              StoreTypeOK
<1>2. CASE mgr' = [mgr EXCEPT ![m] = NoCall("launch_failed")] /\ UNCHANGED storeVars
  <2>1. ManagerMoves(m)
    BY <1>0, <1>2, NoCallMoves DEF ManagerPCs
  <2> QED BY <1>0, <1>2, <2>1, StoreKept DEF workerVars
<1> QED BY <1>1, <1>2 DEF BindLaunched

(* An ordinary status written under a free lock by a call.                 *)
LEMMA SetStatusShape ==
  ASSUME CancelInv, NEW m \in Managers, LockFree,
         NEW new \in Status \ (CANCELLING_STATES \union {"cancelled"}), SetStatus(new),
         UNCHANGED <<lease>>, WorkersStart, CoordinatorsStart, ManagerMoves(m)
  PROVE  ManagerShape(m)
  BY DEF SetStatus, LockFree, ManagerShape, StatusMoves, CancelInv, TypeOK, StoreTypeOK

(* A failed launch is recorded as an ordinary failure.                     *)
LEMMA LaunchFailedShape ==
  ASSUME CancelInv, NEW m \in Managers, LaunchFailed(m)
  PROVE  ManagerShape(m)
<1>0. /\ UNCHANGED <<workerVars, coordinator, marker>> /\ Returns(m) /\ LockFree
      /\ WorkersStart /\ CoordinatorsStart /\ marker' \in Managers \union {None}
  BY NothingStarts, MarkerType DEF LaunchFailed, workerVars
<1>1. ManagerMoves(m)
  BY <1>0, NoCallMoves DEF Returns, ManagerPCs
<1>2. "failed" \in Status \ (CANCELLING_STATES \union {"cancelled"})
  BY DEF Status, TERMINAL_STATES, CANCELLING_STATES
<1>3. CASE SetStatus("failed")
  BY <1>0, <1>1, <1>2, <1>3, SetStatusShape DEF workerVars
<1>4. CASE UNCHANGED storeVars
  BY <1>0, <1>1, <1>4, StoreKept DEF workerVars
<1> QED BY <1>3, <1>4 DEF LaunchFailed

(* A resume opens an attempt without a worker, then withdraws the control. *)
LEMMA ResumeShape ==
  ASSUME CancelInv, NEW m \in Managers, ResumeCheck(m) \/ ResumeState(m) \/ ResumeControl(m)
  PROVE  ManagerShape(m)
<1>0. /\ UNCHANGED <<workerVars, coordinator, marker>>
      /\ WorkersStart /\ CoordinatorsStart /\ marker' \in Managers \union {None}
  BY NothingStarts, MarkerType DEF ResumeCheck, ResumeState, ResumeControl, workerVars
<1>1. CASE ResumeCheck(m)
  <2>1. ManagerMoves(m)
    BY <1>0, <1>1, CallGoesOn DEF ResumeCheck, ManagerPCs
  <2> QED BY <1>0, <1>1, <2>1, StoreKept DEF ResumeCheck, workerVars
<1>2. CASE ResumeState(m)
  <2>1. CASE Returns(m) /\ UNCHANGED storeVars
    <3>1. ManagerMoves(m)
      BY <1>0, <2>1, NoCallMoves DEF Returns, ManagerPCs
    <3> QED BY <1>0, <2>1, <3>1, StoreKept DEF workerVars
  <2>2. CASE attempt < MaxAttempt /\ WriteResumeState(m) /\ ManagerGoto(m, "resume_control")
    <3>1. ManagerMoves(m)
      BY <1>0, <2>2, CallGoesOn DEF WriteResumeState, ManagerPCs
    <3>2. attempt' \in 1..MaxAttempt
      BY <2>2, BoundsAssumption DEF WriteResumeState, CancelInv, TypeOK, StoreTypeOK
    <3>3. "starting" \in Status \ (CANCELLING_STATES \union {"cancelled"})
      BY DEF Status, ACTIVE_STATES, CANCELLING_STATES
    <3> QED BY <1>0, <1>2, <2>2, <3>1, <3>2, <3>3
            DEF ResumeState, LockFree, WriteResumeState, ManagerShape, StatusMoves, workerVars
  <2> QED BY <1>2, <2>1, <2>2 DEF ResumeState
<1>3. CASE ResumeControl(m)
  <2>1. ManagerMoves(m)
    BY <1>0, <1>3, CallGoesOn DEF ResumeControl, ManagerPCs
  <2>2. lock = m /\ status = "starting"
    BY <1>3 DEF ResumeControl, CancelInv, SectionsHeld
  <2> QED BY <1>0, <1>3, <2>1, <2>2
          DEF ResumeControl, WriteResumeControl, ManagerShape, Withdrawn, workerVars
<1> QED BY <1>1, <1>2, <1>3

(* A call that goes on to launch a coordinator for the current request.    *)
LEMMA AnswersRequest ==
  ASSUME CancelInv, NEW m \in Managers,
         NEW snap \in CancelRecords, snap.coordinator = None, snap.descendants = {},
         mgr' = [mgr EXCEPT ![m] = [NoCall("launch_coordinator") EXCEPT !.rid = control.rid,
                                                                       !.snap = snap]],
         UNCHANGED marker
  PROVE  ManagerMoves(m)
<1> DEFINE r == [NoCall("launch_coordinator") EXCEPT !.rid = control.rid, !.snap = snap]
<1>1. control.rid \in 0..MaxRequest /\ control.rid <= requests
  BY DEF CancelInv, RequestsIssued, TypeOK, StoreTypeOK, Controls
<1>2. /\ r \in ManagerRecords /\ r.pc = "launch_coordinator" /\ r.w = None
      /\ r.rid = control.rid /\ r.snap = snap
  <2> DEFINE call == NoCall("launch_coordinator")
  <2>1. call \in ManagerRecords /\ call.pc = "launch_coordinator" /\ call.w = None
    BY NoCallFacts DEF ManagerPCs
  <2> HIDE DEF call
  <2>2. /\ [call EXCEPT !.rid = control.rid, !.snap = snap] \in ManagerRecords
        /\ [call EXCEPT !.rid = control.rid, !.snap = snap].pc = "launch_coordinator"
        /\ [call EXCEPT !.rid = control.rid, !.snap = snap].w = None
        /\ [call EXCEPT !.rid = control.rid, !.snap = snap].rid = control.rid
        /\ [call EXCEPT !.rid = control.rid, !.snap = snap].snap = snap
    BY <1>1, <2>1 DEF ManagerRecords
  <2> QED BY <2>2 DEF call
<1>3. marker' \in Managers \union {None}
  BY MarkerType
<1> HIDE DEF r
<1>4. mgr' = [mgr EXCEPT ![m] = r]
  BY DEF r
<1> QED BY <1>1, <1>2, <1>3, <1>4, ManagerBecomes, IdentityAssumption

(* A cancel writes a fresh control, or brings the state up to the control. *)
LEMMA CancelShape ==
  ASSUME CancelInv, NEW m \in Managers, NEW e \in 0..MaxAttempt, Cancel(m, e)
  PROVE  ManagerShape(m)
<1>0. /\ UNCHANGED <<workerVars, coordinator, marker>> /\ LockFree
      /\ WorkersStart /\ CoordinatorsStart /\ marker' \in Managers \union {None}
      /\ mgr[m].pc = "idle"
  BY NothingStarts, MarkerType DEF Cancel, workerVars
<1>1. CASE /\ CancelVerdict(e) = "new" /\ requests < MaxRequest
           /\ WriteCancelControl(m) /\ ManagerGoto(m, "cancel_state")
  <2>1. ManagerMoves(m)
    BY <1>0, <1>1, CallGoesOn DEF WriteCancelControl, ManagerPCs
  <2>2. CanCancel(status) /\ status \in Status
    BY <1>1 DEF CancelVerdict, CancelInv, TypeOK, StoreTypeOK
  <2>3. status \notin CANCELLING_STATES \union {"cancelled"}
    BY <2>2 DEF CanCancel, TRANSITIONS, CANCELLING_STATES, RESUMABLE_STATES
  <2> QED BY <1>0, <1>1, <2>1, <2>3
          DEF WriteCancelControl, LockFree, ManagerShape, Authorized, workerVars
<1>2. CASE ReconcileCancelState /\ UNCHANGED mgr
  <2>1. ManagerMoves(m)
    BY <1>0, <1>2 DEF ManagerMoves, CancelInv, TypeOK, ManagerTypeOK, IdentitiesBorn, Born,
                      RequestsIssued, EvidenceOwned, workerVars
  <2> QED BY <1>0, <1>2, <2>1
          DEF ReconcileCancelState, LockFree, ManagerShape, Requested, workerVars, CancelInv, TypeOK,
              StoreTypeOK
<1>3. CASE /\ CancelVerdict(e) = "idempotent" /\ UNCHANGED storeVars
           /\ mgr' = [mgr EXCEPT ![m] = [NoCall("launch_coordinator") EXCEPT
                                           !.rid = control.rid, !.snap = cancel]]
  <2>1. status = "cancel_requested"
    BY <1>3 DEF CancelVerdict
  <2>2. cancel \in CancelRecords /\ cancel.coordinator = None /\ cancel.descendants = {}
    BY <2>1 DEF CancelInv, EvidenceOwned, TypeOK, StoreTypeOK
  <2>3. ManagerMoves(m)
    BY <1>0, <1>3, <2>2, AnswersRequest
  <2> QED BY <1>0, <1>3, <2>3, StoreKept DEF workerVars
<1> QED BY <1>1, <1>2, <1>3 DEF Cancel

(* The second write of request_cancel finds its own control.               *)
LEMMA CancelStateShape ==
  ASSUME CancelInv, NEW m \in Managers, CancelState(m)
  PROVE  ManagerShape(m)
<1> DEFINE snap == RequestedCancel(control.rid, attempt)
<1>0. /\ UNCHANGED <<workerVars, coordinator, marker>>
      /\ WorkersStart /\ CoordinatorsStart /\ lock = m
  BY NothingStarts DEF CancelState, workerVars, CancelInv, SectionsHeld
<1>1. snap \in CancelRecords /\ snap.coordinator = None /\ snap.descendants = {}
  BY RequestedType, BoundsAssumption DEF CancelInv, TypeOK, StoreTypeOK, Controls
<1>2. ManagerMoves(m)
  <2>1. mgr' = [mgr EXCEPT ![m] = [NoCall("launch_coordinator") EXCEPT
                                     !.rid = control.rid, !.snap = snap]]
    BY DEF CancelState
  <2> HIDE DEF snap
  <2> QED BY <1>0, <1>1, <2>1, AnswersRequest
<1> QED BY <1>0, <1>2 DEF CancelState, WriteCancelState, ManagerShape, Requested, workerVars

(* A coordinator starts with the id of the request it answers.             *)
LEMMA LaunchCoordinatorShape ==
  ASSUME CancelInv, NEW m \in Managers, LaunchCoordinator(m)
  PROVE  ManagerShape(m)
<1>0. /\ UNCHANGED <<storeVars, workerVars, marker>>
      /\ marker' \in Managers \union {None} /\ UNCHANGED <<lease, worker>>
  BY MarkerType DEF LaunchCoordinator, workerVars
<1>1. WorkersStart
  BY <1>0 DEF CancelInv, TypeOK, WorkerTypeOK, WorkersStart
<1>2. CoordinatorsStart
  <2>1. CASE UNCHANGED coordinator
    BY <1>0, <2>1, NothingStarts
  <2>2. ASSUME NEW c \in Coordinators, CoordinatorLaunched(c, mgr[m].rid)
        PROVE  CoordinatorsStart
    <3>1. mgr[m].rid \in 0..MaxRequest /\ mgr[m].rid <= requests
      BY DEF CancelInv, RequestsIssued, TypeOK, ManagerTypeOK, ManagerRecords
    <3> QED BY <2>2, <3>1, CoordinatorStarts
  <2> QED BY <2>1, <2>2 DEF LaunchCoordinator
<1>3. ManagerMoves(m)
  <2>1. CASE Returns(m)
    BY <1>0, <2>1, NoCallMoves DEF Returns, ManagerPCs
  <2>2. CASE ManagerGoto(m, "clear_launch_error") \/ ManagerGoto(m, "coordinator_launch_failed")
    BY <1>0, <1>1, <2>2, CallGoesOn DEF ManagerPCs
  <2> QED BY <2>1, <2>2 DEF LaunchCoordinator
<1> QED BY <1>0, <1>1, <1>2, <1>3, StoreKept

(* The copy of state.cancel that is written back carries no evidence.      *)
LEMMA PatchShape ==
  ASSUME CancelInv, NEW m \in Managers, NEW failed \in BOOLEAN, PatchLaunchError(m, failed)
  PROVE  ManagerShape(m)
<1>0. /\ UNCHANGED <<workerVars, coordinator, marker>> /\ Returns(m) /\ LockFree
      /\ WorkersStart /\ CoordinatorsStart /\ marker' \in Managers \union {None}
  BY NothingStarts, MarkerType DEF PatchLaunchError, workerVars
<1>1. ManagerMoves(m)
  BY <1>0, NoCallMoves DEF Returns, ManagerPCs
<1>2. CASE UNCHANGED storeVars
  BY <1>0, <1>1, <1>2, StoreKept DEF workerVars
<1>3. CASE PatchCancel([mgr[m].snap EXCEPT !.launchError = failed])
  <2> DEFINE record == [mgr[m].snap EXCEPT !.launchError = failed]
  <2>1. mgr[m].snap \in CancelRecords /\ mgr[m].snap.coordinator = None
        /\ mgr[m].snap.descendants = {}
    BY DEF CancelInv, EvidenceOwned, TypeOK, ManagerTypeOK, ManagerRecords
  <2>2. record \in CancelRecords /\ record.coordinator = None /\ record.descendants = {}
    BY <2>1 DEF CancelRecords
  <2>3. PatchCancel(record)
    BY <1>3
  <2> HIDE DEF record
  <2> QED BY <1>0, <1>1, <2>2, <2>3
          DEF PatchCancel, LockFree, ManagerShape, Patched, workerVars, CancelInv, TypeOK,
              StoreTypeOK
<1> QED BY <1>2, <1>3 DEF PatchLaunchError

(* A poll writes at most an interruption.                                  *)
LEMMA StatusPollShape ==
  ASSUME CancelInv, NEW m \in Managers, StatusPoll(m)
  PROVE  ManagerShape(m)
<1>0. /\ UNCHANGED <<workerVars, coordinator, mgr, marker>> /\ LockFree
      /\ WorkersStart /\ CoordinatorsStart
  BY NothingStarts DEF StatusPoll, workerVars
<1>1. "interrupted" \in Status \ (CANCELLING_STATES \union {"cancelled"})
  BY DEF Status, TERMINAL_STATES, CANCELLING_STATES
<1>2. ManagerMoves(m)
  <2>1. mgr[m].pc = "idle"
    BY DEF StatusPoll
  <2> QED BY <1>0, <2>1
          DEF ManagerMoves, CancelInv, TypeOK, ManagerTypeOK, IdentitiesBorn, Born, RequestsIssued,
              EvidenceOwned, workerVars
<1> QED BY <1>0, <1>1, <1>2, SetStatusShape DEF StatusPoll, workerVars

(* A reconciliation starts a coordinator for the current request or none.  *)
LEMMA ReconcileStarts ==
  ASSUME CancelInv,
         UNCHANGED coordinator \/ \E c \in Coordinators : CoordinatorLaunched(c, control.rid),
         UNCHANGED worker
  PROVE  WorkersStart /\ CoordinatorsStart
<1>1. WorkersStart
  BY DEF CancelInv, TypeOK, WorkerTypeOK, WorkersStart
<1>2. control.rid \in 0..MaxRequest /\ control.rid <= requests
  BY DEF CancelInv, RequestsIssued, TypeOK, StoreTypeOK, Controls
<1> QED BY <1>1, <1>2, NothingStarts, CoordinatorStarts

(* A restarted server reconciles and goes idle.                            *)
LEMMA BootShape ==
  ASSUME CancelInv, NEW m \in Managers, Boot(m)
  PROVE  ManagerShape(m)
<1>1. WorkersStart /\ CoordinatorsStart
  BY ReconcileStarts DEF Boot, ReconcileCancellations, workerVars
<1>2. ManagerMoves(m)
  BY MarkerType, NoCallMoves DEF Boot, Returns, ManagerPCs
<1> QED BY <1>1, <1>2, StoreKept DEF Boot, workerVars

(* A new server reconciles and changes no file.                            *)
LEMMA StartShape ==
  ASSUME CancelInv, NEW m \in Managers, Start(m)
  PROVE  ManagerShape(m)
<1>0. UNCHANGED <<storeVars, worker, lease, mgr, marker>> /\ mgr[m].pc = "idle"
  BY DEF Start, workerVars, managerVars
<1>1. WorkersStart /\ CoordinatorsStart
  BY <1>0, ReconcileStarts DEF Start, ReconcileCancellations
<1>2. ManagerMoves(m)
  BY <1>0 DEF ManagerMoves, CancelInv, TypeOK, ManagerTypeOK, IdentitiesBorn, Born, RequestsIssued,
              EvidenceOwned
<1> QED BY <1>0, <1>1, <1>2, StoreKept

(* A killed server leaves its lock and its marker.                         *)
LEMMA ManagerKilledShape ==
  ASSUME CancelInv, NEW m \in Managers, ManagerKilled(m)
  PROVE  ManagerShape(m)
<1>1. WorkersStart /\ CoordinatorsStart
  BY NothingStarts DEF ManagerKilled, workerVars
<1>2. ManagerMoves(m)
  BY MarkerType, NoCallMoves DEF ManagerKilled, ManagerPCs
<1>3. lock' \in {lock, None} /\ (lock' # lock => lock = m) /\ lock \in Managers \union {None}
  BY DEF ManagerKilled, CancelInv, TypeOK, StoreTypeOK
<1> QED BY <1>1, <1>2, <1>3
        DEF ManagerKilled, ManagerShape, StatusMoves, workerVars, CancelInv, TypeOK, StoreTypeOK

-----------------------------------------------------------------------------
(* The specification.                                                      *)

(* A killed worker leaves at most its children and its lease.              *)
LEMMA WorkerKilledShape ==
  ASSUME CancelInv, NEW w \in Workers, WorkerKilled(w)
  PROVE  WorkerShape(w)
<1>1. TypeOK
  BY DEF CancelInv
<1> QED BY <1>1, ExitedRecord, BecomesMoves, LeasesKept DEF WorkerKilled, Alive, WorkerShape

(* Recovering the lease of a dead worker disturbs no evidence.             *)
LEMMA RecoveryKeeps ==
  ASSUME CancelInv, OperatorRecoversLease
  PROVE  CancelInv'
<1>1. /\ UNCHANGED <<storeVars, worker, coordinator, managerVars, faults>>
      /\ lease' = NoLease /\ NoLease \in Leases /\ NoLease.holder = None
  BY DEF OperatorRecoversLease, NoLease, Leases
<1>2. TypeOK'
  BY <1>1 DEF CancelInv, TypeOK, StoreTypeOK, WorkerTypeOK, CoordinatorTypeOK, ManagerTypeOK,
              storeVars, managerVars
<1>3. SectionsHeld' /\ IdentitiesBorn' /\ RequestsIssued' /\ TargetsAgree' /\ EvidenceOwned'
  BY <1>1 DEF CancelInv, SectionsHeld, IdentitiesBorn, Born, RequestsIssued, TargetsAgree, Acting,
              EvidenceOwned, storeVars, managerVars
<1>4. VerifiedStands'
  <2>1. \A c \in Coordinators : coordinator[c].pc = "commit" => coordinator[c].target \in Workers
    BY DEF CancelInv, TargetsAgree, Acting, ActingPCs, CoordinatorPCs
  <2> QED BY <1>1, <2>1, IdentityAssumption DEF CancelInv, VerifiedStands, ChildActive
<1>5. CancelledIsProved'
  BY <1>1, IdentityAssumption
     DEF CancelInv, CancelledIsProved, Targets, Alive, ChildActive, storeVars
<1> QED BY <1>2, <1>3, <1>4, <1>5 DEF CancelInv

(* The invariant holds when submit has published the job.                  *)
LEMMA InitEstablishes == Init => CancelInv
<1> SUFFICES ASSUME Init PROVE CancelInv
  OBVIOUS
<1>1. /\ status = "submitted" /\ attempt = 1 /\ bound = None /\ contained = FALSE
      /\ cancel = NoCancel /\ control = NoControl /\ requests = 0 /\ lock = None /\ faults = 0
      /\ worker = [w \in Workers |-> Idle("unborn", "none")] /\ lease = NoLease
      /\ coordinator = [c \in Coordinators |-> NoCoordinator("unborn")]
  BY DEF Init, StoreInit, WorkerInit, CoordinatorInit
<1>2. PICK m \in Managers :
        marker = m /\ mgr = [n \in Managers |-> NoCall(IF n = m THEN "launch" ELSE "idle")]
  BY DEF Init, ManagerInit
<1>3. \A n \in Managers :
        /\ mgr[n] \in ManagerRecords /\ mgr[n].pc \in {"launch", "idle"} /\ mgr[n].w = None
        /\ mgr[n].rid = 0 /\ mgr[n].snap.coordinator = None /\ mgr[n].snap.descendants = {}
  <2>1. "launch" \in ManagerPCs /\ "idle" \in ManagerPCs
    BY DEF ManagerPCs
  <2>2. \A n \in Managers : mgr[n] = NoCall("launch") \/ mgr[n] = NoCall("idle")
    BY <1>2
  <2>3. \A pc \in {"launch", "idle"} :
          /\ NoCall(pc) \in ManagerRecords /\ NoCall(pc).pc = pc /\ NoCall(pc).w = None
          /\ NoCall(pc).rid = 0 /\ NoCall(pc).snap.coordinator = None
          /\ NoCall(pc).snap.descendants = {}
    BY <2>1, NoCallFacts
  <2> QED BY <2>2, <2>3
<1>4. /\ \A w \in Workers : worker[w] \in WorkerRecords
      /\ \A c \in Coordinators : /\ coordinator[c] \in CoordinatorRecords
                                 /\ coordinator[c].pc = "unborn"
                                 /\ coordinator[c].rid = 0 /\ coordinator[c].target = None
  BY <1>1, BoundsAssumption
     DEF Idle, WorkerRecords, WorkerPCs, Status, ACTIVE_STATES, NoCoordinator, CoordinatorRecords,
         CoordinatorPCs, Phases, Captures
<1>5. TypeOK
  <2>1. StoreTypeOK
    <3>1. NoCancel \in CancelRecords
      BY BoundsAssumption DEF NoCancel, CancelRecords, Phases, Captures
    <3>2. NoControl \in Controls
      BY BoundsAssumption DEF NoControl, Controls
    <3>3. "submitted" \in Status /\ 1 \in 1..MaxAttempt /\ 0 \in 0..MaxRequest
      BY BoundsAssumption DEF Status, ACTIVE_STATES
    <3> QED BY <1>1, <3>1, <3>2, <3>3 DEF StoreTypeOK
  <2>2. WorkerTypeOK
    BY <1>1, <1>4 DEF WorkerTypeOK, NoLease, Leases
  <2>3. CoordinatorTypeOK
    BY <1>1, <1>4 DEF CoordinatorTypeOK
  <2>4. ManagerTypeOK
    BY <1>2, <1>3 DEF ManagerTypeOK
  <2> QED BY <1>1, <2>1, <2>2, <2>3, <2>4, FaultAssumption DEF TypeOK
<1>6. SectionsHeld /\ RequestsIssued
  BY <1>1, <1>3, <1>4 DEF SectionsHeld, RequestsIssued, NoControl
<1>7. IdentitiesBorn
  BY <1>1, <1>3, <1>4, IdentityAssumption DEF IdentitiesBorn, Born, NoControl
<1>8. TargetsAgree /\ VerifiedStands
  BY <1>4 DEF TargetsAgree, VerifiedStands, Acting, ActingPCs
<1>9. EvidenceOwned
  BY <1>1, <1>3, <1>4 DEF EvidenceOwned, NoCancel
<1>10. CancelledIsProved
  BY <1>1 DEF CancelledIsProved
<1> QED BY <1>5, <1>6, <1>7, <1>8, <1>9, <1>10 DEF CancelInv

(* One manager action after another has the shape of a server step.        *)
LEMMA ManagerStepShape ==
  ASSUME CancelInv, NEW m \in Managers,
         ManagerStep(m) \/ ManagerRequest(m) \/ Start(m) \/ ManagerKilled(m)
  PROVE  ManagerShape(m)
<1>1. CASE ManagerStep(m)
  BY <1>1, LaunchShape, BindLaunchedShape, LaunchFailedShape, ResumeShape, CancelStateShape,
     LaunchCoordinatorShape, PatchShape, BootShape
     DEF ManagerStep, CoordinatorLaunchFailed, ClearLaunchError
<1>2. CASE ManagerRequest(m)
  BY <1>2, ResumeShape, StatusPollShape, CancelShape DEF ManagerRequest
<1> QED BY <1>1, <1>2, StartShape, ManagerKilledShape

(* Every step of the specification, and every stutter, keeps the           *)
(* invariant.                                                              *)
LEMMA NextKeeps == CancelInv /\ [Next]_vars => CancelInv'
<1> SUFFICES ASSUME CancelInv, [Next]_vars PROVE CancelInv'
  OBVIOUS
<1>0. TypeOK /\ faults \in 0..MaxFaults
  BY DEF CancelInv, TypeOK
<1>1. ASSUME NEW w \in Workers, WorkerActs(w) PROVE CancelInv'
  BY <1>0, <1>1, WorkerStepShape, WorkerKeeps DEF WorkerActs
<1>2. ASSUME NEW c \in Coordinators, CoordinatorActs(c) PROVE CancelInv'
  BY <1>0, <1>2, CoordinatorStepShape, CoordinatorKeeps DEF CoordinatorActs
<1>3. ASSUME NEW m \in Managers, ManagerActs(m) \/ ManagerAsked(m) \/ ServerStarts(m)
      PROVE  CancelInv'
  BY <1>0, <1>3, ManagerStepShape, ManagerKeeps DEF ManagerActs, ManagerAsked, ServerStarts
<1>4. CASE OperatorRecoversLease
  BY <1>4, RecoveryKeeps
<1>5. CASE Fault
  <2>1. faults' \in 0..MaxFaults
    BY <1>0, <1>5, FaultAssumption DEF Fault
  <2>2. ASSUME NEW w \in Workers, WorkerKilled(w), UNCHANGED <<coordinator, managerVars>>
        PROVE  CancelInv'
    BY <2>1, <2>2, WorkerKilledShape, WorkerKeeps
  <2>3. ASSUME NEW c \in Coordinators, CoordinatorKilled(c), UNCHANGED managerVars
        PROVE  CancelInv'
    BY <1>0, <2>1, <2>3, ExitShape, CoordinatorKeeps DEF CoordinatorKilled
  <2>4. ASSUME NEW m \in Managers, ManagerKilled(m) PROVE CancelInv'
    BY <2>1, <2>4, ManagerStepShape, ManagerKeeps
  <2> QED BY <1>5, <2>2, <2>3, <2>4 DEF Fault
<1>6. CASE UNCHANGED vars
  BY <1>6 DEF vars, storeVars, workerVars, managerVars, CancelInv, TypeOK, StoreTypeOK,
              WorkerTypeOK, CoordinatorTypeOK, ManagerTypeOK, SectionsHeld, IdentitiesBorn, Born,
              RequestsIssued, TargetsAgree, Acting, EvidenceOwned, VerifiedStands, ChildActive,
              CancelledIsProved, Targets, Alive
<1> QED BY <1>1, <1>2, <1>3, <1>4, <1>5, <1>6 DEF Next

(* The invariant of the cancellation protocol, for any number of servers,   *)
(* workers, coordinators, attempts, requests and kills (all of jobs/).     *)
THEOREM InvariantHolds == Spec => []CancelInv
<1>1. Init => CancelInv
  BY InitEstablishes
<1>2. CancelInv /\ [Next]_vars => CancelInv'
  BY NextKeeps
<1> QED BY <1>1, <1>2, PTL DEF Spec

(* Every variable keeps its type.                                          *)
THEOREM TypeCorrect == Spec => []TypeOK
<1>1. CancelInv => TypeOK
  BY DEF CancelInv
<1> QED BY <1>1, InvariantHolds, PTL

(* "cancelled" is a proof: whenever state.json says it, the request targets *)
(* this attempt and the worker it names, the worker's recorded descendants *)
(* and its lease are gone (_verified_cancel, _commit_cancelled).           *)
THEOREM CancelledProved == Spec => []CancelledIsProved
<1>1. CancelInv => CancelledIsProved
  BY DEF CancelInv
<1> QED BY <1>1, InvariantHolds, PTL

-----------------------------------------------------------------------------
(* Workers.  The "effect" of a step says more than its shape: which status  *)
(* it may write, and what it has to be to go on.                           *)

PlainStatus == Status \ (CANCELLING_STATES \union {"cancelled"})

WritesStatus(w) ==
  /\ lock = None
  /\ Working(w) /\ worker[w].pc \notin EarlyPCs
  /\ MayBecome(status') /\ status' \in PlainStatus
  /\ status' \in RESUMABLE_STATES => ~Working(w)'
  /\ status' = "completed" =>
       status = "completed" \/ (worker[w].pc = "publish" /\ worker[w].clean)
  /\ UNCHANGED <<bound, cancel>>

CatchesUp ==
  /\ lock = None
  /\ CanCancel(status) /\ Targets(attempt)
  /\ status' = "cancel_requested"
  /\ cancel' = RequestedCancel(control.rid, attempt)
  /\ UNCHANGED bound

WorkerWrites(w) ==
  \/ UNCHANGED <<status, bound, cancel>>
  \/ /\ worker[w].pc = "bind" /\ bound \in {None, w} /\ bound' = w
     /\ UNCHANGED <<status, cancel>>
  \/ WritesStatus(w)
  \/ CatchesUp

StaysInOrder(w) ==
  /\ worker'[w].done => worker'[w].pc \in {"cleanup", "read_final", "publish", "exit"}
  /\ worker'[w].pc \in {"read_final", "publish"} => worker'[w].done
  /\ worker'[w].pc # "bind"
  /\ Contained /\ worker'[w].pc = "dead" => ~(ChildActive(w)')
  /\ Working(w)' =>
       /\ Working(w)
       /\ worker[w].pc = "bind" => bound' = w
       /\ worker'[w].pc \notin EarlyPCs =>
            worker'[w].attempt = IF worker[w].pc \in EarlyPCs THEN attempt ELSE worker[w].attempt

KeepsLease(w) ==
  /\ lease'.holder \in {lease.holder, None} \/ (Working(w) /\ lease'.holder = w)
  /\ Holding(w)' => Holding(w) \/ lease'.holder = w
  /\ worker'[w].pc \in {"read_final", "publish"} /\ worker'[w].clean =>
       \/ /\ worker[w].pc \in {"read_final", "publish"} /\ worker[w].clean
          /\ UNCHANGED lease
       \/ Holding(w) /\ lease'.holder \in {lease.holder, None} \ {w}

WorkerEffect(w) ==
  /\ \A v \in Workers \ {w} : worker'[v] = worker[v]
  /\ worker[w].pc \notin {"unborn", "dead"}
  /\ UNCHANGED <<attempt, control, requests, lock>>
  /\ WorkerWrites(w)
  /\ StaysInOrder(w)
  /\ KeepsLease(w)

(* What a change of the program counter leaves as it was.                  *)
LEMMA GotoFacts ==
  ASSUME TypeOK, NEW w \in Workers, NEW pc \in WorkerPCs, Goto(w, pc)
  PROVE  /\ worker'[w].pc = pc
         /\ worker'[w].attempt = worker[w].attempt
         /\ worker'[w].done = worker[w].done
         /\ worker'[w].clean = worker[w].clean
         /\ \A v \in Workers \ {w} : worker'[v] = worker[v]
<1>1. worker \in [Workers -> WorkerRecords]
  BY DEF TypeOK, WorkerTypeOK
<1> QED BY <1>1 DEF Goto, Becomes, WorkerRecords

(* What a new record of a worker leaves as it was.                         *)
LEMMA BecomesFacts ==
  ASSUME TypeOK, NEW w \in Workers, NEW r, Becomes(w, r)
  PROVE  worker'[w] = r /\ \A v \in Workers \ {w} : worker'[v] = worker[v]
  BY DEF TypeOK, WorkerTypeOK, Becomes

(* A step that writes no file and takes no lease.                          *)
LEMMA QuietEffect ==
  ASSUME TypeOK, DoneIsLate, NEW w \in Workers, worker[w].pc \notin {"unborn", "dead"},
         UNCHANGED <<storeVars, lease>>,
         \A v \in Workers \ {w} : worker'[v] = worker[v],
         StaysInOrder(w), Holding(w)' => Holding(w),
         worker'[w].pc \in {"read_final", "publish"} =>
           worker[w].pc \in {"read_final", "publish"} /\ worker'[w].clean = worker[w].clean
  PROVE  WorkerEffect(w)
  BY DEF storeVars, WorkerEffect, WorkerWrites, KeepsLease

(* The status writes that go on to the next step or are refused.           *)
LEMMA AdvanceEffect ==
  ASSUME TypeOK, DoneIsLate, NEW w \in Workers,
         NEW from \in {"mark_starting", "mark_smoke_running", "mark_running", "resource_gate",
                       "mark_failed"},
         NEW new \in PlainStatus \ {"completed"},
         NEW next \in {"acquire_lease", "smoke_sweep", "broad_sweep", "cleanup"},
         NEW refused \in {"exit", "except", "cleanup"},
         new \in RESUMABLE_STATES => next = "cleanup",
         next \in {"smoke_sweep", "broad_sweep"} => from \in {"mark_smoke_running", "mark_running"},
         Advance(w, from, new, {next}, refused)
  PROVE  WorkerEffect(w)
<1>1. worker[w].pc = from /\ UNCHANGED lease /\ LockFree /\ ~worker[w].done
  BY DEF Advance, DoneIsLate
<1>2. PICK pc \in {next, refused} : Goto(w, pc)
  BY DEF Advance
<1>3. /\ worker'[w].pc = pc /\ worker'[w].done = worker[w].done
      /\ worker'[w].attempt = worker[w].attempt
      /\ \A v \in Workers \ {w} : worker'[v] = worker[v]
  BY <1>2, GotoFacts DEF WorkerPCs
<1>4. StaysInOrder(w) /\ Working(w) /\ worker[w].pc \notin EarlyPCs
  BY <1>1, <1>3 DEF StaysInOrder, Working, Holding, HoldingPCs, SolvingPCs, EarlyPCs
<1>5. KeepsLease(w)
  BY <1>1, <1>3 DEF KeepsLease, Holding, HoldingPCs, SolvingPCs
<1>6. WorkerWrites(w)
  <2>1. CASE UNCHANGED storeVars
    BY <2>1 DEF storeVars, WorkerWrites
  <2>2. CASE MayBecome(new) /\ SetStatus(new) /\ Goto(w, next)
    <3>1. status' = new /\ UNCHANGED <<bound, cancel>>
      BY <2>2 DEF SetStatus
    <3>2. new \in RESUMABLE_STATES => ~Working(w)'
      <4>1. worker'[w].pc = next
        BY <2>2, GotoFacts DEF WorkerPCs
      <4> QED BY <1>1, <1>3, <4>1 DEF Working, Holding, HoldingPCs, SolvingPCs, EarlyPCs
    <3>3. WritesStatus(w)
      BY <1>1, <1>4, <2>2, <3>1, <3>2 DEF WritesStatus, LockFree
    <3> QED BY <3>3 DEF WorkerWrites
  <2> QED BY <2>1, <2>2 DEF Advance
<1>7. UNCHANGED <<attempt, control, requests, lock>>
  BY DEF Advance, SetStatus, storeVars
<1> QED BY <1>1, <1>3, <1>4, <1>5, <1>6, <1>7 DEF WorkerEffect

(* An observed cancellation brings the state up to its control, or not.     *)
LEMMA ObserveEffect ==
  ASSUME TypeOK, DoneIsLate, NEW w \in Workers, LockFree,
         RecordCooperativeCancelObserved(worker[w].attempt), UNCHANGED lease,
         worker[w].pc \in {"observe_before_startup", "observe_cancel"},
         NEW pc \in {"exit", "cleanup"}, Goto(w, pc)
  PROVE  WorkerEffect(w)
<1>1. /\ worker'[w].pc = pc /\ worker'[w].done = worker[w].done
      /\ \A v \in Workers \ {w} : worker'[v] = worker[v]
  BY GotoFacts DEF WorkerPCs
<1>2. ~worker[w].done
  BY DEF DoneIsLate
<1>3. StaysInOrder(w) /\ KeepsLease(w)
  BY <1>1, <1>2 DEF StaysInOrder, KeepsLease, Working, Holding, HoldingPCs, SolvingPCs, EarlyPCs
<1>4. WorkerWrites(w) /\ UNCHANGED <<attempt, control, requests, lock>>
  BY DEF RecordCooperativeCancelObserved, ReconcileCancelState, WorkerWrites, CatchesUp, LockFree,
         storeVars
<1> QED BY <1>1, <1>3, <1>4 DEF WorkerEffect

(* Every step of a worker, its death included (jobs/worker.py).            *)
LEMMA WorkerStepEffect ==
  ASSUME TypeOK, DoneIsLate, NEW w \in Workers, WorkerStep(w) \/ WorkerKilled(w)
  PROVE  WorkerEffect(w)
<1> USE DEF LockFree
<1>0. worker[w] \in WorkerRecords /\ status \in Status
  BY DEF TypeOK, WorkerTypeOK, StoreTypeOK
<1>d. /\ worker[w].done => worker[w].pc \in {"cleanup", "read_final", "publish", "exit"}
      /\ worker[w].pc \in {"read_final", "publish"} => worker[w].done
  BY DEF DoneIsLate
<1>a. {"starting", "smoke_running", "smoke_validated", "running", "interrupted", "failed",
       "completed"} \subseteq PlainStatus
  BY DEF PlainStatus, Status, ACTIVE_STATES, TERMINAL_STATES, CANCELLING_STATES
<1>1. CASE Bind(w)
  <2>1. /\ \A v \in Workers \ {w} : worker'[v] = worker[v]
        /\ worker'[w].pc \in {"record_containment", "exit"}
        /\ worker'[w].done = worker[w].done
        /\ worker'[w].pc = "record_containment" => bound \in {None, w} /\ bound' = w
    BY <1>1, GotoFacts DEF Bind, WorkerPCs, MayBind, BindWorkerIdentity
  <2>2. StaysInOrder(w) /\ KeepsLease(w)
    BY <1>1, <1>d, <2>1
       DEF Bind, StaysInOrder, KeepsLease, Working, Holding, HoldingPCs, SolvingPCs, EarlyPCs
  <2>3. WorkerWrites(w) /\ UNCHANGED <<attempt, control, requests, lock>>
    BY <1>1 DEF Bind, MayBind, BindWorkerIdentity, storeVars, WorkerWrites
  <2> QED BY <1>1, <2>1, <2>2, <2>3 DEF Bind, WorkerEffect
<1>2. CASE RecordContainment(w)
  <2>1. /\ \A v \in Workers \ {w} : worker'[v] = worker[v]
        /\ worker'[w].pc \in {"read_state", "exit"}
        /\ worker'[w].done = worker[w].done
    BY <1>2, GotoFacts DEF RecordContainment, WorkerPCs
  <2>2. StaysInOrder(w) /\ KeepsLease(w)
    BY <1>2, <1>d, <2>1
       DEF RecordContainment, StaysInOrder, KeepsLease, Working, Holding, HoldingPCs, SolvingPCs,
           EarlyPCs
  <2> QED BY <1>2, <2>1, <2>2 DEF RecordContainment, WorkerEffect, WorkerWrites
<1>3. CASE ReadState(w)
  <2> DEFINE r == [worker[w] EXCEPT !.pc = "startup_gate", !.attempt = attempt, !.seen = status]
  <2>1. r.pc = "startup_gate" /\ r.done = worker[w].done /\ r.attempt = attempt
    BY <1>0 DEF WorkerRecords
  <2>2. worker'[w] = r /\ \A v \in Workers \ {w} : worker'[v] = worker[v]
    BY <1>3, BecomesFacts DEF ReadState
  <2> HIDE DEF r
  <2>3. StaysInOrder(w) /\ ~Holding(w)'
    BY <1>3, <1>d, <2>1, <2>2
       DEF ReadState, StaysInOrder, Working, Holding, HoldingPCs, SolvingPCs, EarlyPCs
  <2> QED BY <1>3, <2>1, <2>2, <2>3, QuietEffect DEF ReadState
<1>4. CASE StartupGate(w)
  <2>1. PICK next \in {"observe_before_startup", "mark_starting", "acquire_lease", "exit"} :
          Becomes(w, [worker[w] EXCEPT !.pc = next, !.seen = "submitted"])
    BY <1>4 DEF StartupGate
  <2> DEFINE r == [worker[w] EXCEPT !.pc = next, !.seen = "submitted"]
  <2>2. r.pc = next /\ r.done = worker[w].done /\ r.attempt = worker[w].attempt
    BY <1>0 DEF WorkerRecords
  <2>3. worker'[w] = r /\ \A v \in Workers \ {w} : worker'[v] = worker[v]
    BY <2>1, BecomesFacts
  <2> HIDE DEF r
  <2>4. StaysInOrder(w) /\ ~Holding(w)'
    BY <1>4, <1>d, <2>2, <2>3
       DEF StartupGate, StaysInOrder, Working, Holding, HoldingPCs, SolvingPCs, EarlyPCs
  <2> QED BY <1>4, <2>2, <2>3, <2>4, QuietEffect DEF StartupGate
<1>5. CASE ObserveBeforeStartup(w)
  BY <1>5, ObserveEffect DEF ObserveBeforeStartup
<1>6. CASE MarkStarting(w)
  BY <1>6, <1>a, AdvanceEffect DEF MarkStarting, RESUMABLE_STATES
<1>7. CASE AcquireLease(w)
  <2>1. /\ \A v \in Workers \ {w} : worker'[v] = worker[v]
        /\ worker'[w].done = worker[w].done /\ worker'[w].attempt = worker[w].attempt
        /\ \/ worker'[w].pc = "open_client" /\ lease' = [holder |-> w, server |-> FALSE]
           \/ worker'[w].pc = "except" /\ UNCHANGED lease
    BY <1>7, GotoFacts DEF AcquireLease, WorkerPCs
  <2>2. lease'.holder = w \/ (worker'[w].pc = "except" /\ UNCHANGED lease)
    BY <2>1
  <2>3. StaysInOrder(w) /\ KeepsLease(w)
    BY <1>7, <1>d, <2>1, <2>2
       DEF AcquireLease, StaysInOrder, KeepsLease, Working, Holding, HoldingPCs, SolvingPCs,
           EarlyPCs
  <2> QED BY <1>7, <2>1, <2>3 DEF AcquireLease, WorkerEffect, WorkerWrites, storeVars
<1>8. CASE OpenClient(w)
  <2>1. PICK child \in {"none", "alive"}, pc \in {"heartbeat", "except"} :
          Becomes(w, [worker[w] EXCEPT !.pc = pc, !.child = child])
    BY <1>8 DEF OpenClient
  <2> DEFINE r == [worker[w] EXCEPT !.pc = pc, !.child = child]
  <2>2. r.pc = pc /\ r.done = worker[w].done /\ r.attempt = worker[w].attempt
    BY <1>0 DEF WorkerRecords
  <2>3. worker'[w] = r /\ \A v \in Workers \ {w} : worker'[v] = worker[v]
    BY <2>1, BecomesFacts
  <2> HIDE DEF r
  <2>4. StaysInOrder(w) /\ Holding(w)
    BY <1>8, <1>d, <2>2, <2>3
       DEF OpenClient, StaysInOrder, Working, Holding, HoldingPCs, SolvingPCs, EarlyPCs
  <2> QED BY <1>8, <2>2, <2>3, <2>4, QuietEffect DEF OpenClient
<1>9. CASE Heartbeat(w)
  <2>1. /\ \A v \in Workers \ {w} : worker'[v] = worker[v]
        /\ worker'[w].done = worker[w].done /\ worker'[w].attempt = worker[w].attempt
        /\ worker'[w].pc \in {"stop_before_smoke", "except"}
    BY <1>9, GotoFacts DEF Heartbeat, WorkerPCs
  <2>2. lease'.holder = lease.holder
    BY <1>9 DEF Heartbeat, TypeOK, WorkerTypeOK, Leases
  <2>3. StaysInOrder(w) /\ KeepsLease(w)
    BY <1>9, <1>d, <2>1, <2>2
       DEF Heartbeat, StaysInOrder, KeepsLease, Working, Holding, HoldingPCs, SolvingPCs, EarlyPCs
  <2> QED BY <1>9, <2>1, <2>3 DEF Heartbeat, WorkerEffect, WorkerWrites, storeVars
<1>10. ASSUME worker[w].pc \in {"stop_before_smoke", "smoke_sweep", "broad_sweep", "except"},
              NEW pc \in {"observe_cancel", "mark_smoke_running", "mark_smoke_validated",
                          "resource_gate", "except", "cleanup", "mark_failed"},
              Goto(w, pc), worker[w].pc = "except" => pc \in {"observe_cancel", "cleanup", "mark_failed"},
              UNCHANGED <<storeVars, lease>>
       PROVE  WorkerEffect(w)
  <2>1. /\ \A v \in Workers \ {w} : worker'[v] = worker[v]
        /\ worker'[w].done = worker[w].done /\ worker'[w].attempt = worker[w].attempt
        /\ worker'[w].pc = pc
    BY <1>10, GotoFacts DEF WorkerPCs
  <2>2. StaysInOrder(w)
    BY <1>10, <1>d, <2>1 DEF StaysInOrder, Working, Holding, HoldingPCs, SolvingPCs, EarlyPCs
  <2>3. Holding(w)' => Holding(w)
    BY <1>10, <1>d, <2>1 DEF Holding, HoldingPCs, SolvingPCs
  <2> QED BY <1>10, <2>1, <2>2, <2>3, QuietEffect
<1>11. CASE StopBeforeSmoke(w)
  BY <1>10, <1>11 DEF StopBeforeSmoke
<1>12. CASE MarkSmokeRunning(w)
  BY <1>12, <1>a, AdvanceEffect DEF MarkSmokeRunning, RESUMABLE_STATES
<1>13. CASE SmokeSweep(w)
  BY <1>10, <1>13 DEF SmokeSweep
<1>14. CASE MarkSmokeValidated(w)
  <2>1. /\ \A v \in Workers \ {w} : worker'[v] = worker[v]
        /\ worker'[w].attempt = worker[w].attempt
        /\ \/ worker'[w].pc \in {"mark_running", "except"} /\ ~worker'[w].done
           \/ worker'[w].pc = "cleanup" /\ worker'[w].done
    <3>1. CASE Goto(w, "except")
      BY <1>14, <1>d, <3>1, GotoFacts DEF MarkSmokeValidated, WorkerPCs
    <3>2. CASE \E all \in BOOLEAN :
                 Becomes(w, [worker[w] EXCEPT !.pc = IF all THEN "cleanup" ELSE "mark_running",
                                              !.done = all])
      <4>1. PICK all \in BOOLEAN :
              Becomes(w, [worker[w] EXCEPT !.pc = IF all THEN "cleanup" ELSE "mark_running",
                                           !.done = all])
        BY <3>2
      <4> DEFINE pc == IF all THEN "cleanup" ELSE "mark_running"
                 r == [worker[w] EXCEPT !.pc = pc, !.done = all]
      <4>2. r.pc = pc /\ r.done = all /\ r.attempt = worker[w].attempt
        BY <1>0 DEF WorkerRecords
      <4>3. worker'[w] = r /\ \A v \in Workers \ {w} : worker'[v] = worker[v]
        BY <4>1, BecomesFacts
      <4> HIDE DEF r
      <4> QED BY <4>2, <4>3
    <3> QED BY <1>14, <3>1, <3>2 DEF MarkSmokeValidated
  <2>2. StaysInOrder(w) /\ KeepsLease(w) /\ Holding(w) /\ Working(w) /\ worker[w].pc \notin EarlyPCs
    BY <1>14, <2>1
       DEF MarkSmokeValidated, StaysInOrder, KeepsLease, Working, Holding, HoldingPCs, SolvingPCs,
           EarlyPCs
  <2>3. WorkerWrites(w) /\ UNCHANGED <<attempt, control, requests, lock>>
    BY <1>14, <1>a, <2>2
       DEF MarkSmokeValidated, SetStatus, storeVars, WorkerWrites, WritesStatus, RESUMABLE_STATES
  <2> QED BY <1>14, <2>1, <2>2, <2>3 DEF MarkSmokeValidated, WorkerEffect
<1>15. CASE MarkRunning(w)
  BY <1>15, <1>a, AdvanceEffect DEF MarkRunning, RESUMABLE_STATES
<1>16. CASE BroadSweep(w)
  <2> DEFINE r == [worker[w] EXCEPT !.pc = "cleanup", !.done = TRUE]
  <2>1. CASE Becomes(w, r)
    <3>1. r.pc = "cleanup" /\ r.done /\ r.attempt = worker[w].attempt
      BY <1>0 DEF WorkerRecords
    <3>2. worker'[w] = r /\ \A v \in Workers \ {w} : worker'[v] = worker[v]
      BY <2>1, BecomesFacts
    <3> HIDE DEF r
    <3>3. StaysInOrder(w) /\ Holding(w)
      BY <1>16, <3>1, <3>2
         DEF BroadSweep, StaysInOrder, Working, Holding, HoldingPCs, SolvingPCs, EarlyPCs
    <3> QED BY <1>16, <3>1, <3>2, <3>3, QuietEffect DEF BroadSweep
  <2> QED BY <1>10, <1>16, <2>1 DEF BroadSweep
<1>17. CASE ResourceGateStop(w)
  BY <1>17, <1>a, AdvanceEffect DEF ResourceGateStop, RESUMABLE_STATES
<1>18. CASE ObserveCancel(w)
  BY <1>18, ObserveEffect DEF ObserveCancel
<1>19. CASE Except(w)
  BY <1>10, <1>19 DEF Except
<1>20. CASE MarkFailed(w)
  BY <1>20, <1>a, AdvanceEffect DEF MarkFailed, RESUMABLE_STATES
<1>21. CASE Cleanup(w)
  <2>1. PICK closed \in BOOLEAN, released \in BOOLEAN, clean \in BOOLEAN :
          /\ clean /\ lease.holder = w => released
          /\ Becomes(w, [worker[w] EXCEPT
                            !.pc = IF worker[w].done THEN "read_final" ELSE "exit",
                            !.clean = worker[w].done => clean,
                            !.child = IF closed /\ @ = "alive" THEN "dead" ELSE @])
          /\ lease' = IF released /\ lease.holder = w THEN NoLease ELSE lease
    BY <1>21 DEF Cleanup
  <2> DEFINE pc == IF worker[w].done THEN "read_final" ELSE "exit"
             child == IF closed /\ worker[w].child = "alive" THEN "dead" ELSE worker[w].child
             ok == worker[w].done => clean
             r == [worker[w] EXCEPT !.pc = pc, !.clean = ok, !.child = child]
  <2>2. /\ r.pc = pc /\ r.done = worker[w].done /\ r.attempt = worker[w].attempt
        /\ worker[w].done => r.clean = clean
    BY <1>0 DEF WorkerRecords
  <2>3. Becomes(w, r)
    BY <1>0, <2>1 DEF WorkerRecords
  <2> HIDE DEF r
  <2>4. worker'[w] = r /\ \A v \in Workers \ {w} : worker'[v] = worker[v]
    BY <2>3, BecomesFacts
  <2>5. /\ lease'.holder \in {lease.holder, None}
        /\ clean => lease'.holder # w
    BY <2>1, IdentityAssumption DEF NoLease
  <2>6. worker[w].done \in BOOLEAN /\ worker[w].pc = "cleanup"
    BY <1>0, <1>21 DEF WorkerRecords, Cleanup
  <2>7. StaysInOrder(w)
    BY <2>2, <2>4, <2>6 DEF StaysInOrder, Working, Holding, HoldingPCs, SolvingPCs, EarlyPCs
  <2>8. KeepsLease(w)
    BY <2>2, <2>4, <2>5, <2>6 DEF KeepsLease, Working, Holding, HoldingPCs, SolvingPCs, EarlyPCs
  <2> QED BY <1>21, <2>4, <2>7, <2>8 DEF Cleanup, WorkerEffect, WorkerWrites, storeVars
<1>22. CASE ReadFinal(w)
  <2>1. /\ \A v \in Workers \ {w} : worker'[v] = worker[v]
        /\ worker'[w].done = worker[w].done /\ worker'[w].attempt = worker[w].attempt
        /\ worker'[w].clean = worker[w].clean
        /\ worker'[w].pc \in {"exit", "publish"}
    BY <1>22, GotoFacts DEF ReadFinal, WorkerPCs
  <2>2. StaysInOrder(w) /\ Holding(w)
    BY <1>22, <1>d, <2>1
       DEF ReadFinal, StaysInOrder, Working, Holding, HoldingPCs, SolvingPCs, EarlyPCs
  <2> QED BY <1>22, <2>1, <2>2, QuietEffect DEF ReadFinal
<1>23. CASE Publish(w)
  <2>1. /\ \A v \in Workers \ {w} : worker'[v] = worker[v]
        /\ worker'[w].pc = "exit"
    BY <1>23, GotoFacts DEF Publish, WorkerPCs
  <2>2. StaysInOrder(w) /\ KeepsLease(w) /\ Working(w) /\ ~Working(w)' /\ worker[w].pc \notin EarlyPCs
    BY <1>23, <2>1
       DEF Publish, StaysInOrder, KeepsLease, Working, Holding, HoldingPCs, SolvingPCs, EarlyPCs
  <2>3. WorkerWrites(w) /\ UNCHANGED <<attempt, control, requests, lock>>
    BY <1>23, <1>a, <2>2 DEF Publish, SetStatus, storeVars, WorkerWrites, WritesStatus
  <2> QED BY <1>23, <2>1, <2>2, <2>3 DEF Publish, WorkerEffect
<1>24. ASSUME worker[w].pc \notin {"unborn", "dead"}, Becomes(w, Exited(w)),
              UNCHANGED <<storeVars, lease>>
       PROVE  WorkerEffect(w)
  <2>1. /\ worker'[w].pc = "dead" /\ ~worker'[w].done
        /\ Contained => ~(ChildActive(w)')
        /\ \A v \in Workers \ {w} : worker'[v] = worker[v]
    BY <1>24, BecomesFacts DEF Exited, Idle, ChildActive
  <2>2. StaysInOrder(w) /\ ~Holding(w)'
    BY <2>1 DEF StaysInOrder, Working, Holding, HoldingPCs, SolvingPCs, EarlyPCs
  <2> QED BY <1>24, <2>1, <2>2, QuietEffect
<1>25. CASE Exit(w)
  BY <1>24, <1>25 DEF Exit
<1>26. CASE WorkerKilled(w)
  BY <1>24, <1>26 DEF WorkerKilled, Alive
<1> QED BY <1>1, <1>2, <1>3, <1>4, <1>5, <1>6, <1>7, <1>8, <1>9, <1>11, <1>12, <1>13, <1>14,
           <1>15, <1>16, <1>17, <1>18, <1>19, <1>20, <1>21, <1>22, <1>23, <1>25, <1>26
        DEF WorkerStep

-----------------------------------------------------------------------------
(* Servers.  The effects of their steps when launches do not fail.         *)

RestingPCs == {"idle", "boot", "resume_state", "launch_coordinator"}

Rests(m) ==
  /\ mgr'[m].pc \in RestingPCs
  /\ UNCHANGED <<status, attempt, bound, cancel, control, worker>>
  /\ lock' = lock \/ (lock = m /\ lock' = None)

Launches(m) ==
  /\ mgr[m].pc = "launch" /\ mgr'[m].pc = "bind"
  /\ mgr'[m].w \in Workers
  /\ worker[mgr'[m].w].pc = "unborn"
  /\ worker'[mgr'[m].w].pc = "bind"
  /\ ~worker'[mgr'[m].w].done \/ worker[mgr'[m].w].done
  /\ \A w \in Workers \ {mgr'[m].w} : worker'[w] = worker[w]
  /\ UNCHANGED storeVars

Binds(m) ==
  /\ mgr[m].pc = "bind" /\ mgr'[m].pc = "idle"
  /\ bound \in {None, mgr[m].w} /\ bound' = mgr[m].w
  /\ UNCHANGED <<status, attempt, cancel, control, lock, worker>>

GivesUp(m) ==
  /\ mgr[m].pc = "bind" /\ mgr'[m].pc = "launch_failed"
  /\ bound \notin {None, mgr[m].w}
  /\ UNCHANGED <<storeVars, worker>>

Fails(m) ==
  /\ mgr[m].pc = "launch_failed" /\ mgr'[m].pc = "idle"
  /\ lock = None
  /\ status' \in {status, "failed"}
  /\ UNCHANGED <<attempt, bound, cancel, control, lock, worker>>

Opens(m) ==
  /\ mgr[m].pc = "resume_state" /\ mgr'[m].pc = "resume_control"
  /\ lock = None /\ lock' = m
  /\ status \in RESUMABLE_STATES /\ status' = "starting"
  /\ attempt' = attempt + 1 /\ bound' = None
  /\ UNCHANGED <<cancel, control, worker>>

Withdraws(m) ==
  /\ mgr[m].pc = "resume_control" /\ mgr'[m].pc = "launch"
  /\ control' = NoControl /\ lock' = None
  /\ UNCHANGED <<status, attempt, bound, cancel, worker>>

Authorizes(m) ==
  /\ mgr[m].pc = "idle" /\ mgr'[m].pc = "cancel_state"
  /\ lock = None /\ lock' = m
  /\ CanCancel(status) /\ control.rid = 0
  /\ control' = [rid |-> requests + 1, target |-> attempt, worker |-> bound]
  /\ UNCHANGED <<status, attempt, bound, cancel, worker>>

Follows(m) ==
  /\ mgr'[m].pc \in RestingPCs
  /\ lock' = None
  /\ lock = None \/ mgr[m].pc = "cancel_state"
  /\ CanCancel(status) /\ Targets(attempt)
  /\ status' = "cancel_requested"
  /\ cancel' = RequestedCancel(control.rid, attempt)
  /\ UNCHANGED <<attempt, bound, control, worker>>

Interrupts(m) ==
  /\ UNCHANGED mgr /\ mgr[m].pc = "idle"
  /\ lock = None
  /\ bound \in Workers /\ worker[bound].pc \in {"unborn", "dead"}
  /\ status \in ACTIVE_STATES \ {"cancelling"}
  /\ status' = "interrupted"
  /\ UNCHANGED <<attempt, bound, cancel, control, lock, worker>>

ManagerEffect(m) ==
  /\ \A n \in Managers \ {m} : mgr'[n] = mgr[n]
  /\ UNCHANGED lease
  /\ CoordinatorsStart
  /\ ~mgr'[m].snap.launchError
  /\ \/ Rests(m) \/ Launches(m) \/ Binds(m) \/ GivesUp(m) \/ Fails(m) \/ Opens(m)
     \/ Withdraws(m) \/ Authorizes(m) \/ Follows(m) \/ Interrupts(m)

(* What a call keeps when only its step changes.                           *)
LEMMA ManagerGotoFacts ==
  ASSUME TypeOK, NEW m \in Managers, NEW pc \in ManagerPCs, ManagerGoto(m, pc)
  PROVE  /\ mgr'[m].pc = pc /\ mgr'[m].w = mgr[m].w /\ mgr'[m].snap = mgr[m].snap
         /\ \A n \in Managers \ {m} : mgr'[n] = mgr[n]
<1>1. mgr \in [Managers -> ManagerRecords]
  BY DEF TypeOK, ManagerTypeOK
<1> QED BY <1>1 DEF ManagerGoto, ManagerRecords

(* What a call forgets when it is replaced by one that knows nothing.       *)
LEMMA NoCallReplaces ==
  ASSUME TypeOK, NEW m \in Managers, NEW pc, mgr' = [mgr EXCEPT ![m] = NoCall(pc)]
  PROVE  /\ mgr'[m].pc = pc /\ ~mgr'[m].snap.launchError
         /\ \A n \in Managers \ {m} : mgr'[n] = mgr[n]
<1>1. mgr'[m] = NoCall(pc) /\ \A n \in Managers \ {m} : mgr'[n] = mgr[n]
  BY DEF TypeOK, ManagerTypeOK
<1> QED BY <1>1 DEF NoCall, NoCancel

(* Who can be cancelled is active, and a fresh request has seen no launch.  *)
LEMMA CancelFacts ==
  /\ \A s \in Status : CanCancel(s) => s \in ACTIVE_STATES \ CANCELLING_STATES
  /\ \A rid, a : /\ RequestedCancel(rid, a).rid = rid /\ RequestedCancel(rid, a).target = a
                 /\ ~RequestedCancel(rid, a).launchError
<1>1. ASSUME NEW s \in Status, CanCancel(s) PROVE s \in ACTIVE_STATES \ CANCELLING_STATES
  BY <1>1 DEF CanCancel, TRANSITIONS, Status, ACTIVE_STATES, TERMINAL_STATES, CANCELLING_STATES,
              RESUMABLE_STATES
<1> QED BY <1>1 DEF RequestedCancel, NoCancel

(* Every step of a server, its death included (jobs/manager.py).           *)
LEMMA ManagerStepEffect ==
  ASSUME ~LaunchMayFail, CancelInv, NoLaunchError, RequestOpen, NEW m \in Managers,
         ManagerStep(m) \/ ManagerRequest(m) \/ Start(m) \/ ManagerKilled(m)
  PROVE  ManagerEffect(m)
<1> USE DEF LockFree
<1>0. /\ TypeOK /\ ManagerShape(m) /\ mgr[m] \in ManagerRecords /\ ~mgr[m].snap.launchError
      /\ worker \in [Workers -> WorkerRecords] /\ mgr \in [Managers -> ManagerRecords]
  BY ManagerStepShape DEF CancelInv, TypeOK, ManagerTypeOK, WorkerTypeOK, NoLaunchError
<1>s. UNCHANGED lease /\ CoordinatorsStart /\ \A n \in Managers \ {m} : mgr'[n] = mgr[n]
  BY <1>0 DEF ManagerShape, ManagerMoves
<1>r. ASSUME Rests(m), ~mgr'[m].snap.launchError PROVE ManagerEffect(m)
  BY <1>s, <1>r DEF ManagerEffect
<1>1. CASE Launch(m)
  <2>1. PICK w \in Workers : /\ worker[w].pc = "unborn" /\ Goto(w, "bind")
                             /\ mgr' = [mgr EXCEPT ![m].pc = "bind", ![m].w = w]
    BY <1>1 DEF Launch
  <2>2. mgr'[m].pc = "bind" /\ mgr'[m].w = w /\ mgr'[m].snap = mgr[m].snap
    BY <1>0, <2>1 DEF ManagerRecords
  <2>3. /\ worker'[w].pc = "bind" /\ worker'[w].done = worker[w].done
        /\ \A v \in Workers \ {w} : worker'[v] = worker[v]
    BY <1>0, <2>1, GotoFacts DEF WorkerPCs
  <2>4. Launches(m)
    BY <1>1, <2>1, <2>2, <2>3 DEF Launch, Launches
  <2> QED BY <1>0, <1>s, <2>2, <2>4 DEF ManagerEffect
<1>2. CASE BindLaunched(m)
  <2>1. CASE MayBind(mgr[m].w) /\ BindWorkerIdentity(mgr[m].w) /\ Returns(m)
    <3>1. mgr'[m].pc = "idle" /\ ~mgr'[m].snap.launchError
      BY <1>0, <2>1, NoCallReplaces DEF Returns
    <3>2. Binds(m)
      BY <1>2, <2>1, <3>1 DEF BindLaunched, MayBind, BindWorkerIdentity, Binds, workerVars
    <3> QED BY <1>s, <3>1, <3>2 DEF ManagerEffect
  <2>2. CASE /\ ~MayBind(mgr[m].w) /\ mgr' = [mgr EXCEPT ![m] = NoCall("launch_failed")]
             /\ UNCHANGED storeVars
    <3>1. mgr'[m].pc = "launch_failed" /\ ~mgr'[m].snap.launchError
      BY <1>0, <2>2, NoCallReplaces
    <3>2. GivesUp(m)
      BY <1>2, <2>2, <3>1 DEF BindLaunched, MayBind, GivesUp, workerVars
    <3> QED BY <1>s, <3>1, <3>2 DEF ManagerEffect
  <2> QED BY <1>2, <2>1, <2>2 DEF BindLaunched
<1>3. CASE LaunchFailed(m)
  <2>1. mgr'[m].pc = "idle" /\ ~mgr'[m].snap.launchError
    BY <1>0, <1>3, NoCallReplaces DEF LaunchFailed, Returns
  <2>2. Fails(m)
    BY <1>3, <2>1 DEF LaunchFailed, Fails, SetStatus, storeVars, workerVars
  <2> QED BY <1>s, <2>1, <2>2 DEF ManagerEffect
<1>4. CASE ResumeCheck(m)
  BY <1>0, <1>4, <1>r, ManagerGotoFacts
     DEF ResumeCheck, Rests, RestingPCs, storeVars, workerVars, ManagerPCs
<1>5. CASE ResumeState(m)
  <2>1. CASE Returns(m) /\ UNCHANGED storeVars
    BY <1>0, <1>5, <1>r, <2>1, NoCallReplaces
       DEF ResumeState, Returns, Rests, RestingPCs, storeVars, workerVars
  <2>2. CASE /\ status \in RESUMABLE_STATES /\ WriteResumeState(m)
             /\ ManagerGoto(m, "resume_control")
    <3>1. mgr'[m].pc = "resume_control" /\ ~mgr'[m].snap.launchError
      BY <1>0, <2>2, ManagerGotoFacts DEF ManagerPCs
    <3>2. Opens(m)
      BY <1>5, <2>2, <3>1 DEF ResumeState, WriteResumeState, Opens, workerVars
    <3> QED BY <1>s, <3>1, <3>2 DEF ManagerEffect
  <2> QED BY <1>5, <2>1, <2>2 DEF ResumeState
<1>6. CASE ResumeControl(m)
  <2>1. mgr'[m].pc = "launch" /\ ~mgr'[m].snap.launchError
    BY <1>0, <1>6, ManagerGotoFacts DEF ResumeControl, ManagerPCs
  <2>2. Withdraws(m)
    BY <1>6, <2>1 DEF ResumeControl, WriteResumeControl, Withdraws, workerVars
  <2> QED BY <1>s, <2>1, <2>2 DEF ManagerEffect
<1>7. ASSUME NEW e \in 0..MaxAttempt, Cancel(m, e) PROVE ManagerEffect(m)
  <2>1. CASE /\ CancelVerdict(e) = "new" /\ WriteCancelControl(m)
             /\ ManagerGoto(m, "cancel_state")
    <3>1. mgr'[m].pc = "cancel_state" /\ ~mgr'[m].snap.launchError
      BY <1>0, <2>1, ManagerGotoFacts DEF ManagerPCs
    <3>2. CanCancel(status) /\ control.rid = 0
      BY <2>1 DEF CancelVerdict
    <3>3. Authorizes(m)
      BY <1>7, <2>1, <3>1, <3>2 DEF Cancel, WriteCancelControl, Authorizes, workerVars
    <3> QED BY <1>s, <3>1, <3>3 DEF ManagerEffect
  <2>2. CASE CancelVerdict(e) = "reconciled" /\ ReconcileCancelState /\ UNCHANGED mgr
    <3>1. CanCancel(status) /\ Targets(attempt)
      BY <2>2 DEF CancelVerdict, Targets
    <3>2. Follows(m)
      BY <1>7, <2>2, <3>1 DEF Cancel, ReconcileCancelState, Follows, RestingPCs, workerVars
    <3> QED BY <1>0, <1>s, <2>2, <3>2 DEF ManagerEffect
  <2>3. CASE cancel.launchError
    BY <2>3 DEF NoLaunchError
  <2> QED BY <1>7, <2>1, <2>2, <2>3 DEF Cancel
<1>8. CASE CancelState(m)
  <2> DEFINE snap == RequestedCancel(control.rid, attempt)
             r == [NoCall("launch_coordinator") EXCEPT !.rid = control.rid, !.snap = snap]
  <2>1. r.pc = "launch_coordinator" /\ r.snap = snap
    BY DEF NoCall
  <2>2. mgr'[m] = r
    BY <1>0, <1>8 DEF CancelState
  <2>3. ~snap.launchError
    BY CancelFacts
  <2> HIDE DEF r, snap
  <2>4. CanCancel(status) /\ Targets(attempt) /\ mgr[m].pc = "cancel_state"
    BY <1>8 DEF CancelState, RequestOpen
  <2>5. Follows(m)
    BY <1>8, <2>1, <2>2, <2>4 DEF CancelState, WriteCancelState, Follows, RestingPCs, workerVars
  <2> QED BY <1>s, <2>1, <2>2, <2>3, <2>5 DEF ManagerEffect
<1>9. CASE LaunchCoordinator(m)
  <2>1. Returns(m)
    BY <1>0, <1>9 DEF LaunchCoordinator
  <2> QED BY <1>0, <1>9, <1>r, <2>1, NoCallReplaces
          DEF LaunchCoordinator, Returns, Rests, RestingPCs, storeVars, workerVars
<1>10. CASE CoordinatorLaunchFailed(m) \/ ClearLaunchError(m)
  BY <1>10 DEF CoordinatorLaunchFailed, ClearLaunchError, NoLaunchError
<1>11. CASE Boot(m)
  BY <1>0, <1>11, <1>r, NoCallReplaces DEF Boot, Returns, Rests, RestingPCs, storeVars, workerVars
<1>12. CASE Start(m)
  BY <1>0, <1>12, <1>r DEF Start, Rests, RestingPCs, storeVars, workerVars, managerVars
<1>13. CASE ManagerKilled(m)
  BY <1>0, <1>13, <1>r, NoCallReplaces DEF ManagerKilled, Rests, RestingPCs, workerVars
<1>14. CASE StatusPoll(m)
  <2>1. bound \in Workers /\ worker[bound].pc \in {"unborn", "dead"}
    BY <1>0, <1>14 DEF StatusPoll, Alive, TypeOK, StoreTypeOK
  <2>2. Interrupts(m)
    BY <1>14, <2>1 DEF StatusPoll, SetStatus, Interrupts, workerVars
  <2> QED BY <1>0, <1>s, <1>14, <2>2 DEF StatusPoll, ManagerEffect
<1> QED BY <1>1, <1>2, <1>3, <1>4, <1>5, <1>6, <1>7, <1>8, <1>9, <1>10, <1>11, <1>12, <1>13,
           <1>14 DEF ManagerStep, ManagerRequest

-----------------------------------------------------------------------------
(* The specification: which effect a step has.                             *)

(* No step, or a recovery of the lease of a dead worker.                   *)
NothingHappens ==
  /\ UNCHANGED <<status, attempt, bound, cancel, control, requests, lock>>
  /\ UNCHANGED <<worker, coordinator, mgr>>
  /\ lease'.holder \in {lease.holder, None}

StepEffect ==
  \/ \E w \in Workers : WorkerEffect(w) /\ UNCHANGED <<coordinator, mgr>>
  \/ \E c \in Coordinators : CoordinatorShape(c) /\ UNCHANGED mgr
  \/ \E m \in Managers : ManagerEffect(m)
  \/ NothingHappens

(* Every step of the specification has an effect of one kind.              *)
LEMMA NextEffect ==
  ASSUME ~LaunchMayFail, CancelInv, DoneIsLate, NoLaunchError, RequestOpen, [Next]_vars
  PROVE  StepEffect
<1>0. TypeOK
  BY DEF CancelInv
<1>1. ASSUME NEW w \in Workers, WorkerActs(w) PROVE StepEffect
  BY <1>0, <1>1, WorkerStepEffect DEF WorkerActs, StepEffect, managerVars
<1>2. ASSUME NEW c \in Coordinators, CoordinatorActs(c) PROVE StepEffect
  BY <1>2, CoordinatorStepShape DEF CoordinatorActs, StepEffect, managerVars
<1>3. ASSUME NEW m \in Managers, ManagerActs(m) \/ ManagerAsked(m) \/ ServerStarts(m)
      PROVE  StepEffect
  BY <1>3, ManagerStepEffect DEF ManagerActs, ManagerAsked, ServerStarts, StepEffect
<1>4. CASE OperatorRecoversLease
  BY <1>4 DEF OperatorRecoversLease, NoLease, StepEffect, NothingHappens, storeVars, managerVars
<1>5. CASE Fault
  <2>1. ASSUME NEW w \in Workers, WorkerKilled(w), UNCHANGED <<coordinator, managerVars>>
        PROVE  StepEffect
    BY <1>0, <2>1, WorkerStepEffect DEF StepEffect, managerVars
  <2>2. ASSUME NEW c \in Coordinators, CoordinatorKilled(c), UNCHANGED managerVars
        PROVE  StepEffect
    BY <1>0, <2>2, ExitShape DEF CoordinatorKilled, StepEffect, managerVars
  <2>3. ASSUME NEW m \in Managers, ManagerKilled(m) PROVE StepEffect
    BY <2>3, ManagerStepEffect DEF StepEffect
  <2> QED BY <1>5, <2>1, <2>2, <2>3 DEF Fault
<1>6. CASE UNCHANGED vars
  BY <1>6 DEF vars, storeVars, workerVars, managerVars, StepEffect, NothingHappens
<1> QED BY <1>1, <1>2, <1>3, <1>4, <1>5, <1>6 DEF Next

-----------------------------------------------------------------------------
(* The two files agree.                                                    *)

(* A sweep that is done is late, whatever happens.                         *)
LEMMA DoneStaysLate ==
  ASSUME DoneIsLate, StepEffect
  PROVE  DoneIsLate'
<1>1. ASSUME NEW w \in Workers, WorkerEffect(w) PROVE DoneIsLate'
  BY <1>1 DEF DoneIsLate, WorkerEffect, StaysInOrder
<1>2. ASSUME NEW c \in Coordinators, CoordinatorShape(c) PROVE DoneIsLate'
  BY <1>2 DEF DoneIsLate, CoordinatorShape, OnlyDeaths
<1>3. ASSUME NEW m \in Managers, ManagerEffect(m) PROVE DoneIsLate'
  <2>1. CASE Launches(m)
    BY <2>1 DEF DoneIsLate, Launches
  <2>2. CASE ~Launches(m)
    BY <1>3, <2>2
       DEF DoneIsLate, ManagerEffect, Rests, Binds, GivesUp, Fails, Opens, Withdraws, Authorizes,
           Follows, Interrupts
  <2> QED BY <2>1, <2>2
<1>4. CASE NothingHappens
  BY <1>4 DEF DoneIsLate, NothingHappens
<1> QED BY <1>1, <1>2, <1>3, <1>4 DEF StepEffect

(* The status of a job in cancellation, and where it comes from.           *)
LEMMA WorkerKeepsRequest ==
  ASSUME CancelInv, RequestInv, NEW w \in Workers, WorkerEffect(w), UNCHANGED <<coordinator, mgr>>
  PROVE  RequestInv'
<1> USE DEF RequestInv, WorkerEffect, WorkerWrites, WritesStatus, CatchesUp
<1>1. UNCHANGED <<attempt, control>> /\ \A m \in Managers : m # None
  BY IdentityAssumption
<1>2. NoLaunchError'
  BY CancelFacts DEF NoLaunchError
<1>3. RequestOpen'
  BY <1>1 DEF RequestOpen, Targets
<1>4. RequestMatches'
  BY <1>1, CancelFacts DEF RequestMatches, Targets, PlainStatus
<1> QED BY <1>2, <1>3, <1>4

(* A coordinator ends a cancellation or keeps its request.                 *)
LEMMA CoordinatorKeepsRequest ==
  ASSUME CancelInv, RequestInv, NEW c \in Coordinators, CoordinatorShape(c), UNCHANGED mgr
  PROVE  RequestInv'
<1> USE DEF RequestInv
<1>1. /\ UNCHANGED <<attempt, control, lock>>
      /\ UNCHANGED cancel \/ SameRequest(cancel')
      /\ \/ UNCHANGED status
         \/ status \in CANCELLING_STATES /\ status' \in {"cancelling", "cancelled"}
  BY DEF CoordinatorShape, Leaves, Works, OwnedPatch, Claims, ClaimAllowed, Commits,
         OwnsCancelWrite, CANCELLING_STATES
<1>2. status \in Status
  BY DEF CancelInv, TypeOK, StoreTypeOK
<1>3. NoLaunchError'
  BY <1>1 DEF NoLaunchError, SameRequest
<1>4. RequestOpen'
  BY <1>1, <1>2, CancelFacts DEF RequestOpen, Targets
<1>5. RequestMatches'
  BY <1>1 DEF RequestMatches, Targets, SameRequest, CANCELLING_STATES
<1> QED BY <1>3, <1>4, <1>5

(* A server writes a request only where it may follow.                     *)
LEMMA ManagerKeepsRequest ==
  ASSUME CancelInv, RequestInv, NEW m \in Managers, ManagerEffect(m)
  PROVE  RequestInv'
<1> USE DEF RequestInv, ManagerEffect
<1>0. /\ \A n \in Managers : n # None
      /\ \A n \in Managers \ {m} : mgr'[n] = mgr[n]
      /\ \A n \in Managers : mgr[n].pc \in {"resume_control", "cancel_state"} => lock = n
      /\ status \in Status
      /\ \A n \in Managers : mgr[n].pc = "resume_control" => status = "starting"
  BY IdentityAssumption DEF CancelInv, SectionsHeld, TypeOK, StoreTypeOK
<1>s. /\ Status \ CANCELLING_STATES = {"submitted", "starting", "smoke_running", "smoke_validated",
                                      "running"} \union TERMINAL_STATES
      /\ CANCELLING_STATES = {"cancel_requested", "cancelling"}
      /\ "starting" \notin CANCELLING_STATES /\ "interrupted" \notin CANCELLING_STATES
      /\ "failed" \notin CANCELLING_STATES
  BY DEF Status, ACTIVE_STATES, CANCELLING_STATES, TERMINAL_STATES
<1>1. CASE Rests(m) \/ GivesUp(m) \/ Binds(m) \/ Launches(m)
  <2>1. /\ UNCHANGED <<status, attempt, cancel, control>>
        /\ mgr'[m].pc \notin {"coordinator_launch_failed", "clear_launch_error", "cancel_state"}
        /\ lock' = lock \/ lock = m
    BY <1>1 DEF Rests, RestingPCs, GivesUp, Binds, Launches, storeVars
  <2>2. NoLaunchError' /\ RequestMatches'
    BY <2>1, <1>0 DEF NoLaunchError, RequestMatches, Targets
  <2>3. RequestOpen'
    BY <1>0, <2>1 DEF RequestOpen, Targets
  <2> QED BY <2>2, <2>3
<1>2. CASE Fails(m) \/ Interrupts(m)
  <2>1. /\ UNCHANGED <<attempt, cancel, control, lock>> /\ lock = None
        /\ status' \in {status, "failed", "interrupted"}
        /\ ~mgr'[m].snap.launchError /\ mgr'[m].pc = "idle"
    BY <1>2 DEF Fails, Interrupts
  <2> QED BY <1>0, <1>s, <2>1 DEF NoLaunchError, RequestMatches, RequestOpen, Targets
<1>3. CASE Opens(m)
  BY <1>0, <1>s, <1>3 DEF Opens, NoLaunchError, RequestMatches, RequestOpen
<1>4. CASE Withdraws(m)
  BY <1>0, <1>s, <1>4 DEF Withdraws, NoLaunchError, RequestMatches, RequestOpen
<1>5. CASE Authorizes(m)
  <2>1. control'.rid # 0 /\ control'.target = attempt
    BY <1>5 DEF Authorizes, CancelInv, TypeOK, StoreTypeOK
  <2>2. status \notin CANCELLING_STATES
    BY <1>0, <1>5, CancelFacts DEF Authorizes
  <2> QED BY <1>0, <1>5, <2>1, <2>2
          DEF Authorizes, NoLaunchError, RequestMatches, RequestOpen, Targets
<1>6. CASE Follows(m)
  <2>1. lock \in {None, m}
    BY <1>0, <1>6 DEF Follows
  <2> QED BY <1>0, <1>6, <2>1, CancelFacts
          DEF Follows, RestingPCs, NoLaunchError, RequestMatches, RequestOpen, Targets
<1> QED BY <1>1, <1>2, <1>3, <1>4, <1>5, <1>6

(* Every step keeps the two files in agreement.                            *)
LEMMA RequestKept ==
  ASSUME CancelInv, RequestInv, StepEffect
  PROVE  RequestInv'
<1>1. CASE NothingHappens
  BY <1>1 DEF NothingHappens, RequestInv, NoLaunchError, RequestOpen, RequestMatches, Targets
<1> QED BY <1>1, WorkerKeepsRequest, CoordinatorKeepsRequest, ManagerKeepsRequest DEF StepEffect

(* A new job has one server about to launch its only worker.               *)
LEMMA InitialFacts ==
  ASSUME Init
  PROVE  /\ CancelInv
         /\ status = "submitted" /\ attempt = 1 /\ bound = None /\ lock = None
         /\ control.rid = 0 /\ control.target = 0 /\ ~cancel.launchError
         /\ \A w \in Workers : worker[w].pc = "unborn" /\ ~worker[w].done /\ worker[w].child = "none"
         /\ \A c \in Coordinators : coordinator[c].pc = "unborn"
         /\ \E m \in Managers :
              \A n \in Managers : /\ mgr[n].pc = IF n = m THEN "launch" ELSE "idle"
                                  /\ ~mgr[n].snap.launchError
<1>1. /\ status = "submitted" /\ attempt = 1 /\ bound = None /\ lock = None
      /\ cancel = NoCancel /\ control = NoControl
      /\ worker = [w \in Workers |-> Idle("unborn", "none")]
      /\ coordinator = [c \in Coordinators |-> NoCoordinator("unborn")]
  BY DEF Init, StoreInit, WorkerInit, CoordinatorInit
<1>2. PICK m \in Managers :
        mgr = [n \in Managers |-> NoCall(IF n = m THEN "launch" ELSE "idle")]
  BY DEF Init, ManagerInit
<1>3. \A n \in Managers : /\ mgr[n].pc = IF n = m THEN "launch" ELSE "idle"
                          /\ ~mgr[n].snap.launchError
  BY <1>2 DEF NoCall, NoCancel
<1> QED BY <1>1, <1>3, InitEstablishes DEF NoControl, NoCancel, Idle, NoCoordinator

(* The two files of a job tell the same story whenever no server is between *)
(* its two writes, provided that no launch fails: the failure path may      *)
(* write an old copy of state.cancel back (request_cancel, _claim, resume). *)
THEOREM FilesAgree == ~LaunchMayFail => (Spec => []RequestCoherent)
<1> SUFFICES ASSUME ~LaunchMayFail PROVE Spec => []RequestCoherent
  OBVIOUS
<1> DEFINE Inv == CancelInv /\ DoneIsLate /\ RequestInv
<1>1. Init => Inv
  BY InitialFacts DEF DoneIsLate, RequestInv, NoLaunchError, RequestOpen, RequestMatches,
                      CANCELLING_STATES
<1>2. Inv /\ [Next]_vars => Inv'
  <2> SUFFICES ASSUME Inv, [Next]_vars PROVE Inv'
    OBVIOUS
  <2>1. StepEffect
    BY NextEffect DEF RequestInv
  <2> QED BY <2>1, NextKeeps, DoneStaysLate, RequestKept
<1>3. Inv => RequestCoherent
  BY DEF RequestInv, RequestMatches, RequestCoherent
<1> QED BY <1>1, <1>2, <1>3, PTL DEF Spec

-----------------------------------------------------------------------------
(* Properties that rest on little more than CancelInv.                     *)

(* A contained worker that dies, by any hand, dies with its descendants.    *)
LEMMA DeathTakesChildren ==
  ASSUME CancelInv, DoneIsLate, DeadTakeChildren, [Next]_vars
  PROVE  DeadTakeChildren' /\ DoneIsLate'
<1> USE DEF DeadTakeChildren
<1>0. TypeOK
  BY DEF CancelInv
<1>1. ASSUME NEW w \in Workers, WorkerStep(w) \/ WorkerKilled(w)
      PROVE  DeadTakeChildren' /\ DoneIsLate'
  <2>1. WorkerEffect(w)
    BY <1>0, <1>1, WorkerStepEffect
  <2> QED BY <2>1 DEF WorkerEffect, StaysInOrder, DoneIsLate, ChildActive
<1>2. ASSUME NEW c \in Coordinators, CoordinatorShape(c)
      PROVE  DeadTakeChildren' /\ DoneIsLate'
  BY <1>2 DEF CoordinatorShape, OnlyDeaths, DoneIsLate, ChildActive
<1>3. ASSUME NEW m \in Managers, ManagerShape(m) PROVE DeadTakeChildren' /\ DoneIsLate'
  BY <1>3 DEF ManagerShape, WorkersStart, DoneIsLate, ChildActive
<1>4. CASE UNCHANGED worker
  BY <1>4 DEF DoneIsLate, ChildActive
<1>5. CASE Fault
  BY <1>0, <1>1, <1>2, <1>3, <1>5, ExitShape, ManagerStepShape DEF Fault, CoordinatorKilled
<1> QED BY <1>1, <1>2, <1>3, <1>4, <1>5, CoordinatorStepShape, ManagerStepShape
        DEF Next, WorkerActs, CoordinatorActs, ManagerActs, ManagerAsked, ServerStarts,
            OperatorRecoversLease, vars, workerVars

(* Where the platform contains a worker's descendants, a cancelled attempt  *)
(* leaves no solver process behind, captured or not (cancel_worker.run).    *)
THEOREM NothingSurvives == Contained => (Spec => []NoSurvivor)
<1> SUFFICES ASSUME Contained PROVE Spec => []NoSurvivor
  OBVIOUS
<1> DEFINE Inv == CancelInv /\ DoneIsLate /\ DeadTakeChildren
<1>1. Init => Inv
  BY InitialFacts DEF DoneIsLate, DeadTakeChildren
<1>2. Inv /\ [Next]_vars => Inv'
  BY NextKeeps, DeathTakesChildren
<1>3. Inv => NoSurvivor
  BY CancelledWorkerDead DEF NoSurvivor, DeadTakeChildren
<1> QED BY <1>1, <1>2, <1>3, PTL DEF Spec

(* A resume takes away the request of the attempt it leaves, unless the     *)
(* server dies between its two writes.                                     *)
LEMMA StaleControlGoes ==
  ASSUME "server" \notin Killable, CancelInv, StaleControlHeld, [Next]_vars
  PROVE  StaleControlHeld'
<1> USE DEF StaleControlHeld
<1>0. /\ TypeOK /\ mgr \in [Managers -> ManagerRecords] /\ attempt \in Nat
      /\ \A n \in Managers : n # None
      /\ \A n \in Managers : mgr[n].pc = "resume_control" => lock = n
  BY IdentityAssumption, BoundsAssumption
     DEF CancelInv, TypeOK, StoreTypeOK, ManagerTypeOK, SectionsHeld
<1>1. CASE UNCHANGED <<attempt, control, mgr>>
  BY <1>1
<1>2. ASSUME NEW m \in Managers, mgr[m].pc # "resume_control",
             \A n \in Managers \ {m} : mgr'[n] = mgr[n], UNCHANGED <<attempt, control>>
      PROVE  StaleControlHeld'
  BY <1>2
<1>3. ASSUME NEW m \in Managers, ManagerActs(m) \/ ManagerAsked(m) \/ ServerStarts(m)
      PROVE  StaleControlHeld'
  <2>0. \A n \in Managers \ {m} : mgr'[n] = mgr[n]
    BY <1>3, ManagerStepShape
       DEF ManagerActs, ManagerAsked, ServerStarts, ManagerShape, ManagerMoves
  <2>1. CASE ResumeState(m)
    <3>1. CASE WriteResumeState(m) /\ ManagerGoto(m, "resume_control")
      BY <1>0, <3>1, ManagerGotoFacts DEF ManagerPCs
    <3> QED BY <1>2, <2>0, <2>1, <3>1 DEF ResumeState, storeVars
  <2>2. CASE ResumeControl(m)
    BY <2>2 DEF ResumeControl, WriteResumeControl, NoControl
  <2>3. ASSUME NEW e \in 0..MaxAttempt, Cancel(m, e) PROVE StaleControlHeld'
    BY <1>2, <2>0, <2>3
       DEF Cancel, WriteCancelControl, ReconcileCancelState, storeVars
  <2>4. CASE CancelState(m) \/ LaunchCoordinator(m) \/ CoordinatorLaunchFailed(m)
             \/ ClearLaunchError(m) \/ Boot(m) \/ Launch(m) \/ BindLaunched(m) \/ LaunchFailed(m)
    BY <1>2, <2>0, <2>4
       DEF CancelState, WriteCancelState, LaunchCoordinator, CoordinatorLaunchFailed,
           ClearLaunchError, PatchLaunchError, PatchCancel, Boot, Launch, BindLaunched,
           BindWorkerIdentity, LaunchFailed, SetStatus, storeVars
  <2>5. CASE ResumeCheck(m) \/ StatusPoll(m) \/ Start(m)
    BY <1>1, <1>2, <2>0, <2>5 DEF ResumeCheck, StatusPoll, Start, SetStatus, storeVars, managerVars
  <2> QED BY <1>3, <2>1, <2>2, <2>3, <2>4, <2>5
          DEF ManagerActs, ManagerAsked, ServerStarts, ManagerStep, ManagerRequest
<1>4. ASSUME NEW w \in Workers, WorkerStep(w) \/ WorkerKilled(w), UNCHANGED managerVars
      PROVE  StaleControlHeld'
  <2>1. UNCHANGED <<attempt, control>>
    BY <1>0, <1>4, WorkerStepShape
       DEF WorkerShape, WorkerLeaves, WorkerKilled, storeVars
  <2> QED BY <1>1, <1>4, <2>1 DEF managerVars
<1>5. ASSUME NEW c \in Coordinators, CoordinatorStep(c) \/ CoordinatorKilled(c),
             UNCHANGED managerVars
      PROVE  StaleControlHeld'
  BY <1>1, <1>0, <1>5, CoordinatorStepShape, ExitShape
     DEF CoordinatorShape, CoordinatorKilled, managerVars
<1>6. CASE OperatorRecoversLease \/ UNCHANGED vars
  BY <1>1, <1>6 DEF OperatorRecoversLease, storeVars, managerVars, vars
<1>7. CASE Fault
  BY <1>4, <1>5, <1>7 DEF Fault
<1> QED BY <1>3, <1>4, <1>5, <1>6, <1>7 DEF Next, WorkerActs, CoordinatorActs

(* A running attempt can be cancelled: as long as no server is killed, no   *)
(* request of an older attempt is left to refuse a new one (request_cancel  *)
(* against resume).                                                        *)
THEOREM AlwaysCancellable == "server" \notin Killable => (Spec => []Cancellable)
<1> SUFFICES ASSUME "server" \notin Killable PROVE Spec => []Cancellable
  OBVIOUS
<1> DEFINE Inv == CancelInv /\ StaleControlHeld
<1>1. Init => Inv
  BY InitialFacts DEF StaleControlHeld
<1>2. Inv /\ [Next]_vars => Inv'
  BY NextKeeps, StaleControlGoes
<1>3. Inv => Cancellable
  BY IdentityAssumption DEF CancelInv, SectionsHeld, StaleControlHeld, Cancellable, Targets, LockFree
<1> QED BY <1>1, <1>2, <1>3, PTL DEF Spec

-----------------------------------------------------------------------------
(* Several attempts.  AttemptInv is kept by the steps of each kind.         *)

(* Who works is a live process, and who holds the lease works.             *)
LEMMA WorkingFacts ==
  ASSUME NEW w \in Workers
  PROVE  /\ Working(w) => worker[w].pc \notin {"unborn", "dead"}
         /\ worker[w].pc \in EarlyPCs => Working(w)
         /\ Holding(w) => Working(w)
         /\ worker[w].pc \in SolvingPCs \union {"read_final", "publish"} => Holding(w)
  BY DEF Working, Holding, HoldingPCs, SolvingPCs, EarlyPCs

(* A record that stays says the same.                                      *)
LEMMA SameWorker ==
  ASSUME NEW w \in Workers, worker'[w] = worker[w]
  PROVE  Working(w)' = Working(w) /\ Holding(w)' = Holding(w)
  BY DEF Working, Holding

(* How a status may go on without a cancellation.                          *)
LEMMA PlainMoves ==
  ASSUME status \in Status, MayBecome(status'), status' \in PlainStatus
  PROVE  /\ status = "completed" => status' = "completed"
         /\ status = "cancelling" => status' \in TERMINAL_STATES
  BY DEF MayBecome, TRANSITIONS, PlainStatus, Status, ACTIVE_STATES, TERMINAL_STATES,
         CANCELLING_STATES, RESUMABLE_STATES

(* What a worker that works on may and may not have done to the job.        *)
LEMMA WorkerStepFacts ==
  ASSUME CancelInv, AttemptInv, NEW w \in Workers, WorkerEffect(w)
  PROVE  /\ \A v \in Workers : Working(v)' => Working(v)
         /\ UNCHANGED bound \/ (worker[w].pc = "bind" /\ bound \in {None, w} /\ bound' = w)
         /\ worker[w].pc = "bind" => Working(w)
         /\ UNCHANGED status \/ WritesStatus(w) \/ CatchesUp
         /\ CatchesUp => /\ status \in ACTIVE_STATES \ CANCELLING_STATES
                         /\ status' \notin RESUMABLE_STATES
<1>1. \A v \in Workers : Working(v)' => Working(v)
  BY SameWorker DEF WorkerEffect, StaysInOrder
<1>2. CatchesUp => /\ status \in ACTIVE_STATES \ CANCELLING_STATES
                   /\ status' \notin RESUMABLE_STATES
  BY CancelFacts DEF CatchesUp, CancelInv, TypeOK, StoreTypeOK, RESUMABLE_STATES
<1> QED BY <1>1, <1>2, WorkingFacts DEF WorkerEffect, WorkerWrites, WritesStatus, CatchesUp, EarlyPCs

(* A worker's step leaves the job its own, or the job over.                *)
LEMMA WorkerKeepsAttempt ==
  ASSUME CancelInv, AttemptInv, NEW w \in Workers, WorkerEffect(w), UNCHANGED <<coordinator, mgr>>
  PROVE  /\ WorkerIsCurrent' /\ LeaseIsTheWorkers' /\ LauncherIsAlone' /\ ControlIsCurrent'
         /\ ActorsOwnTheClaim' /\ OneCoordinator' /\ OldTargetsRetired'
<1>1. /\ UNCHANGED <<attempt, control>>
      /\ \A v \in Workers \ {w} : worker'[v] = worker[v]
      /\ StaysInOrder(w) /\ KeepsLease(w)
      /\ None \notin Workers
      /\ status \in Status
  BY IdentityAssumption DEF WorkerEffect, CancelInv, TypeOK, StoreTypeOK
<1>2. /\ \A v \in Workers : Working(v)' => Working(v)
      /\ UNCHANGED bound \/ (worker[w].pc = "bind" /\ bound \in {None, w} /\ bound' = w)
      /\ worker[w].pc = "bind" => Working(w)
      /\ UNCHANGED status \/ WritesStatus(w) \/ CatchesUp
      /\ CatchesUp => /\ status \in ACTIVE_STATES \ CANCELLING_STATES
                      /\ status' \notin RESUMABLE_STATES
  BY WorkerStepFacts
<1>3. WritesStatus(w) => Working(w) /\ MayBecome(status') /\ status' \in PlainStatus
                         /\ (status' \in RESUMABLE_STATES => ~Working(w)')
                         /\ UNCHANGED <<bound, cancel>>
  BY DEF WritesStatus
<1>4. WorkerIsCurrent'
  <2> SUFFICES ASSUME NEW v \in Workers, Working(v)'
               PROVE  /\ status' \notin RESUMABLE_STATES
                      /\ bound' = v \/ (bound' = None /\ worker'[v].pc = "bind")
                      /\ worker'[v].pc \notin EarlyPCs => worker'[v].attempt = attempt'
                      /\ \A u \in Workers : Working(u)' => u = v
    BY DEF WorkerIsCurrent
  <2>1. /\ Working(v) /\ status \notin RESUMABLE_STATES
        /\ bound = v \/ (bound = None /\ worker[v].pc = "bind")
        /\ worker[v].pc \notin EarlyPCs => worker[v].attempt = attempt
        /\ \A u \in Workers : Working(u) => u = v
    BY <1>2 DEF AttemptInv, WorkerIsCurrent
  <2>2. status' \notin RESUMABLE_STATES
    BY <1>2, <1>3, <2>1
  <2>3. bound' = v \/ (bound' = None /\ worker'[v].pc = "bind")
    BY <1>1, <1>2, <2>1 DEF StaysInOrder
  <2>4. worker'[v].pc \notin EarlyPCs => worker'[v].attempt = attempt'
    BY <1>1, <2>1 DEF StaysInOrder
  <2> QED BY <1>2, <2>1, <2>2, <2>3, <2>4
<1>5. LeaseIsTheWorkers'
  <2> SUFFICES ASSUME NEW v \in Workers, Holding(v)'
               PROVE  /\ lease'.holder \in {v, None}
                      /\ worker'[v].pc \in {"read_final", "publish"} /\ worker'[v].clean =>
                           lease'.holder = None
    BY DEF LeaseIsTheWorkers
  <2>1. CASE v # w
    <3>1. worker'[v] = worker[v] /\ Holding(v) /\ Working(v)
      BY <1>1, <2>1, SameWorker, WorkingFacts
    <3>2. ~Working(w) /\ lease'.holder \in {lease.holder, None}
      BY <1>1, <2>1, <3>1 DEF AttemptInv, WorkerIsCurrent, KeepsLease
    <3> QED BY <3>1, <3>2 DEF AttemptInv, LeaseIsTheWorkers
  <2>2. CASE v = w
    BY <1>1, <2>2, WorkingFacts DEF KeepsLease, AttemptInv, LeaseIsTheWorkers
  <2> QED BY <2>1, <2>2
<1>6. LauncherIsAlone'
  <2>1. ASSUME NEW m \in Managers, mgr[m].pc \in {"resume_control", "launch"}
        PROVE  bound' = None /\ status' \notin RESUMABLE_STATES /\ \A v \in Workers : ~Working(v)'
    BY <1>2, <1>3, <2>1 DEF AttemptInv, LauncherIsAlone
  <2>2. ASSUME NEW m \in Managers, mgr[m].pc = "bind"
        PROVE  /\ bound' \in {None, mgr[m].w}
               /\ \A v \in Workers : Working(v)' => v = mgr[m].w
    BY <1>2, <2>2 DEF AttemptInv, LauncherIsAlone
  <2> QED BY <2>1, <2>2 DEF AttemptInv, LauncherIsAlone
<1>7. ControlIsCurrent'
  <2>1. ASSUME Targets(attempt), control.worker \in Workers PROVE bound' = control.worker
    <3>1. bound = control.worker
      BY <2>1 DEF AttemptInv, ControlIsCurrent
    <3> QED BY <1>1, <1>2, <2>1, <3>1
  <2>2. /\ control.target <= attempt
        /\ \A m \in Managers : mgr[m].pc = "resume_control" => control.target < attempt
    BY DEF AttemptInv, ControlIsCurrent
  <2> QED BY <1>1, <2>1, <2>2 DEF ControlIsCurrent, Targets
<1>8. ActorsOwnTheClaim'
  <2> SUFFICES ASSUME NEW c \in Coordinators,
                      Acting(c), coordinator[c].rid = control.rid, Targets(attempt)
               PROVE  \/ status' \in TERMINAL_STATES
                      \/ status' = "cancelling" /\ cancel'.coordinator = c
    BY <1>1 DEF ActorsOwnTheClaim, Acting, Targets
  <2>1. status \in TERMINAL_STATES \/ (status = "cancelling" /\ cancel.coordinator = c)
    BY DEF AttemptInv, ActorsOwnTheClaim
  <2>2. CASE WritesStatus(w)
    <3>1. status \notin RESUMABLE_STATES
      BY <1>3, <2>2 DEF AttemptInv, WorkerIsCurrent
    <3> QED BY <1>1, <1>3, <2>1, <2>2, <3>1, PlainMoves DEF TERMINAL_STATES, RESUMABLE_STATES
  <2>3. CASE CatchesUp
    BY <1>2, <2>1, <2>3 DEF ACTIVE_STATES, TERMINAL_STATES, CANCELLING_STATES
  <2>4. CASE UNCHANGED <<status, cancel>>
    BY <2>1, <2>4
  <2> QED BY <2>2, <2>3, <2>4 DEF WorkerEffect, WorkerWrites
<1>9. OneCoordinator'
  BY DEF AttemptInv, OneCoordinator
<1>10. OldTargetsRetired'
  <2>1. \A v \in Workers : ~Working(v) /\ bound # v => ~Working(v)' /\ bound' # v
    BY <1>2
  <2> QED BY <1>1, <2>1 DEF AttemptInv, OldTargetsRetired, Acting
<1> QED BY <1>4, <1>5, <1>6, <1>7, <1>8, <1>9, <1>10

(* Nobody starts to work while processes only die.                         *)
LEMMA DeathsRetire ==
  ASSUME OnlyDeaths, NEW w \in Workers
  PROVE  /\ Working(w)' => Working(w)
         /\ Holding(w)' => Holding(w)
         /\ Working(w)' => /\ worker'[w].pc = worker[w].pc
                           /\ worker'[w].attempt = worker[w].attempt
                           /\ worker'[w].clean = worker[w].clean
  BY DEF OnlyDeaths, Working, Holding, HoldingPCs, SolvingPCs, EarlyPCs

(* What a coordinator that still acts was, and who commits.                *)
LEMMA CoordinatorStepFacts ==
  ASSUME CancelInv, AttemptInv, NEW c \in Coordinators, CoordinatorShape(c)
  PROVE  /\ UNCHANGED <<attempt, bound, control, lock>> /\ OnlyDeaths
         /\ \A d \in Coordinators \ {c} : coordinator'[d] = coordinator[d]
         /\ Acting(c)' => \/ Claims(c)
                          \/ /\ Works(c) /\ Acting(c)
                             /\ coordinator'[c].rid = coordinator[c].rid
                             /\ coordinator'[c].goal = coordinator[c].goal
                             /\ coordinator'[c].target = coordinator[c].target
         /\ Claims(c) => /\ coordinator'[c].rid = control.rid /\ Targets(attempt)
                         /\ status \notin TERMINAL_STATES
                         /\ \A d \in Coordinators : Acting(d) /\ cancel.coordinator = d => d = c
         /\ \/ UNCHANGED status
            \/ Claims(c) /\ status' = "cancelling"
            \/ Commits(c) /\ status' = "cancelled" /\ OwnsCancelWrite(c)
         /\ Commits(c) => bound \in Workers /\ \A w \in Workers : ~Working(w)
<1>1. NoCoordinator("dead").pc = "dead"
  BY DEF NoCoordinator
<1>2. Acting(c)' => Claims(c) \/ Works(c)
  BY <1>1 DEF CoordinatorShape, Leaves, Commits, Acting, ActingPCs
<1>3. \A d \in Coordinators : Acting(d) => CoordinatorAlive(d) /\ d # None
  BY IdentityAssumption DEF Acting, ActingPCs, CoordinatorAlive
<1>4. Claims(c) => /\ coordinator'[c].rid = control.rid /\ Targets(attempt)
                   /\ status \notin TERMINAL_STATES
                   /\ \A d \in Coordinators : Acting(d) /\ cancel.coordinator = d => d = c
  BY <1>3 DEF Claims, ClaimAllowed, CANCELLING_STATES, TERMINAL_STATES
<1>5. Commits(c) => bound \in Workers /\ \A w \in Workers : ~Working(w)
  <2> SUFFICES ASSUME Commits(c) PROVE bound \in Workers /\ \A w \in Workers : ~Working(w)
    OBVIOUS
  <2>1. /\ coordinator[c].pc = "commit" /\ Acting(c)
        /\ control.rid = coordinator[c].rid /\ Targets(attempt)
    BY DEF Commits, OwnsCancelWrite, Acting, ActingPCs, CoordinatorPCs
  <2>2. /\ coordinator[c].target = control.worker /\ control.worker \in Workers
        /\ worker[control.worker].pc = "dead"
    BY <2>1 DEF CancelInv, TargetsAgree, VerifiedStands
  <2>3. bound = control.worker
    BY <2>1, <2>2 DEF AttemptInv, ControlIsCurrent
  <2> QED BY <2>2, <2>3, WorkingFacts, IdentityAssumption DEF AttemptInv, WorkerIsCurrent
<1> QED BY <1>2, <1>4, <1>5
        DEF CoordinatorShape, Leaves, Works, Claims, Commits, CancelInv, TypeOK, CoordinatorTypeOK

(* A coordinator's step leaves every other one what it was entitled to.     *)
LEMMA CoordinatorKeepsAttempt ==
  ASSUME CancelInv, AttemptInv, NEW c \in Coordinators, CoordinatorShape(c), UNCHANGED mgr
  PROVE  /\ WorkerIsCurrent' /\ LeaseIsTheWorkers' /\ LauncherIsAlone' /\ ControlIsCurrent'
         /\ ActorsOwnTheClaim' /\ OneCoordinator' /\ OldTargetsRetired'
<1>1. /\ UNCHANGED <<attempt, bound, control, lock>> /\ OnlyDeaths
      /\ \A d \in Coordinators \ {c} : coordinator'[d] = coordinator[d]
      /\ Acting(c)' => \/ Claims(c)
                       \/ /\ Works(c) /\ Acting(c)
                          /\ coordinator'[c].rid = coordinator[c].rid
                          /\ coordinator'[c].goal = coordinator[c].goal
                          /\ coordinator'[c].target = coordinator[c].target
      /\ Claims(c) => /\ coordinator'[c].rid = control.rid /\ Targets(attempt)
                      /\ status \notin TERMINAL_STATES
                      /\ \A d \in Coordinators : Acting(d) /\ cancel.coordinator = d => d = c
      /\ \/ UNCHANGED status
         \/ Claims(c) /\ status' = "cancelling"
         \/ Commits(c) /\ status' = "cancelled" /\ OwnsCancelWrite(c)
      /\ Commits(c) => bound \in Workers /\ \A w \in Workers : ~Working(w)
  BY CoordinatorStepFacts
<1>2. \A v \in Workers : /\ Working(v)' => Working(v)
                         /\ Holding(v)' => Holding(v) /\ Working(v)'
                         /\ Working(v)' => /\ worker'[v].pc = worker[v].pc
                                           /\ worker'[v].attempt = worker[v].attempt
                                           /\ worker'[v].clean = worker[v].clean
  <2>1. \A v \in Workers : Holding(v)' => Working(v)'
    BY DEF Working
  <2> QED BY <1>1, <2>1, DeathsRetire
<1>3. status' \in RESUMABLE_STATES => status \in RESUMABLE_STATES \/ Commits(c)
  BY <1>1 DEF RESUMABLE_STATES
<1>4. WorkerIsCurrent'
  BY <1>1, <1>2, <1>3 DEF AttemptInv, WorkerIsCurrent
<1>5. LeaseIsTheWorkers'
  BY <1>1, <1>2 DEF AttemptInv, LeaseIsTheWorkers, OnlyDeaths
<1>6. LauncherIsAlone'
  <2>1. None \notin Workers
    BY IdentityAssumption
  <2> QED BY <1>1, <1>2, <1>3, <2>1 DEF AttemptInv, LauncherIsAlone
<1>7. ControlIsCurrent'
  BY <1>1 DEF AttemptInv, ControlIsCurrent, Targets
<1>8. ActorsOwnTheClaim'
  <2> SUFFICES ASSUME NEW d \in Coordinators, Acting(d)',
                      coordinator'[d].rid = control.rid, Targets(attempt)
               PROVE  \/ status' \in TERMINAL_STATES
                      \/ status' = "cancelling" /\ cancel'.coordinator = d
    BY <1>1 DEF ActorsOwnTheClaim, Targets
  <2>1. CASE d = c /\ Claims(c)
    BY <2>1 DEF Claims
  <2>2. CASE d = c /\ Works(c)
    <3>1. status \in TERMINAL_STATES \/ (status = "cancelling" /\ cancel.coordinator = c)
      BY <1>1, <2>2 DEF AttemptInv, ActorsOwnTheClaim, Works
    <3> QED BY <2>2, <3>1 DEF Works, OwnedPatch
  <2>3. CASE d # c
    <3>1. status \in TERMINAL_STATES \/ (status = "cancelling" /\ cancel.coordinator = d)
      BY <1>1, <2>3 DEF AttemptInv, ActorsOwnTheClaim, Acting
    <3>2. Acting(d)
      BY <1>1, <2>3 DEF Acting
    <3> QED BY <1>1, <2>3, <3>1, <3>2
            DEF CoordinatorShape, Leaves, Works, OwnedPatch, Commits, OwnsCancelWrite,
                TERMINAL_STATES
  <2> QED BY <1>1, <2>1, <2>2, <2>3
<1>9. OneCoordinator'
  <2> SUFFICES ASSUME NEW d \in Coordinators, NEW e \in Coordinators, Acting(d)', Acting(e)',
                      coordinator'[d].rid = coordinator'[e].rid
               PROVE  d = e
    BY DEF OneCoordinator, Acting
  <2>1. ASSUME NEW x \in Coordinators, Acting(x), coordinator[x].rid = control.rid, Claims(c)
        PROVE  x = c
    BY <1>1, <2>1 DEF AttemptInv, ActorsOwnTheClaim
  <2>2. \A x \in Coordinators \ {c} : Acting(x)' => Acting(x) /\ coordinator'[x] = coordinator[x]
    BY <1>1 DEF Acting
  <2>3. \A x, y \in Coordinators :
          Acting(x) /\ Acting(y) /\ coordinator[x].rid = coordinator[y].rid => x = y
    BY DEF AttemptInv, OneCoordinator, Acting
  <2> QED BY <1>1, <2>1, <2>2, <2>3
<1>10. OldTargetsRetired'
  <2> SUFFICES ASSUME NEW d \in Coordinators, NEW w \in Workers,
                      Acting(d)', coordinator'[d].target = w
               PROVE  /\ coordinator'[d].goal <= attempt
                      /\ coordinator'[d].goal # attempt =>
                           /\ ~Working(w)' /\ bound # w
                           /\ \A m \in Managers : mgr[m].pc = "bind" => mgr[m].w # w
    BY <1>1 DEF OldTargetsRetired
  <2>1. CASE d = c /\ Claims(c)
    <3>1. coordinator'[d].goal = attempt /\ attempt <= attempt
      BY <2>1 DEF Claims, CancelInv, TypeOK, StoreTypeOK
    <3> QED BY <3>1
  <2>2. CASE ~(d = c /\ Claims(c))
    <3>1. /\ Acting(d) /\ coordinator'[d].goal = coordinator[d].goal
          /\ coordinator'[d].target = coordinator[d].target
      BY <1>1, <2>2 DEF Acting
    <3> QED BY <1>2, <3>1 DEF AttemptInv, OldTargetsRetired
  <2> QED BY <2>1, <2>2
<1> QED BY <1>4, <1>5, <1>6, <1>7, <1>8, <1>9, <1>10

(* What a server's step relies on: nobody works when it opens an attempt,    *)
(* interrupts one or launches a worker; and its launches succeed.          *)
LEMMA ManagerStepFacts ==
  ASSUME CancelInv, AttemptInv, NEW m \in Managers, ManagerEffect(m)
  PROVE  /\ \A n \in Managers \ {m} : mgr'[n] = mgr[n]
         /\ UNCHANGED lease
         /\ \A c \in Coordinators : Acting(c)' => Acting(c) /\ coordinator'[c] = coordinator[c]
         /\ ~GivesUp(m) /\ ~Fails(m)
         /\ Opens(m) \/ Interrupts(m) \/ Launches(m) => \A w \in Workers : ~Working(w)
         /\ ~Launches(m) => UNCHANGED worker
<1>1. ~GivesUp(m) /\ ~Fails(m)
  BY DEF GivesUp, Fails, AttemptInv, LauncherIsAlone
<1>2. \A c \in Coordinators : Acting(c)' => Acting(c) /\ coordinator'[c] = coordinator[c]
  BY DEF ManagerEffect, CoordinatorsStart, Acting, ActingPCs
<1>3. Opens(m) \/ Interrupts(m) \/ Launches(m) => \A w \in Workers : ~Working(w)
  BY WorkingFacts, IdentityAssumption
     DEF Opens, Interrupts, Launches, AttemptInv, WorkerIsCurrent, LauncherIsAlone
<1> QED BY <1>1, <1>2, <1>3
        DEF ManagerEffect, Rests, Binds, Opens, Withdraws, Authorizes, Follows, Interrupts

(* The workers, when a server acts.                                        *)
LEMMA ManagerKeepsWorkers ==
  ASSUME CancelInv, AttemptInv, NEW m \in Managers, ManagerEffect(m)
  PROVE  WorkerIsCurrent' /\ LeaseIsTheWorkers'
<1>1. /\ UNCHANGED lease
      /\ ~GivesUp(m) /\ ~Fails(m)
      /\ Opens(m) \/ Interrupts(m) \/ Launches(m) => \A w \in Workers : ~Working(w)
      /\ ~Launches(m) => UNCHANGED worker
  BY ManagerStepFacts
<1>2. CASE Launches(m)
  <2>1. \A w \in Workers : Working(w)' => w = mgr'[m].w
    BY <1>1, <1>2, SameWorker DEF Launches
  <2>2. \A w \in Workers : ~Holding(w)'
    <3>1. \A w \in Workers : Holding(w)' => Working(w)'
      BY DEF Working
    <3>2. worker'[mgr'[m].w].pc = "bind"
      BY <1>2 DEF Launches
    <3> QED BY <2>1, <3>1, <3>2 DEF Holding, HoldingPCs, SolvingPCs
  <2>3. bound' = None /\ status' \notin RESUMABLE_STATES
    BY <1>2 DEF Launches, storeVars, AttemptInv, LauncherIsAlone
  <2>4. WorkerIsCurrent'
    BY <1>2, <2>1, <2>3 DEF Launches, WorkerIsCurrent, EarlyPCs
  <2> QED BY <2>2, <2>4 DEF LeaseIsTheWorkers
<1>3. CASE ~Launches(m)
  <2>1. UNCHANGED worker /\ \A w \in Workers : Working(w)' = Working(w) /\ Holding(w)' = Holding(w)
    BY <1>1, <1>3, SameWorker
  <2>2. LeaseIsTheWorkers'
    BY <1>1, <2>1 DEF AttemptInv, LeaseIsTheWorkers
  <2>3. WorkerIsCurrent'
    <3>1. CASE Opens(m) \/ Interrupts(m)
      BY <1>1, <2>1, <3>1 DEF WorkerIsCurrent
    <3>2. CASE Binds(m)
      <4>1. bound' = mgr[m].w /\ UNCHANGED <<status, attempt>>
            /\ \A w \in Workers : Working(w) => w = mgr[m].w
        BY <3>2 DEF Binds, AttemptInv, LauncherIsAlone
      <4> QED BY <2>1, <4>1 DEF AttemptInv, WorkerIsCurrent
    <3>3. CASE Rests(m) \/ Withdraws(m) \/ Authorizes(m) \/ Follows(m)
      <4>1. UNCHANGED <<attempt, bound>> /\ status' \in {status, "cancel_requested"}
        BY <3>3 DEF Rests, Withdraws, Authorizes, Follows
      <4> QED BY <2>1, <4>1 DEF AttemptInv, WorkerIsCurrent, RESUMABLE_STATES
    <3> QED BY <1>1, <1>3, <3>1, <3>2, <3>3 DEF ManagerEffect
  <2> QED BY <2>2, <2>3
<1> QED BY <1>2, <1>3

(* The launches, when a server acts.                                       *)
LEMMA ManagerKeepsLaunches ==
  ASSUME CancelInv, AttemptInv, NEW m \in Managers, ManagerEffect(m),
         attempt' # attempt => \A n \in Managers : mgr[n].pc # "bind"
  PROVE  LauncherIsAlone'
<1>1. /\ \A n \in Managers \ {m} : mgr'[n] = mgr[n]
      /\ ~GivesUp(m) /\ ~Fails(m)
      /\ Opens(m) \/ Interrupts(m) \/ Launches(m) => \A w \in Workers : ~Working(w)
      /\ ~Launches(m) => UNCHANGED worker
  BY ManagerStepFacts
<1>2. /\ \A n \in Managers :
           /\ mgr[n].pc # "launch_failed"
           /\ mgr[n].pc \in LaunchingPCs => \A k \in Managers : mgr[k].pc \in LaunchingPCs => k = n
           /\ mgr[n].pc \in {"resume_control", "launch"} =>
                bound = None /\ status \notin RESUMABLE_STATES /\ \A w \in Workers : ~Working(w)
           /\ mgr[n].pc = "bind" =>
                /\ mgr[n].w \in Workers
                /\ bound \in {None, mgr[n].w}
                /\ \A w \in Workers : Working(w) => w = mgr[n].w
      /\ None \notin Workers
  BY IdentityAssumption DEF AttemptInv, LauncherIsAlone
<1>3. ASSUME ~Launches(m) PROVE \A w \in Workers : Working(w)' = Working(w)
  BY <1>1, <1>3, SameWorker
<1> USE DEF LaunchingPCs, LauncherIsAlone
<1>4. CASE Launches(m)
  <2>1. /\ \A w \in Workers : Working(w)' => w = mgr'[m].w
        /\ bound' = None /\ mgr'[m].w \in Workers
    BY <1>1, <1>2, <1>4, SameWorker DEF Launches, storeVars
  <2>2. mgr[m].pc = "launch" /\ mgr'[m].pc = "bind"
    BY <1>4 DEF Launches
  <2> QED BY <1>1, <1>2, <2>1, <2>2
<1>5. CASE Opens(m)
  <2>1. attempt' # attempt
    BY <1>5 DEF Opens, CancelInv, TypeOK, StoreTypeOK
  <2>2. \A n \in Managers : mgr[n].pc \notin LaunchingPCs
    BY <1>2, <1>5, <2>1 DEF Opens
  <2>3. ~Launches(m)
    BY <1>5 DEF Opens, Launches
  <2> QED BY <1>1, <1>2, <1>3, <1>5, <2>2, <2>3 DEF Opens, RESUMABLE_STATES
<1>6. CASE Withdraws(m)
  <2>1. ~Launches(m)
    BY <1>6 DEF Withdraws, Launches
  <2> QED BY <1>1, <1>2, <1>3, <1>6, <2>1 DEF Withdraws
<1>7. ASSUME ~Launches(m), mgr'[m].pc \notin LaunchingPCs \union {"launch_failed"},
             bound' \in {bound} \/ mgr[m].pc = "bind",
             status' \in RESUMABLE_STATES => status \in RESUMABLE_STATES \/ bound \in Workers
      PROVE  LauncherIsAlone'
  BY <1>1, <1>2, <1>3, <1>7
<1>8. CASE Rests(m) \/ Authorizes(m) \/ Follows(m) \/ Binds(m)
  <2>1. ~Launches(m) /\ mgr'[m].pc \notin LaunchingPCs \union {"launch_failed"}
        /\ (UNCHANGED bound \/ mgr[m].pc = "bind")
        /\ status' \in {status, "cancel_requested"}
    BY <1>8 DEF Rests, RestingPCs, Authorizes, Follows, Binds, Launches
  <2> QED BY <1>7, <2>1 DEF RESUMABLE_STATES
<1>9. CASE Interrupts(m)
  BY <1>7, <1>9 DEF Interrupts, Launches
<1> QED BY <1>1, <1>4, <1>5, <1>6, <1>8, <1>9 DEF ManagerEffect

(* The request and the coordinators, when a server acts.                   *)
LEMMA ManagerKeepsActors ==
  ASSUME CancelInv, AttemptInv, NEW m \in Managers, ManagerEffect(m),
         attempt' # attempt => \A n \in Managers : mgr[n].pc # "bind"
  PROVE  ControlIsCurrent' /\ ActorsOwnTheClaim' /\ OneCoordinator' /\ OldTargetsRetired'
<1>1. /\ \A n \in Managers \ {m} : mgr'[n] = mgr[n]
      /\ \A c \in Coordinators : Acting(c)' => Acting(c) /\ coordinator'[c] = coordinator[c]
      /\ ~GivesUp(m) /\ ~Fails(m)
      /\ Opens(m) \/ Interrupts(m) \/ Launches(m) => \A w \in Workers : ~Working(w)
      /\ ~Launches(m) => UNCHANGED worker
  BY ManagerStepFacts
<1>2. /\ attempt \in Nat /\ control.target \in Nat /\ requests \in Nat /\ status \in Status
      /\ None \notin Workers /\ \A n \in Managers : n # None
      /\ \A n \in Managers : mgr[n].pc = "resume_control" => lock = n
      /\ \A c \in Coordinators : coordinator[c].rid \in Nat /\ coordinator[c].rid <= requests
                                 /\ coordinator[c].goal \in Nat
  BY IdentityAssumption, BoundsAssumption
     DEF CancelInv, TypeOK, StoreTypeOK, Controls, CoordinatorTypeOK, CoordinatorRecords,
         SectionsHeld, RequestsIssued
<1>3. OneCoordinator'
  BY <1>1 DEF AttemptInv, OneCoordinator, Acting
<1>4. ControlIsCurrent'
  <2> USE DEF ControlIsCurrent
  <2>1. CASE Opens(m)
    BY <1>2, <2>1 DEF Opens, AttemptInv, Targets
  <2>2. CASE Withdraws(m)
    <3>1. \A n \in Managers : mgr'[n].pc # "resume_control"
      BY <1>1, <1>2, <2>2 DEF Withdraws
    <3> QED BY <1>2, <2>2, <3>1 DEF Withdraws, NoControl, Targets
  <2>3. CASE Authorizes(m)
    <3>1. \A n \in Managers : mgr'[n].pc # "resume_control"
      BY <1>1, <1>2, <2>3 DEF Authorizes
    <3> QED BY <1>2, <2>3, <3>1 DEF Authorizes, Targets
  <2>4. CASE Rests(m) \/ Follows(m) \/ Interrupts(m) \/ Launches(m) \/ Binds(m)
    <3>1. /\ UNCHANGED <<attempt, control>> /\ mgr'[m].pc # "resume_control"
          /\ UNCHANGED bound \/ Binds(m)
      BY <2>4 DEF Rests, RestingPCs, Follows, Interrupts, Launches, Binds, storeVars
    <3>2. Binds(m) => bound \in {None, mgr[m].w} /\ bound' = mgr[m].w
      BY DEF Binds
    <3> QED BY <1>1, <1>2, <3>1, <3>2 DEF AttemptInv, Targets
  <2> QED BY <1>1, <2>1, <2>2, <2>3, <2>4 DEF ManagerEffect
<1>5. ActorsOwnTheClaim'
  <2> SUFFICES ASSUME NEW c \in Coordinators, Acting(c)', coordinator'[c].rid = control'.rid,
                      Targets(attempt)'
               PROVE  \/ status' \in TERMINAL_STATES
                      \/ status' = "cancelling" /\ cancel'.coordinator = c
    BY DEF ActorsOwnTheClaim
  <2>1. Acting(c) /\ coordinator'[c] = coordinator[c]
    BY <1>1
  <2>2. ASSUME UNCHANGED <<control, attempt>>
        PROVE  status \in TERMINAL_STATES \/ (status = "cancelling" /\ cancel.coordinator = c)
    BY <2>1, <2>2 DEF AttemptInv, ActorsOwnTheClaim, Targets
  <2>3. CASE Opens(m)
    BY <1>2, <2>3 DEF Opens, AttemptInv, ControlIsCurrent, Targets
  <2>4. CASE Withdraws(m)
    BY <2>4 DEF Withdraws, NoControl, Targets
  <2>5. CASE Authorizes(m)
    BY <1>2, <2>1, <2>5 DEF Authorizes
  <2>6. CASE Follows(m)
    <3>1. status \in ACTIVE_STATES \ CANCELLING_STATES
      BY <1>2, <2>6, CancelFacts DEF Follows
    <3> QED BY <2>2, <2>6, <3>1 DEF Follows, ACTIVE_STATES, TERMINAL_STATES, CANCELLING_STATES
  <2>7. CASE Interrupts(m)
    BY <2>7 DEF Interrupts, TERMINAL_STATES
  <2>8. CASE Rests(m) \/ Launches(m) \/ Binds(m)
    BY <2>2, <2>8 DEF Rests, Launches, Binds, storeVars
  <2> QED BY <1>1, <2>3, <2>4, <2>5, <2>6, <2>7, <2>8 DEF ManagerEffect
<1>6. OldTargetsRetired'
  <2> SUFFICES ASSUME NEW c \in Coordinators, NEW w \in Workers,
                      Acting(c)', coordinator'[c].target = w
               PROVE  /\ coordinator'[c].goal <= attempt'
                      /\ coordinator'[c].goal # attempt' =>
                           /\ ~Working(w)' /\ bound' # w
                           /\ \A n \in Managers : mgr'[n].pc = "bind" => mgr'[n].w # w
    BY DEF OldTargetsRetired
  <2>1. /\ coordinator'[c] = coordinator[c]
        /\ coordinator[c].goal <= attempt
        /\ coordinator[c].goal # attempt =>
             /\ ~Working(w) /\ bound # w
             /\ \A n \in Managers : mgr[n].pc = "bind" => mgr[n].w # w
        /\ worker[w].pc # "unborn"
    BY <1>1 DEF AttemptInv, OldTargetsRetired, CancelInv, IdentitiesBorn, Born
  <2>2. CASE Opens(m)
    <3>1. attempt' # attempt /\ mgr'[m].pc = "resume_control" /\ bound' = None
          /\ coordinator[c].goal <= attempt'
      BY <1>2, <2>1, <2>2 DEF Opens
    <3>2. ~Working(w)'
      BY <1>1, <2>2, SameWorker DEF Opens
    <3> QED BY <1>1, <1>2, <2>1, <3>1, <3>2
  <2>3. CASE Launches(m)
    <3>1. mgr'[m].w # w /\ worker'[w] = worker[w] /\ UNCHANGED <<attempt, bound>>
      BY <2>1, <2>3 DEF Launches, storeVars
    <3> QED BY <1>1, <2>1, <3>1, SameWorker
  <2>4. CASE Binds(m)
    <3>1. UNCHANGED <<attempt, worker>> /\ mgr[m].pc = "bind" /\ mgr'[m].pc = "idle"
          /\ bound' = mgr[m].w
      BY <2>4 DEF Binds
    <3> QED BY <1>1, <2>1, <3>1, SameWorker
  <2>5. CASE Rests(m) \/ Withdraws(m) \/ Authorizes(m) \/ Follows(m) \/ Interrupts(m)
    <3>1. UNCHANGED <<attempt, bound, worker>> /\ mgr'[m].pc # "bind"
      BY <2>5 DEF Rests, RestingPCs, Withdraws, Authorizes, Follows, Interrupts
    <3> QED BY <1>1, <2>1, <3>1, SameWorker
  <2> QED BY <1>1, <2>2, <2>3, <2>4, <2>5 DEF ManagerEffect
<1> QED BY <1>3, <1>4, <1>5, <1>6

(* Every step that opens no attempt during a launch keeps the invariant.    *)
LEMMA AttemptKept ==
  ASSUME CancelInv, AttemptInv, StepEffect,
         attempt' # attempt => \A n \in Managers : mgr[n].pc # "bind"
  PROVE  AttemptInv'
<1>1. RequestInv' /\ DoneIsLate'
  BY RequestKept, DoneStaysLate DEF AttemptInv
<1>2. ASSUME NEW w \in Workers, WorkerEffect(w), UNCHANGED <<coordinator, mgr>>
      PROVE  AttemptInv'
  BY <1>1, <1>2, WorkerKeepsAttempt DEF AttemptInv
<1>3. ASSUME NEW c \in Coordinators, CoordinatorShape(c), UNCHANGED mgr PROVE AttemptInv'
  BY <1>1, <1>3, CoordinatorKeepsAttempt DEF AttemptInv
<1>4. ASSUME NEW m \in Managers, ManagerEffect(m) PROVE AttemptInv'
  BY <1>1, <1>4, ManagerKeepsWorkers, ManagerKeepsLaunches, ManagerKeepsActors DEF AttemptInv
<1>5. CASE NothingHappens
  <2>1. /\ UNCHANGED <<status, attempt, bound, cancel, control, worker, coordinator, mgr>>
        /\ \A w \in Workers : Working(w)' = Working(w) /\ Holding(w)' = Holding(w)
        /\ lease'.holder \in {lease.holder, None}
    BY <1>5, SameWorker DEF NothingHappens
  <2>2. WorkerIsCurrent' /\ LeaseIsTheWorkers' /\ LauncherIsAlone'
    BY <2>1 DEF AttemptInv, WorkerIsCurrent, LeaseIsTheWorkers, LauncherIsAlone
  <2>3. ControlIsCurrent' /\ ActorsOwnTheClaim' /\ OneCoordinator'
    BY <2>1 DEF AttemptInv, ControlIsCurrent, ActorsOwnTheClaim, OneCoordinator, Targets, Acting
  <2>4. OldTargetsRetired'
    BY <2>1 DEF AttemptInv, OldTargetsRetired, Acting
  <2> QED BY <1>1, <2>2, <2>3, <2>4 DEF AttemptInv
<1> QED BY <1>2, <1>3, <1>4, <1>5 DEF StepEffect

(* A new job satisfies the invariant.                                      *)
LEMMA AttemptStarts == Init => AttemptInv
<1> SUFFICES ASSUME Init PROVE AttemptInv
  OBVIOUS
<1>1. PICK m \in Managers :
        \A n \in Managers : /\ mgr[n].pc = IF n = m THEN "launch" ELSE "idle"
                            /\ ~mgr[n].snap.launchError
  BY InitialFacts
<1>2. \A w \in Workers : ~Working(w) /\ ~Holding(w)
  BY InitialFacts, WorkingFacts
<1>3. \A c \in Coordinators : ~Acting(c)
  BY InitialFacts DEF Acting, ActingPCs
<1>4. RequestInv /\ DoneIsLate
  BY InitialFacts, <1>1
     DEF RequestInv, NoLaunchError, RequestOpen, RequestMatches, CANCELLING_STATES, DoneIsLate
<1>5. WorkerIsCurrent /\ LeaseIsTheWorkers
  BY <1>2 DEF WorkerIsCurrent, LeaseIsTheWorkers
<1>6. LauncherIsAlone
  BY InitialFacts, <1>1, <1>2 DEF LauncherIsAlone, LaunchingPCs, RESUMABLE_STATES
<1>7. ControlIsCurrent /\ ActorsOwnTheClaim /\ OneCoordinator /\ OldTargetsRetired
  BY InitialFacts, <1>1, <1>3
     DEF ControlIsCurrent, ActorsOwnTheClaim, OneCoordinator, OldTargetsRetired, Targets, Acting
<1> QED BY <1>4, <1>5, <1>6, <1>7 DEF AttemptInv

(* A step of the specification that opens no attempt during a launch, or a  *)
(* stutter.                                                                *)
LEMMA AttemptStep ==
  ASSUME ~LaunchMayFail, CancelInv, AttemptInv, [Next]_vars, [Timely]_vars
  PROVE  StepEffect /\ CancelInv' /\ AttemptInv'
<1>1. StepEffect /\ CancelInv'
  BY NextEffect, NextKeeps DEF AttemptInv, RequestInv
<1>2. Timely
  BY DEF Timely, vars, storeVars
<1> QED BY <1>1, <1>2, AttemptKept DEF Timely

-----------------------------------------------------------------------------
(* What the job promises across its attempts.  The theorems say it of       *)
(* every behaviour in which no launch fails and no attempt is opened while  *)
(* a server is between the launch of a worker and the binding of it.        *)

(* The invariant: who works, who launches, who acts for the request.        *)
THEOREM AttemptsInOrder ==
  ~LaunchMayFail => (Spec /\ ResumeAfterLaunch => [](CancelInv /\ AttemptInv))
<1> SUFFICES ASSUME ~LaunchMayFail
             PROVE  Spec /\ ResumeAfterLaunch => [](CancelInv /\ AttemptInv)
  OBVIOUS
<1>1. Init => CancelInv /\ AttemptInv
  BY InitEstablishes, AttemptStarts
<1>2. (CancelInv /\ AttemptInv) /\ [Next]_vars /\ [Timely]_vars => (CancelInv /\ AttemptInv)'
  BY AttemptStep
<1> QED BY <1>1, <1>2, PTL DEF Spec, ResumeAfterLaunch

(* A worker that runs the solver is the one state.json names for the        *)
(* current attempt, so that a cancellation can find it (bind, resume).      *)
THEOREM SolverBound ==
  ~LaunchMayFail => (Spec /\ ResumeAfterLaunch => []SolverIsBound)
<1> SUFFICES ASSUME ~LaunchMayFail PROVE Spec /\ ResumeAfterLaunch => []SolverIsBound
  OBVIOUS
<1>1. AttemptInv => SolverIsBound
  <2> SUFFICES ASSUME AttemptInv, NEW w \in Workers, worker[w].pc \in SolvingPCs
               PROVE  bound = w /\ worker[w].attempt = attempt
    BY DEF SolverIsBound
  <2>1. Working(w) /\ worker[w].pc \notin EarlyPCs
    BY WorkingFacts DEF SolvingPCs, EarlyPCs
  <2> QED BY <2>1 DEF AttemptInv, WorkerIsCurrent, EarlyPCs
<1> QED BY <1>1, AttemptsInOrder, PTL

(* At most one live coordinator acts for a request: a claim is taken over   *)
(* only from a coordinator proved dead (_claim).                           *)
THEOREM OneActsPerRequest ==
  ~LaunchMayFail => (Spec /\ ResumeAfterLaunch => []OneCoordinator)
<1> SUFFICES ASSUME ~LaunchMayFail PROVE Spec /\ ResumeAfterLaunch => []OneCoordinator
  OBVIOUS
<1>1. AttemptInv => OneCoordinator
  BY DEF AttemptInv
<1> QED BY <1>1, AttemptsInOrder, PTL

(* "An old request must never stop a resumed worker": a worker about to be *)
(* signalled is not the one bound to a newer attempt than the request's    *)
(* (cancel_request_targets_attempt, terminate_exact).                      *)
THEOREM ResumedWorkerSafe ==
  ~LaunchMayFail => (Spec /\ ResumeAfterLaunch => []OldRequestStopsNoNewWorker)
<1> SUFFICES ASSUME ~LaunchMayFail
             PROVE  Spec /\ ResumeAfterLaunch => []OldRequestStopsNoNewWorker
  OBVIOUS
<1>1. CancelInv /\ AttemptInv => OldRequestStopsNoNewWorker
  <2> SUFFICES ASSUME CancelInv, AttemptInv, NEW c \in Coordinators,
                      coordinator[c].pc \in {"terminate", "force_kill"},
                      bound # None, coordinator[c].target = bound
               PROVE  coordinator[c].goal = attempt
    BY DEF OldRequestStopsNoNewWorker
  <2>1. Acting(c) /\ bound \in Workers
    BY DEF Acting, ActingPCs, CoordinatorPCs, CancelInv, TypeOK, StoreTypeOK
  <2> QED BY <2>1 DEF AttemptInv, OldTargetsRetired
<1> QED BY <1>1, AttemptsInOrder, PTL

(* Only the current attempt's own worker, with all its rows and a clean    *)
(* cleanup, completes the job, and the solver is free by then (the finally  *)
(* block of _run).                                                         *)
THEOREM WorkerCompletes ==
  ~LaunchMayFail => (Spec /\ ResumeAfterLaunch => CompletedByItsWorker)
<1> DEFINE Completes(w) ==
      /\ worker[w].pc = "publish"
      /\ worker[w].done /\ worker[w].clean
      /\ worker[w].attempt = attempt /\ bound = w
      /\ lease.holder = None
<1> SUFFICES ASSUME ~LaunchMayFail PROVE Spec /\ ResumeAfterLaunch => CompletedByItsWorker
  OBVIOUS
<1>1. ASSUME CancelInv, AttemptInv, [Next]_vars, [Timely]_vars,
             status' = "completed", status # "completed"
      PROVE  \E w \in Workers : Completes(w)
  <2>1. StepEffect
    BY <1>1, AttemptStep
  <2>2. ASSUME NEW w \in Workers, WorkerEffect(w) PROVE Completes(w)
    <3>1. WritesStatus(w)
      BY <1>1, <2>2 DEF WorkerEffect, WorkerWrites, CatchesUp
    <3>2. worker[w].pc = "publish" /\ worker[w].clean /\ Working(w) /\ Holding(w)
      BY <1>1, <3>1, WorkingFacts DEF WritesStatus
    <3>3. worker[w].done
      BY <1>1, <3>2 DEF AttemptInv, DoneIsLate
    <3>4. worker[w].attempt = attempt /\ bound = w
      BY <1>1, <3>2 DEF AttemptInv, WorkerIsCurrent, EarlyPCs
    <3>5. lease.holder = None
      BY <1>1, <3>2 DEF AttemptInv, LeaseIsTheWorkers
    <3> QED BY <3>2, <3>3, <3>4, <3>5
  <2>3. ASSUME NEW c \in Coordinators, CoordinatorShape(c) PROVE FALSE
    BY <1>1, <2>3 DEF CoordinatorShape, Leaves, Works, Claims, Commits
  <2>4. ASSUME NEW m \in Managers, ManagerEffect(m) PROVE FALSE
    BY <1>1, <2>4
       DEF ManagerEffect, Rests, Launches, Binds, GivesUp, Fails, Opens, Withdraws, Authorizes,
           Follows, Interrupts, storeVars
  <2> QED BY <1>1, <2>1, <2>2, <2>3, <2>4 DEF StepEffect, NothingHappens
<1> DEFINE Promise ==
      status' = "completed" => status = "completed" \/ \E w \in Workers : Completes(w)
<1>2. CancelInv /\ AttemptInv /\ [Next]_vars /\ [Timely]_vars => [Promise]_vars
  BY <1>1
<1>3. [][Promise]_vars <=> CompletedByItsWorker
  BY PTL DEF CompletedByItsWorker
<1> HIDE DEF Promise
<1> QED BY <1>2, <1>3, AttemptsInOrder, PTL DEF Spec, ResumeAfterLaunch

(* A resume never races a worker that is still on its way to its startup    *)
(* decision "into a second launch for one job" (resume, launch marker).     *)
THEOREM ResumeWaits ==
  ~LaunchMayFail => (Spec /\ ResumeAfterLaunch => ResumeWaitsForLaunch)
<1> SUFFICES ASSUME ~LaunchMayFail PROVE Spec /\ ResumeAfterLaunch => ResumeWaitsForLaunch
  OBVIOUS
<1>1. ASSUME CancelInv, AttemptInv, [Next]_vars, [Timely]_vars, attempt' # attempt,
             NEW w \in Workers
      PROVE  worker[w].pc \notin PendingPCs
  <2>1. StepEffect
    BY <1>1, AttemptStep
  <2>2. PICK m \in Managers : ManagerEffect(m) /\ Opens(m)
    BY <1>1, <2>1
       DEF StepEffect, WorkerEffect, CoordinatorShape, NothingHappens, ManagerEffect, Rests,
           Launches, Binds, GivesUp, Fails, Withdraws, Authorizes, Follows, Interrupts, storeVars
  <2>3. ~Working(w)
    BY <1>1, <2>2, ManagerStepFacts
  <2> QED BY <2>3 DEF Working, EarlyPCs, PendingPCs
<1> DEFINE Promise == attempt' # attempt => \A w \in Workers : worker[w].pc \notin PendingPCs
<1>2. CancelInv /\ AttemptInv /\ [Next]_vars /\ [Timely]_vars => [Promise]_vars
  BY <1>1
<1>3. [][Promise]_vars <=> ResumeWaitsForLaunch
  BY PTL DEF ResumeWaitsForLaunch
<1> HIDE DEF Promise
<1> QED BY <1>2, <1>3, AttemptsInOrder, PTL DEF Spec, ResumeAfterLaunch

-----------------------------------------------------------------------------
(* The refinement: read as (status, attempt, authorized attempt), the two   *)
(* files take only steps of JobLifecycle.                                  *)

(* The abstract vocabulary is the one of the effects.                      *)
LEMMA SameVocabulary ==
  /\ Lifecycle!Status = Status /\ Lifecycle!Ordinary = PlainStatus
  /\ Lifecycle!CANCELLING_STATES = CANCELLING_STATES
  /\ Lifecycle!RESUMABLE_STATES = RESUMABLE_STATES
  /\ Lifecycle!TRANSITIONS = TRANSITIONS
  BY DEF Lifecycle!Status, Status, Lifecycle!ACTIVE_STATES, ACTIVE_STATES,
         Lifecycle!TERMINAL_STATES, TERMINAL_STATES, Lifecycle!Ordinary, PlainStatus,
         Lifecycle!CANCELLING_STATES, CANCELLING_STATES, Lifecycle!RESUMABLE_STATES,
         RESUMABLE_STATES, Lifecycle!TRANSITIONS, TRANSITIONS

(* A worker's step is progress, a cancellation it catches up with, or        *)
(* invisible.                                                              *)
LEMMA WorkerRefines ==
  ASSUME CancelInv, AttemptInv, NEW w \in Workers, WorkerEffect(w)
  PROVE  [Lifecycle!LifecycleNext]_(Lifecycle!lifecycleVars)
<1>1. UNCHANGED <<attempt, control>>
  BY DEF WorkerEffect
<1>2. CASE UNCHANGED status
  BY <1>1, <1>2 DEF Lifecycle!lifecycleVars
<1>3. CASE WritesStatus(w) /\ status' # status
  <2>1. status \notin RESUMABLE_STATES
    BY <1>3 DEF WritesStatus, AttemptInv, WorkerIsCurrent
  <2>2. status' \in TRANSITIONS[status] \intersect PlainStatus
    BY <1>3 DEF WritesStatus, MayBecome
  <2>3. Lifecycle!Progress
    BY <1>1, <2>1, <2>2, SameVocabulary DEF Lifecycle!Progress
  <2> QED BY <2>3 DEF Lifecycle!LifecycleNext
<1>4. CASE CatchesUp
  <2>1. status' \in TRANSITIONS[status] /\ status' \notin PlainStatus /\ control.target = attempt
    BY <1>4 DEF CatchesUp, CanCancel, Targets, PlainStatus, CANCELLING_STATES
  <2>2. Lifecycle!CancelAdvances
    BY <1>1, <2>1, SameVocabulary DEF Lifecycle!CancelAdvances
  <2> QED BY <2>2 DEF Lifecycle!LifecycleNext
<1> QED BY <1>2, <1>3, <1>4 DEF WorkerEffect, WorkerWrites

(* A coordinator's step advances the authorized cancellation.              *)
LEMMA CoordinatorRefines ==
  ASSUME CancelInv, AttemptInv, NEW c \in Coordinators, CoordinatorShape(c)
  PROVE  [Lifecycle!LifecycleNext]_(Lifecycle!lifecycleVars)
<1>1. UNCHANGED <<attempt, control>>
  BY DEF CoordinatorShape
<1>2. CASE UNCHANGED status
  BY <1>1, <1>2 DEF Lifecycle!lifecycleVars
<1>3. CASE status' # status
  <2>1. \/ status = "cancel_requested" /\ status' = "cancelling" /\ Targets(attempt)
        \/ status = "cancelling" /\ status' = "cancelled" /\ Targets(attempt)
    BY <1>3 DEF CoordinatorShape, Leaves, Works, Claims, Commits, ClaimAllowed, OwnsCancelWrite,
                CANCELLING_STATES
  <2>2. /\ "cancelling" \in TRANSITIONS["cancel_requested"]
        /\ "cancelled" \in TRANSITIONS["cancelling"]
    BY DEF TRANSITIONS, Status, ACTIVE_STATES, RESUMABLE_STATES
  <2>3. Lifecycle!CancelAdvances
    BY <1>1, <2>1, <2>2, SameVocabulary
       DEF Targets, PlainStatus, CANCELLING_STATES, Lifecycle!CancelAdvances
  <2> QED BY <2>3 DEF Lifecycle!LifecycleNext
<1> QED BY <1>2, <1>3

(* A server's step authorizes, follows, withdraws, interrupts or opens.     *)
LEMMA ManagerRefines ==
  ASSUME CancelInv, AttemptInv, NEW m \in Managers, ManagerEffect(m)
  PROVE  [Lifecycle!LifecycleNext]_(Lifecycle!lifecycleVars)
<1>1. CASE Rests(m) \/ Launches(m) \/ Binds(m)
  BY <1>1 DEF Rests, Launches, Binds, storeVars, Lifecycle!lifecycleVars
<1>2. CASE Opens(m)
  <2>1. Lifecycle!NextAttempt
    BY <1>2, SameVocabulary DEF Opens, Lifecycle!NextAttempt
  <2> QED BY <2>1 DEF Lifecycle!LifecycleNext
<1>3. CASE Withdraws(m)
  <2>1. control.target < attempt /\ control.target \in Nat /\ attempt \in Nat
    BY <1>3 DEF Withdraws, AttemptInv, ControlIsCurrent, CancelInv, TypeOK, StoreTypeOK, Controls
  <2>2. Lifecycle!Withdraw
    BY <1>3, <2>1 DEF Withdraws, NoControl, Lifecycle!Withdraw
  <2> QED BY <2>2 DEF Lifecycle!LifecycleNext
<1>4. CASE Authorizes(m)
  <2>1. Lifecycle!Authorize
    BY <1>4, SameVocabulary DEF Authorizes, CanCancel, Lifecycle!CanCancel, Lifecycle!Authorize
  <2> QED BY <2>1 DEF Lifecycle!LifecycleNext
<1>5. CASE Follows(m)
  <2>1. /\ status' \in TRANSITIONS[status] /\ status' \notin PlainStatus
        /\ control.target = attempt /\ UNCHANGED <<attempt, control>>
    BY <1>5 DEF Follows, CanCancel, Targets, PlainStatus, CANCELLING_STATES
  <2>2. Lifecycle!CancelAdvances
    BY <2>1, SameVocabulary DEF Lifecycle!CancelAdvances
  <2> QED BY <2>2 DEF Lifecycle!LifecycleNext
<1>6. CASE Interrupts(m)
  <2>1. \A s \in ACTIVE_STATES : "interrupted" \in TRANSITIONS[s] /\ s \notin RESUMABLE_STATES
    BY DEF TRANSITIONS, Status, ACTIVE_STATES, RESUMABLE_STATES
  <2>2. "interrupted" \in PlainStatus
    BY DEF PlainStatus, Status, TERMINAL_STATES, CANCELLING_STATES
  <2>3. Lifecycle!Progress
    BY <1>6, <2>1, <2>2, SameVocabulary DEF Interrupts, Lifecycle!Progress
  <2> QED BY <2>3 DEF Lifecycle!LifecycleNext
<1> QED BY <1>1, <1>2, <1>3, <1>4, <1>5, <1>6, ManagerStepFacts DEF ManagerEffect

(* The durable job implements the lifecycle it promises to those who watch  *)
(* state.json (TRANSITIONS, resume and request_cancel).                    *)
THEOREM LifecycleImplemented ==
  ~LaunchMayFail => (Spec /\ ResumeAfterLaunch => ImplementsLifecycle)
<1> SUFFICES ASSUME ~LaunchMayFail PROVE Spec /\ ResumeAfterLaunch => ImplementsLifecycle
  OBVIOUS
<1>1. Init => Lifecycle!LifecycleInit
  BY InitialFacts DEF Lifecycle!LifecycleInit
<1>2. CancelInv /\ AttemptInv /\ [Next]_vars /\ [Timely]_vars
        => [Lifecycle!LifecycleNext]_(Lifecycle!lifecycleVars)
  <2> SUFFICES ASSUME CancelInv, AttemptInv, [Next]_vars, [Timely]_vars
               PROVE  [Lifecycle!LifecycleNext]_(Lifecycle!lifecycleVars)
    OBVIOUS
  <2>1. StepEffect
    BY AttemptStep
  <2>2. CASE NothingHappens
    BY <2>2 DEF NothingHappens, Lifecycle!lifecycleVars
  <2> QED BY <2>1, <2>2, WorkerRefines, CoordinatorRefines, ManagerRefines DEF StepEffect
<1> QED BY <1>1, <1>2, AttemptsInOrder, PTL
        DEF Spec, ResumeAfterLaunch, ImplementsLifecycle, Lifecycle!LifecycleSpec

-----------------------------------------------------------------------------
(* A job that is resumed at most once meets the hypothesis: the marker that *)
(* submit holds during its launch keeps resume away (resume, submit).      *)

(* What a step of a server does to the marker and the attempt.             *)
MarkedStep(m) ==
  /\ marker' \in {marker, None}
  /\ marker = m \/ UNCHANGED marker
  /\ \/ UNCHANGED attempt
     \/ /\ mgr[m].pc = "resume_state" /\ attempt < MaxAttempt
        /\ attempt' = attempt + 1
  /\ mgr'[m].pc \in {"launch", "bind"} =>
       \/ mgr[m].pc \in {"launch", "bind"} /\ UNCHANGED marker
       \/ mgr[m].pc = "resume_control"
  /\ mgr'[m].pc = "resume_state" =>
       marker = None \/ mgr[m].pc = "resume_state"
  /\ mgr'[m].pc = "resume_control" =>
       mgr[m].pc = "resume_control" \/ attempt' = attempt + 1

LEMMA ServerMarks ==
  ASSUME CancelInv, NEW m \in Managers,
         ManagerStep(m) \/ ManagerRequest(m) \/ Start(m) \/ ManagerKilled(m)
  PROVE  MarkedStep(m) /\ \A n \in Managers \ {m} : mgr'[n] = mgr[n]
<1>0. TypeOK /\ mgr \in [Managers -> ManagerRecords] /\ marker \in Managers \union {None}
  BY DEF CancelInv, TypeOK, ManagerTypeOK
<1> SUFFICES MarkedStep(m)
  BY ManagerStepShape DEF ManagerShape, ManagerMoves
<1>m. ClearMarker(m) => marker' \in {marker, None} /\ (marker = m \/ UNCHANGED marker)
  BY DEF ClearMarker
<1>2. ASSUME mgr'[m].pc \notin {"launch", "bind", "resume_state", "resume_control"},
             UNCHANGED attempt, UNCHANGED marker \/ ClearMarker(m)
      PROVE  MarkedStep(m)
  BY <1>m, <1>2 DEF MarkedStep
<1>3. CASE Launch(m)
  <2>1. CASE ManagerGoto(m, "launch_failed") /\ ClearMarker(m)
    BY <1>0, <1>2, <1>3, <2>1, ManagerGotoFacts DEF Launch, storeVars, ManagerPCs
  <2>2. ASSUME NEW w \in Workers, mgr' = [mgr EXCEPT ![m].pc = "bind", ![m].w = w],
               UNCHANGED marker
        PROVE  MarkedStep(m)
    <3>1. mgr'[m].pc = "bind"
      BY <1>0, <2>2 DEF ManagerRecords
    <3> QED BY <1>3, <2>2, <3>1 DEF Launch, storeVars, MarkedStep
  <2> QED BY <1>3, <2>1, <2>2 DEF Launch
<1>4. CASE BindLaunched(m)
  <2>1. mgr'[m].pc \in {"idle", "launch_failed"}
    BY <1>0, <1>4, NoCallReplaces DEF BindLaunched, Returns
  <2> QED BY <1>2, <1>4, <2>1 DEF BindLaunched, BindWorkerIdentity, storeVars
<1>5. CASE LaunchFailed(m)
  <2>1. mgr'[m].pc = "idle"
    BY <1>0, <1>5, NoCallReplaces DEF LaunchFailed, Returns
  <2> QED BY <1>2, <1>5, <2>1 DEF LaunchFailed, SetStatus, storeVars
<1>6. CASE ResumeCheck(m)
  BY <1>0, <1>6, ManagerGotoFacts DEF ResumeCheck, storeVars, ManagerPCs, MarkedStep
<1>7. CASE ResumeState(m)
  <2>1. CASE Returns(m) /\ UNCHANGED storeVars
    <3>1. mgr'[m].pc = "idle"
      BY <1>0, <2>1, NoCallReplaces DEF Returns
    <3> QED BY <1>2, <1>7, <2>1, <3>1 DEF ResumeState, storeVars
  <2>2. CASE attempt < MaxAttempt /\ WriteResumeState(m) /\ ManagerGoto(m, "resume_control")
    BY <1>0, <1>7, <2>2, ManagerGotoFacts DEF ResumeState, WriteResumeState, ManagerPCs, MarkedStep
  <2> QED BY <1>7, <2>1, <2>2 DEF ResumeState
<1>8. CASE ResumeControl(m)
  BY <1>0, <1>8, ManagerGotoFacts DEF ResumeControl, WriteResumeControl, ManagerPCs, MarkedStep
<1>9. ASSUME NEW e \in 0..MaxAttempt, Cancel(m, e) PROVE MarkedStep(m)
  <2>1. CASE WriteCancelControl(m) /\ ManagerGoto(m, "cancel_state")
    BY <1>0, <1>2, <1>9, <2>1, ManagerGotoFacts DEF Cancel, WriteCancelControl, ManagerPCs
  <2>2. CASE ReconcileCancelState /\ UNCHANGED mgr
    BY <1>2, <1>9, <2>2 DEF Cancel, ReconcileCancelState
  <2>3. CASE /\ mgr' = [mgr EXCEPT ![m] = [NoCall("launch_coordinator") EXCEPT
                                             !.rid = control.rid, !.snap = cancel]]
             /\ UNCHANGED storeVars
    <3> DEFINE r == [NoCall("launch_coordinator") EXCEPT !.rid = control.rid, !.snap = cancel]
    <3>1. r.pc = "launch_coordinator"
      BY DEF NoCall
    <3>2. mgr'[m] = r
      BY <1>0, <2>3
    <3> HIDE DEF r
    <3> QED BY <1>2, <1>9, <2>3, <3>1, <3>2 DEF Cancel, storeVars
  <2> QED BY <1>9, <2>1, <2>2, <2>3 DEF Cancel
<1>10. CASE CancelState(m)
  <2> DEFINE r == [NoCall("launch_coordinator") EXCEPT
                     !.rid = control.rid, !.snap = RequestedCancel(control.rid, attempt)]
  <2>1. r.pc = "launch_coordinator"
    BY DEF NoCall
  <2>2. mgr'[m] = r
    BY <1>0, <1>10 DEF CancelState
  <2> HIDE DEF r
  <2> QED BY <1>2, <1>10, <2>1, <2>2 DEF CancelState, WriteCancelState
<1>11. CASE LaunchCoordinator(m)
  <2>1. mgr'[m].pc \in {"idle", "clear_launch_error", "coordinator_launch_failed"}
    BY <1>0, <1>11, NoCallReplaces, ManagerGotoFacts DEF LaunchCoordinator, Returns, ManagerPCs
  <2> QED BY <1>2, <1>11, <2>1 DEF LaunchCoordinator, storeVars
<1>12. CASE CoordinatorLaunchFailed(m) \/ ClearLaunchError(m)
  <2>1. mgr'[m].pc = "idle"
    BY <1>0, <1>12, NoCallReplaces
       DEF CoordinatorLaunchFailed, ClearLaunchError, PatchLaunchError, Returns
  <2> QED BY <1>2, <1>12, <2>1
          DEF CoordinatorLaunchFailed, ClearLaunchError, PatchLaunchError, PatchCancel, storeVars
<1>13. CASE Boot(m)
  <2>1. mgr'[m].pc = "idle"
    BY <1>0, <1>13, NoCallReplaces DEF Boot, Returns
  <2> QED BY <1>2, <1>13, <2>1 DEF Boot, storeVars
<1>14. CASE StatusPoll(m) \/ Start(m)
  BY <1>14 DEF StatusPoll, Start, SetStatus, storeVars, managerVars, MarkedStep
<1>15. CASE ManagerKilled(m)
  <2>1. mgr'[m].pc = "boot"
    BY <1>0, <1>15, NoCallReplaces DEF ManagerKilled
  <2> QED BY <1>2, <1>15, <2>1 DEF ManagerKilled
<1> QED BY <1>3, <1>4, <1>5, <1>6, <1>7, <1>8, <1>9, <1>10, <1>11, <1>12, <1>13, <1>14, <1>15
        DEF ManagerStep, ManagerRequest

(* The marker and the servers stay together.                               *)
LEMMA MarkerStays ==
  ASSUME CancelInv, LaunchIsMarked, [Next]_vars
  PROVE  /\ LaunchIsMarked'
         /\ UNCHANGED attempt \/ /\ attempt < MaxAttempt /\ marker = None
                                 /\ attempt' = attempt + 1
<1>0. TypeOK /\ attempt \in Nat /\ attempt >= 1 /\ \A n \in Managers : n # None
  BY IdentityAssumption, BoundsAssumption DEF CancelInv, TypeOK, StoreTypeOK
<1> DEFINE Opening == attempt < MaxAttempt /\ marker = None /\ attempt' = attempt + 1
<1>1. ASSUME UNCHANGED <<attempt, marker, mgr>> PROVE LaunchIsMarked' /\ UNCHANGED attempt
  BY <1>1 DEF LaunchIsMarked
<1>2. ASSUME NEW m \in Managers, MarkedStep(m), \A n \in Managers \ {m} : mgr'[n] = mgr[n]
      PROVE  LaunchIsMarked' /\ (UNCHANGED attempt \/ Opening)
  <2>1. UNCHANGED attempt \/ Opening
    BY <1>2 DEF MarkedStep, LaunchIsMarked
  <2>2. ASSUME attempt' = 1, NEW n \in Managers, mgr'[n].pc \in {"launch", "bind"}
        PROVE  marker' = n
    <3>1. attempt = 1 /\ UNCHANGED attempt
      BY <1>0, <2>1, <2>2
    <3>2. mgr[n].pc \in {"launch", "bind"} /\ marker = n /\ (n = m => UNCHANGED marker)
      BY <1>2, <2>2, <3>1 DEF MarkedStep, LaunchIsMarked
    <3> QED BY <1>2, <3>2 DEF MarkedStep
  <2>3. ASSUME NEW n \in Managers, mgr'[n].pc = "resume_state" PROVE marker' = None
    BY <1>2, <2>3 DEF MarkedStep, LaunchIsMarked
  <2>4. ASSUME NEW n \in Managers, mgr'[n].pc = "resume_control" PROVE attempt' > 1
    BY <1>0, <1>2, <2>1, <2>4 DEF MarkedStep, LaunchIsMarked
  <2> QED BY <2>1, <2>2, <2>3, <2>4 DEF LaunchIsMarked
<1>3. ASSUME NEW w \in Workers, WorkerStep(w) \/ WorkerKilled(w), UNCHANGED managerVars
      PROVE  LaunchIsMarked' /\ UNCHANGED attempt
  BY <1>0, <1>1, <1>3, WorkerStepShape
     DEF WorkerShape, WorkerLeaves, WorkerKilled, storeVars, managerVars
<1>4. ASSUME NEW c \in Coordinators, CoordinatorStep(c) \/ CoordinatorKilled(c),
             UNCHANGED managerVars
      PROVE  LaunchIsMarked' /\ UNCHANGED attempt
  BY <1>0, <1>1, <1>4, CoordinatorStepShape, ExitShape
     DEF CoordinatorShape, CoordinatorKilled, managerVars
<1>5. CASE OperatorRecoversLease \/ UNCHANGED vars
  BY <1>1, <1>5 DEF OperatorRecoversLease, storeVars, managerVars, vars
<1>6. ASSUME NEW m \in Managers,
             ManagerStep(m) \/ ManagerRequest(m) \/ Start(m) \/ ManagerKilled(m)
      PROVE  LaunchIsMarked' /\ (UNCHANGED attempt \/ Opening)
  BY <1>2, <1>6, ServerMarks
<1> QED BY <1>3, <1>4, <1>5, <1>6
        DEF Next, WorkerActs, CoordinatorActs, ManagerActs, ManagerAsked, ServerStarts, Fault

(* A job of at most two attempts opens none during a launch, whatever fails *)
(* and whoever is killed (resume against submit's launch marker).          *)
THEOREM MarkerKeepsResumeAway == MaxAttempt <= 2 => (Spec => ResumeAfterLaunch)
<1> SUFFICES ASSUME MaxAttempt <= 2 PROVE Spec => ResumeAfterLaunch
  OBVIOUS
<1>1. Init => LaunchIsMarked
  <2> SUFFICES ASSUME Init PROVE LaunchIsMarked
    OBVIOUS
  <2>1. PICK m \in Managers :
          marker = m /\ mgr = [n \in Managers |-> NoCall(IF n = m THEN "launch" ELSE "idle")]
    BY DEF Init, ManagerInit
  <2>2. \A n \in Managers : mgr[n].pc = IF n = m THEN "launch" ELSE "idle"
    BY <2>1 DEF NoCall
  <2> QED BY <2>1, <2>2 DEF LaunchIsMarked
<1>2. CancelInv /\ LaunchIsMarked /\ [Next]_vars => LaunchIsMarked'
  BY MarkerStays
<1>3. CancelInv /\ LaunchIsMarked /\ [Next]_vars => [Timely]_vars
  <2> SUFFICES ASSUME CancelInv, LaunchIsMarked, [Next]_vars, attempt' # attempt,
                      NEW m \in Managers, mgr[m].pc = "bind"
               PROVE  FALSE
    BY DEF Timely
  <2>1. attempt < MaxAttempt /\ marker = None
    BY MarkerStays
  <2>2. attempt = 1
    BY <2>1, BoundsAssumption DEF CancelInv, TypeOK, StoreTypeOK
  <2> QED BY <2>1, <2>2, IdentityAssumption DEF LaunchIsMarked
<1> QED BY <1>1, <1>2, <1>3, InvariantHolds, PTL DEF Spec, ResumeAfterLaunch

(* For a job that is resumed at most once every promise above holds as soon *)
(* as launches succeed: any servers, workers, coordinators, requests, kills *)
(* and inconclusive inspections (all of jobs/).                            *)
COROLLARY ResumedOnce ==
  MaxAttempt <= 2 /\ ~LaunchMayFail =>
    (Spec => /\ []SolverIsBound /\ []OneCoordinator /\ []OldRequestStopsNoNewWorker
             /\ CompletedByItsWorker /\ ResumeWaitsForLaunch /\ ImplementsLifecycle)
<1> SUFFICES ASSUME MaxAttempt <= 2, ~LaunchMayFail
             PROVE  Spec => /\ []SolverIsBound /\ []OneCoordinator /\ []OldRequestStopsNoNewWorker
                            /\ CompletedByItsWorker /\ ResumeWaitsForLaunch /\ ImplementsLifecycle
  OBVIOUS
<1> QED BY MarkerKeepsResumeAway, SolverBound, OneActsPerRequest, ResumedWorkerSafe,
           WorkerCompletes, ResumeWaits, LifecycleImplemented

=============================================================================
