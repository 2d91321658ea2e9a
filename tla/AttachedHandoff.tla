---------------------------- MODULE AttachedHandoff ----------------------------
(***************************************************************************)
(* Shared interactive sessions and the jobs submitted from them.  A server *)
(* may attach to a COMSOL Server of the user, under the solver lease, and  *)
(* lock one of its models.  job_submit then hands the model over: it       *)
(* reserves the request, gives the session and the lease up, keeps a       *)
(* receipt of that, and publishes a job whose worker takes the lease.  A   *)
(* client that heard no answer sends the request again, and the receipt    *)
(* stands for the handoff that cannot be repeated.                         *)
(*                                                                         *)
(* A server runs one of these calls at a time: SharedSessionManager._lock  *)
(* and the operation arbiter see to it.  Servers, workers and deaths       *)
(* interleave.  A section under .submit.lock is one step.                  *)
(***************************************************************************)
EXTENDS Naturals, FiniteSets

CONSTANTS
    Server,         \* processes with a SharedSessionManager
    Request,        \* request ids; each stands for the job reserved for it too
    None,
    MaxLocks,       \* bound on the model locks that are made
    MaxFaults,      \* bound on the calls to COMSOL and to the disk that fail
    MaxDeaths       \* bound on the servers that die

ASSUME IdentityAssumption == None \notin Server \cup Request /\ Server \cap Request = {}
ASSUME BoundsAssumption == MaxLocks \in Nat /\ MaxFaults \in Nat /\ MaxDeaths \in Nat

\* A lock is named by its SHA-256, which covers the acquisition of the session
\* and the time: no two are alike.  0 is no lock.
ModelLock == 1..MaxLocks
MaybeLock == 0..MaxLocks

VARIABLES
    session,        \* per server what its SharedSessionManager holds
    lease,          \* who has the solver lease: a server, the worker of a job, or None
    record,         \* request-bindings: per request None or its binding
    guard,          \* attached-in-flight: per request a server or None
    job,            \* per request the job of its reserved id
    stored,         \* attached-handoff-receipts: the locks with a receipt on disk
    alive,          \* servers that run
    pc,             \* the step each server is about to take
    call,           \* the call each server is in
    locks, faults

vars == <<session, lease, record, guard, job, stored, alive, pc, call, locks, faults>>

\* client: "disconnected" if only the cleanup of the lease is left; pending:
\* _attach_cleanup_pending; adopted: whether a model is selected; memory: the
\* lock of _last_attached_handoff.
Session == [client : {"none", "connected", "disconnected"}, pending : BOOLEAN,
            adopted : BOOLEAN, lock : MaybeLock, memory : MaybeLock]
NoSession == [client |-> "none", pending |-> FALSE, adopted |-> FALSE, lock |-> 0, memory |-> 0]

\* source: the lock in the fingerprint of the public request; receipt: the
\* handoff recorded in the binding.
Binding == [source : ModelLock, state : {"unknown", "dispatched"}, receipt : MaybeLock]
ASSUME BindingAssumption == None \notin Binding

\* purpose: what the connection or the detach under way is for.
Call == [purpose : {"tool", "handoff", "reclaim", "give_up"}, request : Request \cup {None},
         lock : MaybeLock]
NoCall == [purpose |-> "tool", request |-> None, lock |-> 0]

JobState == {"none", "published", "launched", "running", "failed", "done"}
SessionPcs == {"connect", "disconnect", "release", "confirm"}
FlowPcs == {"arm", "find", "prepare", "receipt", "record", "submit", "dispatch", "launch",
            "reclaim", "readopt", "answer"}
Pcs == SessionPcs \cup FlowPcs \cup {"idle", "down"}

Init ==
    /\ session = [s \in Server |-> NoSession]
    /\ lease = None
    /\ record = [r \in Request |-> None]
    /\ guard = [r \in Request |-> None]
    /\ job = [r \in Request |-> "none"]
    /\ stored = {}
    /\ alive = Server
    /\ pc = [s \in Server |-> "idle"]
    /\ call = [s \in Server |-> NoCall]
    /\ locks = 0
    /\ faults = 0

binding == <<record, guard, job, stored>>

Goto(s, step) == pc' = [pc EXCEPT ![s] = step]

\* Something fails, or nothing does.
Fault == faults < MaxFaults /\ faults' = faults + 1
NoFault == UNCHANGED faults

\* A call that failed for its purpose: a tool call returns, a submission
\* answers and clears its guard.
Abandon(s) == Goto(s, IF call[s].purpose = "tool" THEN "idle" ELSE "answer")

-----------------------------------------------------------------------------
(* Attach and detach                                                       *)

\* attach: the lease comes before the client.
Acquire(s) ==
    /\ lease = None
    /\ lease' = s
    /\ Goto(s, "connect")

Attach(s) ==
    /\ pc[s] = "idle"
    /\ session[s].client = "none"
    /\ Acquire(s)
    /\ UNCHANGED <<session, binding, alive, call, locks, faults>>

\* The client is constructed and looked at; what fails is cleaned up as in a
\* detach, and retained as pending where that fails too.
Connect(s) ==
    /\ pc[s] = "connect"
    /\ \/ /\ session' = [session EXCEPT ![s].client = "connected"]
          /\ Goto(s, IF call[s].purpose = "reclaim" THEN "readopt" ELSE "idle")
          /\ NoFault
       \/ /\ \E client \in {"connected", "disconnected"} :
                session' = [session EXCEPT ![s].client = client, ![s].pending = TRUE]
          /\ Goto(s, "disconnect")
          /\ Fault
    /\ UNCHANGED <<lease, binding, alive, call, locks>>

\* detach() refuses a locked model; a handoff does not.
Detach(s) ==
    /\ pc[s] = "idle"
    /\ session[s].client # "none"
    /\ session[s].lock = 0
    /\ Goto(s, "disconnect")
    /\ UNCHANGED <<session, lease, binding, alive, call, locks, faults>>

\* Mutant of Disconnect: the lease is released whether or not the client left.
DisconnectUnchecked(s) ==
    /\ pc[s] = "disconnect"
    /\ \/ session' = [session EXCEPT ![s].client = "disconnected"] /\ NoFault
       \/ session[s].client = "connected" /\ Fault /\ UNCHANGED session
    /\ Goto(s, "release")
    /\ UNCHANGED <<lease, binding, alive, call, locks>>

Disconnect(s) ==
    /\ pc[s] = "disconnect"
    /\ \/ /\ session' = [session EXCEPT ![s].client = "disconnected"]
          /\ Goto(s, "release")
          /\ NoFault
       \/ /\ session[s].client = "connected"
          /\ Fault
          /\ Abandon(s)
          /\ UNCHANGED session
    /\ UNCHANGED <<lease, binding, alive, call, locks>>

\* A lease of somebody else is not released; no lease is as good as released.
Release(s) ==
    /\ pc[s] = "release"
    /\ \/ /\ lease \in {s, None}
          /\ lease' = None
          /\ Goto(s, "confirm")
          /\ NoFault
       \/ /\ lease \notin {s, None}
          /\ Abandon(s)
          /\ NoFault /\ UNCHANGED lease
       \/ /\ lease = s
          /\ Fault
          /\ Abandon(s)
          /\ UNCHANGED lease
    /\ UNCHANGED <<session, binding, alive, call, locks>>

\* _reset_session_state leaves the memory of the last handoff.
Forget(s) == session' = [session EXCEPT ![s] = [NoSession EXCEPT !.memory = session[s].memory]]

\* The lease file must be gone: one that another process has made meanwhile
\* keeps the session.  A model that was not preserved is a failure too, but
\* one of a session that is over.
Confirm(s) ==
    /\ pc[s] = "confirm"
    /\ \/ lease # None /\ Abandon(s) /\ NoFault /\ UNCHANGED session
       \/ /\ lease = None
          /\ Forget(s)
          /\ IF call[s].purpose = "handoff" THEN Goto(s, "receipt") ELSE Abandon(s)
          /\ NoFault
       \/ /\ lease = None
          /\ call[s].purpose = "handoff" /\ ~session[s].pending
          /\ Forget(s)
          /\ Abandon(s)
          /\ Fault
    /\ UNCHANGED <<lease, binding, alive, call, locks>>

-----------------------------------------------------------------------------
(* The model                                                               *)

\* A client that a failed attach could not disconnect is not excluded.
AdoptModel(s) ==
    /\ pc[s] = "idle"
    /\ session[s].client = "connected"
    /\ session[s].lock = 0
    /\ session' = [session EXCEPT ![s].adopted = TRUE]
    /\ UNCHANGED <<lease, binding, alive, pc, call, locks, faults>>

LockModel(s) ==
    /\ pc[s] = "idle"
    /\ session[s].client = "connected" /\ session[s].adopted
    /\ session[s].lock = 0
    /\ locks < MaxLocks
    /\ locks' = locks + 1
    /\ session' = [session EXCEPT ![s].lock = locks + 1]
    /\ UNCHANGED <<lease, binding, alive, pc, call, faults>>

UnlockModel(s) ==
    /\ pc[s] = "idle"
    /\ session[s].lock # 0
    /\ session' = [session EXCEPT ![s].lock = 0]
    /\ UNCHANGED <<lease, binding, alive, pc, call, locks, faults>>

-----------------------------------------------------------------------------
(* job_submit                                                              *)

Arm(s) == guard' = [guard EXCEPT ![call[s].request] = s]

\* reserve_attached_request: a new request is reserved, one whose flow has
\* died or failed is taken up; every other one is answered from the record.
MayReserve(r, l) ==
    \/ record[r] = None
    \/ record[r] # None /\ record[r].source = l /\ job[r] = "none" /\ guard[r] \notin alive

Bind(r, l) ==
    record' = IF record[r] # None THEN record
              ELSE [record EXCEPT ![r] = [source |-> l, state |-> "unknown", receipt |-> 0]]

\* Mutant of Reserve: the guard is armed by the caller, after the lock.
ReserveUnguarded(s, r, l) ==
    /\ pc[s] = "idle"
    /\ MayReserve(r, l)
    /\ Bind(r, l)
    /\ call' = [call EXCEPT ![s] = [purpose |-> "handoff", request |-> r, lock |-> l]]
    /\ Goto(s, "arm")
    /\ UNCHANGED <<session, lease, guard, job, stored, alive, locks, faults>>

\* The guard is armed before .submit.lock is released.
Reserve(s, r, l) ==
    /\ pc[s] = "idle"
    /\ MayReserve(r, l)
    /\ Bind(r, l)
    /\ guard' = [guard EXCEPT ![r] = s]
    /\ call' = [call EXCEPT ![s] = [purpose |-> "handoff", request |-> r, lock |-> l]]
    /\ Goto(s, "arm")
    /\ UNCHANGED <<session, lease, job, stored, alive, locks, faults>>

\* The caller arms it again, outside the try that disarms it.
ArmAgain(s) ==
    /\ pc[s] = "arm"
    /\ \/ Arm(s) /\ Goto(s, "find") /\ NoFault /\ UNCHANGED call
       \/ /\ Goto(s, "idle")
          /\ call' = [call EXCEPT ![s] = NoCall]
          /\ Fault /\ UNCHANGED guard
    /\ UNCHANGED <<session, lease, record, job, stored, alive, locks>>

\* Mutant of Receipts: what another process did is not looked up.
ReceiptsInMemory(s) == {session[s].memory}

\* The receipt in the binding, the last handoff of this process, or the file.
Receipts(s) ==
    LET r == call[s].request IN
    {session[s].memory} \cup stored \cup (IF job[r] = "none" THEN {record[r].receipt} ELSE {})

FindReceipt(s) ==
    /\ pc[s] = "find"
    /\ Goto(s, IF call[s].lock \in Receipts(s) THEN "submit" ELSE "prepare")
    /\ UNCHANGED <<session, lease, binding, alive, call, locks, faults>>

\* prepare_attached_job_handoff: the exact lock, which the server still shows.
Prepare(s) ==
    /\ pc[s] = "prepare"
    /\ LET verified == session[s].client = "connected" /\ session[s].lock = call[s].lock IN
       \/ verified /\ Goto(s, "disconnect") /\ NoFault
       \/ verified /\ Goto(s, "answer") /\ Fault
       \/ ~verified /\ Goto(s, "answer") /\ NoFault
    /\ UNCHANGED <<session, lease, binding, alive, call, locks>>

\* Best effort on the disk, always in memory.
KeepReceipt(s) ==
    /\ pc[s] = "receipt"
    /\ session' = [session EXCEPT ![s].memory = call[s].lock]
    /\ \/ stored' = stored \cup {call[s].lock} /\ NoFault
       \/ UNCHANGED stored /\ Fault
    /\ Goto(s, "record")
    /\ UNCHANGED <<lease, record, guard, job, alive, call, locks>>

\* record_attached_handoff
RecordHandoff(s) ==
    /\ pc[s] = "record"
    /\ LET r == call[s].request IN
       \/ /\ record' = IF job[r] = "none" THEN [record EXCEPT ![r].receipt = call[s].lock]
                       ELSE record
          /\ Goto(s, "submit")
          /\ NoFault
       \/ Goto(s, "answer") /\ Fault /\ UNCHANGED record
    /\ UNCHANGED <<session, lease, guard, job, stored, alive, call, locks>>

\* JobManager.submit: a job that exists is answered if its binding says so,
\* and otherwise raises, as a preflight that fails does.
SubmitJob(s) ==
    /\ pc[s] = "submit"
    /\ LET r == call[s].request IN
       \/ /\ job' = IF job[r] = "none" THEN [job EXCEPT ![r] = "published"] ELSE job
          /\ Goto(s, IF job[r] = "none" THEN "dispatch"
                     ELSE IF record[r].state = "dispatched" THEN "answer" ELSE "reclaim")
          /\ NoFault
       \/ /\ record[r].state = "unknown"
          /\ Goto(s, "reclaim")
          /\ Fault /\ UNCHANGED job
    /\ UNCHANGED <<session, lease, record, guard, stored, alive, call, locks>>

\* The binding is written anew, without the receipt.
Dispatch(s) ==
    /\ pc[s] = "dispatch"
    /\ \/ /\ record' = [record EXCEPT ![call[s].request] =
                          [@ EXCEPT !.state = "dispatched", !.receipt = 0]]
          /\ Goto(s, "launch")
          /\ NoFault
       \/ Goto(s, "reclaim") /\ Fault /\ UNCHANGED record
    /\ UNCHANGED <<session, lease, guard, job, stored, alive, call, locks>>

\* JobLaunchError is answered: the job is inspected before anything else.
Launch(s) ==
    /\ pc[s] = "launch"
    /\ \/ job' = [job EXCEPT ![call[s].request] = "launched"] /\ NoFault
       \/ job' = [job EXCEPT ![call[s].request] = "failed"] /\ Fault
    /\ Goto(s, "answer")
    /\ UNCHANGED <<session, lease, record, guard, stored, alive, call, locks>>

\* recover_attached_job_handoff: attach, and adopt the model again.
Reclaim(s) ==
    /\ pc[s] = "reclaim"
    /\ call' = [call EXCEPT ![s].purpose = "reclaim"]
    /\ \/ session[s].client = "none" /\ Acquire(s) /\ NoFault
       \/ /\ session[s].client # "none" \/ lease # None
          /\ Goto(s, "answer")
          /\ NoFault /\ UNCHANGED lease
       \/ Goto(s, "answer") /\ Fault /\ UNCHANGED lease
    /\ UNCHANGED <<session, binding, alive, locks>>

\* What cannot be adopted is detached again.
Readopt(s) ==
    /\ pc[s] = "readopt"
    /\ \/ /\ session' = [session EXCEPT ![s].adopted = TRUE]
          /\ Goto(s, "answer")
          /\ NoFault /\ UNCHANGED call
       \/ /\ call' = [call EXCEPT ![s].purpose = "give_up"]
          /\ Goto(s, "disconnect")
          /\ Fault /\ UNCHANGED session
    /\ UNCHANGED <<lease, binding, alive, locks>>

\* disarm_attached_guard: a guard that cannot be removed stays.
Answer(s) ==
    /\ pc[s] = "answer"
    /\ \/ guard' = [guard EXCEPT ![call[s].request] = None] /\ NoFault
       \/ Fault /\ UNCHANGED guard
    /\ call' = [call EXCEPT ![s] = NoCall]
    /\ Goto(s, "idle")
    /\ UNCHANGED <<session, lease, record, job, stored, alive, locks>>

-----------------------------------------------------------------------------
(* Workers, the operator, and deaths                                       *)

\* A worker of an attached job needs the lease.
WorkerStarts(r) ==
    /\ job[r] = "launched"
    /\ IF lease = None
       THEN lease' = r /\ job' = [job EXCEPT ![r] = "running"]
       ELSE job' = [job EXCEPT ![r] = "failed"] /\ UNCHANGED lease
    /\ UNCHANGED <<session, record, guard, stored, alive, pc, call, locks, faults>>

\* The lease is kept where the client is not known to have left.
WorkerEnds(r) ==
    /\ job[r] = "running"
    /\ job' = [job EXCEPT ![r] = "done"]
    /\ \/ lease' = None /\ NoFault
       \/ Fault /\ UNCHANGED lease
    /\ UNCHANGED <<session, record, guard, stored, alive, pc, call, locks>>

\* solver_recover_stale_lease: its owner has died.
RecoverLease ==
    /\ lease \in (Server \ alive) \cup {r \in Request : job[r] = "done"}
    /\ lease' = None
    /\ UNCHANGED <<session, binding, alive, pc, call, locks, faults>>

\* The client of a dead process is gone; its lease and its guard are not.
Die(s) ==
    /\ s \in alive
    /\ Cardinality(Server \ alive) < MaxDeaths
    /\ alive' = alive \ {s}
    /\ session' = [session EXCEPT ![s] = NoSession]
    /\ call' = [call EXCEPT ![s] = NoCall]
    /\ Goto(s, "down")
    /\ UNCHANGED <<lease, binding, locks, faults>>

Step(s) ==
    \/ Connect(s) \/ Disconnect(s) \/ Release(s) \/ Confirm(s)
    \/ ArmAgain(s) \/ FindReceipt(s) \/ Prepare(s) \/ KeepReceipt(s) \/ RecordHandoff(s)
    \/ SubmitJob(s) \/ Dispatch(s) \/ Launch(s) \/ Reclaim(s) \/ Readopt(s) \/ Answer(s)

Tool(s) ==
    Attach(s) \/ Detach(s) \/ AdoptModel(s) \/ LockModel(s) \/ UnlockModel(s)

Submit(s) == \E r \in Request : \E l \in 1..locks : Reserve(s, r, l)

Next ==
    \/ \E s \in Server : Step(s) \/ Tool(s) \/ Submit(s) \/ Die(s)
    \/ \E r \in Request : WorkerStarts(r) \/ WorkerEnds(r)
    \/ RecoverLease

Spec == Init /\ [][Next]_vars

\* The client asks again, and is heard at last by some server.
Retry(r) == record[r] # None /\ \E s \in Server : Reserve(s, r, record[r].source)

FairSpec ==
    /\ Spec
    /\ \A s \in Server : WF_vars(Step(s))
    /\ \A r \in Request : SF_vars(Retry(r))

=============================================================================
