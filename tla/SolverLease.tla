----------------------------- MODULE SolverLease -----------------------------
(***************************************************************************)
(* SolverOwnership: solver_owner.json names the process of this host that  *)
(* may run a COMSOL solver.  Servers, job workers and cancellation workers *)
(* take it, give it back and remove it when its owner is dead.  It is      *)
(* changed under an operating-system lock that ends with its holder, and   *)
(* given out only when no other solver is seen, before and after it is     *)
(* published.                                                              *)
(*                                                                         *)
(* A process is one incarnation: a pid that is used again has another      *)
(* creation time, which the lease records.                                 *)
(***************************************************************************)
EXTENDS FiniteSets, Naturals

CONSTANTS
    Process,    \* incarnations of agents on the host
    Server,     \* COMSOL servers that agents did not start
    None,
    Faults,     \* {"scan", "write", "unlink"}: what may fail
    MaxDeaths   \* bound on the processes that die

ASSUME NoneAssumption == None \notin Process \cup Server
ASSUME LeaseAssumption == Process \cap {"absent", "unreadable"} = {}
ASSUME DeathsAssumption == MaxDeaths \in Nat

VARIABLES
    lease,      \* the file: "absent", "unreadable" or the process it names
    lock,       \* the process in a locked section
    alive,
    mine,       \* processes that were told the lease is theirs
    running,    \* servers that run
    pc, op, target, seen,
    overlap     \* per process the servers that have run since it published

locals == <<pc, op, target, seen>>
vars == <<lease, lock, alive, mine, running, locals, overlap>>

Leases == Process \cup {"absent", "unreadable"}
Ops == {"acquire", "attach", "release", "recover"}
Pcs == {"idle", "down", "look", "scan", "create", "write", "undo", "rescan", "rollback", "unlink"}

Init ==
    /\ lease = "absent"
    /\ lock = None
    /\ alive = Process
    /\ mine = {}
    /\ running \in SUBSET Server
    /\ pc = [p \in Process |-> "idle"]
    /\ op = [p \in Process |-> "acquire"]
    /\ target = [p \in Process |-> None]
    /\ seen = [p \in Process |-> "absent"]
    /\ overlap = [p \in Process |-> {}]

Goto(p, step) == pc' = [pc EXCEPT ![p] = step]

\* The locked section ends; its locals are forgotten.
Leave(p) ==
    /\ Goto(p, "idle")
    /\ lock' = None
    /\ op' = [op EXCEPT ![p] = "acquire"]
    /\ target' = [target EXCEPT ![p] = None]
    /\ seen' = [seen EXCEPT ![p] = "absent"]
    /\ overlap' = [overlap EXCEPT ![p] = {}]

\* An owner's own server, which it is attached to, is no collision.
Collision(p) == running \ {target[p]} # {}

-----------------------------------------------------------------------------
(* Calls                                                                   *)

\* A lock that stays busy for its time is an error and changes nothing.
Enter(p, o, t) ==
    /\ pc[p] = "idle"
    /\ lock = None
    /\ lock' = p
    /\ op' = [op EXCEPT ![p] = o]
    /\ target' = [target EXCEPT ![p] = t]
    /\ Goto(p, IF o = "attach" THEN "scan" ELSE "look")
    /\ UNCHANGED <<lease, alive, mine, running, seen, overlap>>

\* An owner releases what it was told is its own.
Call(p) ==
    \/ \E o \in {"acquire", "recover"} : Enter(p, o, None)
    \/ p \in mine /\ Enter(p, "release", None)
    \/ \E s \in running : Enter(p, "attach", s)

\* Where a call goes with the lease it read; without a next step it returns.
AfterLook(p) ==
    CASE op[p] = "acquire" -> "scan"
      [] op[p] = "attach" -> IF lease = "absent" THEN "create" ELSE "idle"
      [] op[p] = "release" -> IF lease = p THEN "unlink" ELSE "idle"
      [] op[p] = "recover" -> IF lease \in Process THEN "scan" ELSE "idle"

\* To release an absent lease succeeds.
Look(p) ==
    /\ pc[p] = "look"
    /\ IF AfterLook(p) = "idle"
       THEN Leave(p)
       ELSE /\ Goto(p, AfterLook(p))
            /\ seen' = [seen EXCEPT ![p] = lease]
            /\ UNCHANGED <<lock, op, target, overlap>>
    /\ mine' = IF op[p] = "release" /\ lease = "absent" THEN mine \ {p} ELSE mine
    /\ UNCHANGED <<lease, alive, running>>

-----------------------------------------------------------------------------
(* The scan of the host's processes, and what follows from it              *)

\* The scan may fail or take too long.
ScanFails(p) ==
    /\ pc[p] = "scan"
    /\ "scan" \in Faults
    /\ Leave(p)
    /\ UNCHANGED <<lease, alive, mine, running>>

\* acquire: an absent lease is created, one's own is used again, and any
\* other, a stale one too, is refused.
ScanToAcquire(p) ==
    /\ pc[p] = "scan"
    /\ op[p] = "acquire"
    /\ IF Collision(p) \/ seen[p] \notin {"absent", p}
       THEN Leave(p) /\ UNCHANGED mine
       ELSE IF seen[p] = p
       THEN Leave(p) /\ mine' = mine \cup {p}
       ELSE Goto(p, "create") /\ UNCHANGED <<lock, mine, op, target, seen, overlap>>
    /\ UNCHANGED <<lease, alive, running>>

\* acquire_attached: the server is still there and nothing else is.
ScanToAttach(p) ==
    /\ pc[p] = "scan"
    /\ op[p] = "attach"
    /\ IF Collision(p) \/ target[p] \notin running
       THEN Leave(p)
       ELSE Goto(p, "look") /\ UNCHANGED <<lock, op, target, seen, overlap>>
    /\ UNCHANGED <<lease, alive, mine, running>>

\* Mutant of ScanToRecover: a process that cannot be inspected is stale.
ScanRecoversAny(p) ==
    /\ pc[p] = "scan"
    /\ op[p] = "recover"
    /\ Goto(p, "unlink")
    /\ UNCHANGED <<lease, lock, alive, mine, running, op, target, seen, overlap>>

\* recover_stale: the process in the lease is gone.
ScanToRecover(p) ==
    \/ seen[p] \notin alive /\ ScanRecoversAny(p)
    \/ /\ pc[p] = "scan"
       /\ op[p] = "recover"
       /\ seen[p] \in alive
       /\ Leave(p)
       /\ UNCHANGED <<lease, alive, mine, running>>

-----------------------------------------------------------------------------
(* Publication                                                             *)

\* O_EXCL.
Create(p) ==
    /\ pc[p] = "create"
    /\ IF lease = "absent"
       THEN /\ lease' = "unreadable"
            /\ Goto(p, "write")
            /\ UNCHANGED <<lock, op, target, seen, overlap>>
       ELSE Leave(p) /\ UNCHANGED lease
    /\ UNCHANGED <<alive, mine, running>>

Write(p) ==
    /\ pc[p] = "write"
    /\ lease' = p
    /\ overlap' = [overlap EXCEPT ![p] = running \ {target[p]}]
    /\ Goto(p, "rescan")
    /\ UNCHANGED <<lock, alive, mine, running, op, target, seen>>

WriteFails(p) ==
    /\ pc[p] = "write"
    /\ "write" \in Faults
    /\ Goto(p, "undo")
    /\ UNCHANGED <<lease, lock, alive, mine, running, op, target, seen, overlap>>

\* unlink may be refused too, and is not tried again.
Undo(p) ==
    /\ pc[p] = "undo"
    /\ \/ lease' = "absent"
       \/ "unlink" \in Faults /\ UNCHANGED lease
    /\ Leave(p)
    /\ UNCHANGED <<alive, mine, running>>

\* Mutant of Rescan: the first scan is trusted.
RescanSkipped(p) ==
    /\ pc[p] = "rescan"
    /\ Leave(p)
    /\ mine' = mine \cup {p}
    /\ UNCHANGED <<lease, alive, running>>

\* A scan that does not end in time counts as a collision.
Rescan(p) ==
    \/ ~Collision(p) /\ RescanSkipped(p)
    \/ /\ pc[p] = "rescan"
       /\ Collision(p) \/ "scan" \in Faults
       /\ Goto(p, "rollback")
       /\ UNCHANGED <<lease, lock, alive, mine, running, op, target, seen, overlap>>

\* The call is refused even when the lease could not be removed.
Rollback(p) ==
    /\ pc[p] = "rollback"
    /\ \/ lease' = "absent"
       \/ "unlink" \in Faults /\ UNCHANGED lease
    /\ Leave(p)
    /\ UNCHANGED <<alive, mine, running>>

\* Of release and recover_stale, if the bytes are those that were read.
Unlink(p) ==
    /\ pc[p] = "unlink"
    /\ \/ /\ lease = seen[p]
          /\ lease' = "absent"
          /\ mine' = IF op[p] = "release" THEN mine \ {p} ELSE mine
       \/ /\ lease # seen[p] \/ "unlink" \in Faults
          /\ UNCHANGED <<lease, mine>>
    /\ Leave(p)
    /\ UNCHANGED <<alive, running>>

-----------------------------------------------------------------------------
(* The host                                                                *)

ServerStarts(s) ==
    /\ s \notin running
    /\ running' = running \cup {s}
    /\ UNCHANGED <<lease, lock, alive, mine, locals, overlap>>

ServerStops(s) ==
    /\ s \in running
    /\ running' = running \ {s}
    /\ overlap' = [p \in Process |-> overlap[p] \ {s}]
    /\ UNCHANGED <<lease, lock, alive, mine, locals>>

Die(p) ==
    /\ p \in alive
    /\ Cardinality(Process \ alive) < MaxDeaths
    /\ alive' = alive \ {p}
    /\ mine' = mine \ {p}
    /\ pc' = [pc EXCEPT ![p] = "down"]
    /\ lock' = IF lock = p THEN None ELSE lock
    /\ op' = [op EXCEPT ![p] = "acquire"]
    /\ target' = [target EXCEPT ![p] = None]
    /\ seen' = [seen EXCEPT ![p] = "absent"]
    /\ overlap' = [overlap EXCEPT ![p] = {}]
    /\ UNCHANGED <<lease, running>>

Step(p) ==
    \/ Look(p) \/ ScanFails(p) \/ ScanToAcquire(p) \/ ScanToAttach(p) \/ ScanToRecover(p)
    \/ Create(p) \/ Write(p) \/ WriteFails(p) \/ Undo(p) \/ Rescan(p) \/ Rollback(p) \/ Unlink(p)

Next ==
    \/ \E p \in Process : Call(p) \/ Step(p) \/ Die(p)
    \/ \E s \in Server : ServerStarts(s) \/ ServerStops(s)

Spec == Init /\ [][Next]_vars

\* What a user of the lease sees is a lock.
holder == IF mine = {} THEN None ELSE CHOOSE p \in Process : p \in mine
Lock == INSTANCE AtomicLock WITH
            Thread <- Process, ProcessOf <- [p \in Process |-> p], holder <- holder

=============================================================================
