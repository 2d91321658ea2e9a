----------------------- MODULE AttachedHandoffProperties -----------------------
(***************************************************************************)
(* What the user of a shared model may rely on while a server, or a job    *)
(* submitted through it, works on that model.                              *)
(***************************************************************************)
EXTENDS AttachedHandoff

\* Shapes of the sessions, the durable evidence and the calls.
TypeOK ==
    /\ session \in [Server -> Session]
    /\ lease \in Server \cup Request \cup {None}
    /\ record \in [Request -> Binding \cup {None}]
    /\ guard \in [Request -> Server \cup {None}]
    /\ job \in [Request -> JobState]
    /\ stored \subseteq ModelLock
    /\ alive \subseteq Server
    /\ pc \in [Server -> Pcs]
    /\ call \in [Server -> Call]
    /\ locks \in MaybeLock
    /\ faults \in 0..MaxFaults

\* The model belongs to one at a time.  A session that may have a client has
\* the solver lease, so no worker has it; and the lock a job was submitted
\* with is not one that a session holds still.
OneOwner ==
    \A s \in alive :
        /\ session[s].client = "connected" => lease = s
        /\ \A r \in Request :
            job[r] # "none" => session[s].lock = 0 \/ session[s].lock # record[r].source

\* The server that works on request r, if any.
InFlow(s, r) == call[s].request = r

\* A session is taken back only while nobody has launched the job, and nobody
\* else is about to (lifecycle.py: "after a pre-launch submit failure").
ReclaimsOnlyUnlaunched ==
    [][\A s \in Server : \A r \in Request :
        pc[s] = "reclaim" /\ pc'[s] = "connect" /\ InFlow(s, r) =>
            /\ job[r] \in {"none", "published"}
            /\ \A t \in Server \ {s} : ~InFlow(t, r)]_vars

\* A receipt of the handoff has reached the disk.
Receipted(r) == record[r] # None /\ record[r].source \in stored \cup {record[r].receipt}

\* A live server holds the guard of r and does not work on r: it could not
\* remove the guard, or not arm it a second time.
Stuck(r) == guard[r] \in alive /\ ~InFlow(guard[r], r)

\* A model that was handed over gets its job, whatever failed or died after the
\* receipt, as long as the client asks again and no guard is left behind.
HandoffResolves == \A r \in Request : Receipted(r) ~> job[r] # "none" \/ Stuck(r)

\* The same for a guard that is left behind.
EveryHandoffResolves == \A r \in Request : Receipted(r) ~> job[r] # "none"

\* A server submits a job only when its own session has given up the lease.
SubmitsDetached ==
    [][\A s \in Server : pc[s] = "submit" /\ pc'[s] = "dispatch" => session[s].client = "none"]_vars

\* A handoff makes one job.
OneJobPerHandoff ==
    \A q, r \in Request :
        job[q] # "none" /\ job[r] # "none" /\ record[q].source = record[r].source => q = r

\* Nothing is locked through a client that only waits for its cleanup.
PendingIsInert == \A s \in Server : session[s].pending => session[s].lock = 0

-----------------------------------------------------------------------------
(* The inductive invariant behind OneOwner and ReclaimsOnlyUnlaunched.     *)

\* A client is made and kept under the lease, which is not given back before
\* the client has left; a running worker has the lease.
ClientsCovered ==
    /\ \A s \in Server :
        /\ session[s].client = "connected" => lease = s
        /\ pc[s] = "connect" => session[s].client = "none" /\ lease = s
        /\ pc[s] \in {"release", "confirm"} => session[s].client = "disconnected"
    /\ \A r \in Request : job[r] = "running" => lease = r

\* The steps of a submission before there is a job.
EarlyPcs == {"arm", "find", "prepare", "disconnect", "release", "confirm",
             "receipt", "record", "submit"}

\* A call is where its purpose takes it; a server in the flow of a request lives,
\* has the guard of the request, and knows how far its job is.
CallsKnown ==
    /\ \A s \in Server :
        /\ s \in alive <=> pc[s] # "down"
        /\ s \notin alive => session[s].client = "none" /\ session[s].lock = 0 /\ call[s].purpose = "tool"
        /\ call[s].purpose = "tool" <=> call[s].request = None
        /\ call[s].purpose = "tool" => pc[s] \in SessionPcs \cup {"idle", "down"}
        /\ call[s].purpose = "handoff" => pc[s] \in EarlyPcs \cup {"dispatch", "launch", "reclaim", "answer"}
        /\ call[s].purpose = "reclaim" => pc[s] \in SessionPcs \cup {"readopt", "answer"}
        /\ call[s].purpose = "give_up" => pc[s] \in {"disconnect", "release", "confirm", "answer"}
    /\ \A s \in Server : \A r \in Request : InFlow(s, r) =>
        /\ guard[r] = s
        /\ record[r] # None
        /\ record[r].source = call[s].lock
        /\ call[s].purpose = "handoff" =>
            /\ pc[s] \in EarlyPcs => job[r] = "none"
            /\ pc[s] \in {"dispatch", "launch"} => job[r] = "published"
            /\ pc[s] = "reclaim" => job[r] \in {"none", "published"}
    /\ \A r \in Request : job[r] # "none" => record[r] # None

\* Locks are numbered as they are made, and no two sessions have the same.
LocksMade ==
    /\ stored \subseteq 1..locks
    /\ \A s \in Server : {session[s].lock, session[s].memory, call[s].lock} \subseteq 0..locks
    /\ \A r \in Request : record[r] # None => record[r].source <= locks /\ record[r].receipt <= locks
    /\ \A s, t \in Server : session[s].lock # 0 /\ session[t].lock = session[s].lock => s = t

\* No session has a lock that was handed over, by the evidence of a receipt, a job
\* or a call; a call that is about to hand one over has it.
HandedOver ==
    /\ \A s \in Server : session[s].lock # 0 =>
        /\ session[s].lock \notin stored
        /\ \A r \in Request : record[r] # None => record[r].receipt # session[s].lock
        /\ \A r \in Request : job[r] # "none" => record[r].source # session[s].lock
        /\ \A t \in Server :
            /\ session[t].memory # session[s].lock
            /\ pc[t] \in {"receipt", "record", "submit"} => call[t].lock # session[s].lock
    /\ \A s \in Server :
        pc[s] \in {"disconnect", "release", "confirm"} /\ call[s].purpose = "handoff" =>
            session[s].lock = call[s].lock

HandoffInv == TypeOK /\ ClientsCovered /\ CallsKnown /\ LocksMade /\ HandedOver

=============================================================================
