----------------------- MODULE SolverLeaseProperties -----------------------
(***************************************************************************)
(* What the processes of a host may rely on when one of them is told that  *)
(* the solver lease is its own.                                            *)
(***************************************************************************)
EXTENDS SolverLease

\* Shapes of the lease, of the calls and of the host.
TypeOK ==
    /\ lease \in Leases
    /\ lock \in Process \cup {None}
    /\ alive \subseteq Process
    /\ mine \subseteq alive
    /\ running \subseteq Server
    /\ pc \in [Process -> Pcs]
    /\ op \in [Process -> Ops]
    /\ target \in [Process -> Server \cup {None}]
    /\ seen \in [Process -> Leases]
    /\ overlap \in [Process -> SUBSET Server]

\* The lease names whoever was told it is his own, until he gives it back:
\* neither a recovery, nor a rollback, nor another acquisition takes it away.
LeaseNamesOwner == \A p \in mine : lease = p

\* One process is in a locked section, and what it read is still so.
LockedIsCurrent ==
    \A p \in Process :
        /\ pc[p] \notin {"idle", "down"} <=> lock = p
        /\ pc[p] \in {"unlink", "create"} => lease = seen[p]
        /\ pc[p] \in {"write", "undo"} => lease = "unreadable"
        /\ pc[p] \in {"rescan", "rollback"} => lease = p

\* What a process is about to remove is its own lease or that of a dead one,
\* it publishes only what it was not given before, and it knows the servers
\* that have run ever since.
StepsAreFounded ==
    \A p \in Process :
        /\ pc[p] = "down" <=> p \notin alive
        /\ pc[p] = "scan" /\ op[p] # "attach" => lease = seen[p]
        /\ pc[p] = "scan" /\ op[p] = "recover" => seen[p] \in Process
        /\ pc[p] = "unlink" => \/ op[p] = "release" /\ seen[p] = p
                               \/ op[p] = "recover" /\ seen[p] \in Process \ alive
        /\ pc[p] \in {"write", "undo", "rescan", "rollback"} => p \notin mine
        /\ IF pc[p] \in {"rescan", "rollback"}
           THEN overlap[p] \subseteq running \ {target[p]}
           ELSE overlap[p] = {}

LeaseInv == TypeOK /\ LeaseNamesOwner /\ LockedIsCurrent /\ StepsAreFounded

\* A lease that names a process is removed by that process or after its death.
TakenFromTheDead ==
    [][\A p \in Process : lease = p /\ lease' # p => lock = p \/ p \notin alive]_vars

\* No lease is granted while a server runs that was there when the lease was
\* published and that is not the one it was asked for.
GrantedAlone == [][\A p \in mine' \ mine : overlap[p] = {}]_vars

\* To those who use it the lease is a lock that a death frees.
ImplementsAtomicLock == Lock!Spec

\* A file that nobody can read, and so nobody can recover, is left only by a
\* death between its creation and its writing, or when its removal was refused.
UnreadableIsTorn ==
    [][lock # None /\ lock' = None /\ lease' = "unreadable" =>
        \/ lease = "unreadable" /\ pc[lock] \notin {"write", "undo"}
        \/ lock \notin alive'
        \/ pc[lock] = "undo" /\ "unlink" \in Faults]_vars

=============================================================================
