--------------------------- MODULE SolverLeaseProofs ---------------------------
(***************************************************************************)
(* Proofs about the solver lease and the session that has it: SolverLease  *)
(* for any processes, servers, faults and deaths, SessionStart for any     *)
(* faults and any number of starts and connects.                           *)
(***************************************************************************)
EXTENDS SolverLeaseProperties, SessionStartProperties, TLAPS

\* What every step below needs: the shape of the state and of the invariant.
USE NoneAssumption, LeaseAssumption
    DEF TypeOK, LeaseNamesOwner, LockedIsCurrent, StepsAreFounded, Leases, Ops, Pcs, Goto, Leave

LEMMA Initially == Init => LeaseInv
  BY DEF Init, LeaseInv

LEMMA EnterKeeps ==
  ASSUME LeaseInv, NEW p \in Process, NEW o \in Ops, NEW t \in Server \cup {None}, Enter(p, o, t) PROVE LeaseInv'
<1> USE DEF LeaseInv, Enter
<1>1. TypeOK'
  OBVIOUS
<1>2. LeaseNamesOwner'
  OBVIOUS
<1>3. LockedIsCurrent'
  OBVIOUS
<1>4. StepsAreFounded'
  OBVIOUS
<1> QED
  BY <1>1, <1>2, <1>3, <1>4

LEMMA LookKeeps ==
  ASSUME LeaseInv, NEW p \in Process, Look(p) PROVE LeaseInv'
<1> USE DEF LeaseInv, Look, AfterLook
<1>1. TypeOK'
  OBVIOUS
<1>2. LeaseNamesOwner'
  OBVIOUS
<1>3. LockedIsCurrent'
  OBVIOUS
<1>4. StepsAreFounded'
  OBVIOUS
<1> QED
  BY <1>1, <1>2, <1>3, <1>4

LEMMA ScanFailsKeeps ==
  ASSUME LeaseInv, NEW p \in Process, ScanFails(p) PROVE LeaseInv'
<1> USE DEF LeaseInv, ScanFails
<1>1. TypeOK'
  OBVIOUS
<1>2. LeaseNamesOwner'
  OBVIOUS
<1>3. LockedIsCurrent'
  OBVIOUS
<1>4. StepsAreFounded'
  OBVIOUS
<1> QED
  BY <1>1, <1>2, <1>3, <1>4

LEMMA ScanToAcquireKeeps ==
  ASSUME LeaseInv, NEW p \in Process, ScanToAcquire(p) PROVE LeaseInv'
<1> USE DEF LeaseInv, ScanToAcquire, Collision
<1>1. TypeOK'
  OBVIOUS
<1>2. LeaseNamesOwner'
  OBVIOUS
<1>3. LockedIsCurrent'
  OBVIOUS
<1>4. StepsAreFounded'
  OBVIOUS
<1> QED
  BY <1>1, <1>2, <1>3, <1>4

LEMMA ScanToAttachKeeps ==
  ASSUME LeaseInv, NEW p \in Process, ScanToAttach(p) PROVE LeaseInv'
<1> USE DEF LeaseInv, ScanToAttach, Collision
<1>1. TypeOK'
  OBVIOUS
<1>2. LeaseNamesOwner'
  OBVIOUS
<1>3. LockedIsCurrent'
  OBVIOUS
<1>4. StepsAreFounded'
  OBVIOUS
<1> QED
  BY <1>1, <1>2, <1>3, <1>4

LEMMA ScanToRecoverKeeps ==
  ASSUME LeaseInv, NEW p \in Process, ScanToRecover(p) PROVE LeaseInv'
<1> USE DEF LeaseInv, ScanToRecover, ScanRecoversAny
<1>1. TypeOK'
  OBVIOUS
<1>2. LeaseNamesOwner'
  OBVIOUS
<1>3. LockedIsCurrent'
  OBVIOUS
<1>4. StepsAreFounded'
  OBVIOUS
<1> QED
  BY <1>1, <1>2, <1>3, <1>4

LEMMA CreateKeeps ==
  ASSUME LeaseInv, NEW p \in Process, Create(p) PROVE LeaseInv'
<1> USE DEF LeaseInv, Create
<1>1. TypeOK'
  OBVIOUS
<1>2. LeaseNamesOwner'
  OBVIOUS
<1>3. LockedIsCurrent'
  OBVIOUS
<1>4. StepsAreFounded'
  OBVIOUS
<1> QED
  BY <1>1, <1>2, <1>3, <1>4

LEMMA WriteKeeps ==
  ASSUME LeaseInv, NEW p \in Process, Write(p) PROVE LeaseInv'
<1> USE DEF LeaseInv, Write
<1>1. TypeOK'
  OBVIOUS
<1>2. LeaseNamesOwner'
  OBVIOUS
<1>3. LockedIsCurrent'
  OBVIOUS
<1>4. StepsAreFounded'
  OBVIOUS
<1> QED
  BY <1>1, <1>2, <1>3, <1>4

LEMMA WriteFailsKeeps ==
  ASSUME LeaseInv, NEW p \in Process, WriteFails(p) PROVE LeaseInv'
<1> USE DEF LeaseInv, WriteFails
<1>1. TypeOK'
  OBVIOUS
<1>2. LeaseNamesOwner'
  OBVIOUS
<1>3. LockedIsCurrent'
  OBVIOUS
<1>4. StepsAreFounded'
  OBVIOUS
<1> QED
  BY <1>1, <1>2, <1>3, <1>4

LEMMA UndoKeeps ==
  ASSUME LeaseInv, NEW p \in Process, Undo(p) PROVE LeaseInv'
<1> USE DEF LeaseInv, Undo
<1>1. TypeOK'
  OBVIOUS
<1>2. LeaseNamesOwner'
  OBVIOUS
<1>3. LockedIsCurrent'
  OBVIOUS
<1>4. StepsAreFounded'
  OBVIOUS
<1> QED
  BY <1>1, <1>2, <1>3, <1>4

LEMMA RescanKeeps ==
  ASSUME LeaseInv, NEW p \in Process, Rescan(p) PROVE LeaseInv'
<1> USE DEF LeaseInv, Rescan, RescanSkipped, Collision
<1>1. TypeOK'
  OBVIOUS
<1>2. LeaseNamesOwner'
  OBVIOUS
<1>3. LockedIsCurrent'
  OBVIOUS
<1>4. StepsAreFounded'
  OBVIOUS
<1> QED
  BY <1>1, <1>2, <1>3, <1>4

LEMMA RollbackKeeps ==
  ASSUME LeaseInv, NEW p \in Process, Rollback(p) PROVE LeaseInv'
<1> USE DEF LeaseInv, Rollback
<1>1. TypeOK'
  OBVIOUS
<1>2. LeaseNamesOwner'
  OBVIOUS
<1>3. LockedIsCurrent'
  OBVIOUS
<1>4. StepsAreFounded'
  OBVIOUS
<1> QED
  BY <1>1, <1>2, <1>3, <1>4

LEMMA UnlinkKeeps ==
  ASSUME LeaseInv, NEW p \in Process, Unlink(p) PROVE LeaseInv'
<1> USE DEF LeaseInv, Unlink
<1>1. TypeOK'
  OBVIOUS
<1>2. LeaseNamesOwner'
  OBVIOUS
<1>3. LockedIsCurrent'
  OBVIOUS
<1>4. StepsAreFounded'
  OBVIOUS
<1> QED
  BY <1>1, <1>2, <1>3, <1>4

LEMMA DieKeeps ==
  ASSUME LeaseInv, NEW p \in Process, Die(p) PROVE LeaseInv'
<1> USE DEF LeaseInv, Die
<1>1. TypeOK'
  OBVIOUS
<1>2. LeaseNamesOwner'
  OBVIOUS
<1>3. LockedIsCurrent'
  OBVIOUS
<1>4. StepsAreFounded'
  OBVIOUS
<1> QED
  BY <1>1, <1>2, <1>3, <1>4

LEMMA ServerKeeps ==
  ASSUME LeaseInv, NEW s \in Server, ServerStarts(s) \/ ServerStops(s) PROVE LeaseInv'
<1> USE DEF LeaseInv, ServerStarts, ServerStops, locals
<1>1. TypeOK'
  OBVIOUS
<1>2. LeaseNamesOwner'
  OBVIOUS
<1>3. LockedIsCurrent'
  OBVIOUS
<1>4. StepsAreFounded'
  OBVIOUS
<1> QED
  BY <1>1, <1>2, <1>3, <1>4

LEMMA StepKeeps ==
  ASSUME LeaseInv, NEW p \in Process, Step(p) PROVE LeaseInv'
  BY LookKeeps, ScanFailsKeeps, ScanToAcquireKeeps, ScanToAttachKeeps, ScanToRecoverKeeps,
     CreateKeeps, WriteKeeps, WriteFailsKeeps, UndoKeeps, RescanKeeps, RollbackKeeps, UnlinkKeeps
     DEF Step

LEMMA CallKeeps ==
  ASSUME LeaseInv, NEW p \in Process, Call(p) PROVE LeaseInv'
<1>1. running \subseteq Server
  BY DEF LeaseInv
<1> QED
  BY <1>1, EnterKeeps DEF Call

LEMMA NextKeeps == LeaseInv /\ [Next]_vars => LeaseInv'
<1> SUFFICES ASSUME LeaseInv, [Next]_vars PROVE LeaseInv'
  OBVIOUS
<1>1. CASE UNCHANGED vars
  BY <1>1 DEF vars, locals, LeaseInv
<1>2. ASSUME NEW p \in Process, Call(p) \/ Step(p) \/ Die(p) PROVE LeaseInv'
  BY <1>2, CallKeeps, StepKeeps, DieKeeps
<1>3. ASSUME NEW s \in Server, ServerStarts(s) \/ ServerStops(s) PROVE LeaseInv'
  BY <1>3, ServerKeeps
<1> QED
  BY <1>1, <1>2, <1>3 DEF Next

\* The invariant of acquire, acquire_attached, release and recover_stale: the
\* lease names whoever was told it is his own.
THEOREM LeaseInvariant == Spec => []LeaseInv
  BY Initially, NextKeeps, PTL DEF Spec

\* A lease that names a process is removed by that process or after its death:
\* recover_stale never takes the lease of a process that runs.
THEOREM OnlyTheDeadLoseIt == Spec => TakenFromTheDead
<1> DEFINE Founded == \A p \in Process : lease = p /\ lease' # p => lock = p \/ p \notin alive
<1>1. ASSUME LeaseInv, NEW q \in Process, Step(q) PROVE Founded
  <2>1. CASE Undo(q) \/ Rollback(q) \/ Unlink(q)
    BY <1>1, <2>1 DEF LeaseInv, Undo, Rollback, Unlink
  <2>2. CASE Write(q) \/ Create(q)
    BY <1>1, <2>2 DEF LeaseInv, Write, Create
  <2>3. CASE UNCHANGED lease
    BY <2>3
  <2> QED
    BY <1>1, <2>1, <2>2, <2>3
       DEF Step, Look, ScanFails, ScanToAcquire, ScanToAttach, ScanToRecover, ScanRecoversAny,
           WriteFails, Rescan, RescanSkipped
<1>2. LeaseInv /\ [Next]_vars => [Founded]_vars
  <2> SUFFICES ASSUME LeaseInv, Next PROVE Founded
    OBVIOUS
  <2>1. CASE UNCHANGED lease
    BY <2>1
  <2> QED
    BY <1>1, <2>1 DEF Next, Call, Enter, Die, ServerStarts, ServerStops
<1> QED
  BY <1>2, LeaseInvariant, PTL DEF Spec, TakenFromTheDead

\* acquire and acquire_attached grant the lease only if no other server has run
\* since it was published.
THEOREM LeaseIsGrantedAlone == Spec => GrantedAlone
<1> DEFINE Alone == \A p \in mine' \ mine : overlap[p] = {}
<1>1. ASSUME LeaseInv, NEW q \in Process, Step(q) PROVE Alone
  <2>1. CASE ScanToAcquire(q)
    BY <1>1, <2>1 DEF LeaseInv, ScanToAcquire
  <2>2. CASE Rescan(q)
    BY <1>1, <2>2 DEF LeaseInv, Rescan, RescanSkipped, Collision
  <2>3. CASE mine' \subseteq mine
    BY <2>3
  <2> QED
    BY <1>1, <2>1, <2>2, <2>3
       DEF Step, Look, ScanFails, ScanToAttach, ScanToRecover, ScanRecoversAny, Create, Write,
           WriteFails, Undo, Rollback, Unlink
<1>2. LeaseInv /\ [Next]_vars => [Alone]_vars
  <2> SUFFICES ASSUME LeaseInv, Next PROVE Alone
    OBVIOUS
  <2>1. CASE mine' \subseteq mine
    BY <2>1
  <2> QED
    BY <1>1, <2>1 DEF Next, Call, Enter, Die, ServerStarts, ServerStops
<1> QED
  BY <1>2, LeaseInvariant, PTL DEF Spec, GrantedAlone

\* Only a death between creation and writing, or a refused removal, leaves a
\* lease that nobody can read.
THEOREM UnreadableLease == Spec => UnreadableIsTorn
<1> DEFINE Torn ==
      lock # None /\ lock' = None /\ lease' = "unreadable" =>
        \/ lease = "unreadable" /\ pc[lock] \notin {"write", "undo"}
        \/ lock \notin alive'
        \/ pc[lock] = "undo" /\ "unlink" \in Faults
<1>1. ASSUME LeaseInv, NEW q \in Process, Step(q) PROVE Torn
  <2>1. CASE lock' = lock
    BY <2>1
  <2>2. CASE Look(q) \/ ScanFails(q) \/ ScanToAcquire(q) \/ ScanToAttach(q) \/ ScanToRecover(q)
    BY <1>1, <2>1, <2>2
       DEF LeaseInv, Look, ScanFails, ScanToAcquire, ScanToAttach, ScanToRecover, ScanRecoversAny
  <2>3. CASE Create(q) \/ Undo(q) \/ Rescan(q) \/ Rollback(q) \/ Unlink(q)
    BY <1>1, <2>1, <2>3 DEF LeaseInv, Create, Undo, Rescan, RescanSkipped, Rollback, Unlink
  <2> QED
    BY <1>1, <2>1, <2>2, <2>3 DEF Step, Write, WriteFails
<1>2. ASSUME LeaseInv, NEW q \in Process, Die(q) PROVE Torn
  BY <1>2 DEF LeaseInv, Die
<1>3. LeaseInv /\ [Next]_vars => [Torn]_vars
  <2> SUFFICES ASSUME LeaseInv, Next PROVE Torn
    OBVIOUS
  <2>1. ASSUME NEW q \in Process, Call(q) PROVE Torn
    BY <2>1 DEF Call, Enter
  <2>2. ASSUME NEW s \in Server, ServerStarts(s) \/ ServerStops(s) PROVE Torn
    BY <2>2 DEF ServerStarts, ServerStops
  <2> QED
    BY <1>1, <1>2, <2>1, <2>2 DEF Next
<1> QED
  BY <1>3, LeaseInvariant, PTL DEF Spec, UnreadableIsTorn

-----------------------------------------------------------------------------
(* SolverLease implements AtomicLock.                                      *)

\* At most one process is told that the lease is its own, so there is no
\* choice in holder.
LEMMA HolderIsNamed ==
  ASSUME LeaseInv
  PROVE  /\ mine = {} => holder = None
         /\ \A p \in mine : holder = p /\ mine = {p}
<1> USE DEF LeaseInv, holder
<1>1. ASSUME NEW p \in mine PROVE mine = {p}
  BY <1>1
<1> QED
  BY <1>1

LEMMA HolderStaysNamed ==
  ASSUME LeaseInv, [Next]_vars
  PROVE  /\ mine' = {} => holder' = None
         /\ \A p \in mine' : holder' = p /\ mine' = {p}
<1>1. LeaseInv'
  BY NextKeeps
<1>2. (LeaseInv => /\ mine = {} => holder = None
                   /\ \A p \in mine : holder = p /\ mine = {p})'
  BY HolderIsNamed, PTL
<1> QED
  BY <1>1, <1>2

LEMMA StepImplements ==
  ASSUME LeaseInv, [Next]_vars, NEW q \in Process, Step(q)
  PROVE  [Lock!Next]_(Lock!atomicVars)
<1> USE HolderIsNamed, HolderStaysNamed DEF LeaseInv, Lock!Next, Lock!atomicVars
<1>0. alive' = alive /\ (lock = q => q \in alive)
  BY DEF Step, Look, ScanFails, ScanToAcquire, ScanToAttach, ScanToRecover, ScanRecoversAny, Create,
         Write, WriteFails, Undo, Rescan, RescanSkipped, Rollback, Unlink
<1>1. CASE mine' = mine
  <2>1. holder' = holder
    BY <1>1 DEF holder
  <2> QED
    BY <1>0, <2>1
<1>2. CASE mine' = mine \cup {q} /\ mine' # mine
  <2>1. mine = {} /\ mine' = {q}
    BY <1>2
  <2>2. q \in alive
    BY <1>1, <1>2, NextKeeps, <1>0
  <2>3. Lock!Acquire(q)
    BY <1>0, <2>1, <2>2 DEF Lock!Acquire
  <2> QED
    BY <2>3
<1>3. CASE mine' = mine \ {q} /\ mine' # mine
  <2>1. mine = {q} /\ mine' = {}
    BY <1>3
  <2>2. Lock!Release(q)
    BY <1>0, <2>1 DEF Lock!Release
  <2> QED
    BY <2>2
<1>4. mine' = mine \/ mine' = mine \cup {q} \/ mine' = mine \ {q}
  BY DEF Step, Look, ScanFails, ScanToAcquire, ScanToAttach, ScanToRecover, ScanRecoversAny, Create,
         Write, WriteFails, Undo, Rescan, RescanSkipped, Rollback, Unlink
<1> QED
  BY <1>1, <1>2, <1>3, <1>4

\* To its users the lease is a lock that one process has at a time and that its
\* death frees.
THEOREM LeaseIsALock == Spec => ImplementsAtomicLock
<1>1. Init => Lock!Init
  BY DEF Init, holder, Lock!Init
<1>2. LeaseInv /\ [Next]_vars => [Lock!Next]_(Lock!atomicVars)
  <2> SUFFICES ASSUME LeaseInv, [Next]_vars PROVE [Lock!Next]_(Lock!atomicVars)
    OBVIOUS
  <2>1. CASE UNCHANGED <<mine, alive>>
    BY <2>1 DEF holder, Lock!atomicVars
  <2>2. ASSUME NEW q \in Process, Step(q) PROVE [Lock!Next]_(Lock!atomicVars)
    BY <2>2, StepImplements
  <2>3. ASSUME NEW q \in Process, Die(q) PROVE [Lock!Next]_(Lock!atomicVars)
    <3>1. Lock!Die(q)
      <4>1. q \in alive /\ alive' = alive \ {q} /\ mine' = mine \ {q}
        BY <2>3 DEF Die
      <4>2. holder' = IF holder # None /\ holder = q THEN None ELSE holder
        <5>1. CASE mine = {}
          BY <4>1, <5>1, HolderIsNamed, HolderStaysNamed
        <5>2. ASSUME NEW p \in mine PROVE holder' = IF holder # None /\ holder = q THEN None ELSE holder
          BY <4>1, <5>2, HolderIsNamed, HolderStaysNamed DEF LeaseInv
        <5> QED
          BY <5>1, <5>2
      <4>3. holder # None => [p \in Process |-> p][holder] = holder
        BY HolderIsNamed DEF LeaseInv
      <4> QED
        BY <4>1, <4>2, <4>3 DEF Lock!Die
    <3> QED
      BY <3>1 DEF Lock!Next
  <2> QED
    BY <2>1, <2>2, <2>3 DEF Next, Call, Enter, ServerStarts, ServerStops, vars
<1> QED
  BY <1>1, <1>2, LeaseInvariant, PTL DEF Spec, ImplementsAtomicLock, Lock!Spec

-----------------------------------------------------------------------------
HIDE DEF TypeOK, LeaseNamesOwner, LockedIsCurrent, StepsAreFounded, Leases, Ops, Pcs, Goto, Leave
(* The interactive session.  What a step does to the locals of a worker,   *)
(* and a release to the lease.                                             *)

(* To change the step changes no local.                                    *)
LEMMA GotoEffect ==
  ASSUME SessionTypeOK, NEW a \in Attempt, NEW step \in WorkerPcs, WorkerGoto(a, step)
  PROVE  /\ worker' \in [Attempt -> WorkerRecord]
         /\ \A b \in Attempt : b # a => worker'[b] = worker[b]
         /\ worker'[a].pc = step
         /\ worker'[a].client = worker[a].client
         /\ worker'[a].errors = worker[a].errors
         /\ worker'[a].loaded = worker[a].loaded
         /\ worker'[a].retired = worker[a].retired
         /\ worker'[a].released = worker[a].released
  BY DEF SessionTypeOK, WorkerGoto, WorkerRecord

(* What a release leaves.                                                  *)
LEMMA ReleaseEffect ==
  ASSUME FlagsTyped, Release
  PROVE  /\ owns' \in BOOLEAN /\ hasLease' \in BOOLEAN /\ refused' \in BOOLEAN
         /\ ~owns' \/ refused'
         /\ (owns => hasLease) => (owns' => hasLease')
         /\ (hasLease => owns) => (hasLease' => owns')
         /\ owns' => hasLease' = hasLease
<1>1. CASE ~owns /\ UNCHANGED possession
  BY <1>1 DEF FlagsTyped, possession
<1>2. CASE owns /\ hasLease' = FALSE /\ owns' = FALSE /\ refused' = FALSE
  BY <1>2
<1>3. CASE owns /\ refused' = TRUE /\ UNCHANGED <<hasLease, owns>>
  BY <1>3 DEF FlagsTyped
<1> QED BY <1>1, <1>2, <1>3 DEF Release

(* New locals.                                                             *)
LEMMA UpdateEffect ==
  ASSUME SessionTypeOK, NEW a \in Attempt, NEW w \in WorkerRecord,
         worker' = [worker EXCEPT ![a] = w]
  PROVE  /\ worker' \in [Attempt -> WorkerRecord]
         /\ \A b \in Attempt : b # a => worker'[b] = worker[b]
         /\ worker'[a] = w
  BY DEF SessionTypeOK

LocalsKept(a) ==
  /\ worker'[a].client = worker[a].client
  /\ worker'[a].errors = worker[a].errors
  /\ worker'[a].loaded = worker[a].loaded
  /\ worker'[a].retired = worker[a].retired
  /\ worker'[a].released = worker[a].released

(* Where an exception leads.                                               *)
LEMMA RaiseEffect ==
  ASSUME SessionTypeOK, NEW a \in Attempt, Raise(a)
  PROVE  /\ worker' \in [Attempt -> WorkerRecord]
         /\ \A b \in Attempt : b # a => worker'[b] = worker[b]
         /\ \/ worker'[a].pc = "retire_failed" /\ worker[a].client # "none"
            \/ worker'[a].pc = "fail" /\ worker[a].client = "none"
         /\ LocalsKept(a)
<1>1. PICK step \in {"retire_failed", "fail"} :
        /\ WorkerGoto(a, step)
        /\ step = "retire_failed" <=> worker[a].client # "none"
  BY DEF Raise
<1>2. step \in WorkerPcs
  BY DEF WorkerPcs, EndSteps
<1> QED BY <1>1, <1>2, GotoEffect DEF LocalsKept

(* What is noted under the lock.                                           *)
LEMMA NoteEffect ==
  ASSUME SessionTypeOK, NEW a \in Attempt, NEW to \in WorkerPcs, Note(a, to)
  PROVE  /\ UNCHANGED <<client, reusable, starting, cancelled, error, restart, attempt, guard,
                        watchdog, tool, ended, connects>>
         /\ cleanup' \in BOOLEAN /\ (cleanup => cleanup')
         /\ worker' \in [Attempt -> WorkerRecord]
         /\ \A b \in Attempt : b # a => worker'[b] = worker[b]
         /\ \/ worker'[a].pc = to
            \/ ~cancelled /\ worker'[a].pc = "retire_failed" /\ worker[a].client # "none"
            \/ ~cancelled /\ worker'[a].pc = "fail" /\ worker[a].client = "none"
         /\ LocalsKept(a)
<1>1. UNCHANGED <<client, reusable, starting, cancelled, error, restart, attempt, guard,
                  watchdog, tool, ended, connects>>
  BY DEF Note, Elsewhere
<1>2. cleanup' \in BOOLEAN /\ (cleanup => cleanup')
  BY DEF Note, SessionTypeOK, FlagsTyped
<1>3. CASE WorkerGoto(a, to)
  BY <1>1, <1>2, <1>3, GotoEffect DEF LocalsKept
<1>4. CASE ~cancelled /\ Raise(a)
  BY <1>1, <1>2, <1>4, RaiseEffect
<1> QED BY <1>3, <1>4 DEF Note, Unrecorded

(* What a retirement keeps for the next start.                             *)
LEMMA RetireTyped ==
  ASSUME NEW kind, NEW errors, Retire(kind, errors)
  PROVE  reusable' \in MaybeClient
  BY DEF Retire, MaybeClient, Kind

-----------------------------------------------------------------------------
(* The types, and that a start has its attempt, hold whatever the tools    *)
(* and the workers do.                                                     *)

Typed == SessionTypeOK /\ LaunchKnown

(* What a worker or a timer may write, by its type, and what it leaves.    *)
Writes ==
  /\ FlagsTyped' /\ (starting' => starting)
  /\ client' \in MaybeClient /\ reusable' \in MaybeClient
  /\ guard' \in 0..MaxStarts
  /\ watchdog' \in [Attempt -> {"none", "armed", "expired", "off"}]
  /\ worker' \in [Attempt -> WorkerRecord]
  /\ ended' \subseteq Attempt
  /\ UNCHANGED <<attempt, tool, retiring, early, connects>>

LEMMA WritesTyped ==
  ASSUME Typed, Writes
  PROVE  Typed'
  BY DEF Typed, SessionTypeOK, LaunchKnown, Writes

(* The words that the steps use are known.                                 *)
LEMMA Words ==
  /\ EndSteps \subseteq WorkerPcs
  /\ {"none", "grace", "preflight", "check", "obey_check", "acquire", "own", "obey_own", "load",
      "check_construct", "construct", "publish", "done"} \subseteq WorkerPcs
  /\ {"retire_failed", "fail", "finally", "retire_cancelled", "discard", "give_up"}
       \subseteq WorkerPcs
  /\ MaybeClient = {"standalone", "remote", "none"}
  /\ ToolPcs = {"idle", "launch", "arm", "retire", "drop", "release"}
  BY DEF EndSteps, WorkerPcs, MaybeClient, Kind, ToolPcs

(* A worker takes a client.                                                *)
LEMMA TakeTyped ==
  ASSUME SessionTypeOK, NEW a \in Attempt, NEW step \in WorkerPcs, NEW kind \in MaybeClient,
         worker' = [worker EXCEPT ![a].pc = step, ![a].client = kind]
  PROVE  worker' \in [Attempt -> WorkerRecord]
  BY DEF SessionTypeOK, WorkerRecord

(* The steps before a client is made.                                      *)
LEMMA EarlyStepTyped ==
  ASSUME Typed, NEW a \in Attempt,
         \/ BeginWork(a) \/ Preflight(a) \/ Acquire(a) \/ Own(a)
         \/ Obey(a, "obey_check", "acquire") \/ Obey(a, "obey_own", "load")
  PROVE  Typed'
<1>1. SessionTypeOK
  BY DEF Typed
<1>2. worker' \in [Attempt -> WorkerRecord]
  <2>1. CASE BeginWork(a)
    <3>1. \/ Raise(a)
          \/ \E step \in WorkerPcs, kind \in MaybeClient :
               worker' = [worker EXCEPT ![a].pc = step, ![a].client = kind]
      <4> DEFINE step == IF a = attempt THEN "preflight" ELSE "finally"
                 kind == IF a = attempt THEN reusable ELSE "none"
      <4>1. step \in WorkerPcs /\ kind \in MaybeClient
        BY <1>1, Words DEF SessionTypeOK
      <4>2. Raise(a) \/ worker' = [worker EXCEPT ![a].pc = step, ![a].client = kind]
        BY <2>1 DEF BeginWork, Unrecorded
      <4> QED BY <4>1, <4>2
    <3> QED BY <1>1, <3>1, RaiseEffect, TakeTyped
  <2>2. ASSUME NEW step \in WorkerPcs, WorkerGoto(a, step) PROVE worker' \in [Attempt -> WorkerRecord]
    BY <1>1, <2>2, GotoEffect
  <2>3. CASE Preflight(a)
    BY <1>1, <2>2, <2>3, RaiseEffect, Words DEF Preflight
  <2>4. CASE Acquire(a)
    BY <1>1, <2>2, <2>4, RaiseEffect, Words DEF Acquire
  <2>5. CASE Own(a)
    BY <1>1, <2>2, <2>5, RaiseEffect, Words DEF Own, Unrecorded
  <2>6. CASE Obey(a, "obey_check", "acquire") \/ Obey(a, "obey_own", "load")
    BY <2>2, <2>6, Words DEF Obey
  <2> QED BY <2>1, <2>3, <2>4, <2>5, <2>6
<1>3. /\ UNCHANGED <<client, reusable, starting, cancelled, error, restart, attempt>>
      /\ Elsewhere
  BY DEF BeginWork, Preflight, Acquire, Own, Obey, session
<1>4. /\ cleanup' \in BOOLEAN /\ owns' \in BOOLEAN /\ hasLease' \in BOOLEAN
      /\ refused' \in BOOLEAN
  BY <1>1 DEF BeginWork, Preflight, Acquire, Own, Obey, session, possession, SessionTypeOK, FlagsTyped
<1> QED BY <1>1, <1>2, <1>3, <1>4, WritesTyped DEF Writes, Elsewhere, SessionTypeOK, FlagsTyped

(* The steps that look for a cancellation, and those about the client.     *)
LEMMA ClientStepTyped ==
  ASSUME Typed, NEW a \in Attempt,
         Check(a) \/ CheckConstruct(a) \/ Load(a) \/ Construct(a) \/ Publish(a)
  PROVE  Typed'
<1>1. SessionTypeOK /\ worker[a].client \in MaybeClient
  BY DEF Typed, SessionTypeOK, WorkerRecord
<1>2. /\ FlagsTyped' /\ (starting' => starting) /\ client' \in MaybeClient
      /\ reusable' \in MaybeClient /\ UNCHANGED attempt /\ Elsewhere
  <2>1. CASE Check(a) \/ CheckConstruct(a) \/ Load(a)
    BY <1>1, <2>1 DEF Check, CheckConstruct, Load, Note, possession, SessionTypeOK, FlagsTyped
  <2>2. CASE Construct(a)
    BY <1>1, <2>2 DEF Construct, session, possession, SessionTypeOK, FlagsTyped
  <2>3. CASE Publish(a) /\ cancelled
    BY <1>1, <2>3 DEF Publish, session, possession, SessionTypeOK, FlagsTyped
  <2>4. CASE Publish(a) /\ ~cancelled
    BY <1>1, <2>4, Words DEF Publish, possession, SessionTypeOK, FlagsTyped
  <2> QED BY <2>1, <2>2, <2>3, <2>4
<1>3. worker' \in [Attempt -> WorkerRecord]
  <2>1. ASSUME NEW step \in WorkerPcs, WorkerGoto(a, step) \/ Note(a, step)
        PROVE  worker' \in [Attempt -> WorkerRecord]
    BY <1>1, <2>1, GotoEffect, NoteEffect
  <2>2. CASE Check(a) \/ CheckConstruct(a)
    BY <2>1, <2>2, Words DEF Check, CheckConstruct
  <2>3. CASE Load(a)
    <3>1. PICK step \in WorkerPcs : worker' = [worker EXCEPT ![a].pc = step, ![a].loaded = TRUE]
      BY <2>3, Words DEF Load
    <3>2. worker[a] \in WorkerRecord /\ worker \in [Attempt -> WorkerRecord]
      BY <1>1 DEF SessionTypeOK
    <3>3. [worker[a] EXCEPT !.pc = step, !.loaded = TRUE] \in WorkerRecord
      BY <3>2 DEF WorkerRecord
    <3> QED BY <3>1, <3>2, <3>3
  <2>4. CASE worker' = [worker EXCEPT ![a].pc = "publish", ![a].client = "standalone"]
    <3>1. "publish" \in WorkerPcs /\ "standalone" \in MaybeClient
      BY Words
    <3> QED BY <1>1, <2>4, <3>1, TakeTyped
  <2>5. CASE Construct(a)
    BY <1>1, <2>4, <2>5, RaiseEffect DEF Construct
  <2>6. CASE Publish(a)
    BY <1>1, <2>1, <2>6, RaiseEffect, Words DEF Publish
  <2> QED BY <2>2, <2>3, <2>5, <2>6
<1> QED BY <1>1, <1>2, <1>3, WritesTyped DEF Writes, Elsewhere, SessionTypeOK

(* The except and finally clauses.                                         *)
LEMMA EndStepTyped ==
  ASSUME Typed, NEW a \in Attempt,
         \/ RetireFailed(a) \/ Fail(a) \/ Finally(a) \/ RetireCancelled(a) \/ Discard(a)
         \/ GiveUp(a)
  PROVE  Typed'
<1>1. /\ SessionTypeOK /\ worker[a] \in WorkerRecord
      /\ worker[a].client \in MaybeClient /\ worker[a].errors \in BOOLEAN
  BY DEF Typed, SessionTypeOK, WorkerRecord
<1>2. ASSUME NEW step \in WorkerPcs, WorkerGoto(a, step)
      PROVE  worker' \in [Attempt -> WorkerRecord]
  BY <1>1, <1>2, GotoEffect
<1>3. CASE RetireFailed(a) \/ RetireCancelled(a)
  <2>1. PICK errors \in BOOLEAN, step \in WorkerPcs :
          /\ Retire(worker[a].client, errors)
          /\ worker' = [worker EXCEPT ![a].pc = step, ![a].errors = errors, ![a].retired = TRUE]
    BY <1>3, Words DEF RetireFailed, RetireCancelled
  <2>2. worker' \in [Attempt -> WorkerRecord] /\ reusable' \in MaybeClient
    BY <1>1, <2>1, RetireTyped DEF SessionTypeOK, WorkerRecord
  <2>3. /\ UNCHANGED <<client, starting, cancelled, cleanup, error, restart, attempt, possession>>
        /\ Elsewhere
    BY <1>3 DEF RetireFailed, RetireCancelled
  <2> QED BY <1>1, <2>2, <2>3, WritesTyped
      DEF Writes, Elsewhere, SessionTypeOK, FlagsTyped, possession
<1>4. CASE Fail(a)
  <2>1. worker' \in [Attempt -> WorkerRecord]
    BY <1>1, <1>4, Words DEF Fail, SessionTypeOK, FlagsTyped, WorkerRecord
  <2>2. owns' \in BOOLEAN /\ hasLease' \in BOOLEAN /\ refused' \in BOOLEAN
    BY <1>1, <1>4, ReleaseEffect DEF Fail, possession, SessionTypeOK, FlagsTyped
  <2>3. FlagsTyped' /\ ~starting' /\ client' \in MaybeClient
    BY <1>1, <1>4, <2>2, Words DEF Fail, SessionTypeOK, FlagsTyped
  <2> QED BY <1>1, <1>4, <2>1, <2>3, WritesTyped DEF Fail, Writes, Elsewhere, SessionTypeOK
<1>5. CASE Finally(a)
  <2>1. worker' \in [Attempt -> WorkerRecord]
    BY <1>2, <1>5, Words DEF Finally, AfterFinally
  <2>2. /\ guard' \in 0..MaxStarts
        /\ watchdog' \in [Attempt -> {"none", "armed", "expired", "off"}]
    <3>1. guard' = 0 /\ (watchdog' = watchdog \/ watchdog' = [watchdog EXCEPT ![guard] = "off"])
      BY <1>5 DEF Finally
    <3> QED BY <1>1, <3>1, BoundsAssumption DEF SessionTypeOK
  <2>3. FlagsTyped' /\ (starting' => starting)
    BY <1>1, <1>5 DEF Finally, SessionTypeOK, FlagsTyped, possession
  <2>4. UNCHANGED <<client, reusable, attempt, tool, ended, connects, retiring, early>>
    BY <1>5 DEF Finally
  <2> QED BY <1>1, <2>1, <2>2, <2>3, <2>4, WritesTyped DEF Writes, SessionTypeOK
<1>6. CASE Discard(a) \/ GiveUp(a)
  <2>1. worker' \in [Attempt -> WorkerRecord]
    BY <1>2, <1>6, Words DEF Discard, GiveUp
  <2>2. owns' \in BOOLEAN /\ hasLease' \in BOOLEAN /\ refused' \in BOOLEAN
    BY <1>1, <1>6, ReleaseEffect DEF Discard, GiveUp, possession, SessionTypeOK, FlagsTyped
  <2>3. /\ FlagsTyped' /\ ~starting' /\ client' \in MaybeClient
        /\ UNCHANGED <<reusable, attempt>> /\ Elsewhere
    BY <1>1, <1>6, <2>2, Words DEF Discard, GiveUp, SessionTypeOK, FlagsTyped
  <2> QED BY <1>1, <2>1, <2>3, WritesTyped DEF Writes, Elsewhere, SessionTypeOK
<1> QED BY <1>3, <1>4, <1>5, <1>6

(* The watchdog.                                                           *)
LEMMA TimerTyped ==
  ASSUME Typed, NEW a \in Attempt, Expire(a) \/ Timeout(a)
  PROVE  Typed'
<1>1. SessionTypeOK
  BY DEF Typed
<1>2. CASE Expire(a)
  BY <1>1, <1>2, WritesTyped DEF Expire, Writes, session, possession, SessionTypeOK, FlagsTyped
<1>3. CASE Timeout(a)
  BY <1>1, <1>3, WritesTyped DEF Timeout, Writes, possession, SessionTypeOK, FlagsTyped
<1> QED BY <1>2, <1>3

(* The tools.                                                              *)
LEMMA ToolTyped ==
  ASSUME Typed, ToolCall \/ ToolGoesOn
  PROVE  Typed'
<1>1. SessionTypeOK /\ LaunchKnown /\ FlagsTyped
  BY DEF Typed, SessionTypeOK
<1>2. Acts => early' \in BOOLEAN
  BY <1>1 DEF Acts, SessionTypeOK
<1>3. Release => owns' \in BOOLEAN /\ hasLease' \in BOOLEAN /\ refused' \in BOOLEAN
  BY <1>1, ReleaseEffect
<1>4. ASSUME attempt < MaxStarts
      PROVE  attempt + 1 \in Attempt /\ attempt + 1 \in 0..MaxStarts
  BY <1>1, <1>4, BoundsAssumption DEF SessionTypeOK, Attempt
<1>5. CASE Start
  BY <1>1, <1>2, <1>4, <1>5, Words
     DEF Start, MayStart, Typed, SessionTypeOK, FlagsTyped, LaunchKnown, possession
<1>6. CASE StartUnrecorded
  BY <1>1, <1>2, <1>3, <1>4, <1>6, Words
     DEF StartUnrecorded, MayStart, Typed, SessionTypeOK, FlagsTyped, LaunchKnown
<1>7. CASE DisconnectLater
  BY <1>1, <1>7 DEF DisconnectLater, Typed, SessionTypeOK, FlagsTyped, LaunchKnown, possession
<1>8. CASE Disconnect
  BY <1>1, <1>2, <1>3, <1>8, Words
     DEF Disconnect, Typed, SessionTypeOK, FlagsTyped, LaunchKnown, possession
<1>9. CASE Connect
  <2>1. connects' \in 0..MaxConnects
    BY <1>1, <1>9, BoundsAssumption DEF Connect, SessionTypeOK
  <2>2. client' \in MaybeClient /\ reusable' \in MaybeClient
    BY <1>1, <1>9, Words, RetireTyped DEF Connect, SessionTypeOK
  <2>3. owns' \in BOOLEAN /\ hasLease' \in BOOLEAN /\ refused' \in BOOLEAN
    BY <1>9 DEF Connect, Possess
  <2> QED BY <1>1, <1>2, <1>9, <2>1, <2>2, <2>3
      DEF Connect, Typed, SessionTypeOK, FlagsTyped, LaunchKnown
<1>10. CASE Launch
  <2>1. attempt \in Attempt
    BY <1>1, <1>10 DEF Launch, LaunchKnown
  <2>2. worker' \in [Attempt -> WorkerRecord]
    BY <1>1, <1>10, <2>1, Words DEF Launch, SessionTypeOK, WorkerRecord
  <2> QED BY <1>1, <1>10, <2>1, <2>2, Words
      DEF Launch, Typed, SessionTypeOK, FlagsTyped, LaunchKnown, session, possession
<1>11. CASE Arm
  BY <1>1, <1>11, Words
     DEF Arm, Typed, SessionTypeOK, FlagsTyped, LaunchKnown, session, possession
<1>12. CASE DisconnectRetire
  <2>1. reusable' \in MaybeClient /\ tool' \in {"idle", "drop"}
    BY <1>12, RetireTyped DEF DisconnectRetire
  <2> QED BY <1>1, <1>12, <2>1, Words
      DEF DisconnectRetire, Typed, SessionTypeOK, FlagsTyped, LaunchKnown, possession
<1>13. CASE DisconnectDrop
  BY <1>1, <1>13, Words
     DEF DisconnectDrop, Typed, SessionTypeOK, FlagsTyped, LaunchKnown, possession
<1>14. CASE DisconnectRelease
  BY <1>1, <1>3, <1>14, Words
     DEF DisconnectRelease, Typed, SessionTypeOK, FlagsTyped, LaunchKnown, session
<1> QED BY <1>5, <1>6, <1>7, <1>8, <1>9, <1>10, <1>11, <1>12, <1>13, <1>14
        DEF ToolCall, ToolGoesOn

(* So every step keeps the types.                                          *)
LEMMA TypesKeep ==
  ASSUME Typed, [SessionNext]_sessionVars
  PROVE  Typed'
<1>1. CASE UNCHANGED sessionVars
  BY <1>1 DEF sessionVars, session, possession, Typed, SessionTypeOK, FlagsTyped, LaunchKnown
<1>2. ASSUME NEW a \in Attempt, Work(a) \/ Construct(a) PROVE Typed'
  BY <1>2, EarlyStepTyped, ClientStepTyped, EndStepTyped DEF Work
<1> QED BY <1>1, <1>2, TimerTyped, ToolTyped DEF SessionNext

-----------------------------------------------------------------------------
(* Until a tool acts beside a worker in its last clauses the session is    *)
(* undisturbed.  What the worker of the latest attempt owes to that,       *)
(* wherever it is.                                                         *)

CleanInv == Typed /\ Undisturbed

WorkerTells(a) ==
  LET w == worker[a] IN
  /\ LocalsTell(a)
  /\ OnItsWay(a) => (starting \/ cleanup) /\ client = "none" /\ (a \in ended => cancelled)
  /\ w.pc = "done" => ~starting /\ (owns => client # "none" \/ cleanup \/ refused)
  /\ owns => hasLease
  /\ hasLease => owns \/ w.pc = "own"
  /\ w.pc = "own" => hasLease
  /\ w.pc \in {"obey_own", "load"} => owns
  /\ Busy(a) /\ w.loaded /\ ~w.released => owns
  /\ Busy(a) /\ w.released => ~owns \/ refused
  /\ Busy(a) /\ client # "none" => client = w.client /\ (w.loaded \/ w.errors)
  /\ client # "none" => hasLease \/ LeftBehind
  /\ w.pc = "finally" =>
      /\ cancelled \/ ~starting
      /\ cancelled \/ client # "none" \/ ~owns \/ refused \/ cleanup
      /\ w.released => ~starting

(* A worker at work is that of the latest attempt, and alone.              *)
LEMMA BusyFacts ==
  ASSUME CleanInv, NEW a \in Attempt, Busy(a)
  PROVE  /\ a = attempt /\ tool \in {"idle", "arm"}
         /\ worker[a] \in WorkerRecord
         /\ \A b \in Attempt : b # a => ~Busy(b)
         /\ WorkerTells(a)
<1>1. a = attempt /\ worker[a] \in WorkerRecord /\ \A b \in Attempt : b # a => ~Busy(b)
  BY DEF CleanInv, Typed, Undisturbed, OneWorker, SessionTypeOK
<1>2. tool \in {"idle", "arm"}
  BY DEF CleanInv, Typed, Undisturbed, OneWorker, DisconnectAlone, Idle, Busy, NewWorker,
         SessionTypeOK, ToolPcs
<1>3. \A b \in Attempt : b # a => ~At(b, "own")
  BY <1>1 DEF Busy, At
<1>4. LocalsTell(a)
  BY DEF CleanInv, Undisturbed
<1>5. OnItsWay(a) => (starting \/ cleanup) /\ client = "none" /\ (a \in ended => cancelled)
  BY <1>1 DEF CleanInv, Undisturbed, UnderWay, EndedIsMarked
<1>6. /\ owns => hasLease
      /\ hasLease => owns \/ worker[a].pc = "own"
      /\ worker[a].pc = "own" => hasLease
      /\ worker[a].pc \in {"obey_own", "load"} => owns
      /\ Busy(a) /\ worker[a].loaded /\ ~worker[a].released => owns
      /\ Busy(a) /\ worker[a].released => ~owns \/ refused
  BY <1>3 DEF CleanInv, Undisturbed, LeaseKnown, At
<1>7. Busy(a) /\ client # "none" =>
        client = worker[a].client /\ (worker[a].loaded \/ worker[a].errors)
  BY DEF CleanInv, Undisturbed, ClientIsItsOwn
<1>8. client # "none" => hasLease \/ LeftBehind
  BY DEF CleanInv, Undisturbed, LeaseCoversClient
<1>9. worker[a].pc = "finally" =>
      /\ cancelled \/ ~starting
      /\ cancelled \/ client # "none" \/ ~owns \/ refused \/ cleanup
      /\ worker[a].released => ~starting
  BY DEF CleanInv, Undisturbed, EndIsReported, At
<1> QED BY <1>1, <1>2, <1>4, <1>5, <1>6, <1>7, <1>8, <1>9 DEF WorkerTells, Busy

Moves(a) ==
  /\ worker'[a].pc # "none"
  /\ \A b \in Attempt : b # a => worker'[b] = worker[b]
  /\ UNCHANGED <<attempt, tool, ended>>

(* A step of a worker keeps the invariant if it keeps what the worker owes. *)
LEMMA MoveKeeps ==
  ASSUME CleanInv, NEW a \in Attempt, Busy(a), Moves(a), WorkerTells(a)'
  PROVE  Undisturbed'
<1>1. /\ a = attempt /\ tool \in {"idle", "arm"} /\ tool' = tool /\ attempt' = attempt
      /\ ended' = ended
      /\ \A b \in Attempt : b # a => ~Busy(b) /\ worker'[b] = worker[b]
  BY BusyFacts DEF Moves
<1>2. \A b \in Attempt : b # a => ~Busy(b)' /\ ~At(b, "own")' /\ ~At(b, "finally")'
  BY <1>1 DEF Busy, At
<1>3. OneWorker'
  <2>1. \A b \in Attempt : ~(b > attempt \/ (b = attempt /\ tool = "launch")) \/ b # a
    BY <1>1 DEF CleanInv, Typed, SessionTypeOK
  <2> QED BY <1>1, <1>2, <2>1 DEF CleanInv, Undisturbed, OneWorker
<1>4. Idle' => worker'[a].pc = "done"
  BY DEF Idle, Busy, Moves
<1>5. UnderWay'
  BY <1>1, <1>2, <1>4 DEF UnderWay, WorkerTells, OnItsWay
<1>6. DisconnectAlone'
  BY <1>1 DEF DisconnectAlone
<1>7. ASSUME NEW b \in Attempt PROVE LocalsTell(b)'
  <2>1. CASE b = a
    BY <2>1 DEF WorkerTells
  <2>2. CASE b # a
    <3>1. worker'[b] = worker[b] /\ LocalsTell(b)
      BY <1>1, <2>2 DEF CleanInv, Undisturbed
    <3> QED BY <3>1 DEF LocalsTell, OnItsWay, Busy
  <2> QED BY <2>1, <2>2
<1>8. LeaseKnown'
  <2>1. (owns' => hasLease') /\ (hasLease' => owns' \/ At(a, "own")')
    BY DEF WorkerTells, At
  <2>2. ASSUME NEW b \in Attempt
        PROVE  /\ At(b, "own")' => hasLease'
               /\ At(b, "obey_own")' \/ At(b, "load")' => owns'
               /\ Busy(b)' /\ worker'[b].loaded /\ ~worker'[b].released => owns'
               /\ Busy(b)' /\ worker'[b].released => ~owns' \/ refused'
    <3>1. CASE b = a
      BY <3>1 DEF WorkerTells, At
    <3>2. CASE b # a
      BY <1>2, <3>2 DEF At, Busy
    <3> QED BY <3>1, <3>2
  <2> QED BY <2>1, <2>2 DEF LeaseKnown
<1>9. ClientIsItsOwn'
  BY <1>2 DEF ClientIsItsOwn, WorkerTells
<1>10. LeaseCoversClient'
  <2>1. client' # "none" => hasLease' \/ LeftBehind'
    BY DEF WorkerTells
  <2>2. Making' # {} => hasLease'
    <3>1. Making' # {} => worker'[a].pc \in {"construct", "publish", "retire_cancelled"}
      BY <1>2 DEF Making, Busy
    <3>2. worker'[a].pc \in {"construct", "publish", "retire_cancelled"} =>
            Busy(a)' /\ worker'[a].loaded /\ ~worker'[a].released
      BY DEF WorkerTells, LocalsTell, OnItsWay, Busy, EndSteps
    <3> QED BY <3>1, <3>2 DEF WorkerTells
  <2> QED BY <2>1, <2>2 DEF LeaseCoversClient, HeldUntilRetired
<1>11. EndIsReported'
  BY <1>2, <1>4 DEF EndIsReported, WorkerTells, At
<1>12. EndedIsMarked'
  <2>1. \A b \in ended : b <= attempt
    BY DEF CleanInv, Undisturbed, EndedIsMarked
  <2> QED BY <1>1, <2>1 DEF EndedIsMarked, WorkerTells
<1> QED BY <1>3, <1>5, <1>6, <1>7, <1>8, <1>9, <1>10, <1>11, <1>12 DEF Undisturbed

-----------------------------------------------------------------------------
(* The steps of a worker.                                                  *)

(* A worker takes up the latest attempt, with the client the process kept. *)
LEMMA BeginKeeps ==
  ASSUME CleanInv, NEW a \in Attempt, BeginWork(a)
  PROVE  Undisturbed'
<1>1. Busy(a) /\ At(a, "grace") /\ a = attempt /\ SessionTypeOK
  BY BusyFacts DEF BeginWork, At, Busy, CleanInv, Typed
<1>2. UNCHANGED <<session, possession, guard, watchdog, tool, ended, connects>>
  BY DEF BeginWork, Elsewhere
<1>3. /\ worker' \in [Attempt -> WorkerRecord]
      /\ \A b \in Attempt : b # a => worker'[b] = worker[b]
      /\ worker'[a].pc \in {"preflight", "retire_failed", "fail"}
      /\ worker'[a].pc = "retire_failed" => worker'[a].client # "none"
      /\ worker'[a].pc = "fail" => worker'[a].client = "none"
      /\ worker'[a].errors = worker[a].errors
      /\ worker'[a].loaded = worker[a].loaded
      /\ worker'[a].retired = worker[a].retired
      /\ worker'[a].released = worker[a].released
  <2>1. CASE worker' = [worker EXCEPT ![a].pc = "preflight", ![a].client = reusable]
    <3> DEFINE w == [worker[a] EXCEPT !.pc = "preflight", !.client = reusable]
    <3>1. "preflight" \in WorkerPcs /\ reusable \in MaybeClient /\ worker[a] \in WorkerRecord
      BY <1>1 DEF WorkerPcs, SessionTypeOK
    <3>2. /\ w \in WorkerRecord /\ w.pc = "preflight" /\ w.errors = worker[a].errors
          /\ w.loaded = worker[a].loaded /\ w.retired = worker[a].retired
          /\ w.released = worker[a].released
      BY <3>1 DEF WorkerRecord
    <3>3. worker' = [worker EXCEPT ![a] = w] /\ worker \in [Attempt -> WorkerRecord]
      BY <1>1, <2>1 DEF SessionTypeOK
    <3> QED BY <3>2, <3>3
  <2>2. CASE Raise(a)
    BY <1>1, <2>2, RaiseEffect DEF LocalsKept
  <2> QED BY <1>1, <2>1, <2>2 DEF BeginWork, Unrecorded
<1>4. Moves(a)
  BY <1>1, <1>2, <1>3 DEF Moves, session, possession
<1>5. WorkerTells(a)'
  BY <1>1, <1>2, <1>3, BusyFacts
     DEF WorkerTells, LocalsTell, OnItsWay, Busy, At, EndSteps, session, possession
<1> QED BY <1>1, <1>4, <1>5, MoveKeeps

(* The checks before a start pass, or raise.                               *)
LEMMA PreflightKeeps ==
  ASSUME CleanInv, NEW a \in Attempt, Preflight(a)
  PROVE  Undisturbed'
<1>1. Busy(a) /\ At(a, "preflight") /\ a = attempt /\ SessionTypeOK
  BY BusyFacts DEF Preflight, At, Busy, CleanInv, Typed
<1>2. UNCHANGED <<session, possession, guard, watchdog, tool, ended, connects>>
  BY DEF Preflight, Elsewhere
<1>3. /\ worker' \in [Attempt -> WorkerRecord]
      /\ \A b \in Attempt : b # a => worker'[b] = worker[b]
      /\ \/ worker'[a].pc = "check"
         \/ worker'[a].pc = "retire_failed" /\ worker[a].client # "none"
         \/ worker'[a].pc = "fail" /\ worker[a].client = "none"
      /\ LocalsKept(a)
  <2>1. "check" \in WorkerPcs
    BY DEF WorkerPcs
  <2> QED BY <1>1, <2>1, GotoEffect, RaiseEffect DEF Preflight, LocalsKept
<1>4. Moves(a)
  BY <1>1, <1>2, <1>3 DEF Moves, session, possession
<1>5. WorkerTells(a)'
  BY <1>1, <1>2, <1>3, BusyFacts
     DEF WorkerTells, LocalsTell, OnItsWay, Busy, At, EndSteps, LocalsKept, session, possession
<1> QED BY <1>1, <1>4, <1>5, MoveKeeps

(* A cancellation before the lease is asked for is noted.                  *)
LEMMA CheckKeeps ==
  ASSUME CleanInv, NEW a \in Attempt, Check(a)
  PROVE  Undisturbed'
<1>1. Busy(a) /\ At(a, "check") /\ a = attempt /\ SessionTypeOK
  BY BusyFacts DEF Check, At, Busy, CleanInv, Typed
<1>2. UNCHANGED possession /\ Note(a, "obey_check") /\ "obey_check" \in WorkerPcs
  BY DEF Check, WorkerPcs
<1>3. Moves(a)
  BY <1>1, <1>2, NoteEffect DEF Moves, possession
<1>4. WorkerTells(a)'
  BY <1>1, <1>2, NoteEffect, BusyFacts
     DEF WorkerTells, LocalsTell, OnItsWay, Busy, At, EndSteps, LocalsKept, possession
<1> QED BY <1>1, <1>3, <1>4, MoveKeeps

(* So is one that comes before the constructor is called.                  *)
LEMMA CheckConstructKeeps ==
  ASSUME CleanInv, NEW a \in Attempt, CheckConstruct(a)
  PROVE  Undisturbed'
<1>1. Busy(a) /\ At(a, "check_construct") /\ a = attempt /\ SessionTypeOK
  BY BusyFacts DEF CheckConstruct, At, Busy, CleanInv, Typed
<1>2. PICK to \in {"finally", "construct"} : Note(a, to) /\ (to = "finally" <=> cancelled)
  BY DEF CheckConstruct
<1>3. UNCHANGED possession /\ to \in WorkerPcs
  BY DEF CheckConstruct, WorkerPcs, EndSteps
<1>4. Moves(a)
  BY <1>1, <1>2, <1>3, NoteEffect DEF Moves, possession
<1>5. WorkerTells(a)'
  BY <1>1, <1>2, <1>3, NoteEffect, BusyFacts
     DEF WorkerTells, LocalsTell, OnItsWay, Busy, At, EndSteps, LocalsKept, possession
<1> QED BY <1>1, <1>4, <1>5, MoveKeeps

(* A worker that reads the flag goes on or to its last clause.             *)
LEMMA ObeyKeeps ==
  ASSUME CleanInv, NEW a \in Attempt, Obey(a, "obey_check", "acquire") \/ Obey(a, "obey_own", "load")
  PROVE  Undisturbed'
<1>1. /\ Busy(a) /\ (At(a, "obey_check") \/ At(a, "obey_own")) /\ a = attempt /\ SessionTypeOK
  BY BusyFacts DEF Obey, At, Busy, CleanInv, Typed
<1>2. UNCHANGED <<session, possession, guard, watchdog, tool, ended, connects>>
  BY DEF Obey, Elsewhere
<1>3. PICK to \in {"finally", "acquire", "load"} :
        /\ WorkerGoto(a, to)
        /\ to = "finally" <=> cancelled
        /\ to = "load" => At(a, "obey_own")
  BY DEF Obey
<1>4. to \in WorkerPcs
  BY DEF WorkerPcs, EndSteps
<1>5. Moves(a)
  BY <1>1, <1>2, <1>3, <1>4, GotoEffect
     DEF Moves, session, possession
<1>6. WorkerTells(a)'
  BY <1>1, <1>2, <1>3, <1>4, GotoEffect, BusyFacts
     DEF WorkerTells, LocalsTell, OnItsWay, Busy, At, EndSteps, LocalsKept, session, possession
<1> QED BY <1>1, <1>5, <1>6, MoveKeeps

(* The lease is had before the session says that it owns it.               *)
LEMMA AcquireKeeps ==
  ASSUME CleanInv, NEW a \in Attempt, Acquire(a)
  PROVE  Undisturbed'
<1>1. Busy(a) /\ At(a, "acquire") /\ a = attempt /\ SessionTypeOK
  BY BusyFacts DEF Acquire, At, Busy, CleanInv, Typed
<1>2. UNCHANGED <<session, owns, refused, guard, watchdog, tool, ended, connects>>
  BY DEF Acquire, Elsewhere
<1>3. /\ worker' \in [Attempt -> WorkerRecord]
      /\ \A b \in Attempt : b # a => worker'[b] = worker[b]
      /\ \/ worker'[a].pc = "own" /\ hasLease' = TRUE
         \/ worker'[a].pc = "retire_failed" /\ worker[a].client # "none" /\ hasLease' = hasLease
         \/ worker'[a].pc = "fail" /\ worker[a].client = "none" /\ hasLease' = hasLease
      /\ LocalsKept(a)
  <2>1. "own" \in WorkerPcs
    BY DEF WorkerPcs
  <2> QED BY <1>1, <2>1, GotoEffect, RaiseEffect DEF Acquire, LocalsKept
<1>4. Moves(a)
  BY <1>1, <1>2, <1>3 DEF Moves, session
<1>5. WorkerTells(a)'
  BY <1>1, <1>2, <1>3, BusyFacts
     DEF WorkerTells, LocalsTell, OnItsWay, Busy, At, EndSteps, LocalsKept, session
<1> QED BY <1>1, <1>4, <1>5, MoveKeeps

(* The session says so.                                                    *)
LEMMA OwnKeeps ==
  ASSUME CleanInv, NEW a \in Attempt, Own(a)
  PROVE  Undisturbed'
<1>1. Busy(a) /\ At(a, "own") /\ a = attempt /\ SessionTypeOK
  BY BusyFacts DEF Own, At, Busy, CleanInv, Typed
<1>2. /\ owns' = TRUE /\ refused' = FALSE
      /\ UNCHANGED <<client, reusable, starting, cancelled, error, restart, attempt, hasLease>>
      /\ UNCHANGED <<guard, watchdog, tool, ended, connects>>
  BY DEF Own, Elsewhere
<1>3. /\ worker' \in [Attempt -> WorkerRecord]
      /\ \A b \in Attempt : b # a => worker'[b] = worker[b]
      /\ \/ worker'[a].pc = "obey_own"
         \/ worker'[a].pc = "retire_failed" /\ worker[a].client # "none"
         \/ worker'[a].pc = "fail" /\ worker[a].client = "none"
      /\ LocalsKept(a)
  <2>1. "obey_own" \in WorkerPcs
    BY DEF WorkerPcs
  <2> QED BY <1>1, <2>1, GotoEffect, RaiseEffect DEF Own, Unrecorded, LocalsKept
<1>4. cleanup' \in BOOLEAN /\ (cleanup => cleanup')
  BY <1>1 DEF Own, SessionTypeOK, FlagsTyped
<1>5. Moves(a)
  BY <1>1, <1>2, <1>3, <1>4 DEF Moves
<1>6. WorkerTells(a)'
  BY <1>1, <1>2, <1>3, <1>4, BusyFacts
     DEF WorkerTells, LocalsTell, OnItsWay, Busy, At, EndSteps, LocalsKept
<1> QED BY <1>1, <1>5, <1>6, MoveKeeps

(* MPh is loaded under the lease.                                          *)
LEMMA LoadKeeps ==
  ASSUME CleanInv, NEW a \in Attempt, Load(a)
  PROVE  Undisturbed'
<1>1. Busy(a) /\ At(a, "load") /\ a = attempt /\ SessionTypeOK /\ worker[a] \in WorkerRecord
  BY BusyFacts DEF Load, At, Busy, CleanInv, Typed
<1>2. /\ UNCHANGED <<client, reusable, starting, cancelled, error, restart, attempt>>
      /\ UNCHANGED <<owns, hasLease, refused, guard, watchdog, tool, ended, connects>>
  BY DEF Load, Elsewhere, possession
<1>3. PICK to \in {"finally", "publish", "check_construct", "retire_failed", "fail"} :
        /\ worker' = [worker EXCEPT ![a].pc = to, ![a].loaded = TRUE]
        /\ to = "finally" => cancelled
        /\ to \in {"publish", "retire_failed"} => worker[a].client # "none"
        /\ to \in {"check_construct", "fail"} => worker[a].client = "none"
        /\ cleanup' = (cleanup \/ cancelled) \/ cleanup' = cleanup
  BY DEF Load
<1>4. to \in WorkerPcs
  BY DEF WorkerPcs, EndSteps
<1> DEFINE w == [worker[a] EXCEPT !.pc = to, !.loaded = TRUE]
<1>5. /\ w \in WorkerRecord /\ w.pc = to /\ w.loaded = TRUE /\ w.client = worker[a].client
      /\ w.errors = worker[a].errors /\ w.retired = worker[a].retired
      /\ w.released = worker[a].released
  BY <1>1, <1>4 DEF WorkerRecord
<1>6. worker' = [worker EXCEPT ![a] = w]
  BY <1>1, <1>3 DEF SessionTypeOK
<1>7. /\ worker' \in [Attempt -> WorkerRecord] /\ worker'[a] = w
      /\ \A b \in Attempt : b # a => worker'[b] = worker[b]
  BY <1>1, <1>5, <1>6, UpdateEffect
<1>8. cleanup' \in BOOLEAN /\ (cleanup => cleanup')
  BY <1>1, <1>3 DEF SessionTypeOK, FlagsTyped
<1> HIDE DEF w
<1>9. Moves(a)
  BY <1>1, <1>2, <1>3, <1>5, <1>7, <1>8 DEF Moves
<1>10. WorkerTells(a)'
  BY <1>1, <1>2, <1>3, <1>5, <1>7, <1>8, BusyFacts
     DEF WorkerTells, LocalsTell, OnItsWay, Busy, At, EndSteps, LocalsKept
<1> QED BY <1>1, <1>9, <1>10, MoveKeeps

(* The constructor returns a client, or raises.                            *)
LEMMA ConstructKeeps ==
  ASSUME CleanInv, NEW a \in Attempt, Construct(a)
  PROVE  Undisturbed'
<1>1. Busy(a) /\ At(a, "construct") /\ a = attempt /\ SessionTypeOK /\ worker[a] \in WorkerRecord
  BY BusyFacts DEF Construct, At, Busy, CleanInv, Typed
<1>2. UNCHANGED <<session, possession, guard, watchdog, tool, ended, connects>>
  BY DEF Construct, Elsewhere
<1>3. CASE worker' = [worker EXCEPT ![a].pc = "publish", ![a].client = "standalone"]
  <2> DEFINE w == [worker[a] EXCEPT !.pc = "publish", !.client = "standalone"]
  <2>1. "publish" \in WorkerPcs /\ "standalone" \in MaybeClient
    BY DEF WorkerPcs, MaybeClient, Kind
  <2>2. /\ w \in WorkerRecord /\ w.pc = "publish" /\ w.loaded = worker[a].loaded
        /\ w.client = "standalone" /\ w.errors = worker[a].errors
        /\ w.retired = worker[a].retired /\ w.released = worker[a].released
    BY <1>1, <2>1 DEF WorkerRecord
  <2>3. worker' = [worker EXCEPT ![a] = w]
    BY <1>1, <1>3 DEF SessionTypeOK
  <2>4. /\ worker' \in [Attempt -> WorkerRecord] /\ worker'[a] = w
        /\ \A b \in Attempt : b # a => worker'[b] = worker[b]
    BY <1>1, <2>2, <2>3, UpdateEffect
  <2> HIDE DEF w
  <2>5. Moves(a)
    BY <1>1, <1>2, <2>2, <2>4 DEF Moves, session, possession
  <2>6. WorkerTells(a)'
    BY <1>1, <1>2, <2>2, <2>4, BusyFacts
       DEF WorkerTells, LocalsTell, OnItsWay, Busy, At, EndSteps, LocalsKept, session, possession
  <2> QED BY <1>1, <2>5, <2>6, MoveKeeps
<1>4. CASE Raise(a)
  <2>1. Moves(a)
    BY <1>1, <1>2, <1>4, RaiseEffect DEF Moves, session, possession
  <2>2. WorkerTells(a)'
    BY <1>1, <1>2, <1>4, RaiseEffect, BusyFacts
       DEF WorkerTells, LocalsTell, OnItsWay, Busy, At, EndSteps, LocalsKept, session, possession
  <2> QED BY <1>1, <2>1, <2>2, MoveKeeps
<1> QED BY <1>3, <1>4 DEF Construct

(* The client is published, unless the start was cancelled.                *)
LEMMA PublishKeeps ==
  ASSUME CleanInv, NEW a \in Attempt, Publish(a)
  PROVE  Undisturbed'
<1>1. Busy(a) /\ At(a, "publish") /\ a = attempt /\ SessionTypeOK /\ worker[a] \in WorkerRecord
  BY BusyFacts DEF Publish, At, Busy, CleanInv, Typed
<1>2. "finally" \in WorkerPcs /\ "none" \in MaybeClient /\ worker[a].client \in MaybeClient
  BY <1>1 DEF WorkerPcs, EndSteps, WorkerRecord, MaybeClient
<1>3. CASE cancelled
  <2>1. /\ UNCHANGED <<session, possession, guard, watchdog, tool, ended, connects>>
        /\ WorkerGoto(a, "finally")
    BY <1>3 DEF Publish, Elsewhere
  <2>2. Moves(a)
    BY <1>1, <1>2, <2>1, GotoEffect DEF Moves, session, possession
  <2>3. WorkerTells(a)'
    BY <1>1, <1>2, <1>3, <2>1, GotoEffect, BusyFacts
       DEF WorkerTells, LocalsTell, OnItsWay, Busy, At, EndSteps, LocalsKept, session, possession
  <2> QED BY <1>1, <2>2, <2>3, MoveKeeps
<1>4. CASE ~cancelled
  <2>1. /\ client' = worker[a].client /\ reusable' = "none"
        /\ UNCHANGED <<cancelled, cleanup, error, restart, attempt, owns, hasLease, refused>>
        /\ UNCHANGED <<guard, watchdog, tool, ended, connects>>
        /\ starting' \in {starting, FALSE}
    BY <1>4 DEF Publish, Elsewhere, possession
  <2>2. /\ worker' \in [Attempt -> WorkerRecord]
        /\ \A b \in Attempt : b # a => worker'[b] = worker[b]
        /\ \/ worker'[a].pc = "finally" /\ starting' = FALSE
           \/ worker'[a].pc = "retire_failed" /\ worker[a].client # "none"
           \/ worker'[a].pc = "fail" /\ worker[a].client = "none"
        /\ LocalsKept(a)
    BY <1>1, <1>2, <1>4, GotoEffect, RaiseEffect DEF Publish, LocalsKept
  <2>4. Moves(a)
    BY <2>1, <2>2 DEF Moves
  <2>5. WorkerTells(a)'
    BY <1>1, <2>1, <2>2, BusyFacts
       DEF WorkerTells, LocalsTell, OnItsWay, Busy, At, EndSteps, LocalsKept
  <2> QED BY <1>1, <2>4, <2>5, MoveKeeps
<1> QED BY <1>3, <1>4

(* A worker that failed retires the client it has.                         *)
LEMMA RetireFailedKeeps ==
  ASSUME CleanInv, NEW a \in Attempt, RetireFailed(a)
  PROVE  Undisturbed'
<1>1. /\ Busy(a) /\ At(a, "retire_failed") /\ a = attempt /\ SessionTypeOK
      /\ worker[a] \in WorkerRecord
  BY BusyFacts DEF RetireFailed, At, Busy, CleanInv, Typed
<1>2. PICK errors \in BOOLEAN :
        /\ Retire(worker[a].client, errors)
        /\ worker' = [worker EXCEPT ![a].pc = "fail", ![a].errors = errors, ![a].retired = TRUE]
  BY DEF RetireFailed
<1>3. /\ UNCHANGED <<client, starting, cancelled, cleanup, error, restart, attempt>>
      /\ UNCHANGED <<owns, hasLease, refused, guard, watchdog, tool, ended, connects>>
  BY DEF RetireFailed, Elsewhere, possession
<1>4. "fail" \in WorkerPcs
  BY Words
<1> DEFINE w == [worker[a] EXCEPT !.pc = "fail", !.errors = errors, !.retired = TRUE]
<1>5. /\ w \in WorkerRecord /\ w.pc = "fail" /\ w.loaded = worker[a].loaded
      /\ w.client = worker[a].client /\ w.retired = TRUE /\ w.released = worker[a].released
  BY <1>1, <1>4 DEF WorkerRecord
<1>6. worker' = [worker EXCEPT ![a] = w]
  BY <1>1, <1>2 DEF SessionTypeOK
<1>7. /\ worker' \in [Attempt -> WorkerRecord] /\ worker'[a] = w
      /\ \A b \in Attempt : b # a => worker'[b] = worker[b]
  BY <1>1, <1>5, <1>6, UpdateEffect
<1> HIDE DEF w
<1>8. Moves(a)
  BY <1>1, <1>3, <1>4, <1>5, <1>7 DEF Moves
<1>9. WorkerTells(a)'
  <2>1. LocalsTell(a)
    BY <1>1, BusyFacts DEF WorkerTells
  <2>2. ~worker[a].errors
    BY <1>1, <2>1 DEF LocalsTell, At
  <2>3. LeftBehind => LeftBehind'
    BY <1>7, <2>2 DEF LeftBehind
  <2> QED BY <1>1, <1>3, <1>5, <1>7, <2>3, BusyFacts
     DEF WorkerTells, LocalsTell, OnItsWay, Busy, At, EndSteps, LocalsKept
<1> QED BY <1>1, <1>8, <1>9, MoveKeeps

(* So does one whose start was cancelled.                                  *)
LEMMA RetireCancelledKeeps ==
  ASSUME CleanInv, NEW a \in Attempt, RetireCancelled(a)
  PROVE  Undisturbed'
<1>1. /\ Busy(a) /\ At(a, "retire_cancelled") /\ a = attempt /\ SessionTypeOK
      /\ worker[a] \in WorkerRecord
  BY BusyFacts DEF RetireCancelled, At, Busy, CleanInv, Typed
<1>2. PICK errors \in BOOLEAN :
        /\ Retire(worker[a].client, errors)
        /\ worker' = [worker EXCEPT ![a].pc = "discard", ![a].errors = errors, ![a].retired = TRUE]
  BY DEF RetireCancelled
<1>3. /\ UNCHANGED <<client, starting, cancelled, cleanup, error, restart, attempt>>
      /\ UNCHANGED <<owns, hasLease, refused, guard, watchdog, tool, ended, connects>>
  BY DEF RetireCancelled, Elsewhere, possession
<1>4. "discard" \in WorkerPcs
  BY Words
<1> DEFINE w == [worker[a] EXCEPT !.pc = "discard", !.errors = errors, !.retired = TRUE]
<1>5. /\ w \in WorkerRecord /\ w.pc = "discard" /\ w.loaded = worker[a].loaded
      /\ w.client = worker[a].client /\ w.retired = TRUE /\ w.released = worker[a].released
  BY <1>1, <1>4 DEF WorkerRecord
<1>6. worker' = [worker EXCEPT ![a] = w]
  BY <1>1, <1>2 DEF SessionTypeOK
<1>7. /\ worker' \in [Attempt -> WorkerRecord] /\ worker'[a] = w
      /\ \A b \in Attempt : b # a => worker'[b] = worker[b]
  BY <1>1, <1>5, <1>6, UpdateEffect
<1> HIDE DEF w
<1>8. Moves(a)
  BY <1>1, <1>3, <1>4, <1>5, <1>7 DEF Moves
<1>9. WorkerTells(a)'
  <2>1. LocalsTell(a)
    BY <1>1, BusyFacts DEF WorkerTells
  <2>2. ~worker[a].errors
    BY <1>1, <2>1 DEF LocalsTell, At
  <2>3. LeftBehind => LeftBehind'
    BY <1>7, <2>2 DEF LeftBehind
  <2> QED BY <1>1, <1>3, <1>5, <1>7, <2>3, BusyFacts
     DEF WorkerTells, LocalsTell, OnItsWay, Busy, At, EndSteps, LocalsKept
<1> QED BY <1>1, <1>8, <1>9, MoveKeeps

(* A failed start shows the client it could not retire, and else releases the *)
(* lease.                                                                  *)
LEMMA FailKeeps ==
  ASSUME CleanInv, NEW a \in Attempt, Fail(a)
  PROVE  Undisturbed'
<1>1. Busy(a) /\ At(a, "fail") /\ a = attempt /\ SessionTypeOK /\ worker[a] \in WorkerRecord
  BY BusyFacts DEF Fail, At, Busy, CleanInv, Typed
<1> DEFINE gone == ~worker[a].errors /\ owns
           w == [worker[a] EXCEPT !.pc = "finally", !.released = gone]
<1>2. /\ client' = IF worker[a].errors THEN worker[a].client ELSE "none"
      /\ cleanup' = worker[a].errors /\ error' = TRUE /\ starting' = FALSE
      /\ restart' \in BOOLEAN
      /\ IF worker[a].errors THEN UNCHANGED possession ELSE Release
      /\ UNCHANGED <<reusable, cancelled, attempt, guard, watchdog, tool, ended, connects>>
      /\ worker' = [worker EXCEPT ![a].pc = "finally", ![a].released = gone]
  BY DEF Fail, Elsewhere
<1>3. "finally" \in WorkerPcs /\ "none" \in MaybeClient /\ gone \in BOOLEAN
  BY DEF WorkerPcs, EndSteps, MaybeClient
<1> HIDE DEF gone
<1>4. /\ w \in WorkerRecord /\ w.pc = "finally" /\ w.loaded = worker[a].loaded
      /\ w.client = worker[a].client /\ w.errors = worker[a].errors
      /\ w.retired = worker[a].retired /\ w.released = gone
  BY <1>1, <1>3 DEF WorkerRecord
<1>5. worker' = [worker EXCEPT ![a] = w]
  BY <1>1, <1>2 DEF SessionTypeOK
<1>6. /\ worker' \in [Attempt -> WorkerRecord] /\ worker'[a] = w
      /\ \A b \in Attempt : b # a => worker'[b] = worker[b]
  BY <1>1, <1>4, <1>5, UpdateEffect
<1> HIDE DEF w
<1>7. /\ owns' \in BOOLEAN /\ hasLease' \in BOOLEAN /\ refused' \in BOOLEAN
      /\ owns' => hasLease'
      /\ hasLease' => owns'
      /\ IF worker[a].errors THEN owns' = owns /\ hasLease' = hasLease ELSE ~owns' \/ refused'
  <2>1. FlagsTyped /\ (owns => hasLease) /\ (hasLease => owns)
    BY <1>1, BusyFacts DEF WorkerTells, SessionTypeOK, At
  <2>2. CASE worker[a].errors
    BY <1>2, <2>1, <2>2 DEF possession, FlagsTyped
  <2>3. CASE ~worker[a].errors
    BY <1>2, <2>1, <2>3, ReleaseEffect
  <2> QED BY <2>2, <2>3
<1>9. Moves(a)
  BY <1>2, <1>4, <1>6 DEF Moves
<1>10. WorkerTells(a)'
  <2>1. worker[a].errors => w.loaded \/ LeftBehind'
    BY <1>4, <1>6 DEF LeftBehind
  <2>2. LocalsTell(a) /\ worker[a].pc = "fail" /\ Busy(a)
    BY <1>1, BusyFacts DEF WorkerTells, At
  <2>3. /\ worker[a].loaded /\ ~worker[a].released => owns
        /\ ~worker[a].released
        /\ worker[a].errors => worker[a].retired
        /\ worker[a].client # "none" => worker[a].retired
    BY <2>2, BusyFacts DEF WorkerTells, LocalsTell
  <2>4. /\ gone => ~worker[a].errors
        /\ ~worker[a].errors /\ ~gone => ~owns
    BY DEF gone
  <2>5. LocalsTell(a)'
    BY <1>4, <1>6, <2>3, <2>4 DEF LocalsTell, OnItsWay, Busy, EndSteps
  <2>6. Busy(a)' /\ ~OnItsWay(a)' /\ worker'[a].pc = "finally"
    BY <1>4, <1>6 DEF OnItsWay, Busy, EndSteps
  <2>7. worker'[a].loaded /\ ~worker'[a].released => owns'
    <3>1. CASE worker[a].errors
      BY <1>4, <1>6, <1>7, <2>3, <3>1
    <3>2. CASE ~worker[a].errors
      BY <1>2, <1>4, <1>6, <2>3, <2>4, <3>2
    <3> QED BY <3>1, <3>2
  <2>8. client' # "none" => /\ worker[a].errors /\ client' = worker'[a].client
                            /\ worker'[a].errors
    BY <1>2, <1>4, <1>6
  <2>9. client' # "none" => hasLease' \/ LeftBehind'
    BY <1>4, <1>6, <1>7, <2>1, <2>3, <2>7, <2>8, <2>4
  <2>10. worker'[a].released => ~owns' \/ refused'
    BY <1>4, <1>6, <1>7, <2>4
  <2>11. ~owns' \/ refused' \/ cleanup'
    BY <1>2, <1>7
  <2> QED BY <1>2, <1>7, <2>5, <2>6, <2>7, <2>8, <2>9, <2>10, <2>11 DEF WorkerTells
<1> QED BY <1>1, <1>9, <1>10, MoveKeeps

(* What a failed start left behind stays.                                  *)
LEMMA LeftStays ==
  ASSUME NEW a \in Attempt, \A b \in Attempt : b # a => worker'[b] = worker[b], LocalsKept(a),
         LeftBehind
  PROVE  LeftBehind'
  BY DEF LeftBehind, LocalsKept

(* The last clause clears the marks of the start and says what is left to do. *)
LEMMA FinallyKeeps ==
  ASSUME CleanInv, NEW a \in Attempt, Finally(a)
  PROVE  Undisturbed'
<1>1. Busy(a) /\ At(a, "finally") /\ a = attempt /\ SessionTypeOK /\ worker[a] \in WorkerRecord
  BY BusyFacts DEF Finally, At, Busy, CleanInv, Typed
<1>2. /\ starting' = (starting /\ cleanup) /\ cancelled' = FALSE /\ guard' = 0
      /\ UNCHANGED <<client, reusable, cleanup, error, restart, attempt, tool, ended, connects>>
      /\ UNCHANGED <<owns, hasLease, refused>>
  BY DEF Finally, possession
<1>3. PICK to \in {"discard", "retire_cancelled", "give_up", "done"} :
        /\ WorkerGoto(a, to)
        /\ to = "discard" =>
             cancelled /\ worker[a].client # "none" /\ worker[a].loaded /\ worker[a].retired
        /\ to = "retire_cancelled" =>
             cancelled /\ worker[a].client # "none" /\ worker[a].loaded /\ ~worker[a].retired
        /\ to = "give_up" =>
             ~(worker[a].client # "none" /\ worker[a].loaded) /\ ~worker[a].released
        /\ to = "done" => ~cancelled \/ worker[a].released
  BY DEF Finally, AfterFinally
<1>4. to \in WorkerPcs
  BY DEF WorkerPcs, EndSteps
<1>5. starting' => starting
  BY <1>2
<1>7. Moves(a)
  BY <1>1, <1>2, <1>3, <1>4, GotoEffect DEF Moves
<1>8. LocalsKept(a) /\ worker'[a].pc = to
  BY <1>1, <1>3, <1>4, GotoEffect DEF LocalsKept
<1>9. LeftBehind => LeftBehind'
  BY <1>7, <1>8, LeftStays DEF Moves
<1>10. LocalsTell(a)'
  <2>1. LocalsTell(a)
    BY <1>1, BusyFacts DEF WorkerTells
  <2> QED BY <1>1, <1>3, <1>8, <2>1
      DEF LocalsTell, OnItsWay, Busy, At, EndSteps, LocalsKept, WorkerRecord
<1>11. to = "done" => ~starting' /\ (owns' => client' # "none" \/ cleanup' \/ refused')
  <2>1. CASE cancelled
    <3>1. to = "done" => ~starting /\ (~owns \/ refused)
      BY <1>1, <1>3, <2>1, BusyFacts DEF WorkerTells, At
    <3> QED BY <1>2, <1>5, <3>1
  <2>2. CASE ~cancelled
    <3>1. ~starting /\ (client # "none" \/ ~owns \/ refused \/ cleanup)
      BY <1>1, <2>2, BusyFacts DEF WorkerTells, At
    <3> QED BY <1>2, <1>5, <3>1
  <2> QED BY <2>1, <2>2
<1>12. WorkerTells(a)'
  <2>1. WorkerTells(a)
    BY <1>1, BusyFacts
  <2>2. worker'[a].pc \notin {"finally", "own", "obey_own", "load"} /\ ~OnItsWay(a)'
    BY <1>3, <1>8 DEF OnItsWay, Busy, EndSteps
  <2> QED BY <1>1, <1>2, <1>3, <1>8, <1>9, <1>10, <1>11, <2>1, <2>2
      DEF WorkerTells, Busy, At, LocalsKept
<1> QED BY <1>1, <1>7, <1>12, MoveKeeps

(* The client of a cancelled start is gone and the lease released, or the  *)
(* cleanup stays pending.                                                  *)
LEMMA DiscardKeeps ==
  ASSUME CleanInv, NEW a \in Attempt, Discard(a)
  PROVE  Undisturbed'
<1>1. Busy(a) /\ At(a, "discard") /\ a = attempt /\ SessionTypeOK /\ worker[a] \in WorkerRecord
  BY BusyFacts DEF Discard, At, Busy, CleanInv, Typed
<1>2. /\ WorkerGoto(a, "done") /\ "done" \in WorkerPcs /\ "none" \in MaybeClient
      /\ client' = IF worker[a].errors THEN worker[a].client ELSE "none"
      /\ IF worker[a].errors \/ worker[a].released THEN UNCHANGED possession ELSE Release
      /\ cleanup' = (worker[a].errors \/ owns') /\ starting' = FALSE
      /\ UNCHANGED <<reusable, cancelled, error, restart, attempt, guard, watchdog, tool, ended,
                     connects>>
  BY DEF Discard, Elsewhere, WorkerPcs, MaybeClient
<1>3. LocalsTell(a) /\ WorkerTells(a)
  BY <1>1, BusyFacts DEF WorkerTells
<1>4. worker[a].loaded /\ (worker[a].errors => ~worker[a].released) /\ (worker[a].errors => owns)
      /\ (worker[a].released => ~owns \/ refused) /\ (owns => hasLease) /\ (hasLease => owns)
  BY <1>1, <1>3 DEF LocalsTell, WorkerTells, At
<1>5. /\ owns' \in BOOLEAN /\ hasLease' \in BOOLEAN /\ refused' \in BOOLEAN
      /\ owns' => hasLease'
      /\ hasLease' => owns'
      /\ worker[a].errors => hasLease'
  <2>1. CASE worker[a].errors \/ worker[a].released
    BY <1>1, <1>2, <1>4, <2>1 DEF possession, SessionTypeOK, FlagsTyped
  <2>2. CASE ~(worker[a].errors \/ worker[a].released)
    BY <1>1, <1>2, <1>4, <2>2, ReleaseEffect DEF SessionTypeOK
  <2> QED BY <2>1, <2>2
<1>7. Moves(a)
  BY <1>1, <1>2, GotoEffect DEF Moves
<1>8. LocalsKept(a) /\ worker'[a].pc = "done" /\ ~Busy(a)' /\ ~OnItsWay(a)'
  BY <1>1, <1>2, GotoEffect DEF LocalsKept, Busy, OnItsWay
<1>9. LocalsTell(a)'
  BY <1>3, <1>8 DEF LocalsTell, LocalsKept
<1>10. client' # "none" => hasLease'
  BY <1>2, <1>5
<1>11. owns' => cleanup'
  BY <1>2
<1>12. ~starting'
  BY <1>2
<1>13. WorkerTells(a)'
  BY <1>5, <1>8, <1>9, <1>10, <1>11, <1>12 DEF WorkerTells
<1> QED BY <1>1, <1>7, <1>13, MoveKeeps

(* A cancelled start without a client releases the lease, or the cleanup stays *)
(* pending.                                                                *)
LEMMA GiveUpKeeps ==
  ASSUME CleanInv, NEW a \in Attempt, GiveUp(a)
  PROVE  Undisturbed'
<1>1. Busy(a) /\ At(a, "give_up") /\ a = attempt /\ SessionTypeOK /\ worker[a] \in WorkerRecord
  BY BusyFacts DEF GiveUp, At, Busy, CleanInv, Typed
<1>2. /\ WorkerGoto(a, "done") /\ "done" \in WorkerPcs /\ Release
      /\ cleanup' = owns' /\ starting' = FALSE
      /\ UNCHANGED <<client, reusable, cancelled, error, restart, attempt, guard, watchdog, tool,
                     ended, connects>>
  BY DEF GiveUp, Elsewhere, WorkerPcs
<1>3. LocalsTell(a) /\ WorkerTells(a)
  BY <1>1, BusyFacts DEF WorkerTells
<1>4. (owns => hasLease) /\ (hasLease => owns)
  BY <1>1, <1>3 DEF WorkerTells, At
<1>5. /\ owns' \in BOOLEAN /\ hasLease' \in BOOLEAN /\ refused' \in BOOLEAN
      /\ owns' => hasLease'
      /\ hasLease' => owns'
  BY <1>1, <1>2, <1>4, ReleaseEffect DEF SessionTypeOK
<1>6. (owns' => cleanup') /\ ~starting'
  BY <1>2
<1>7. Moves(a)
  BY <1>1, <1>2, GotoEffect DEF Moves
<1>8. LocalsKept(a) /\ worker'[a].pc = "done" /\ ~Busy(a)' /\ ~OnItsWay(a)'
  BY <1>1, <1>2, GotoEffect DEF LocalsKept, Busy, OnItsWay
<1>9. LocalsTell(a)'
  BY <1>3, <1>8 DEF LocalsTell, LocalsKept
<1>10. client' # "none" => LeftBehind'
  <2>1. client # "none" => worker[a].errors /\ ~worker[a].loaded
    BY <1>1, <1>3 DEF WorkerTells, LocalsTell, At
  <2> QED BY <1>2, <1>8, <2>1 DEF LeftBehind, LocalsKept
<1>11. WorkerTells(a)'
  BY <1>5, <1>6, <1>8, <1>9, <1>10 DEF WorkerTells
<1> QED BY <1>1, <1>7, <1>11, MoveKeeps

-----------------------------------------------------------------------------
(* Timers and tool calls.                                                  *)

(* What a step says of the workers that leaves all of them alone.          *)
LEMMA WorkersStay ==
  ASSUME UNCHANGED worker
  PROVE  /\ Idle' <=> Idle
         /\ \A a \in Attempt : /\ (Busy(a)' <=> Busy(a)) /\ (OnItsWay(a)' <=> OnItsWay(a))
                               /\ (LocalsTell(a) => LocalsTell(a)')
                               /\ \A step : At(a, step)' <=> At(a, step)
         /\ LeftBehind' <=> LeftBehind
         /\ Making' = Making
  BY DEF Idle, Busy, OnItsWay, LocalsTell, At, LeftBehind, Making

(* A timer that expires changes nothing the invariant speaks of.           *)
LEMMA ExpireKeeps ==
  ASSUME CleanInv, NEW a \in Attempt, Expire(a)
  PROVE  Undisturbed'
<1>1. UNCHANGED <<session, possession, worker, tool, ended, retiring>>
  BY DEF Expire
<1>2. /\ OneWorker' /\ UnderWay' /\ DisconnectAlone' /\ LeaseKnown' /\ ClientIsItsOwn'
      /\ LeaseCoversClient' /\ EndIsReported' /\ EndedIsMarked'
      /\ \A b \in Attempt : LocalsTell(b)'
  BY <1>1, WorkersStay
     DEF CleanInv, Undisturbed, OneWorker, UnderWay, DisconnectAlone, LeaseKnown, ClientIsItsOwn,
         LeaseCoversClient, HeldUntilRetired, EndIsReported, EndedIsMarked, session, possession
<1> QED BY <1>2 DEF Undisturbed

(* An attempt that is ended is marked, and may still be cleaned up.        *)
LEMMA MarkKeeps ==
  ASSUME CleanInv,
         UNCHANGED <<client, owns, hasLease, refused, attempt, worker, tool, retiring>>,
         \/ starting /\ cancelled' = TRUE /\ (starting' \/ cleanup') /\ (starting' => starting)
         \/ starting' = starting /\ (cancelled => cancelled'),
         cleanup => cleanup',
         \A a \in ended' : a \in ended \/ (a = attempt /\ cancelled')
  PROVE  Undisturbed'
<1>1. starting' => starting
  OBVIOUS
<1>2. cancelled => cancelled'
  OBVIOUS
<1>3. starting \/ cleanup => starting' \/ cleanup'
  OBVIOUS
<1>4. OneWorker' /\ DisconnectAlone' /\ LeaseKnown' /\ ClientIsItsOwn' /\ LeaseCoversClient'
  BY WorkersStay
     DEF CleanInv, Undisturbed, OneWorker, DisconnectAlone, LeaseKnown, ClientIsItsOwn,
         LeaseCoversClient, HeldUntilRetired
<1>5. UnderWay'
  BY <1>1, <1>3, WorkersStay DEF CleanInv, Undisturbed, UnderWay
<1>6. EndIsReported'
  BY <1>1, <1>2, WorkersStay DEF CleanInv, Undisturbed, EndIsReported
<1>7. EndedIsMarked'
  BY <1>2, WorkersStay DEF CleanInv, Typed, Undisturbed, EndedIsMarked, SessionTypeOK
<1>8. \A a \in Attempt : LocalsTell(a)'
  BY WorkersStay DEF CleanInv, Undisturbed
<1> QED BY <1>4, <1>5, <1>6, <1>7, <1>8 DEF Undisturbed

(* A watchdog that fires ends the attempt it finds under way.              *)
LEMMA TimeoutKeeps ==
  ASSUME CleanInv, NEW a \in Attempt, Timeout(a)
  PROVE  Undisturbed'
<1>1. UNCHANGED <<client, owns, hasLease, refused, attempt, worker, tool, retiring>>
  BY DEF Timeout, possession
<1>2. CASE a = attempt /\ starting
  <2>1. /\ cancelled' = TRUE /\ cleanup' = TRUE /\ starting' = FALSE
        /\ ended' = ended \cup {a}
    BY <1>2 DEF Timeout
  <2> QED BY <1>1, <1>2, <2>1, MarkKeeps
<1>3. CASE ~(a = attempt /\ starting)
  <2>1. UNCHANGED <<cancelled, cleanup, starting, ended>>
    BY <1>3 DEF Timeout
  <2> QED BY <1>1, <2>1, MarkKeeps
<1> QED BY <1>2, <1>3

(* A disconnect that comes during a start marks it.                        *)
LEMMA DisconnectLaterKeeps ==
  ASSUME CleanInv, DisconnectLater
  PROVE  Undisturbed'
<1>1. /\ UNCHANGED <<client, starting, cleanup, attempt>>
      /\ UNCHANGED <<owns, hasLease, refused, worker, tool, retiring>>
      /\ cancelled' = TRUE
      /\ ended' = IF starting THEN ended \cup {attempt} ELSE ended
  BY DEF DisconnectLater, possession
<1> QED BY <1>1, MarkKeeps

(* A tool that acts, and finds a client or no start under way, is alone if *)
(* it has not been early.                                                  *)
LEMMA CalledAlone ==
  ASSUME CleanInv, MayCall, Acts, ~early', client # "none" \/ ~(starting \/ cleanup)
  PROVE  Idle
<1>1. \A a \in Attempt : ~OnItsWay(a)
  BY DEF CleanInv, Undisturbed, UnderWay
<1>2. \A a \in Attempt : worker[a].pc \notin EndSteps
  BY DEF Acts
<1> QED BY <1>1, <1>2 DEF Idle, OnItsWay

(* When no worker is at work the process knows that it has the lease.      *)
LEMMA IdleFacts ==
  ASSUME CleanInv, Idle
  PROVE  /\ owns <=> hasLease
         /\ tool # "launch" => ~starting
         /\ client # "none" => hasLease \/ LeftBehind
         /\ tool # "release" /\ owns => client # "none" \/ cleanup \/ refused
<1>1. \A a \in Attempt : ~At(a, "own")
  BY DEF Idle, Busy, At
<1>2. FlagsTyped
  BY DEF CleanInv, Typed, SessionTypeOK
<1>3. owns <=> hasLease
  BY <1>1, <1>2 DEF CleanInv, Typed, Undisturbed, LeaseKnown, FlagsTyped
<1> QED BY <1>3 DEF CleanInv, Undisturbed, UnderWay, LeaseCoversClient, EndIsReported

(* Then a step keeps the invariant that leaves the workers alone.          *)
LEMMA IdleKeeps ==
  ASSUME CleanInv, Idle, UNCHANGED <<worker, ended>>,
         attempt' = attempt \/ attempt' = attempt + 1,
         tool' = "launch" => attempt' = attempt + 1 /\ client' = "none" /\ starting',
         tool' # "launch" => ~starting',
         tool' = "retire" => retiring' = client',
         tool' = "release" => client' = "none",
         owns' <=> hasLease',
         client' # "none" => hasLease' \/ LeftBehind,
         tool' # "release" /\ owns' => client' # "none" \/ cleanup' \/ refused'
  PROVE  Undisturbed'
<1>1. /\ Idle' /\ (LeftBehind' <=> LeftBehind)
      /\ \A a \in Attempt : LocalsTell(a)'
  BY WorkersStay DEF CleanInv, Undisturbed
<1>2. \A a \in Attempt : ~Busy(a)' /\ ~OnItsWay(a)'
  BY <1>1 DEF Idle, OnItsWay
<1>3. \A a \in Attempt : \A step \in WorkerPcs \ {"none", "done"} : ~At(a, step)'
  BY <1>2 DEF Busy, At
<1>4. attempt \in Nat /\ attempt' \in Nat /\ \A a \in Attempt : a \in Nat
  BY DEF CleanInv, Typed, SessionTypeOK, Attempt
<1>5. OneWorker'
  <2>1. \A a \in Attempt : a > attempt => worker[a] = NewWorker
    BY DEF CleanInv, Undisturbed, OneWorker
  <2>2. ASSUME NEW a \in Attempt, a > attempt' \/ (a = attempt' /\ tool' = "launch")
        PROVE  worker'[a] = NewWorker
    <3>1. a > attempt
      BY <1>4, <2>2
    <3> QED BY <2>1, <3>1
  <2> QED BY <1>2, <2>2 DEF OneWorker
<1>6. UnderWay'
  BY <1>2 DEF UnderWay
<1>7. DisconnectAlone'
  BY <1>1 DEF DisconnectAlone
<1>8. LeaseKnown'
  <2>1. {"own", "obey_own", "load"} \subseteq WorkerPcs \ {"none", "done"}
    BY DEF WorkerPcs
  <2> QED BY <1>2, <1>3, <2>1 DEF LeaseKnown
<1>9. ClientIsItsOwn'
  BY <1>2 DEF ClientIsItsOwn
<1>10. LeaseCoversClient'
  <2>1. Making' = {}
    BY <1>2 DEF Making, Busy
  <2> QED BY <1>1, <2>1 DEF LeaseCoversClient, HeldUntilRetired
<1>11. EndIsReported'
  <2>1. "finally" \in WorkerPcs \ {"none", "done"}
    BY DEF WorkerPcs, EndSteps
  <2> QED BY <1>3, <2>1 DEF EndIsReported
<1>12. EndedIsMarked'
  <2>1. \A a \in ended : a <= attempt /\ a \in Attempt
    BY DEF CleanInv, Typed, Undisturbed, EndedIsMarked, SessionTypeOK
  <2>2. \A a \in ended : a <= attempt'
    BY <1>4, <2>1
  <2>3. tool' = "launch" => attempt' \notin ended
    BY <1>4, <2>1
  <2> QED BY <1>2, <2>2, <2>3 DEF EndedIsMarked
<1> QED BY <1>1, <1>5, <1>6, <1>7, <1>8, <1>9, <1>10, <1>11, <1>12 DEF Undisturbed

(* A start is recorded, and its worker about to be launched.               *)
LEMMA StartKeeps ==
  ASSUME CleanInv, ~early', Start
  PROVE  Undisturbed'
<1>1. /\ client = "none" /\ ~starting /\ ~cleanup /\ MayCall /\ Acts
      /\ attempt' = attempt + 1 /\ starting' = TRUE /\ tool = "idle" /\ tool' = "launch"
      /\ UNCHANGED <<client, cleanup, owns, hasLease, refused, worker, ended, retiring>>
  BY DEF Start, MayStart, MayCall, possession
<1>2. Idle
  BY <1>1, CalledAlone
<1> QED BY <1>1, <1>2, IdleFacts, IdleKeeps

(* A start that cannot be recorded keeps nothing but what it cannot release. *)
LEMMA StartUnrecordedKeeps ==
  ASSUME CleanInv, ~early', StartUnrecorded
  PROVE  Undisturbed'
<1>1. /\ client = "none" /\ ~starting /\ ~cleanup /\ MayCall /\ Acts /\ tool = "idle"
      /\ attempt' = attempt + 1 /\ Release
      /\ UNCHANGED <<client, starting, cleanup, worker, tool, ended, retiring>>
  BY DEF StartUnrecorded, MayStart, MayCall
<1>2. Idle
  BY <1>1, CalledAlone
<1>3. FlagsTyped /\ (owns <=> hasLease)
  BY <1>2, IdleFacts DEF CleanInv, Typed, SessionTypeOK
<1>4. (owns' <=> hasLease') /\ (~owns' \/ refused')
  BY <1>1, <1>3, ReleaseEffect
<1> QED BY <1>1, <1>2, <1>4, IdleKeeps

(* A disconnect that finds a client, or nothing but a lease.               *)
LEMMA DisconnectKeeps ==
  ASSUME CleanInv, ~early', Disconnect
  PROVE  Undisturbed'
<1>1. /\ MayCall /\ Acts /\ tool = "idle"
      /\ client # "none" \/ ~(starting \/ cleanup)
      /\ IF client = "none" THEN Release /\ tool' = tool
         ELSE UNCHANGED possession /\ tool' = "retire" /\ retiring' = client
      /\ UNCHANGED <<client, starting, cleanup, attempt, worker, ended>>
  BY DEF Disconnect, MayCall
<1>2. Idle /\ FlagsTyped
  BY <1>1, CalledAlone DEF CleanInv, Typed, SessionTypeOK
<1>3. ~starting
  BY <1>1, <1>2, IdleFacts
<1>4. /\ owns' <=> hasLease'
      /\ client # "none" => (hasLease' <=> hasLease)
      /\ client = "none" => ~owns' \/ refused'
  <2>1. CASE client = "none"
    BY <1>1, <1>2, <2>1, IdleFacts, ReleaseEffect
  <2>2. CASE client # "none"
    BY <1>1, <1>2, <2>2, IdleFacts DEF possession
  <2> QED BY <2>1, <2>2
<1>5. tool' \in {"idle", "retire"} /\ (tool' = "retire" => retiring' = client)
  BY <1>1
<1> QED BY <1>1, <1>2, <1>3, <1>4, <1>5, IdleFacts, IdleKeeps

(* The client is retired, or kept for another try.                         *)
LEMMA DisconnectRetireKeeps ==
  ASSUME CleanInv, DisconnectRetire
  PROVE  Undisturbed'
<1>1. /\ tool = "retire" /\ tool' \in {"idle", "drop"}
      /\ UNCHANGED <<client, starting, cleanup, attempt, owns, hasLease, refused, worker, ended>>
  BY DEF DisconnectRetire, possession
<1>2. Idle
  BY <1>1 DEF CleanInv, Undisturbed, DisconnectAlone
<1> QED BY <1>1, <1>2, IdleFacts, IdleKeeps

(* A retired client is forgotten.                                          *)
LEMMA DisconnectDropKeeps ==
  ASSUME CleanInv, DisconnectDrop
  PROVE  Undisturbed'
<1>1. /\ tool = "drop" /\ tool' = "release" /\ client' = "none"
      /\ UNCHANGED <<starting, cleanup, attempt, owns, hasLease, refused, worker, ended>>
  BY DEF DisconnectDrop, possession
<1>2. Idle
  BY <1>1 DEF CleanInv, Undisturbed, DisconnectAlone
<1> QED BY <1>1, <1>2, IdleFacts, IdleKeeps

(* The lease of a client that is gone is released, or its release refused. *)
LEMMA DisconnectReleaseKeeps ==
  ASSUME CleanInv, DisconnectRelease
  PROVE  Undisturbed'
<1>1. /\ tool = "release" /\ tool' = "idle" /\ Release
      /\ UNCHANGED <<client, starting, cleanup, attempt, worker, ended>>
  BY DEF DisconnectRelease, session
<1>2. Idle /\ client = "none" /\ FlagsTyped
  BY <1>1 DEF CleanInv, Typed, Undisturbed, DisconnectAlone, SessionTypeOK
<1>3. (owns' <=> hasLease') /\ (~owns' \/ refused')
  BY <1>1, <1>2, IdleFacts, ReleaseEffect
<1> QED BY <1>1, <1>2, <1>3, IdleFacts, IdleKeeps

(* A connect has a client and the lease, or what it could not release.     *)
LEMMA ConnectKeeps ==
  ASSUME CleanInv, ~early', Connect
  PROVE  Undisturbed'
<1>1. /\ UNCHANGED <<starting, cleanup, attempt, worker, tool, ended, retiring>>
      /\ MayCall /\ Acts /\ tool = "idle" /\ ~starting /\ ~cleanup /\ client = "none"
  BY DEF Connect, MayCall
<1>2. Idle
  BY <1>1, CalledAlone
<1>3. /\ owns' <=> hasLease'
      /\ client' # "none" => hasLease'
      /\ owns' => client' # "none" \/ refused'
  <2>1. CASE client' = "remote" /\ Possess
    BY <2>1 DEF Possess
  <2>2. CASE hasLease' = owns' /\ refused' = owns' /\ UNCHANGED client
    BY <1>1, <2>2
  <2> QED BY <2>1, <2>2 DEF Connect
<1> QED BY <1>1, <1>2, <1>3, IdleKeeps

(* The two timers of a start, made without the lock.                       *)
LEMMA LaunchKeeps ==
  ASSUME CleanInv, Launch
  PROVE  Undisturbed'
<1>1. /\ UNCHANGED <<session, possession, ended>>
      /\ tool = "launch" /\ tool' = "arm"
      /\ worker' = [worker EXCEPT ![attempt].pc = "grace"]
  BY DEF Launch
<1> DEFINE w == [NewWorker EXCEPT !.pc = "grace"]
<1>2. /\ attempt \in Attempt /\ worker[attempt] = NewWorker
      /\ \A b \in Attempt : ~Busy(b)
  BY <1>1 DEF CleanInv, Typed, LaunchKnown, Undisturbed, OneWorker, Busy, NewWorker
<1>3. "grace" \in WorkerPcs /\ "none" \in MaybeClient /\ SessionTypeOK
  BY Words DEF CleanInv, Typed
<1>4. /\ w \in WorkerRecord /\ w.pc = "grace" /\ w.client = "none" /\ ~w.errors /\ ~w.loaded
      /\ ~w.retired /\ ~w.released
  BY <1>3 DEF WorkerRecord, NewWorker
<1>5. worker' = [worker EXCEPT ![attempt] = w]
  BY <1>1, <1>2, <1>3 DEF SessionTypeOK
<1>6. /\ worker' \in [Attempt -> WorkerRecord] /\ worker'[attempt] = w
      /\ \A b \in Attempt : b # attempt => worker'[b] = worker[b]
  BY <1>2, <1>3, <1>4, <1>5, UpdateEffect
<1> HIDE DEF w
<1>8. /\ worker'[attempt].pc = "grace" /\ worker'[attempt].client = "none"
      /\ ~worker'[attempt].errors /\ ~worker'[attempt].loaded
      /\ ~worker'[attempt].retired /\ ~worker'[attempt].released
  BY <1>4, <1>6
<1>9. \A b \in Attempt : b # attempt => ~Busy(b)' /\ ~OnItsWay(b)'
  BY <1>2, <1>6 DEF Busy, OnItsWay
<1>10. OnItsWay(attempt)' /\ Busy(attempt)' /\ ~Idle'
  BY <1>1, <1>2, <1>8 DEF OnItsWay, Busy, EndSteps, Idle, session
<1>11. /\ client' = "none" /\ (starting' \/ cleanup') /\ (owns' <=> hasLease')
       /\ (attempt \in ended => cancelled')
  <2>1. client = "none" /\ (starting \/ cleanup) /\ (attempt \in ended => cancelled)
    BY <1>1, <1>2 DEF CleanInv, Undisturbed, UnderWay, EndedIsMarked
  <2>2. owns <=> hasLease
    BY <1>2, IdleFacts DEF Idle
  <2> QED BY <1>1, <2>1, <2>2 DEF session, possession
<1>12. \A b \in Attempt : ~At(b, "own")' /\ ~At(b, "obey_own")' /\ ~At(b, "load")'
                           /\ ~At(b, "finally")' /\ b \notin Making'
  BY <1>8, <1>9 DEF At, Busy, Making
<1>13. OneWorker'
  <2>1. \A b \in Attempt : b > attempt => worker[b] = NewWorker /\ b # attempt
    BY <1>2 DEF CleanInv, Undisturbed, OneWorker, Attempt
  <2> QED BY <1>1, <1>6, <1>9, <2>1 DEF OneWorker, session
<1>14. UnderWay' /\ DisconnectAlone'
  BY <1>1, <1>10, <1>11 DEF UnderWay, DisconnectAlone
<1>15. ASSUME NEW b \in Attempt PROVE LocalsTell(b)'
  <2>1. CASE b = attempt
    BY <1>8, <2>1 DEF LocalsTell, EndSteps
  <2>2. CASE b # attempt
    <3>1. worker'[b] = worker[b] /\ LocalsTell(b)
      BY <1>6, <2>2 DEF CleanInv, Undisturbed
    <3> QED BY <3>1 DEF LocalsTell, OnItsWay, Busy
  <2> QED BY <2>1, <2>2
<1>16. LeaseKnown' /\ ClientIsItsOwn' /\ EndIsReported'
  BY <1>8, <1>9, <1>10, <1>11, <1>12 DEF LeaseKnown, ClientIsItsOwn, EndIsReported
<1>17. LeaseCoversClient'
  BY <1>11, <1>12 DEF LeaseCoversClient, HeldUntilRetired, Making
<1>18. EndedIsMarked'
  <2>1. \A b \in ended : b <= attempt
    BY DEF CleanInv, Undisturbed, EndedIsMarked
  <2> QED BY <1>1, <1>11, <2>1 DEF EndedIsMarked, session
<1> QED BY <1>13, <1>14, <1>15, <1>16, <1>17, <1>18 DEF Undisturbed

(* The watchdog is armed when the worker may already be anywhere.          *)
LEMMA ArmKeeps ==
  ASSUME CleanInv, Arm
  PROVE  Undisturbed'
<1>1. UNCHANGED <<session, possession, worker, ended>> /\ tool = "arm" /\ tool' = "idle"
  BY DEF Arm
<1>2. /\ OneWorker' /\ UnderWay' /\ DisconnectAlone' /\ LeaseKnown' /\ ClientIsItsOwn'
      /\ LeaseCoversClient' /\ EndIsReported' /\ EndedIsMarked'
      /\ \A b \in Attempt : LocalsTell(b)'
  BY <1>1, WorkersStay
     DEF CleanInv, Undisturbed, OneWorker, UnderWay, DisconnectAlone, LeaseKnown, ClientIsItsOwn,
         LeaseCoversClient, HeldUntilRetired, EndIsReported, EndedIsMarked, session, possession
<1> QED BY <1>2 DEF Undisturbed

-----------------------------------------------------------------------------
(* The theorems.                                                           *)

(* In the first state nothing is under way.                                *)
LEMMA SessionInitially == SessionInit => StartInv
<1> SUFFICES ASSUME SessionInit PROVE StartInv
  OBVIOUS
<1>1. "none" \in WorkerPcs /\ "none" \in MaybeClient /\ "idle" \in ToolPcs
  BY DEF WorkerPcs, MaybeClient, ToolPcs
<1>2. SessionTypeOK
  <2>1. NewWorker \in WorkerRecord
    BY <1>1 DEF NewWorker, WorkerRecord
  <2>2. FlagsTyped
    BY DEF SessionInit, FlagsTyped
  <2>3. attempt \in 0..MaxStarts /\ guard \in 0..MaxStarts /\ connects \in 0..MaxConnects
    BY BoundsAssumption DEF SessionInit
  <2>4. worker \in [Attempt -> WorkerRecord] /\ ended \subseteq Attempt
    BY <2>1 DEF SessionInit
  <2>5. watchdog \in [Attempt -> {"none", "armed", "expired", "off"}]
    BY DEF SessionInit
  <2>6. /\ client \in MaybeClient /\ reusable \in MaybeClient /\ retiring \in MaybeClient
        /\ tool \in ToolPcs /\ early \in BOOLEAN
    BY <1>1 DEF SessionInit
  <2> QED BY <2>2, <2>3, <2>4, <2>5, <2>6 DEF SessionTypeOK
<1>3. /\ client = "none" /\ ~starting /\ ~owns /\ ~hasLease /\ tool = "idle" /\ ended = {}
      /\ \A a \in Attempt : worker[a] = NewWorker
  BY DEF SessionInit
<1>4. \A a \in Attempt : worker[a].pc = "none" /\ ~Busy(a) /\ ~OnItsWay(a) /\ LocalsTell(a)
  BY <1>3 DEF NewWorker, Busy, OnItsWay, LocalsTell, EndSteps
<1>5. OneWorker /\ UnderWay /\ DisconnectAlone
  BY <1>3, <1>4 DEF OneWorker, UnderWay, DisconnectAlone
<1>6. LeaseKnown /\ ClientIsItsOwn /\ EndIsReported /\ EndedIsMarked
  BY <1>3, <1>4 DEF LeaseKnown, ClientIsItsOwn, EndIsReported, EndedIsMarked, At
<1>7. LeaseCoversClient
  BY <1>3, <1>4 DEF LeaseCoversClient, HeldUntilRetired, Making
<1>8. LaunchKnown
  BY <1>3 DEF LaunchKnown
<1> QED BY <1>2, <1>4, <1>5, <1>6, <1>7, <1>8 DEF StartInv, Undisturbed

(* A tool's step keeps the invariant.                                      *)
LEMMA ToolKeeps ==
  ASSUME CleanInv, ~early', ToolCall \/ ToolGoesOn
  PROVE  Undisturbed'
<1>1. CASE Start
  BY <1>1, StartKeeps
<1>2. CASE StartUnrecorded
  BY <1>2, StartUnrecordedKeeps
<1>3. CASE DisconnectLater
  BY <1>3, DisconnectLaterKeeps
<1>4. CASE Disconnect
  BY <1>4, DisconnectKeeps
<1>5. CASE Connect
  BY <1>5, ConnectKeeps
<1>6. CASE Launch
  BY <1>6, LaunchKeeps
<1>7. CASE Arm
  BY <1>7, ArmKeeps
<1>8. CASE DisconnectRetire
  BY <1>8, DisconnectRetireKeeps
<1>9. CASE DisconnectDrop
  BY <1>9, DisconnectDropKeeps
<1>10. CASE DisconnectRelease
  BY <1>10, DisconnectReleaseKeeps
<1> QED BY <1>1, <1>2, <1>3, <1>4, <1>5, <1>6, <1>7, <1>8, <1>9, <1>10 DEF ToolCall, ToolGoesOn

(* A worker's step keeps the invariant.                                    *)
LEMMA WorkKeeps ==
  ASSUME CleanInv, NEW a \in Attempt, Work(a) \/ Construct(a)
  PROVE  Undisturbed'
<1>1. CASE BeginWork(a)
  BY <1>1, BeginKeeps
<1>2. CASE Preflight(a)
  BY <1>2, PreflightKeeps
<1>3. CASE Check(a)
  BY <1>3, CheckKeeps
<1>4. CASE Obey(a, "obey_check", "acquire") \/ Obey(a, "obey_own", "load")
  BY <1>4, ObeyKeeps
<1>5. CASE Acquire(a)
  BY <1>5, AcquireKeeps
<1>6. CASE Own(a)
  BY <1>6, OwnKeeps
<1>7. CASE Load(a)
  BY <1>7, LoadKeeps
<1>8. CASE CheckConstruct(a)
  BY <1>8, CheckConstructKeeps
<1>9. CASE Construct(a)
  BY <1>9, ConstructKeeps
<1>10. CASE Publish(a)
  BY <1>10, PublishKeeps
<1>11. CASE RetireFailed(a)
  BY <1>11, RetireFailedKeeps
<1>12. CASE Fail(a)
  BY <1>12, FailKeeps
<1>13. CASE Finally(a)
  BY <1>13, FinallyKeeps
<1>14. CASE RetireCancelled(a)
  BY <1>14, RetireCancelledKeeps
<1>15. CASE Discard(a)
  BY <1>15, DiscardKeeps
<1>16. CASE GiveUp(a)
  BY <1>16, GiveUpKeeps
<1> QED BY <1>1, <1>2, <1>3, <1>4, <1>5, <1>6, <1>7, <1>8, <1>9, <1>10, <1>11, <1>12, <1>13,
           <1>14, <1>15, <1>16 DEF Work

(* That a tool has been early stays true.                                  *)
LEMMA EarlyStays ==
  ASSUME [SessionNext]_sessionVars, early
  PROVE  early'
<1>1. ASSUME ToolCall PROVE early'
  BY <1>1 DEF ToolCall, Start, StartUnrecorded, DisconnectLater, Disconnect, Connect, Acts
<1>2. ASSUME ToolGoesOn PROVE early'
  BY <1>2 DEF ToolGoesOn, Launch, Arm, DisconnectRetire, DisconnectDrop, DisconnectRelease
<1>3. ASSUME NEW a \in Attempt, Work(a) PROVE early'
  <2>1. CASE Check(a) \/ CheckConstruct(a)
    BY <2>1 DEF Check, CheckConstruct, Note, Elsewhere
  <2>2. CASE BeginWork(a) \/ Preflight(a) \/ Acquire(a) \/ Own(a) \/ Load(a)
    BY <2>2 DEF BeginWork, Preflight, Acquire, Own, Load, Elsewhere
  <2>3. CASE Obey(a, "obey_check", "acquire") \/ Obey(a, "obey_own", "load")
    BY <2>3 DEF Obey, Elsewhere
  <2>4. CASE Publish(a)
    BY <2>4 DEF Publish, Elsewhere
  <2>5. CASE RetireFailed(a) \/ Fail(a) \/ Finally(a)
    BY <2>5 DEF RetireFailed, Fail, Finally, Elsewhere
  <2>6. CASE RetireCancelled(a) \/ Discard(a) \/ GiveUp(a)
    BY <2>6 DEF RetireCancelled, Discard, GiveUp, Elsewhere
  <2> QED BY <1>3, <2>1, <2>2, <2>3, <2>4, <2>5, <2>6 DEF Work
<1>4. ASSUME NEW a \in Attempt, Construct(a) \/ Expire(a) \/ Timeout(a) PROVE early'
  BY <1>4 DEF Construct, Expire, Timeout, Elsewhere
<1> QED BY <1>1, <1>2, <1>3, <1>4 DEF SessionNext, sessionVars

(* Every step keeps what is known of the session, whether or not a tool    *)
(* has been early, and all of it until then.                               *)
LEMMA SessionStepKeeps ==
  ASSUME StartInv, [SessionNext]_sessionVars
  PROVE  StartInv'
<1>1. Typed'
  BY TypesKeep DEF StartInv, Typed
<1>2. ASSUME ~early' PROVE Undisturbed'
  <2>1. CleanInv
    BY <1>2, EarlyStays DEF StartInv, CleanInv, Typed
  <2>2. CASE ToolCall \/ ToolGoesOn
    BY <1>2, <2>1, <2>2, ToolKeeps
  <2>3. ASSUME NEW a \in Attempt, Work(a) \/ Construct(a) PROVE Undisturbed'
    BY <2>1, <2>3, WorkKeeps
  <2>4. ASSUME NEW a \in Attempt, Expire(a) PROVE Undisturbed'
    BY <2>1, <2>4, ExpireKeeps
  <2>5. ASSUME NEW a \in Attempt, Timeout(a) PROVE Undisturbed'
    BY <2>1, <2>5, TimeoutKeeps
  <2>6. CASE UNCHANGED sessionVars
    <3>1. /\ UNCHANGED <<client, owns, hasLease, refused, attempt, worker, tool, retiring>>
          /\ UNCHANGED <<starting, cancelled, cleanup, ended>>
      BY <2>6 DEF sessionVars, session, possession
    <3> QED BY <2>1, <3>1, MarkKeeps
  <2> QED BY <2>2, <2>3, <2>4, <2>5, <2>6 DEF SessionNext
<1> QED BY <1>1, <1>2 DEF StartInv, Typed

(* Whatever the tools do, and however slow a worker is in its except and   *)
(* finally clauses, the types hold; and until a tool acts beside a worker  *)
(* there the session is undisturbed.                                       *)
THEOREM SessionInvariant == SessionSpec => []StartInv
<1>1. SessionInit => StartInv
  BY SessionInitially
<1>2. StartInv /\ [SessionNext]_sessionVars => StartInv'
  BY SessionStepKeeps
<1> QED BY <1>1, <1>2, PTL DEF SessionSpec

(* There is one client of the process, under the solver lease, until a     *)
(* tool acts beside a worker in its last clauses: no two attempts make     *)
(* one, none constructs while a client is published, and the lease is      *)
(* there while the process may have a client.                              *)
THEOREM OneClient == SessionSpec => []SessionInv
<1>1. StartInv => SessionInv
  <2> SUFFICES ASSUME StartInv PROVE SessionInv
    OBVIOUS
  <2>1. ASSUME Undisturbed PROVE OneMaker
    <3>1. \A a \in Making : a \in Attempt /\ Busy(a)
      BY DEF Making, Busy
    <3>2. \A a \in Making : a = attempt
      BY <2>1, <3>1 DEF Undisturbed, OneWorker
    <3>3. \A a \in Making : Making = {a}
      BY <3>2
    <3>4. \A a \in Making : worker[a].pc = "construct" => OnItsWay(a)
      BY <3>1 DEF OnItsWay, EndSteps
    <3>5. \A a \in Making : worker[a].pc = "construct" => client = "none"
      BY <2>1, <3>1, <3>4 DEF Undisturbed, UnderWay
    <3> QED BY <3>3, <3>5 DEF OneMaker
  <2> QED BY <2>1 DEF SessionInv, StartInv, Undisturbed
<1> QED BY <1>1, SessionInvariant, PTL

(* When nothing is under way the session has the lease only for a client,  *)
(* for a cleanup it reports or because its release was refused, and shows  *)
(* no start that nobody runs, unless a tool has acted beside a worker in   *)
(* its last clauses.                                                       *)
THEOREM NothingIsLeaked == SessionSpec => []NothingLeaks
<1>1. StartInv => NothingLeaks
  <2> SUFFICES ASSUME StartInv, Quiet, ~early
               PROVE  hasLease = owns /\ (owns => client # "none" \/ cleanup \/ refused) /\ ~starting
    BY DEF NothingLeaks
  <2>1. Idle /\ tool = "idle"
    BY DEF Quiet, Idle, Busy
  <2>2. CleanInv
    BY DEF StartInv, CleanInv, Typed
  <2>3. owns \in BOOLEAN /\ hasLease \in BOOLEAN
    BY DEF StartInv, SessionTypeOK, FlagsTyped
  <2> QED BY <2>1, <2>2, <2>3, IdleFacts
<1> QED BY <1>1, SessionInvariant, PTL

(* A start that was cancelled or timed out never publishes its client,     *)
(* whenever the constructor returns, unless a tool has acted beside a      *)
(* worker in its last clauses.                                             *)
THEOREM EndedNeverPublishes == SessionSpec => EndedStaysEnded
<1>1. ASSUME CleanInv, [SessionNext]_sessionVars, NEW a \in ended, At(a, "publish"),
             ~At(a, "publish")'
      PROVE  client' = client
  <2>1. a \in Attempt /\ worker[a].pc = "publish" /\ worker'[a].pc # "publish"
    BY <1>1 DEF CleanInv, Typed, SessionTypeOK, At
  <2>2. Busy(a) /\ OnItsWay(a)
    BY <2>1 DEF Busy, OnItsWay, EndSteps
  <2>3. cancelled
    BY <1>1, <2>1, <2>2, BusyFacts DEF WorkerTells
  <2>4. UNCHANGED client \/ UNCHANGED worker \/ \E b \in Attempt : Work(b)
    BY <1>1 DEF SessionNext, ToolCall, ToolGoesOn, Start, StartUnrecorded, DisconnectLater,
                Disconnect, Connect, Launch, Arm, DisconnectRetire, DisconnectDrop,
                DisconnectRelease, Construct, Expire, Timeout, session, sessionVars
  <2>5. ASSUME NEW b \in Attempt, Work(b), client' # client PROVE FALSE
    <3>1. \/ Publish(b)
          \/ At(b, "grace") \/ At(b, "preflight") \/ At(b, "check") \/ At(b, "obey_check")
          \/ At(b, "acquire") \/ At(b, "own") \/ At(b, "obey_own") \/ At(b, "load")
          \/ At(b, "check_construct") \/ At(b, "retire_failed") \/ At(b, "fail")
          \/ At(b, "finally") \/ At(b, "retire_cancelled") \/ At(b, "discard")
          \/ At(b, "give_up")
      BY <2>5, Zenon DEF Work, BeginWork, Preflight, Check, Obey, Acquire, Own, Load, CheckConstruct,
                  RetireFailed, Fail, Finally, RetireCancelled, Discard, GiveUp
    <3>2. Publish(b) => At(b, "publish")
      BY DEF Publish
    <3>3. Busy(b) /\ (At(b, "publish") => Publish(b))
      BY <3>1, <3>2 DEF At, Busy
    <3>4. b = a
      BY <1>1, <2>1, <2>2, <3>3 DEF CleanInv, Undisturbed, OneWorker
    <3>5. Publish(a)
      BY <1>1, <3>3, <3>4
    <3> QED BY <2>3, <2>5, <3>5 DEF Publish, session
  <2> QED BY <2>1, <2>4, <2>5
<1>2. StartInv /\ ~early => CleanInv
  BY DEF StartInv, CleanInv, Typed
<1>3. StartInv /\ [SessionNext]_sessionVars =>
        [~early => \A a \in ended :
            At(a, "publish") /\ ~At(a, "publish")' => client' = client]_sessionVars
  BY <1>1, <1>2
<1> QED BY <1>3, SessionInvariant, PTL DEF SessionSpec, EndedStaysEnded

=============================================================================
