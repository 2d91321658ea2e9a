---------------------------- MODULE JobLockProofs ----------------------------
(***************************************************************************)
(* Proofs about JobLock, for any threads, processes, faults and deaths.    *)
(***************************************************************************)
EXTENDS JobLockProperties, TLAPS

\* What every step below needs: the shape of the state and of the invariant.
USE NoneAssumption, ProcessAssumption
    DEF TypeOK, GuardsHeld, FileKnown, FileExplained, Dead, Partial, Full, LockFile,
        Pcs, GuardedPcs, InsidePcs, Why, Goto, Guards, OnDisk, Local

LEMMA Initially == Init => JobLockInv
  BY ZenonT(40) DEF Init, JobLockInv

LEMMA BeginKeeps ==
  ASSUME JobLockInv, NEW t \in Thread, Begin(t) PROVE JobLockInv'
<1> USE DEF JobLockInv, Begin
<1>1. TypeOK'
  OBVIOUS
<1>2. GuardsHeld'
  OBVIOUS
<1>3. FileKnown'
  OBVIOUS
<1>4. FileExplained'
  OBVIOUS
<1> QED
  BY <1>1, <1>2, <1>3, <1>4

LEMMA EnterProcessKeeps ==
  ASSUME JobLockInv, NEW t \in Thread, EnterProcess(t) PROVE JobLockInv'
<1> USE DEF JobLockInv, EnterProcess
<1>1. TypeOK'
  OBVIOUS
<1>2. GuardsHeld'
  OBVIOUS
<1>3. FileKnown'
  OBVIOUS
<1>4. FileExplained'
  OBVIOUS
<1> QED
  BY <1>1, <1>2, <1>3, <1>4

LEMMA ProcessBusyKeeps ==
  ASSUME JobLockInv, NEW t \in Thread, ProcessBusy(t) PROVE JobLockInv'
<1> USE DEF JobLockInv, ProcessBusy
<1>1. TypeOK'
  OBVIOUS
<1>2. GuardsHeld'
  OBVIOUS
<1>3. FileKnown'
  OBVIOUS
<1>4. FileExplained'
  OBVIOUS
<1> QED
  BY <1>1, <1>2, <1>3, <1>4

LEMMA EnterSystemKeeps ==
  ASSUME JobLockInv, NEW t \in Thread, EnterSystem(t) PROVE JobLockInv'
<1> USE DEF JobLockInv, EnterSystem
<1>1. TypeOK'
  OBVIOUS
<1>2. GuardsHeld'
  OBVIOUS
<1>3. FileKnown'
  OBVIOUS
<1>4. FileExplained'
  OBVIOUS
<1> QED
  BY <1>1, <1>2, <1>3, <1>4

LEMMA SystemBusyKeeps ==
  ASSUME JobLockInv, NEW t \in Thread, SystemBusy(t) PROVE JobLockInv'
<1> USE DEF JobLockInv, SystemBusy
<1>1. TypeOK'
  OBVIOUS
<1>2. GuardsHeld'
  OBVIOUS
<1>3. FileKnown'
  OBVIOUS
<1>4. FileExplained'
  OBVIOUS
<1> QED
  BY <1>1, <1>2, <1>3, <1>4

LEMMA CreateKeeps ==
  ASSUME JobLockInv, NEW t \in Thread, Create(t) PROVE JobLockInv'
<1> USE DEF JobLockInv, Create
<1>1. TypeOK'
  OBVIOUS
<1>2. GuardsHeld'
  OBVIOUS
<1>3. FileKnown'
  OBVIOUS
<1>4. FileExplained'
  OBVIOUS
<1> QED
  BY <1>1, <1>2, <1>3, <1>4

LEMMA CreateFailsKeeps ==
  ASSUME JobLockInv, NEW t \in Thread, CreateFails(t) PROVE JobLockInv'
<1> USE DEF JobLockInv, CreateFails
<1>1. TypeOK'
  OBVIOUS
<1>2. GuardsHeld'
  OBVIOUS
<1>3. FileKnown'
  OBVIOUS
<1>4. FileExplained'
  OBVIOUS
<1> QED
  BY <1>1, <1>2, <1>3, <1>4

LEMMA ReadKeeps ==
  ASSUME JobLockInv, NEW t \in Thread, Read(t) PROVE JobLockInv'
<1> USE DEF JobLockInv, Read
<1>1. TypeOK'
  OBVIOUS
<1>2. GuardsHeld'
  OBVIOUS
<1>3. FileKnown'
  OBVIOUS
<1>4. FileExplained'
  OBVIOUS
<1> QED
  BY <1>1, <1>2, <1>3, <1>4

LEMMA ReclaimKeeps ==
  ASSUME JobLockInv, NEW t \in Thread, Reclaim(t) PROVE JobLockInv'
<1> USE DEF JobLockInv, Reclaim, Abandoned
<1>1. TypeOK'
  OBVIOUS
<1>2. GuardsHeld'
  OBVIOUS
<1>3. FileKnown'
  OBVIOUS
<1>4. FileExplained'
  OBVIOUS
<1> QED
  BY <1>1, <1>2, <1>3, <1>4

LEMMA WaitKeeps ==
  ASSUME JobLockInv, NEW t \in Thread, Wait(t) PROVE JobLockInv'
<1> USE DEF JobLockInv, Wait
<1>1. TypeOK'
  OBVIOUS
<1>2. GuardsHeld'
  OBVIOUS
<1>3. FileKnown'
  OBVIOUS
<1>4. FileExplained'
  OBVIOUS
<1> QED
  BY <1>1, <1>2, <1>3, <1>4

LEMMA PollKeeps ==
  ASSUME JobLockInv, NEW t \in Thread, Poll(t) PROVE JobLockInv'
<1> USE DEF JobLockInv, Poll
<1>1. TypeOK'
  OBVIOUS
<1>2. GuardsHeld'
  OBVIOUS
<1>3. FileKnown'
  OBVIOUS
<1>4. FileExplained'
  OBVIOUS
<1> QED
  BY <1>1, <1>2, <1>3, <1>4

LEMMA WriteKeeps ==
  ASSUME JobLockInv, NEW t \in Thread, Write(t) PROVE JobLockInv'
<1> USE DEF JobLockInv, Write
<1>1. TypeOK'
  OBVIOUS
<1>2. GuardsHeld'
  OBVIOUS
<1>3. FileKnown'
  OBVIOUS
<1>4. FileExplained'
  OBVIOUS
<1> QED
  BY <1>1, <1>2, <1>3, <1>4

LEMMA SyncKeeps ==
  ASSUME JobLockInv, NEW t \in Thread, Sync(t) PROVE JobLockInv'
<1> USE DEF JobLockInv, Sync
<1>1. TypeOK'
  OBVIOUS
<1>2. GuardsHeld'
  OBVIOUS
<1>3. FileKnown'
  OBVIOUS
<1>4. FileExplained'
  OBVIOUS
<1> QED
  BY <1>1, <1>2, <1>3, <1>4

LEMMA WriteFailsKeeps ==
  ASSUME JobLockInv, NEW t \in Thread, WriteFails(t) PROVE JobLockInv'
<1> USE DEF JobLockInv, WriteFails
<1>1. TypeOK'
  OBVIOUS
<1>2. GuardsHeld'
  OBVIOUS
<1>3. FileKnown'
  OBVIOUS
<1>4. FileExplained'
  OBVIOUS
<1> QED
  BY <1>1, <1>2, <1>3, <1>4

LEMMA CleanupKeeps ==
  ASSUME JobLockInv, NEW t \in Thread, Cleanup(t) PROVE JobLockInv'
<1> USE DEF JobLockInv, Cleanup
<1>1. TypeOK'
  <2>1. pc' \in [Thread -> Pcs]
    OBVIOUS
  <2>2. seen' \in [Thread -> LockFile \cup {None}]
    <3>1. CASE seen' = [seen EXCEPT ![t] = file]
      BY <3>1
    <3>2. CASE seen' = seen
      BY <3>2
    <3> QED
      BY <3>1, <3>2
  <2>3. why' \in [Thread -> Why]
    OBVIOUS
  <2> QED
    BY <2>1, <2>2, <2>3
<1>2. GuardsHeld'
  OBVIOUS
<1>3. FileKnown'
  OBVIOUS
<1>4. FileExplained'
  OBVIOUS
<1> QED
  BY <1>1, <1>2, <1>3, <1>4

LEMMA CompareKeeps ==
  ASSUME JobLockInv, NEW t \in Thread, Compare(t) PROVE JobLockInv'
<1> USE DEF JobLockInv, Compare, AfterRemoval, Reclaims
<1>1. TypeOK'
  OBVIOUS
<1>2. GuardsHeld'
  OBVIOUS
<1>3. FileKnown'
  OBVIOUS
<1>4. FileExplained'
  OBVIOUS
<1> QED
  BY <1>1, <1>2, <1>3, <1>4

LEMMA UnlinkKeeps ==
  ASSUME JobLockInv, NEW t \in Thread, Unlink(t) PROVE JobLockInv'
<1> USE DEF JobLockInv, Unlink, AfterRemoval, Reclaims
<1>1. TypeOK'
  OBVIOUS
<1>2. GuardsHeld'
  OBVIOUS
<1>3. FileKnown'
  OBVIOUS
<1>4. FileExplained'
  OBVIOUS
<1> QED
  BY <1>1, <1>2, <1>3, <1>4

LEMMA UnlinkRefusedKeeps ==
  ASSUME JobLockInv, NEW t \in Thread, UnlinkRefused(t) PROVE JobLockInv'
<1> USE DEF JobLockInv, UnlinkRefused, Reclaims
<1>1. TypeOK'
  OBVIOUS
<1>2. GuardsHeld'
  OBVIOUS
<1>3. FileKnown'
  OBVIOUS
<1>4. FileExplained'
  OBVIOUS
<1> QED
  BY <1>1, <1>2, <1>3, <1>4

LEMMA FreeKeeps ==
  ASSUME JobLockInv, NEW t \in Thread, Free(t) PROVE JobLockInv'
<1> USE DEF JobLockInv, Free
<1>1. TypeOK'
  OBVIOUS
<1>2. GuardsHeld'
  OBVIOUS
<1>3. FileKnown'
  OBVIOUS
<1>4. FileExplained'
  OBVIOUS
<1> QED
  BY <1>1, <1>2, <1>3, <1>4

LEMMA LeaveKeeps ==
  ASSUME JobLockInv, NEW t \in Thread, Leave(t) PROVE JobLockInv'
<1> USE DEF JobLockInv, Leave
<1>1. TypeOK'
  OBVIOUS
<1>2. GuardsHeld'
  OBVIOUS
<1>3. FileKnown'
  OBVIOUS
<1>4. FileExplained'
  OBVIOUS
<1> QED
  BY <1>1, <1>2, <1>3, <1>4

LEMMA ReleaseKeeps ==
  ASSUME JobLockInv, NEW t \in Thread, Release(t) PROVE JobLockInv'
<1> USE DEF JobLockInv, Release
<1>1. TypeOK'
  OBVIOUS
<1>2. GuardsHeld'
  OBVIOUS
<1>3. FileKnown'
  <2>1. file = Full(t) /\ pc' = [pc EXCEPT ![t] = "compare"] /\ UNCHANGED <<file, osGuard, alive>>
    OBVIOUS
  <2>2. file # None /\ file'.maker = t /\ seen'[t] = file /\ why'[t] = "release"
    BY <2>1
  <2>3. \A u \in Thread \ {t} : pc'[u] \notin InsidePcs
    OBVIOUS
  <2> QED
    BY ZenonT(40), <2>1, <2>2, <2>3
<1>4. FileExplained'
  OBVIOUS
<1> QED
  BY <1>1, <1>2, <1>3, <1>4

LEMMA ExpireKeeps ==
  ASSUME JobLockInv, NEW t \in Thread, Expire(t) PROVE JobLockInv'
<1> USE DEF JobLockInv, Expire, WaitingPcs
<1>1. TypeOK'
  OBVIOUS
<1>2. GuardsHeld'
  OBVIOUS
<1>3. FileKnown'
  OBVIOUS
<1>4. FileExplained'
  OBVIOUS
<1> QED
  BY <1>1, <1>2, <1>3, <1>4

LEMMA AgeKeeps ==
  ASSUME JobLockInv, Age PROVE JobLockInv'
  BY DEF Age, JobLockInv

LEMMA DieKeeps ==
  ASSUME JobLockInv, NEW p \in Process, Die(p) PROVE JobLockInv'
<1> USE DEF JobLockInv, Die, Forget
<1>1. TypeOK'
  OBVIOUS
<1>2. GuardsHeld'
  OBVIOUS
<1>3. FileKnown'
  OBVIOUS
<1>4. FileExplained'
  OBVIOUS
<1> QED
  BY <1>1, <1>2, <1>3, <1>4

LEMMA StepKeeps ==
  ASSUME JobLockInv, NEW t \in Thread, Step(t) PROVE JobLockInv'
  BY BeginKeeps, EnterProcessKeeps, ProcessBusyKeeps, EnterSystemKeeps, SystemBusyKeeps,
     CreateKeeps, CreateFailsKeeps, ReadKeeps, ReclaimKeeps, WaitKeeps,
     PollKeeps, WriteKeeps, SyncKeeps, WriteFailsKeeps, CleanupKeeps,
     CompareKeeps, UnlinkKeeps, UnlinkRefusedKeeps, FreeKeeps, LeaveKeeps,
     ReleaseKeeps
     DEF Step

LEMMA NextKeeps == JobLockInv /\ [Next]_vars => JobLockInv'
<1> SUFFICES ASSUME JobLockInv, [Next]_vars PROVE JobLockInv'
  OBVIOUS
<1>1. CASE UNCHANGED vars
  BY <1>1 DEF vars, JobLockInv
<1>2. ASSUME NEW t \in Thread, Step(t) \/ Expire(t) PROVE JobLockInv'
  BY <1>2, StepKeeps, ExpireKeeps
<1>3. CASE Age
  BY <1>3, AgeKeeps
<1>4. ASSUME NEW p \in Process, Die(p) PROVE JobLockInv'
  BY <1>4, DieKeeps
<1> QED
  BY <1>1, <1>2, <1>3, <1>4 DEF Next

\* The invariant of acquire, release and the death of processes: one thread at
\* a time is past the guard, and it alone changes the lock file.
THEOREM LockInvariant == Spec => []JobLockInv
  BY Initially, NextKeeps, PTL DEF Spec

\* A file left behind is a dead process's, or its removal was refused.
THEOREM LeftLockDead == Spec => []LeftLockIsDead
<1>1. JobLockInv => LeftLockIsDead
  BY DEF JobLockInv, LeftLockIsDead
<1> QED
  BY <1>1, LockInvariant, PTL

\* A whole lock file is removed by its own maker or after its maker's process
\* is gone, whatever the age of the file is.
THEOREM OnlyTheDeadAreRobbed == Spec => StealsFromTheDead
<1> DEFINE Robs(t) ==
      /\ osGuard = t /\ file # None /\ file' = None
      /\ file.text = "full" /\ file.maker # t
<1> DEFINE Robbed(t) == ProcessOf[file.maker] \notin alive
<1>1. ASSUME JobLockInv, NEW t \in Thread, Robs(t), NEW u \in Thread, Step(u) \/ Expire(u)
      PROVE  Robbed(t)
  <2>1. Unlink(u)
    BY <1>1 DEF Step, Begin, EnterProcess, ProcessBusy, EnterSystem, SystemBusy, Create, CreateFails,
       Read, Reclaim, Wait, Poll, Write, Sync, WriteFails, Cleanup, Compare, UnlinkRefused,
       Free, Leave, Release, Expire, JobLockInv
  <2>2. u = t /\ pc[t] = "unlink"
    BY <1>1, <2>1 DEF JobLockInv, Unlink
  <2> QED
    BY <1>1, <2>2 DEF JobLockInv
<1>2. ASSUME JobLockInv, NEW t \in Thread, Robs(t), [Next]_vars PROVE Robbed(t)
  <2>1. ~(UNCHANGED vars) /\ ~Age /\ \A p \in Process : ~Die(p)
    BY <1>2 DEF vars, Age, Die
  <2> QED
    BY <1>1, <1>2, <2>1 DEF Next
<1>3. JobLockInv /\ [Next]_vars => [\A t \in Thread : Robs(t) => Robbed(t)]_vars
  BY <1>2
<1> QED
  BY <1>3, LockInvariant, PTL DEF Spec, StealsFromTheDead

-----------------------------------------------------------------------------
(* JobLock implements AtomicLock.                                          *)

\* The holder is behind the guard, so there is no choice in Holder.
GuardHolder == IF osGuard # None /\ pc[osGuard] = "held" THEN osGuard ELSE None

LEMMA HolderIsGuarded ==
  ASSUME JobLockInv PROVE Holder = GuardHolder
<1> USE DEF JobLockInv, Holder, Inside, GuardHolder
<1>1. CASE \E t \in Thread : pc[t] = "held"
  <2>1. PICK t \in Thread : pc[t] = "held"
    BY <1>1
  <2>2. Inside = {t} /\ osGuard = t
    BY <2>1
  <2> QED
    BY <2>1, <2>2
<1>2. CASE \A t \in Thread : pc[t] # "held"
  BY <1>2
<1> QED
  BY <1>1, <1>2

\* Steps that neither reach nor leave "held", nor end a process, are invisible.
LEMMA Invisible ==
  ASSUME JobLockInv, NEW t \in Thread, Step(t) \/ Expire(t), ~Sync(t), ~Release(t)
  PROVE  GuardHolder' = GuardHolder /\ alive' = alive
<1> USE DEF JobLockInv, GuardHolder
<1>1. CASE EnterSystem(t) \/ Free(t)
  BY <1>1 DEF EnterSystem, Free
<1>2. CASE Expire(t)
  BY <1>2 DEF Expire
<1>3. CASE UNCHANGED <<osGuard, alive>> /\ \E s \in Pcs \ {"held"} : pc[t] # "held" /\ pc' = [pc EXCEPT ![t] = s]
  BY <1>3
<1>4. CASE /\ Begin(t) \/ EnterProcess(t) \/ ProcessBusy(t) \/ SystemBusy(t) \/ Create(t)
           /\ UNCHANGED <<osGuard, alive>>
  BY <1>3, <1>4 DEF Begin, EnterProcess, ProcessBusy, SystemBusy, Create
<1>5. CASE CreateFails(t) \/ Read(t) \/ Reclaim(t) \/ Wait(t) \/ Poll(t) \/ Write(t)
  BY <1>3, <1>5 DEF CreateFails, Read, Reclaim, Wait, Poll, Write
<1>6. CASE WriteFails(t) \/ Cleanup(t) \/ Compare(t) \/ Unlink(t) \/ UnlinkRefused(t) \/ Leave(t)
  BY <1>3, <1>6 DEF WriteFails, Cleanup, Compare, AfterRemoval, Unlink, UnlinkRefused, Leave
<1> QED
  BY <1>1, <1>2, <1>4, <1>5, <1>6
     DEF Step, Begin, EnterProcess, ProcessBusy, SystemBusy, Create

LEMMA StepImplements ==
  ASSUME JobLockInv, NEW t \in Thread, Step(t) \/ Expire(t)
  PROVE  [Abstract!Next]_(Abstract!atomicVars)
<1> USE DEF JobLockInv, GuardHolder, Abstract!Next, Abstract!atomicVars
<1>0. Holder = GuardHolder /\ Holder' = GuardHolder'
  <2>1. JobLockInv'
    BY StepKeeps, ExpireKeeps
  <2>2. (JobLockInv => Holder = GuardHolder)'
    BY HolderIsGuarded, PTL
  <2> QED
    BY <2>1, <2>2, HolderIsGuarded
<1>1. CASE Sync(t)
  <2>1. Abstract!Acquire(t)
    BY <1>0, <1>1 DEF Sync, Abstract!Acquire
  <2> QED
    BY <2>1
<1>2. CASE Release(t)
  <2>1. Abstract!Release(t)
    BY <1>0, <1>2 DEF Release, Abstract!Release
  <2> QED
    BY <2>1
<1>3. CASE ~Sync(t) /\ ~Release(t)
  BY <1>0, <1>3, Invisible
<1> QED
  BY <1>1, <1>2, <1>3

LEMMA DieImplements ==
  ASSUME JobLockInv, NEW p \in Process, Die(p)
  PROVE  Abstract!Die(p)
<1>1. JobLockInv'
  BY DieKeeps
<1>2. (JobLockInv => Holder = GuardHolder)'
  BY HolderIsGuarded, PTL
<1>3. Holder = GuardHolder /\ Holder' = GuardHolder'
  BY <1>1, <1>2, HolderIsGuarded
<1> QED
  BY <1>3 DEF JobLockInv, GuardHolder, Die, Abstract!Die

\* To its users the whole protocol is a lock that one thread has at a time and
\* that dies with its process.
THEOREM LockIsAtomic == Spec => ImplementsAtomicLock
<1>1. Init => Abstract!Init
  BY DEF Init, Holder, Inside, Abstract!Init
<1>2. JobLockInv /\ [Next]_vars => [Abstract!Next]_(Abstract!atomicVars)
  <2> SUFFICES ASSUME JobLockInv, [Next]_vars PROVE [Abstract!Next]_(Abstract!atomicVars)
    OBVIOUS
  <2>1. CASE UNCHANGED vars
    BY <2>1 DEF vars, Holder, Inside, Abstract!atomicVars
  <2>2. ASSUME NEW t \in Thread, Step(t) \/ Expire(t) PROVE [Abstract!Next]_(Abstract!atomicVars)
    BY <2>2, StepImplements
  <2>3. CASE Age
    BY <2>3 DEF Age, Holder, Inside, Abstract!atomicVars
  <2>4. ASSUME NEW p \in Process, Die(p) PROVE [Abstract!Next]_(Abstract!atomicVars)
    BY <2>4, DieImplements DEF Abstract!Next
  <2> QED
    BY <2>1, <2>2, <2>3, <2>4 DEF Next
<1> QED
  BY <1>1, <1>2, LockInvariant, PTL DEF Spec, ImplementsAtomicLock, Abstract!Spec

====
