------------------------ MODULE RequestBindingProofs ------------------------
(***************************************************************************)
(* A request makes one job, the job is launched once, and every answer     *)
(* names it: SubmitInv holds of every behaviour, for any callers, requests, *)
(* specifications, jobs, deaths and losses of the index.                   *)
(***************************************************************************)
EXTENDS RequestBindingProperties, TLAPS

USE NoneAssumption, FamilyAssumption, BoundsAssumption

-----------------------------------------------------------------------------
(* Types.                                                                  *)

(* Where a call ends its variables are in their types.                     *)
LEMMA AnswerTyped ==
  ASSUME TypeOK, NEW c \in Caller, NEW j \in Job \cup {None}, Answer(c, j)
  PROVE  /\ lock' \in Caller \cup {None}
         /\ pc' \in [Caller -> Pcs]
         /\ call' \in [Caller -> CallRecord]
         /\ told' \in [Request -> SUBSET Job]
<1>1. lock' \in Caller \cup {None} /\ pc' \in [Caller -> Pcs]
  BY DEF TypeOK, Answer, Goto, Unlocked, Pcs
<1>2. call' \in [Caller -> CallRecord]
  BY DEF TypeOK, Answer, CallRecord, NoCall
<1>3. told' \in [Request -> SUBSET Job]
  BY DEF TypeOK, Answer, CallRecord
<1> QED BY <1>1, <1>2, <1>3

(* So are they when it goes on to a locked section.                        *)
LEMMA NextTyped ==
  ASSUME TypeOK, NEW c \in Caller, NextSection(c)
  PROVE  pc' \in [Caller -> Pcs] /\ call' \in [Caller -> CallRecord]
  BY DEF TypeOK, NextSection, Goto, Pcs, CallRecord

(* So are they when it consults a bound request.                           *)
LEMMA ConsultTyped ==
  ASSUME TypeOK, NEW c \in Caller, Bound(call[c].request), Consult(c)
  PROVE  /\ lock' \in Caller \cup {None}
         /\ pc' \in [Caller -> Pcs]
         /\ call' \in [Caller -> CallRecord]
         /\ told' \in [Request -> SUBSET Job]
<1> DEFINE r == call[c].request
<1>1. r \in Request /\ record[r] \in Binding
  BY DEF TypeOK, CallRecord, Bound
<1>2. CASE record[r].spec # call[c].spec
  BY <1>2, AnswerTyped DEF Consult, Refuse
<1>3. CASE record[r].spec = call[c].spec
  <2>1. record[r].job \in Job
    BY <1>1 DEF Binding
  <2>2. /\ call' = [call EXCEPT ![c].job = record[r].job]
        /\ pc' = [pc EXCEPT ![c] = "look"]
        /\ UNCHANGED <<lock, told>>
    BY <1>3 DEF Consult, Goto
  <2>3. call' \in [Caller -> CallRecord]
    BY <2>1, <2>2 DEF TypeOK, CallRecord
  <2> QED BY <2>2, <2>3 DEF TypeOK, Pcs, LookPcs
<1> QED BY <1>2, <1>3

(* So is a job whose status is changed.                                    *)
LEMMA InterruptTyped ==
  ASSUME TypeOK, NEW j \in Job, Interrupt(j)
  PROVE  job' \in [Job -> JobRecord]
  BY DEF TypeOK, Interrupt, JobRecord, Status, TERMINAL_STATES

(* What the job directory of a record is has a type too.                   *)
LEMMA EntriesTyped ==
  ASSUME TypeOK, NEW s \in DuplicateSpec
  PROVE  Rebuilt \in [DuplicateSpec -> Job \cup {None}] /\ Entries(s) \in [DuplicateSpec -> Job \cup {None}]
<1>1. \A t \in DuplicateSpec : Evidence(t) \subseteq Job
  BY DEF Evidence
<1>2. \A t \in DuplicateSpec : Evidence(t) # {} => (CHOOSE j \in Evidence(t) : TRUE) \in Job
  BY <1>1
<1>3. Rebuilt \in [DuplicateSpec -> Job \cup {None}]
  BY <1>2 DEF Rebuilt
<1> QED BY <1>3 DEF Entries, TypeOK

(* The arguments of a caller have the types its steps expect.              *)
LEMMA CallTyped ==
  ASSUME SubmitInv, NEW c \in Caller
  PROVE  /\ call[c] \in CallRecord
         /\ pc[c] \in Pcs
         /\ pc[c] \notin {"idle", "down"} => call[c].spec \in JobSpec
         /\ pc[c] \in FollowPcs \cup OwnPcs \cup {"look", "create", "record_duplicate"} =>
              call[c].job \in Job
         /\ pc[c] \in {"look", "dispatch", "record_duplicate"} \cup FollowPcs =>
              call[c].request \in Request
  BY DEF SubmitInv, TypeOK, CallerInv, ArgumentsGiven, CallRecord

(* The locked sections keep the types.                                     *)
LEMMA SectionTyped ==
  ASSUME SubmitInv, NEW c \in Caller,
         \/ Find(c) \/ Bind(c) \/ RecordDuplicate(c) \/ Create(c) \/ Mark(c) \/ Dispatch(c)
         \/ Index(c) \/ Unlock(c)
  PROVE  TypeOK'
<1> USE CallTyped DEF SubmitInv
<1>1. CASE Find(c)
  <2> DEFINE s == call[c].spec
             j == Entries(s)[s]
  <2>1. s \in DuplicateSpec /\ j \in Job \cup {None} /\ call[c] \in CallRecord
    BY <1>1, EntriesTyped DEF Find, CallerInv, SectionLocked
  <2>2. index' \in [DuplicateSpec -> Job \cup {None}]
    BY <1>1, <2>1, EntriesTyped DEF Find
  <2>3. \/ NotFound(c)
        \/ j # None /\ Found(c, j)
    BY <1>1 DEF Find
  <2>4. /\ lock' \in Caller \cup {None}
        /\ pc' \in [Caller -> Pcs]
        /\ call' \in [Caller -> CallRecord]
        /\ told' \in [Request -> SUBSET Job]
    <3>1. CASE NotFound(c)
      BY <3>1, NextTyped DEF NotFound, TypeOK, Goto, Pcs, LockedPcs
    <3>2. CASE j # None /\ Found(c, j) /\ call[c].request = None
      BY <2>1, <3>2, AnswerTyped DEF Found
    <3>3. CASE j # None /\ Found(c, j) /\ call[c].request # None
      <4>1. call' = [call EXCEPT ![c].duplicate = j]
        BY <3>3 DEF Found
      <4>2. call' \in [Caller -> CallRecord]
        BY <2>1, <3>3, <4>1 DEF TypeOK, CallRecord
      <4> QED BY <3>3, <4>2 DEF Found, Goto, TypeOK, Pcs, LockedPcs
    <3> QED BY <2>3, <3>1, <3>2, <3>3
  <2> QED BY <1>1, <2>2, <2>4 DEF Find, TypeOK, Bounds
<1>2. CASE Bind(c)
  <2>1. CASE BindUnread(c)
    <3>1. PICK j \in Job :
            /\ record' = IF call[c].request = None THEN record
                         ELSE [record EXCEPT ![call[c].request] =
                                [spec |-> call[c].spec, job |-> j, state |-> "unknown"]]
            /\ call' = [call EXCEPT ![c].job = j]
      BY <2>1 DEF BindUnread
    <3>2. call[c].spec \in JobSpec /\ call[c] \in CallRecord
      BY <2>1 DEF BindUnread
    <3>3. record' \in [Request -> Binding \cup {None}]
      BY <3>1, <3>2 DEF TypeOK, Binding
    <3>4. call' \in [Caller -> CallRecord]
      BY <3>1, <3>2 DEF TypeOK, CallRecord
    <3>5. pc' \in [Caller -> Pcs]
      BY <2>1 DEF BindUnread, Goto, TypeOK, Pcs, LockedPcs
    <3> QED BY <2>1, <3>3, <3>4, <3>5 DEF BindUnread, TypeOK, Bounds
  <2>2. CASE Bound(call[c].request) /\ Consult(c) /\ UNCHANGED <<Files, alive, Bounds>>
    BY <2>2, ConsultTyped DEF TypeOK, Files, Bounds
  <2> QED BY <1>2, <2>1, <2>2 DEF Bind
<1>3. CASE RecordDuplicate(c)
  <2>1. call[c].duplicate \in Job /\ call[c].request \in Request /\ call[c].spec \in JobSpec
    BY <1>3 DEF RecordDuplicate, CallerInv, ArgumentsGiven, CallRecord
  <2>2. record' \in [Request -> Binding \cup {None}]
    BY <1>3, <2>1 DEF RecordDuplicate, Dispatched, TypeOK, Binding
  <2> QED BY <1>3, <2>1, <2>2, AnswerTyped DEF RecordDuplicate, TypeOK, Bounds
<1>4. CASE Create(c)
  <2>1. CASE Exists(call[c].job)
    BY <1>4, <2>1, AnswerTyped DEF Create, Refuse, TypeOK, Bounds
  <2>2. CASE ~Exists(call[c].job)
    <3>1. call[c].job \in Job /\ call[c].spec \in JobSpec /\ call[c] \in CallRecord
      BY <1>4 DEF Create, OwnPcs, FollowPcs
    <3>2. [NoJob EXCEPT !.dir = "present", !.spec = call[c].spec,
                        !.launches = job[call[c].job].launches,
                        !.origin = call[c].request] \in JobRecord
      BY <3>1 DEF JobRecord, NoJob, CallRecord, TypeOK, Status, ACTIVE_STATES
    <3>3. job' \in [Job -> JobRecord]
      BY <1>4, <2>2, <3>1, <3>2 DEF Create, TypeOK
    <3> QED BY <1>4, <2>2, <3>3 DEF Create, TypeOK, Bounds, Goto, Pcs, LockedPcs
  <2> QED BY <2>1, <2>2
<1>5. CASE Mark(c)
  <2>1. call[c].job \in Job
    BY <1>5 DEF Mark, OwnPcs
  <2>2. job' \in [Job -> JobRecord]
    BY <1>5, <2>1 DEF Mark, TypeOK, JobRecord
  <2> QED BY <1>5, <2>2 DEF Mark, TypeOK, Bounds, Goto, Pcs, LockedPcs
<1>6. CASE Dispatch(c)
  <2>1. call[c].job \in Job /\ call[c].request \in Request /\ call[c].spec \in JobSpec
    BY <1>6 DEF Dispatch, OwnPcs, FollowPcs
  <2>2. record' \in [Request -> Binding \cup {None}]
    BY <1>6, <2>1 DEF Dispatch, Dispatched, TypeOK, Binding
  <2> QED BY <1>6, <2>2 DEF Dispatch, TypeOK, Bounds, Goto, Pcs, LockedPcs
<1>7. CASE Index(c)
  <2>1. call[c].job \in Job
    BY <1>7 DEF Index, OwnPcs
  <2>2. \A s \in DuplicateSpec : Rebuilt \in [DuplicateSpec -> Job \cup {None}]
    BY EntriesTyped
  <2>3. index' \in [DuplicateSpec -> Job \cup {None}]
    <3>1. CASE \E s \in DuplicateSpec : TRUE
      BY <1>7, <2>1, <2>2, <3>1 DEF Index, TypeOK
    <3>2. CASE DuplicateSpec = {}
      BY <1>7, <3>2 DEF Index, TypeOK, Rebuilt
    <3> QED BY <3>1, <3>2
  <2> QED BY <1>7, <2>3 DEF Index, TypeOK, Bounds, Goto, Pcs, LockedPcs
<1>8. CASE Unlock(c)
  BY <1>8 DEF Unlock, TypeOK, Files, Bounds, Goto, Pcs, LaunchPcs
<1> QED BY <1>1, <1>2, <1>3, <1>4, <1>5, <1>6, <1>7, <1>8

(* So do the steps outside them.                                           *)
LEMMA LookTyped ==
  ASSUME SubmitInv, NEW c \in Caller,
         \/ Early(c) \/ Look(c) \/ Marker1(c) \/ Marker2(c) \/ Take(c) \/ LookLocked(c)
         \/ MarkerLocked(c) \/ Marker3(c) \/ Lock(c)
  PROVE  TypeOK'
<1> USE CallTyped DEF SubmitInv
<1>1. CASE Early(c)
  BY <1>1, ConsultTyped, NextTyped DEF Early, TypeOK, Files, Bounds
<1>2. CASE Look(c)
  <2>1. call[c].job \in Job
    BY <1>2 DEF Look
  <2>2. CASE Absent(c)
    <3>1. CASE Refuse(c)
      BY <1>2, <3>1, AnswerTyped DEF Refuse, Look, TypeOK, Files, Bounds
    <3>2. CASE NextSection(c) /\ UNCHANGED <<lock, told>>
      BY <1>2, <3>2, NextTyped DEF Look, TypeOK, Files, Bounds
    <3>3. CASE Goto(c, "record_duplicate") /\ UNCHANGED <<call, lock, told>>
      BY <1>2, <3>3 DEF Goto, Look, TypeOK, Files, Bounds, Pcs, LockedPcs
    <3>4. CASE Goto(c, "create") /\ UNCHANGED <<call, lock, told>>
      BY <1>2, <3>4 DEF Goto, Look, TypeOK, Files, Bounds, Pcs, LockedPcs
    <3> QED BY <2>2, <3>1, <3>2, <3>3, <3>4 DEF Absent
  <2>3. CASE Answer(c, call[c].job)
    BY <1>2, <2>1, <2>3, AnswerTyped DEF Look, TypeOK, Files, Bounds
  <2>4. CASE Goto(c, "marker1") /\ UNCHANGED <<call, lock, told>>
    BY <1>2, <2>4 DEF Goto, Look, TypeOK, Files, Bounds, Pcs, LookPcs
  <2> QED BY <1>2, <2>2, <2>3, <2>4 DEF Look
<1>3. CASE Marker1(c) \/ Marker2(c) \/ Take(c) \/ LookLocked(c)
  <2>1. call[c].job \in Job /\ UNCHANGED <<Files, alive, Bounds>>
    BY <1>3 DEF FollowPcs, Marker1, Marker2, Take, LookLocked, Files, Bounds
  <2>2. CASE Answer(c, call[c].job)
    BY <2>1, <2>2, AnswerTyped DEF TypeOK, Files, Bounds
  <2>3. CASE /\ \E step \in LookPcs : Goto(c, step)
             /\ UNCHANGED <<call, told>> /\ lock' \in {lock, c}
    BY <2>1, <2>3 DEF Goto, TypeOK, Files, Bounds, Pcs
  <2> QED BY <1>3, <2>2, <2>3 DEF Marker1, Marker2, Take, LookLocked, LookPcs
<1>4. CASE MarkerLocked(c) \/ Marker3(c)
  <2>1. call[c].job \in Job
    BY <1>4 DEF FollowPcs, MarkerLocked, Marker3
  <2>2. job' \in [Job -> JobRecord]
    BY <1>4, <2>1, InterruptTyped DEF MarkerLocked, Marker3, TypeOK
  <2> QED BY <1>4, <2>1, <2>2, AnswerTyped DEF MarkerLocked, Marker3, TypeOK, Bounds
<1>5. CASE Lock(c)
  <2>1. CASE Refuse(c)
    BY <1>5, <2>1, AnswerTyped DEF Refuse, Lock, TypeOK, Files, Bounds
  <2>2. CASE /\ \E step \in LockedPcs : Goto(c, step)
             /\ UNCHANGED <<call, told>> /\ lock' = c
    BY <1>5, <2>2 DEF Goto, Lock, TypeOK, Files, Bounds, Pcs
  <2> QED BY <1>5, <2>1, <2>2 DEF Lock, LockedPcs
<1> QED BY <1>1, <1>2, <1>3, <1>4, <1>5

(* So do a launch and what follows it.                                     *)
LEMMA LaunchTyped ==
  ASSUME SubmitInv, NEW c \in Caller,
         Launch(c) \/ BindWorker(c) \/ Clear(c) \/ ClearFailed(c) \/ Fail(c)
  PROVE  TypeOK'
<1> USE CallTyped DEF SubmitInv
<1>1. call[c].job \in Job /\ job[call[c].job] \in JobRecord
  BY DEF OwnPcs, LaunchPcs, Launch, BindWorker, Clear, ClearFailed, Fail, TypeOK
<1>2. job' \in [Job -> JobRecord]
  <2>1. CASE Launch(c)
    <3>1. job[call[c].job].launches + 1 \in Nat
      BY <1>1 DEF JobRecord
    <3>2. [job[call[c].job] EXCEPT !.launches = @ + 1] \in JobRecord
      BY <1>1, <3>1 DEF JobRecord
    <3> QED BY <1>1, <2>1, <3>2 DEF Launch, TypeOK
  <2>2. CASE BindWorker(c)
    BY <1>1, <2>2 DEF BindWorker, TypeOK, JobRecord
  <2>3. CASE Clear(c) \/ ClearFailed(c)
    BY <1>1, <2>3 DEF Clear, ClearFailed, Unmark, TypeOK, JobRecord
  <2>4. CASE Fail(c)
    BY <1>1, <2>4 DEF Fail, TypeOK, JobRecord, Status, TERMINAL_STATES
  <2> QED BY <2>1, <2>2, <2>3, <2>4
<1>3. CASE \/ Launch(c) \/ BindWorker(c) \/ ClearFailed(c)
  <2>1. pc' \in [Caller -> Pcs]
    BY <1>3 DEF Launch, BindWorker, ClearFailed, Goto, TypeOK, Pcs, LaunchPcs
  <2> QED BY <1>2, <1>3, <2>1 DEF Launch, BindWorker, ClearFailed, TypeOK, Bounds
<1>4. CASE Clear(c) \/ Fail(c)
  BY <1>1, <1>2, <1>4, AnswerTyped DEF Clear, Fail, TypeOK, Bounds
<1> QED BY <1>3, <1>4

(* So does all the rest.                                                   *)
LEMMA OutsideTyped ==
  ASSUME SubmitInv,
         \/ \E c \in Caller, r \in Request \cup {None}, s \in JobSpec : Submit(c, r, s)
         \/ \E c \in Caller : Die(c)
         \/ \E j \in Job : WorkerBinds(j) \/ WorkerStarts(j) \/ WorkerFails(j) \/ Remove(j)
         \/ \E s \in DuplicateSpec : LoseEntry(s)
  PROVE  TypeOK'
<1> USE DEF SubmitInv
<1>1. ASSUME NEW c \in Caller, NEW r \in Request \cup {None}, NEW s \in JobSpec, Submit(c, r, s)
      PROVE  TypeOK'
  <2>1. [NoCall EXCEPT !.request = r, !.spec = s] \in CallRecord
    BY DEF NoCall, CallRecord
  <2>2. call' \in [Caller -> CallRecord] /\ pc' \in [Caller -> Pcs]
    BY <1>1, <2>1 DEF Submit, Goto, TypeOK, Pcs, LookPcs
  <2>3. calls' \in 0..MaxCalls
    <3>1. calls < MaxCalls /\ calls' = calls + 1
      BY <1>1, Zenon DEF Submit
    <3> QED BY <3>1 DEF TypeOK
  <2> QED BY <1>1, <2>2, <2>3 DEF Submit, TypeOK, Files
<1>2. ASSUME NEW c \in Caller, Die(c) PROVE TypeOK'
  <2>1. NoCall \in CallRecord
    BY DEF NoCall, CallRecord
  <2> QED BY <1>2, <2>1 DEF Die, Goto, Unlocked, TypeOK, Pcs, Files, Bounds
<1>3. ASSUME NEW j \in Job, WorkerBinds(j) \/ WorkerStarts(j) \/ WorkerFails(j) \/ Remove(j)
      PROVE  TypeOK'
  <2>1. job' \in [Job -> JobRecord]
    <3>1. CASE WorkerBinds(j)
      <4>1. job[j] \in JobRecord
        BY DEF TypeOK
      <4>2. [job[j] EXCEPT !.bound = TRUE] \in JobRecord
        BY <4>1 DEF JobRecord
      <4> QED BY <3>1, <4>2 DEF WorkerBinds, TypeOK
    <3>2. CASE WorkerStarts(j) \/ WorkerFails(j)
      BY <3>2 DEF WorkerStarts, WorkerFails, TypeOK, JobRecord, Status,
                  ACTIVE_STATES, TERMINAL_STATES
    <3>3. CASE Remove(j)
      <4>1. job[j] \in JobRecord
        BY DEF TypeOK
      <4>2. [job[j] EXCEPT !.dir = "removed", !.marker = None] \in JobRecord
        BY <4>1 DEF JobRecord
      <4>3. job' = [job EXCEPT ![j] = [job[j] EXCEPT !.dir = "removed", !.marker = None]]
        BY <3>3, Zenon DEF Remove
      <4> QED BY <4>2, <4>3 DEF TypeOK
    <3> QED BY <1>3, <3>1, <3>2, <3>3
  <2> QED BY <1>3, <2>1 DEF WorkerBinds, WorkerStarts, WorkerFails, Remove, TypeOK, Bounds
<1>4. ASSUME NEW s \in DuplicateSpec, LoseEntry(s) PROVE TypeOK'
  BY <1>4 DEF LoseEntry, TypeOK
<1> QED BY <1>1, <1>2, <1>3, <1>4

-----------------------------------------------------------------------------
(* Quiet steps: they neither bind, publish, launch nor remove, and leave the *)
(* marks of the jobs of others.                                            *)

FilesKept ==
  /\ UNCHANGED record
  /\ \A j \in Job : /\ job'[j].dir = job[j].dir
                    /\ job'[j].spec = job[j].spec
                    /\ job'[j].launches = job[j].launches
                    /\ job'[j].origin = job[j].origin

Stays(c) == pc'[c] = pc[c] /\ call'[c] = call[c] /\ (lock = c => lock' = c)

MarkKept(c) ==
  pc[c] \in OwnPcs => job'[call[c].job].marker = job[call[c].job].marker

SearchKept(c) == lock = c => \A s \in DuplicateSpec : index[s] = None => index'[s] = None

(* A caller does not start to create what was given up, nor to own a job.   *)
Modest(c) ==
  /\ pc'[c] = "create" =>
       ~Gone(call'[c].job) \/ (pc[c] = "create" /\ call'[c].job = call[c].job)
  /\ pc'[c] \in OwnPcs => pc[c] \in OwnPcs /\ call'[c].job = call[c].job

(* A caller that stays where it is is modest.                              *)
LEMMA StaysModest == ASSUME NEW c \in Caller, Stays(c) PROVE Modest(c)
  BY DEF Stays, Modest

(* What was given up stays given up.                                       *)
LEMMA GoneStays ==
  ASSUME FilesKept, \A c \in Caller : Modest(c), NEW j \in Job, Gone(j)
  PROVE  Gone(j)'
  BY DEF FilesKept, Modest, Gone, Exists, Unknown

(* A quiet step keeps the part of a caller that stays where it is.         *)
LEMMA BystanderKeeps ==
  ASSUME SubmitInv, FilesKept, \A d \in Caller : Modest(d),
         NEW c \in Caller, Stays(c), MarkKept(c), SearchKept(c)
  PROVE  CallerInv(c)'
<1> CallerInv(c)
  BY DEF SubmitInv
<1>0. \A j \in Job : Exists(j)' <=> Exists(j)
  BY DEF FilesKept, Exists
<1>1. SectionLocked(c)'
  BY DEF CallerInv, Stays, SectionLocked
<1>2. ArgumentsGiven(c)'
  BY <1>0, CallTyped DEF CallerInv, Stays, ArgumentsGiven, CallRecord
<1>3. SearchStands(c)'
  BY <1>0 DEF CallerInv, SectionLocked, Stays, SearchStands, SearchKept, FilesKept, Evidence,
              LockedPcs
<1>4. FollowsBinding(c)'
  BY <1>0, CallTyped, GoneStays DEF CallerInv, Stays, FollowsBinding, FilesKept
<1>5. MayCreate(c)'
  BY <1>0, CallTyped DEF CallerInv, Stays, MayCreate, FilesKept, Unknown
<1>6. OwnsJob(c)'
  <2>1. CASE pc[c] \in OwnPcs
    <3>1. call[c].job \in Job
      BY <2>1, CallTyped
    <3>2. \A d \in Caller : pc'[d] \in OwnPcs => pc[d] \in OwnPcs /\ call'[d].job = call[d].job
      BY DEF Modest
    <3> QED BY <1>0, <2>1, <3>1, <3>2
            DEF CallerInv, Stays, MarkKept, OwnsJob, FilesKept, Unknown
  <2>2. CASE pc[c] \notin OwnPcs
    BY <2>2 DEF Stays, OwnsJob, OwnPcs, LaunchPcs
  <2> QED BY <2>1, <2>2
<1> QED BY <1>1, <1>2, <1>3, <1>4, <1>5, <1>6 DEF CallerInv

(* A quiet step keeps the part of the files.                               *)
LEMMA QuietFiles ==
  ASSUME SubmitInv, FilesKept, \A c \in Caller : Modest(c), IndexIsTrue',
         \A r \in Request : \A j \in told'[r] :
           \/ j \in told[r]
           \/ Exists(j) /\ record[r] # None /\ record[r].job = j,
         told' \in [Request -> SUBSET Job]
  PROVE  FileInv'
<1> USE DEF SubmitInv, FileInv
<1>0. \A j \in Job : Exists(j)' <=> Exists(j)
  BY DEF FilesKept, Exists
<1>1. DispatchedIsPublished'
  BY DEF FilesKept, DispatchedIsPublished, Exists, TypeOK, Binding
<1>2. AttemptsDistinct'
  BY DEF FilesKept, AttemptsDistinct, Unknown
<1>3. OneLaunchPerRequest'
  BY DEF FilesKept, OneLaunchPerRequest
<1>4. OriginIsBound'
  BY DEF FilesKept, OriginIsBound
<1>5. ToldIsBound'
  BY GoneStays DEF FilesKept, ToldIsBound
<1>6. OneJobPerSpec'
  BY <1>0 DEF FilesKept, OneJobPerSpec
<1> QED BY <1>1, <1>2, <1>3, <1>4, <1>5, <1>6

(* A caller that has nothing to do promises nothing.                       *)
LEMMA IdleKeeps ==
  ASSUME NEW c \in Caller, pc'[c] \in {"idle", "down"}, call'[c] = NoCall
  PROVE  CallerInv(c)' /\ Modest(c)
  BY DEF CallerInv, SectionLocked, ArgumentsGiven, SearchStands, FollowsBinding, MayCreate,
         OwnsJob, Modest, NoCall, LockedPcs, FollowPcs, OwnPcs, LaunchPcs

(* A quiet step keeps the invariant if the caller does.                    *)
LEMMA SearchKeeps ==
  ASSUME SubmitInv, FilesKept, NEW c \in Caller, CallerInv(c)', Modest(c), IndexIsTrue',
         \A d \in Caller \ {c} : Stays(d) /\ MarkKept(d) /\ SearchKept(d),
         \A r \in Request : \A j \in told'[r] :
           \/ j \in told[r]
           \/ Exists(j) /\ record[r] # None /\ record[r].job = j,
         told' \in [Request -> SUBSET Job]
  PROVE  FileInv' /\ \A d \in Caller : CallerInv(d)'
<1>1. \A d \in Caller : Modest(d)
  BY StaysModest
<1> QED BY <1>1, BystanderKeeps, QuietFiles

(* An index that is left alone stays true.                                 *)
LEMMA IndexStays ==
  ASSUME SubmitInv, FilesKept, UNCHANGED index
  PROVE  IndexIsTrue' /\ \A c \in Caller : SearchKept(c)
<1>1. \A s \in DuplicateSpec : Evidence(s)' = Evidence(s)
  BY DEF FilesKept, Evidence, Exists
<1> QED BY <1>1 DEF SubmitInv, FileInv, IndexIsTrue, SearchKept

(* A quiet step of one caller keeps everything.                            *)
LEMMA QuietKeeps ==
  ASSUME SubmitInv, FilesKept, UNCHANGED index, NEW c \in Caller, CallerInv(c)', Modest(c),
         \A d \in Caller \ {c} : Stays(d) /\ MarkKept(d),
         \A r \in Request : \A j \in told'[r] :
           \/ j \in told[r]
           \/ Exists(j) /\ record[r] # None /\ record[r].job = j,
         told' \in [Request -> SUBSET Job]
  PROVE  FileInv' /\ \A d \in Caller : CallerInv(d)'
  BY IndexStays, SearchKeeps

(* A call that ends tells its client of the bound job.                     *)
LEMMA AnswerKeeps ==
  ASSUME SubmitInv, FilesKept, IndexIsTrue',
         NEW c \in Caller, NEW j \in Job \cup {None}, Answer(c, j),
         \A d \in Caller \ {c} : SearchKept(d),
         \A d \in Caller \ {c} : MarkKept(d),
         j # None /\ call[c].request # None =>
           Exists(j) /\ record[call[c].request] # None /\ record[call[c].request].job = j
  PROVE  FileInv' /\ \A d \in Caller : CallerInv(d)'
<1>1. pc'[c] = "idle" /\ call'[c] = NoCall
  BY DEF SubmitInv, TypeOK, Answer, Goto
<1>2. \A d \in Caller \ {c} : Stays(d)
  BY DEF SubmitInv, TypeOK, Answer, Goto, Unlocked, Stays
<1>3. told' \in [Request -> SUBSET Job]
  BY AnswerTyped DEF SubmitInv
<1>4. \A r \in Request : \A k \in told'[r] :
        \/ k \in told[r]
        \/ Exists(k) /\ record[r] # None /\ record[r].job = k
  BY DEF SubmitInv, TypeOK, Answer
<1> QED BY <1>1, <1>2, <1>3, <1>4, IdleKeeps, SearchKeeps

(* A step that changes no file changes nothing for the others.             *)
LEMMA LookKeeps ==
  ASSUME SubmitInv, NEW c \in Caller, UNCHANGED <<record, index, job, told>>,
         CallerInv(c)', Modest(c), \A d \in Caller \ {c} : Stays(d)
  PROVE  FileInv' /\ \A d \in Caller : CallerInv(d)'
<1>1. FilesKept /\ \A d \in Caller : MarkKept(d)
  BY DEF FilesKept, MarkKept
<1> QED BY <1>1, QuietKeeps DEF SubmitInv, TypeOK

(* So does an answer with the bound job that changes no file.              *)
LEMMA AnswerFromFiles ==
  ASSUME SubmitInv, NEW c \in Caller, NEW j \in Job \cup {None}, Answer(c, j),
         UNCHANGED <<record, index, job>>,
         j # None /\ call[c].request # None =>
           Exists(j) /\ record[call[c].request] # None /\ record[call[c].request].job = j
  PROVE  FileInv' /\ \A d \in Caller : CallerInv(d)'
<1>1. FilesKept /\ \A d \in Caller : MarkKept(d)
  BY DEF FilesKept, MarkKept
<1> QED BY <1>1, AnswerKeeps, IndexStays

(* So does going on to the locked sections.                                *)
LEMMA NextSectionKeeps ==
  ASSUME SubmitInv, NEW c \in Caller, NextSection(c), UNCHANGED <<record, index, job, told>>,
         pc[c] # "idle" /\ pc[c] # "down", call[c].duplicate = None,
         \A d \in Caller \ {c} : lock = d => lock' = d
  PROVE  FileInv' /\ \A d \in Caller : CallerInv(d)'
<1>1. call[c] \in CallRecord /\ call[c].spec # None
  BY CallTyped
<1>2. pc'[c] = "lock" /\ call'[c].duplicate = None /\ call'[c].spec # None
        /\ call'[c].phase \in {"first", "second"}
  BY <1>1 DEF NextSection, Goto, SubmitInv, TypeOK, CallRecord
<1>3. CallerInv(c)' /\ Modest(c)
  BY <1>2 DEF CallerInv, SectionLocked, ArgumentsGiven, SearchStands, FollowsBinding, MayCreate,
              OwnsJob, Modest, LockedPcs, FollowPcs, OwnPcs, LaunchPcs
<1>4. \A d \in Caller \ {c} : Stays(d)
  BY DEF NextSection, Goto, SubmitInv, TypeOK, Stays
<1> QED BY <1>3, <1>4, LookKeeps

(* So does a consultation of the bound request.                            *)
LEMMA ConsultKeeps ==
  ASSUME SubmitInv, NEW c \in Caller, Bound(call[c].request), Consult(c),
         pc[c] \in {"early", "bind"}, UNCHANGED <<record, index, job>>
  PROVE  FileInv' /\ \A d \in Caller : CallerInv(d)'
<1> DEFINE r == call[c].request
<1>1. CASE record[r].spec # call[c].spec
  BY <1>1, AnswerFromFiles DEF Consult, Refuse
<1>2. CASE record[r].spec = call[c].spec
  <2>1. /\ call' = [call EXCEPT ![c].job = record[r].job]
        /\ pc' = [pc EXCEPT ![c] = "look"]
        /\ UNCHANGED <<lock, told>>
    BY <1>2 DEF Consult, Goto
  <2>2. r \in Request /\ record[r] \in Binding /\ call[c] \in CallRecord /\ call[c].spec # None
    BY CallTyped DEF SubmitInv, TypeOK, CallRecord, Bound
  <2>3. /\ pc'[c] = "look" /\ call'[c].job = record[r].job /\ call'[c].job \in Job
        /\ call'[c].request = r /\ call'[c].spec = call[c].spec
        /\ call'[c].phase = call[c].phase /\ call'[c].duplicate = call[c].duplicate
    BY <2>1, <2>2 DEF SubmitInv, TypeOK, CallRecord, Binding
  <2>4. CallerInv(c)
    BY DEF SubmitInv
  <2>5. SectionLocked(c)' /\ ArgumentsGiven(c)' /\ Modest(c)
    BY <2>1, <2>2, <2>3, <2>4
       DEF CallerInv, SectionLocked, ArgumentsGiven, Modest, LockedPcs, FollowPcs, OwnPcs,
           LaunchPcs, Exists
  <2>6. SearchStands(c)'
    BY <2>3, <2>4 DEF CallerInv, SectionLocked, SearchStands, Evidence, Exists
  <2>7. FollowsBinding(c)' /\ MayCreate(c)' /\ OwnsJob(c)'
    BY <2>2, <2>3 DEF FollowsBinding, MayCreate, OwnsJob, FollowPcs, OwnPcs, LaunchPcs, Bound
  <2>8. \A d \in Caller \ {c} : Stays(d)
    BY <2>1 DEF SubmitInv, TypeOK, Stays
  <2> QED BY <2>1, <2>5, <2>6, <2>7, <2>8, LookKeeps DEF CallerInv
<1> QED BY <1>1, <1>2

-----------------------------------------------------------------------------
(* The steps that read: a retry that finds its request bound.               *)

(* The look before the lock keeps the invariant.                           *)
LEMMA EarlyKeeps ==
  ASSUME SubmitInv, NEW c \in Caller, Early(c)
  PROVE  FileInv' /\ \A d \in Caller : CallerInv(d)'
<1>1. call[c].duplicate = None
  BY DEF Early, SubmitInv, CallerInv, SectionLocked, ArgumentsGiven
<1> QED BY <1>1, ConsultKeeps, NextSectionKeeps DEF Early, Files

(* So does the look for the bound job.                                     *)
LEMMA LookStepKeeps ==
  ASSUME SubmitInv, NEW c \in Caller, Look(c)
  PROVE  FileInv' /\ \A d \in Caller : CallerInv(d)'
<1> DEFINE r == call[c].request
           j == call[c].job
<1>1. /\ pc[c] = "look" /\ r \in Request /\ j \in Job /\ record[r] \in Binding
      /\ record[r] # None /\ UNCHANGED <<record, index, job>>
  BY CallTyped DEF Look, Files, SubmitInv, TypeOK, CallerInv, FollowsBinding
<1>2. CallerInv(c) /\ call[c] \in CallRecord
  BY CallTyped DEF SubmitInv
<1>3. CASE ~Exists(j) /\ Absent(c)
  <2>1. CASE record[r].state = "dispatched"
    BY <1>1, <1>3, <2>1, AnswerFromFiles DEF Absent, Refuse
  <2>2. CASE record[r].state # "dispatched" /\ call[c].phase = "early"
    <3>1. call[c].duplicate = None
      BY <1>2, <2>2 DEF CallerInv, ArgumentsGiven
    <3> QED BY <1>1, <1>3, <2>2, <3>1, NextSectionKeeps DEF Absent
  <2>3. CASE record[r].state # "dispatched" /\ call[c].phase # "early"
    <3>1. Unknown(r, j)
      BY <1>1, <1>2, <2>3 DEF CallerInv, FollowsBinding, Unknown, Binding
    <3>2. /\ pc' = [pc EXCEPT ![c] = IF call[c].duplicate # None THEN "record_duplicate"
                                     ELSE "create"]
          /\ UNCHANGED <<call, lock, told>>
      BY <1>3, <2>3 DEF Absent, Goto
    <3>3. pc'[c] = IF call[c].duplicate # None THEN "record_duplicate" ELSE "create"
      BY <3>2 DEF SubmitInv, TypeOK
    <3>4. job[j].launches = 0
      BY <1>1, <3>1 DEF SubmitInv, FileInv, AttemptsDistinct, TypeOK, JobRecord
    <3>5. SectionLocked(c)' /\ ArgumentsGiven(c)'
      BY <1>1, <1>2, <2>3, <3>2, <3>3
         DEF CallerInv, SectionLocked, ArgumentsGiven, LockedPcs, FollowPcs, OwnPcs, LaunchPcs,
             Exists
    <3>6. SearchStands(c)'
      BY <1>1, <1>2, <3>2, <3>3 DEF CallerInv, SearchStands, Evidence, Exists
    <3>7. MayCreate(c)'
      BY <1>1, <1>3, <3>1, <3>2, <3>3, <3>4 DEF MayCreate, Exists, Unknown
    <3>8. FollowsBinding(c)' /\ OwnsJob(c)'
      BY <3>3 DEF FollowsBinding, OwnsJob, FollowPcs, OwnPcs, LaunchPcs
    <3>9. Modest(c)
      BY <1>1, <3>1, <3>2, <3>3 DEF Modest, Gone, OwnPcs, LaunchPcs
    <3>10. \A d \in Caller \ {c} : Stays(d)
      BY <3>2 DEF SubmitInv, TypeOK, Stays
    <3> QED BY <1>1, <3>2, <3>5, <3>6, <3>7, <3>8, <3>9, <3>10, LookKeeps DEF CallerInv
  <2> QED BY <2>1, <2>2, <2>3
<1>4. CASE Exists(j)
  <2>1. record[r].job = j
    BY <1>1, <1>2, <1>4 DEF CallerInv, FollowsBinding, Gone
  <2>2. CASE Answer(c, j)
    BY <1>1, <1>4, <2>1, <2>2, AnswerFromFiles
  <2>3. CASE Goto(c, "marker1") /\ UNCHANGED <<call, lock, told>>
    <3>1. pc' = [pc EXCEPT ![c] = "marker1"] /\ pc'[c] = "marker1"
      BY <2>3 DEF Goto, SubmitInv, TypeOK
    <3>2. FollowsBinding(c)'
      BY <1>1, <1>4, <2>1, <2>3, <3>1 DEF FollowsBinding, Exists, FollowPcs
    <3>3. SectionLocked(c)' /\ ArgumentsGiven(c)' /\ Modest(c)
      BY <1>1, <1>2, <2>3, <3>1
         DEF CallerInv, SectionLocked, ArgumentsGiven, Modest, LockedPcs, FollowPcs, OwnPcs,
             LaunchPcs, Exists
    <3>4. SearchStands(c)' /\ MayCreate(c)' /\ OwnsJob(c)'
      BY <3>1 DEF SearchStands, MayCreate, OwnsJob, OwnPcs, LaunchPcs
    <3>5. \A d \in Caller \ {c} : Stays(d)
      BY <2>3, <3>1 DEF SubmitInv, TypeOK, Stays
    <3> QED BY <1>1, <2>3, <3>2, <3>3, <3>4, <3>5, LookKeeps DEF CallerInv
  <2> QED BY <1>4, <2>2, <2>3 DEF Look
<1> QED BY <1>3, <1>4 DEF Look

(* From one step of following a job to the next.                           *)
LEMMA FollowKeeps ==
  ASSUME SubmitInv, NEW c \in Caller, pc[c] \in FollowPcs, NEW step \in FollowPcs,
         Goto(c, step), UNCHANGED <<record, index, job, call, told>>,
         \A d \in Caller \ {c} : lock = d => lock' = d
  PROVE  FileInv' /\ \A d \in Caller : CallerInv(d)'
<1>1. pc' = [pc EXCEPT ![c] = step] /\ pc'[c] \in FollowPcs
  BY DEF Goto, SubmitInv, TypeOK
<1>2. CallerInv(c)
  BY DEF SubmitInv
<1>3. FollowsBinding(c)'
  BY <1>1, <1>2 DEF CallerInv, FollowsBinding, Exists, FollowPcs
<1>4. SectionLocked(c)' /\ ArgumentsGiven(c)' /\ Modest(c)
  BY <1>1, <1>2
     DEF CallerInv, SectionLocked, ArgumentsGiven, Modest, LockedPcs, FollowPcs, OwnPcs,
         LaunchPcs, Exists
<1>5. SearchStands(c)' /\ MayCreate(c)' /\ OwnsJob(c)'
  BY <1>1 DEF SearchStands, MayCreate, OwnsJob, OwnPcs, LaunchPcs, FollowPcs
<1>6. \A d \in Caller \ {c} : Stays(d)
  BY <1>1 DEF SubmitInv, TypeOK, Stays
<1> QED BY <1>3, <1>4, <1>5, <1>6, LookKeeps DEF CallerInv

(* So does each step of following it.                                      *)
LEMMA FollowStepKeeps ==
  ASSUME SubmitInv, NEW c \in Caller,
         \/ Marker1(c) \/ Marker2(c) \/ Take(c) \/ LookLocked(c)
         \/ MarkerLocked(c) \/ Marker3(c)
  PROVE  FileInv' /\ \A d \in Caller : CallerInv(d)'
<1> DEFINE j == call[c].job
<1>1. pc[c] \in FollowPcs /\ UNCHANGED <<record, index>>
  BY DEF Marker1, Marker2, Take, LookLocked, MarkerLocked, Marker3, FollowPcs, Files
<1>2. j \in Job /\ Exists(j) /\ record[call[c].request] # None /\ record[call[c].request].job = j
  BY <1>1, CallTyped DEF SubmitInv, CallerInv, FollowsBinding
<1>3. CASE Answer(c, j) /\ UNCHANGED job
  BY <1>1, <1>2, <1>3, AnswerFromFiles
<1>4. CASE Marker1(c) \/ Marker2(c) \/ Take(c) \/ LookLocked(c)
  <2>1. UNCHANGED job
    BY <1>4 DEF Marker1, Marker2, Take, LookLocked, Files
  <2>2. CASE /\ \E step \in FollowPcs : Goto(c, step)
             /\ UNCHANGED <<call, told>> /\ (lock' = lock \/ lock = None)
    <3>1. \A d \in Caller \ {c} : lock = d => lock' = d
      BY <2>2
    <3> QED BY <1>1, <2>1, <2>2, <3>1, FollowKeeps
  <2> QED BY <1>3, <1>4, <2>1, <2>2 DEF Marker1, Marker2, Take, LookLocked, FollowPcs
<1>5. CASE MarkerLocked(c) \/ Marker3(c)
  <2>1. job' = job \/ job' = [job EXCEPT ![j].status = "interrupted"]
    BY <1>5 DEF MarkerLocked, Marker3, Interrupt
  <2>2. FilesKept /\ \A d \in Caller : MarkKept(d)
    <3>1. \A k \in Job : /\ job'[k].dir = job[k].dir /\ job'[k].spec = job[k].spec
                         /\ job'[k].launches = job[k].launches
                         /\ job'[k].origin = job[k].origin /\ job'[k].marker = job[k].marker
      BY <2>1 DEF SubmitInv, TypeOK, JobRecord
    <3> QED BY <1>1, <3>1, CallTyped DEF FilesKept, MarkKept
  <2>3. IndexIsTrue' /\ \A d \in Caller : SearchKept(d)
    BY <1>1, <2>2, IndexStays
  <2> QED BY <1>2, <1>5, <2>2, <2>3, AnswerKeeps DEF MarkerLocked, Marker3
<1> QED BY <1>4, <1>5

-----------------------------------------------------------------------------
(* Taking and releasing the lock.                                          *)

(* Taking the lock, or being refused, keeps the invariant.                 *)
LEMMA LockKeeps ==
  ASSUME SubmitInv, NEW c \in Caller, Lock(c)
  PROVE  FileInv' /\ \A d \in Caller : CallerInv(d)'
<1>1. CASE Refuse(c)
  BY <1>1, AnswerFromFiles DEF Refuse, Lock, Files
<1>2. CASE ~Refuse(c)
  <2> DEFINE step == IF call[c].spec \in DuplicateSpec THEN "find" ELSE "bind"
  <2>1. /\ lock = None /\ lock' = c /\ pc' = [pc EXCEPT ![c] = step] /\ pc'[c] = step
        /\ UNCHANGED <<record, index, job, call, told>>
    BY <1>2 DEF Lock, Goto, Files, SubmitInv, TypeOK
  <2>2. CallerInv(c) /\ pc[c] = "lock"
    BY DEF SubmitInv, Lock
  <2>3. CallerInv(c)' /\ Modest(c)
    BY <2>1, <2>2
       DEF CallerInv, SectionLocked, ArgumentsGiven, SearchStands, FollowsBinding, MayCreate,
           OwnsJob, Modest, LockedPcs, FollowPcs, OwnPcs, LaunchPcs, Exists
  <2>4. \A d \in Caller \ {c} : Stays(d)
    BY <2>1 DEF SubmitInv, TypeOK, Stays
  <2> QED BY <2>1, <2>3, <2>4, LookKeeps
<1> QED BY <1>1, <1>2

(* So does releasing it before the launch.                                 *)
LEMMA UnlockKeeps ==
  ASSUME SubmitInv, NEW c \in Caller, Unlock(c)
  PROVE  FileInv' /\ \A d \in Caller : CallerInv(d)'
<1>1. /\ pc[c] = "unlock" /\ pc' = [pc EXCEPT ![c] = "launch"] /\ pc'[c] = "launch"
      /\ lock' = None /\ UNCHANGED <<record, index, job, call, told>>
  BY DEF Unlock, Goto, Files, SubmitInv, TypeOK
<1>2. CallerInv(c) /\ lock = c
  BY <1>1 DEF SubmitInv, CallerInv, SectionLocked, LockedPcs
<1>3. \A d \in Caller \ {c} : Stays(d)
  BY <1>1, <1>2 DEF SubmitInv, TypeOK, Stays
<1>4. Modest(c)
  BY <1>1 DEF Modest, OwnPcs, LaunchPcs
<1>5. OwnsJob(c)'
  <2>1. \A d \in Caller : pc'[d] \in OwnPcs => pc[d] \in OwnPcs
    BY <1>1 DEF SubmitInv, TypeOK, OwnPcs, LaunchPcs
  <2> QED BY <1>1, <1>2, <2>1 DEF CallerInv, OwnsJob, OwnPcs, LaunchPcs, Exists, Unknown
<1>6. CallerInv(c)'
  BY <1>1, <1>2, <1>5
     DEF CallerInv, SectionLocked, ArgumentsGiven, SearchStands, FollowsBinding, MayCreate,
         LockedPcs, FollowPcs, OwnPcs, LaunchPcs, Exists
<1> QED BY <1>1, <1>3, <1>4, <1>6, LookKeeps

-----------------------------------------------------------------------------
(* The owner of a job, as long as it only marks it or settles its status.   *)

(* What a caller that has made a job knows of it.                          *)
LEMMA OwnerKnows ==
  ASSUME SubmitInv, NEW c \in Caller, pc[c] \in OwnPcs
  PROVE  /\ call[c].job \in Job /\ job[call[c].job] \in JobRecord
         /\ Exists(call[c].job)
         /\ \A d \in Caller \ {c} : pc[d] \in OwnPcs => call[d].job \in Job /\ call[d].job # call[c].job
         /\ pc[c] \notin {"mark", "dispatch"} /\ call[c].request # None =>
              record[call[c].request] # None /\ record[call[c].request].job = call[c].job
  BY CallTyped DEF SubmitInv, TypeOK, CallerInv, OwnsJob

(* What a step that writes the record of the owner's job leaves alone.      *)
LEMMA OwnFilesKept ==
  ASSUME SubmitInv, NEW c \in Caller, pc[c] \in OwnPcs, UNCHANGED <<record, index>>,
         \A k \in Job : /\ job'[k].dir = job[k].dir /\ job'[k].spec = job[k].spec
                        /\ job'[k].launches = job[k].launches
                        /\ job'[k].origin = job[k].origin
                        /\ k # call[c].job => job'[k].marker = job[k].marker
  PROVE  FilesKept /\ \A d \in Caller \ {c} : MarkKept(d)
  BY OwnerKnows DEF FilesKept, MarkKept

(* A step by which the owner goes on keeps the invariant.                  *)
LEMMA OwnerKeeps ==
  ASSUME SubmitInv, NEW c \in Caller, NEW step \in OwnPcs, Goto(c, step),
         Mark(c) \/ BindWorker(c) \/ ClearFailed(c),
         step = "dispatch" => call[c].request # None,
         step \in {"index", "unlock"} => call[c].request = None,
         Mark(c) => step \in {"dispatch", "index", "unlock"},
         BindWorker(c) \/ ClearFailed(c) => step \in {"clear", "fail"}
  PROVE  FileInv' /\ \A d \in Caller : CallerInv(d)'
<1> DEFINE j == call[c].job
<1>1. /\ pc[c] \in OwnPcs /\ pc' = [pc EXCEPT ![c] = step] /\ pc'[c] = step
      /\ UNCHANGED <<record, index, lock, call, told>>
  BY DEF Goto, SubmitInv, TypeOK, Mark, BindWorker, ClearFailed, OwnPcs, LaunchPcs
<1>2. /\ j \in Job
      /\ \A k \in Job : /\ job'[k].dir = job[k].dir /\ job'[k].spec = job[k].spec
                        /\ job'[k].launches = job[k].launches
                        /\ job'[k].origin = job[k].origin
                        /\ k # j => job'[k].marker = job[k].marker
      /\ Mark(c) => job'[j].marker = c
  BY <1>1, OwnerKnows DEF Mark, BindWorker, ClearFailed, Unmark, SubmitInv, TypeOK, JobRecord
<1>3. FilesKept /\ \A d \in Caller \ {c} : Stays(d) /\ MarkKept(d)
  BY <1>1, <1>2, OwnFilesKept DEF SubmitInv, TypeOK, Stays
<1>4. CallerInv(c) /\ call[c].request \in Request \cup {None}
  BY CallTyped DEF SubmitInv, CallRecord
<1>5. Modest(c)
  BY <1>1 DEF Modest, OwnPcs, LaunchPcs
<1>6. OwnsJob(c)'
  <2>1. \A d \in Caller : pc'[d] \in OwnPcs => pc[d] \in OwnPcs
    BY <1>1 DEF SubmitInv, TypeOK
  <2>2. Exists(j)' /\ job'[j].spec = job[j].spec /\ job'[j].launches = job[j].launches
    BY <1>2, <1>1, OwnerKnows DEF Exists
  <2>3. CASE Mark(c)
    BY <1>1, <1>2, <1>4, <2>1, <2>2, <2>3
       DEF Mark, CallerInv, OwnsJob, OwnPcs, LaunchPcs, Unknown
  <2>4. CASE BindWorker(c) \/ ClearFailed(c)
    BY <1>1, <1>2, <1>4, <2>1, <2>2, <2>4
       DEF BindWorker, ClearFailed, CallerInv, OwnsJob, OwnPcs, LaunchPcs, Unknown
  <2> QED BY <2>3, <2>4
<1>7. SectionLocked(c)'
  BY <1>1, <1>4 DEF Mark, BindWorker, ClearFailed, CallerInv, SectionLocked, LockedPcs, OwnPcs,
                    LaunchPcs
<1>8. ArgumentsGiven(c)'
  <2>1. call[c].duplicate # None => Exists(call[c].duplicate)'
    BY <1>1, <1>2, <1>4, CallTyped DEF CallerInv, ArgumentsGiven, Exists, CallRecord
  <2> QED BY <1>1, <1>4, <2>1 DEF CallerInv, ArgumentsGiven, FollowPcs, OwnPcs, LaunchPcs
<1>9. SearchStands(c)' /\ FollowsBinding(c)' /\ MayCreate(c)'
  BY <1>1 DEF SearchStands, FollowsBinding, MayCreate, FollowPcs, OwnPcs, LaunchPcs
<1> QED BY <1>1, <1>3, <1>5, <1>6, <1>7, <1>8, <1>9, QuietKeeps DEF CallerInv, SubmitInv, TypeOK

(* So the steps of the owner that change only its mark and its status do.  *)
LEMMA OwnStepKeeps ==
  ASSUME SubmitInv, NEW c \in Caller,
         Mark(c) \/ BindWorker(c) \/ Clear(c) \/ ClearFailed(c) \/ Fail(c)
  PROVE  FileInv' /\ \A d \in Caller : CallerInv(d)'
<1> DEFINE j == call[c].job
<1>1. CASE Mark(c)
  <2> DEFINE step == IF call[c].request # None THEN "dispatch"
                     ELSE IF call[c].spec \in DuplicateSpec THEN "index" ELSE "unlock"
  <2>1. Goto(c, step)
    BY <1>1 DEF Mark
  <2>2. step \in OwnPcs
    BY DEF OwnPcs
  <2>3. ~BindWorker(c) /\ ~ClearFailed(c)
    BY <1>1 DEF Mark, BindWorker, ClearFailed
  <2> QED BY <1>1, <2>1, <2>2, <2>3, OwnerKeeps
<1>2. CASE BindWorker(c)
  <2>1. Goto(c, "clear") /\ ~Mark(c)
    BY <1>2 DEF BindWorker, Mark
  <2> QED BY <1>2, <2>1, OwnerKeeps DEF OwnPcs, LaunchPcs
<1>3. CASE ClearFailed(c)
  <2>1. Goto(c, "fail") /\ ~Mark(c)
    BY <1>3 DEF ClearFailed, Mark
  <2> QED BY <1>3, <2>1, OwnerKeeps DEF OwnPcs, LaunchPcs
<1>4. CASE Clear(c) \/ Fail(c)
  <2>1. pc[c] \in OwnPcs /\ pc[c] \notin {"mark", "dispatch"} /\ Answer(c, j)
          /\ UNCHANGED <<record, index>>
    BY <1>4 DEF Clear, Fail, OwnPcs, LaunchPcs
  <2>2. \A k \in Job : /\ job'[k].dir = job[k].dir /\ job'[k].spec = job[k].spec
                       /\ job'[k].launches = job[k].launches
                       /\ job'[k].origin = job[k].origin
                       /\ k # call[c].job => job'[k].marker = job[k].marker
    BY <1>4, <2>1, OwnerKnows DEF Clear, Fail, Unmark, SubmitInv, TypeOK, JobRecord
  <2>3. FilesKept /\ \A d \in Caller \ {c} : MarkKept(d)
    BY <2>1, <2>2, OwnFilesKept
  <2> QED BY <2>1, <2>3, OwnerKnows, AnswerKeeps, IndexStays
<1> QED BY <1>1, <1>2, <1>3, <1>4

-----------------------------------------------------------------------------
(* Calls begin, servers die, and workers go on.                            *)

(* A call that begins keeps the invariant.                                 *)
LEMMA SubmitKeeps ==
  ASSUME SubmitInv, NEW c \in Caller, NEW r \in Request \cup {None}, NEW s \in JobSpec,
         Submit(c, r, s)
  PROVE  FileInv' /\ \A d \in Caller : CallerInv(d)'
<1>1. /\ pc'[c] = "early" /\ \A d \in Caller \ {c} : pc'[d] = pc[d]
      /\ UNCHANGED <<record, index, job, told, lock>>
  BY Zenon DEF Submit, Goto, SubmitInv, TypeOK, Files
<1>2. call' = [call EXCEPT ![c] = [NoCall EXCEPT !.request = r, !.spec = s]]
  BY Zenon DEF Submit
<1>3. call'[c] = [NoCall EXCEPT !.request = r, !.spec = s] /\ \A d \in Caller \ {c} : call'[d] = call[d]
  BY <1>2 DEF SubmitInv, TypeOK
<1>4. call'[c].spec = s /\ s # None /\ call'[c].phase = "early" /\ call'[c].duplicate = None
  BY <1>3 DEF NoCall
<1>5. CallerInv(c)' /\ Modest(c)
  BY <1>1, <1>4
     DEF CallerInv, SectionLocked, ArgumentsGiven, SearchStands, FollowsBinding, MayCreate,
         OwnsJob, Modest, LockedPcs, FollowPcs, OwnPcs, LaunchPcs
<1>6. \A d \in Caller \ {c} : Stays(d)
  BY <1>1, <1>3 DEF Stays
<1> QED BY <1>1, <1>5, <1>6, LookKeeps

(* So does the death of a server.                                          *)
LEMMA DieKeeps ==
  ASSUME SubmitInv, NEW c \in Caller, Die(c)
  PROVE  FileInv' /\ \A d \in Caller : CallerInv(d)'
<1>1. pc'[c] = "down" /\ call'[c] = NoCall /\ UNCHANGED <<record, index, job, told>>
  BY DEF Die, Goto, Files, SubmitInv, TypeOK
<1>2. \A d \in Caller \ {c} : Stays(d)
  BY DEF Die, Goto, Unlocked, SubmitInv, TypeOK, Stays
<1> QED BY <1>1, <1>2, IdleKeeps, LookKeeps

(* So does what the worker of a job does to it.                            *)
LEMMA WorkerKeeps ==
  ASSUME SubmitInv, NEW j \in Job, WorkerBinds(j) \/ WorkerStarts(j) \/ WorkerFails(j)
  PROVE  FileInv' /\ \A d \in Caller : CallerInv(d)'
<1>1. UNCHANGED <<record, index, lock, pc, call, told>>
  BY DEF WorkerBinds, WorkerStarts, WorkerFails
<1>2. \A k \in Job : /\ job'[k].dir = job[k].dir /\ job'[k].spec = job[k].spec
                     /\ job'[k].launches = job[k].launches
                     /\ job'[k].origin = job[k].origin /\ job'[k].marker = job[k].marker
  BY DEF WorkerBinds, WorkerStarts, WorkerFails, SubmitInv, TypeOK, JobRecord
<1>3. FilesKept /\ \A d \in Caller : Stays(d) /\ MarkKept(d)
  BY <1>1, <1>2, CallTyped DEF FilesKept, Stays, MarkKept
<1>4. \A d \in Caller : Modest(d)
  BY <1>3, StaysModest
<1>5. told' \in [Request -> SUBSET Job]
  BY <1>1 DEF SubmitInv, TypeOK
<1> QED BY <1>1, <1>3, <1>4, <1>5, BystanderKeeps, QuietFiles, IndexStays

-----------------------------------------------------------------------------
(* The index.                                                              *)

(* A rebuilt index is true, and so is one that was true.                    *)
LEMMA EntriesTrue ==
  ASSUME SubmitInv
  PROVE  /\ \A s \in DuplicateSpec : Rebuilt[s] # None => Evidence(s) \subseteq {Rebuilt[s]}
         /\ \A s \in DuplicateSpec : Rebuilt[s] = None \/ Rebuilt[s] \in Evidence(s)
         /\ \A s \in DuplicateSpec : Rebuilt[s] = None => Evidence(s) = {}
         /\ \A s, t \in DuplicateSpec :
              Entries(s)[t] # None => Evidence(t) \subseteq {Entries(s)[t]}
<1>1. ASSUME NEW s \in DuplicateSpec
      PROVE  Rebuilt[s] = IF Evidence(s) = {} THEN None ELSE CHOOSE j \in Evidence(s) : TRUE
  BY DEF Rebuilt
<1>2. ASSUME NEW s \in DuplicateSpec, NEW j \in Evidence(s), NEW k \in Evidence(s)
      PROVE  j = k
  BY DEF SubmitInv, FileInv, OneJobPerSpec, Evidence
<1>3. ASSUME NEW s \in DuplicateSpec, Evidence(s) # {}
      PROVE  Rebuilt[s] \in Evidence(s)
  BY <1>1, <1>3
<1>4. ASSUME NEW s \in DuplicateSpec, Evidence(s) # {}
      PROVE  Rebuilt[s] # None
  BY <1>3, <1>4 DEF Evidence
<1>5. ASSUME NEW s \in DuplicateSpec, Rebuilt[s] # None
      PROVE  Evidence(s) \subseteq {Rebuilt[s]}
  BY <1>2, <1>3
<1>6. \A s, t \in DuplicateSpec :
        Entries(s)[t] # None => Evidence(t) \subseteq {Entries(s)[t]}
  BY <1>5 DEF Entries, SubmitInv, FileInv, IndexIsTrue
<1> QED BY <1>1, <1>3, <1>4, <1>5, <1>6

(* The search for a duplicate keeps the invariant.                         *)
LEMMA FindKeeps ==
  ASSUME SubmitInv, NEW c \in Caller, Find(c)
  PROVE  FileInv' /\ \A d \in Caller : CallerInv(d)'
<1> DEFINE s == call[c].spec
           j == Entries(s)[s]
<1>1. /\ pc[c] = "find" /\ s \in DuplicateSpec /\ lock = c
      /\ call[c].duplicate = None /\ call[c].phase \in {"first", "second"}
      /\ call[c] \in CallRecord /\ CallerInv(c) /\ UNCHANGED <<record, job>>
  BY CallTyped DEF Find, SubmitInv, CallerInv, SectionLocked, ArgumentsGiven, LockedPcs, CallRecord
<1>2. j \in Job \cup {None} /\ Entries(s) \in [DuplicateSpec -> Job \cup {None}]
  BY <1>1, EntriesTyped DEF SubmitInv
<1>3. FilesKept
  BY <1>1 DEF FilesKept
<1>4. \A d \in Caller \ {c} : MarkKept(d) /\ SearchKept(d)
  BY <1>1 DEF MarkKept, SearchKept
<1>5. \A t \in DuplicateSpec : Evidence(t)' = Evidence(t)
  BY <1>1 DEF Evidence, Exists
<1>6. CASE j # None /\ Exists(j)
  <2>1. index' = Entries(s) /\ Found(c, j)
    BY <1>1, <1>6 DEF Find
  <2>2. IndexIsTrue'
    BY <1>1, <1>5, <2>1, EntriesTrue DEF IndexIsTrue
  <2>3. CASE call[c].request = None
    BY <1>2, <1>3, <1>4, <2>1, <2>2, <2>3, AnswerKeeps DEF Found
  <2>4. CASE call[c].request # None
    <3>1. /\ call' = [call EXCEPT ![c].duplicate = j]
          /\ pc' = [pc EXCEPT ![c] = "bind"]
          /\ UNCHANGED <<lock, told>>
      BY <2>1, <2>4 DEF Found, Goto
    <3>2. /\ call'[c].duplicate = j /\ call'[c].request = call[c].request
          /\ call'[c].spec = s /\ call'[c].phase = call[c].phase /\ pc'[c] = "bind"
      BY <1>1, <3>1 DEF SubmitInv, TypeOK, CallRecord
    <3>3. Exists(call[c].duplicate)'
      BY <1>1, <1>6, <3>2 DEF Exists
    <3>4. CallerInv(c)' /\ Modest(c)
      BY <1>1, <1>6, <2>4, <3>1, <3>2, <3>3
         DEF CallerInv, SectionLocked, ArgumentsGiven, SearchStands, FollowsBinding, MayCreate,
             OwnsJob, Modest, LockedPcs, FollowPcs, OwnPcs, LaunchPcs
    <3>5. \A d \in Caller \ {c} : Stays(d)
      BY <3>1 DEF SubmitInv, TypeOK, Stays
    <3> QED BY <1>3, <1>4, <2>2, <3>1, <3>4, <3>5, SearchKeeps DEF SubmitInv, TypeOK
  <2> QED BY <2>3, <2>4
<1>7. CASE ~(j # None /\ Exists(j))
  <2>1. index' = [Entries(s) EXCEPT ![s] = None] /\ NotFound(c)
    BY <1>1, <1>7 DEF Find
  <2>2. index'[s] = None /\ \A t \in DuplicateSpec : t # s => index'[t] = Entries(s)[t]
    BY <1>1, <1>2, <2>1
  <2>3. IndexIsTrue'
    BY <1>1, <1>5, <2>2, EntriesTrue DEF IndexIsTrue
  <2>4. Evidence(s) = {}
    <3>1. CASE index[s] = None
      <4>1. j = Rebuilt[s]
        BY <3>1 DEF Entries
      <4>2. j = None
        BY <1>1, <1>7, <4>1, EntriesTrue DEF Evidence
      <4> QED BY <1>1, <4>1, <4>2, EntriesTrue
    <3>2. CASE index[s] # None
      <4>1. j = index[s]
        BY <3>2 DEF Entries
      <4>2. Evidence(s) \subseteq {j} /\ ~Exists(j)
        BY <1>1, <1>7, <3>2, <4>1 DEF SubmitInv, FileInv, IndexIsTrue
      <4> QED BY <4>2 DEF Evidence
    <3> QED BY <3>1, <3>2
  <2>5. CASE call[c].phase = "first"
    <3>1. NextSection(c) /\ lock' = None /\ told' = told
      BY <2>1, <2>5 DEF NotFound
    <3>2. pc'[c] = "lock" /\ call'[c].duplicate = None /\ call'[c].spec # None
            /\ call'[c].phase \in {"first", "second"}
      BY <1>1, <3>1, CallTyped DEF NextSection, Goto, SubmitInv, TypeOK, CallRecord
    <3>3. CallerInv(c)' /\ Modest(c)
      BY <3>2 DEF CallerInv, SectionLocked, ArgumentsGiven, SearchStands, FollowsBinding,
                  MayCreate, OwnsJob, Modest, LockedPcs, FollowPcs, OwnPcs, LaunchPcs
    <3>4. \A d \in Caller \ {c} : Stays(d)
      BY <1>1, <3>1 DEF NextSection, Goto, SubmitInv, TypeOK, Stays
    <3> QED BY <1>3, <1>4, <2>3, <3>1, <3>3, <3>4, SearchKeeps DEF SubmitInv, TypeOK
  <2>6. CASE call[c].phase # "first"
    <3>1. pc' = [pc EXCEPT ![c] = "bind"] /\ UNCHANGED <<call, lock, told>> /\ pc'[c] = "bind"
      BY <2>1, <2>6 DEF NotFound, Goto, SubmitInv, TypeOK
    <3>2. SearchStands(c)'
      BY <1>1, <1>5, <2>2, <2>4, <3>1 DEF SearchStands
    <3>3. CallerInv(c)' /\ Modest(c)
      BY <1>1, <3>1, <3>2
         DEF CallerInv, SectionLocked, ArgumentsGiven, FollowsBinding, MayCreate,
             OwnsJob, Modest, LockedPcs, FollowPcs, OwnPcs, LaunchPcs
    <3>4. \A d \in Caller \ {c} : Stays(d)
      BY <3>1 DEF SubmitInv, TypeOK, Stays
    <3> QED BY <1>3, <1>4, <2>3, <3>1, <3>3, <3>4, SearchKeeps DEF SubmitInv, TypeOK
  <2> QED BY <2>5, <2>6
<1> QED BY <1>6, <1>7

(* So does entering a new job.                                             *)
LEMMA IndexKeeps ==
  ASSUME SubmitInv, NEW c \in Caller, Index(c)
  PROVE  FileInv' /\ \A d \in Caller : CallerInv(d)'
<1> DEFINE j == call[c].job
           entries == IF \A s \in DuplicateSpec : index[s] = None THEN Rebuilt ELSE index
<1>1. /\ pc[c] = "index" /\ pc[c] \in OwnPcs /\ pc' = [pc EXCEPT ![c] = "unlock"]
      /\ pc'[c] = "unlock" /\ UNCHANGED <<record, job, lock, call, told>>
  BY DEF Index, Goto, SubmitInv, TypeOK, OwnPcs
<1>2. CallerInv(c) /\ lock = c /\ j \in Job /\ Exists(j) /\ job[j].spec = call[c].spec
  BY <1>1, CallTyped DEF SubmitInv, CallerInv, SectionLocked, LockedPcs, OwnsJob
<1>3. FilesKept /\ \A d \in Caller \ {c} : Stays(d) /\ MarkKept(d) /\ SearchKept(d)
  BY <1>1, <1>2 DEF FilesKept, MarkKept, SearchKept, Stays, SubmitInv, TypeOK
<1>4. IndexIsTrue'
  <2>1. \A s \in DuplicateSpec : Evidence(s)' = Evidence(s)
    BY <1>1 DEF Evidence, Exists
  <2>2. entries \in [DuplicateSpec -> Job \cup {None}]
    <3>1. Rebuilt \in [DuplicateSpec -> Job \cup {None}]
      <4>1. CASE DuplicateSpec = {}
        BY <4>1 DEF Rebuilt
      <4>2. CASE DuplicateSpec # {}
        BY <4>2, EntriesTyped DEF SubmitInv
      <4> QED BY <4>1, <4>2
    <3> QED BY <3>1 DEF SubmitInv, TypeOK
  <2>3. \A s \in DuplicateSpec : entries[s] # None => Evidence(s) \subseteq {entries[s]}
    BY EntriesTrue DEF SubmitInv, FileInv, IndexIsTrue
  <2>4. \A s \in DuplicateSpec : index'[s] = IF s = call[c].spec THEN j ELSE entries[s]
    BY <2>2 DEF Index
  <2>5. \A s \in DuplicateSpec : s = call[c].spec => Evidence(s) \subseteq {j}
    BY <1>2 DEF SubmitInv, FileInv, OneJobPerSpec, Evidence
  <2> QED BY <2>1, <2>3, <2>4, <2>5 DEF IndexIsTrue
<1>5. Modest(c)
  BY <1>1 DEF Modest, OwnPcs
<1>6. OwnsJob(c)'
  <2>1. \A d \in Caller : pc'[d] \in OwnPcs => pc[d] \in OwnPcs
    BY <1>1 DEF SubmitInv, TypeOK
  <2> QED BY <1>1, <1>2, <2>1 DEF CallerInv, OwnsJob, OwnPcs, Exists, Unknown
<1>7. CallerInv(c)'
  BY <1>1, <1>2, <1>6
     DEF CallerInv, SectionLocked, ArgumentsGiven, SearchStands, FollowsBinding, MayCreate,
         LockedPcs, FollowPcs, OwnPcs, LaunchPcs, Exists
<1> QED BY <1>1, <1>3, <1>4, <1>5, <1>7, SearchKeeps DEF SubmitInv, TypeOK

(* So does the loss of an entry.                                           *)
LEMMA LoseEntryKeeps ==
  ASSUME SubmitInv, NEW s \in DuplicateSpec, LoseEntry(s)
  PROVE  FileInv' /\ \A d \in Caller : CallerInv(d)'
<1>1. UNCHANGED <<record, job, lock, pc, call, told>> /\ index' = [index EXCEPT ![s] = None]
  BY DEF LoseEntry
<1>2. FilesKept /\ \A c \in Caller : Stays(c) /\ MarkKept(c) /\ SearchKept(c)
  BY <1>1 DEF FilesKept, Stays, MarkKept, SearchKept, SubmitInv, TypeOK
<1>3. \A c \in Caller : Modest(c)
  BY <1>2, StaysModest
<1>4. IndexIsTrue'
  <2>1. \A t \in DuplicateSpec : Evidence(t)' = Evidence(t)
    BY <1>1 DEF Evidence, Exists
  <2> QED BY <1>1, <2>1 DEF IndexIsTrue, SubmitInv, FileInv, TypeOK
<1> QED BY <1>1, <1>2, <1>3, <1>4, BystanderKeeps, QuietFiles DEF SubmitInv, TypeOK

-----------------------------------------------------------------------------
(* The steps that bind, publish, launch or remove: what the others rely on. *)

RecordKept(r) ==
  \A j \in Job :
    record[r] # None /\ record[r].job = j =>
      record'[r] # None /\ (record'[r].job = j \/ Gone(j)')

JobKept(c, j) ==
  /\ Exists(j)' <=> Exists(j)
  /\ job'[j].spec = job[j].spec
  /\ pc[c] \in FollowPcs \/ job'[j].launches = job[j].launches
  /\ job'[j].marker = job[j].marker

(* What a step has to leave to a caller that stays where it is.            *)
LEMMA OthersKeep ==
  ASSUME SubmitInv, NEW c \in Caller, Stays(c),
         NEW j, j = call[c].job, NEW k, k = call[c].duplicate, NEW r, r = call[c].request,
         lock = c => /\ UNCHANGED <<record, index>>
                     /\ \A i \in Job : Exists(i)' => Exists(i) /\ job'[i].spec = job[i].spec,
         pc[c] \in FollowPcs \cup OwnPcs \cup {"create", "record_duplicate"} => JobKept(c, j),
         k # None => Exists(k)',
         \A q \in Request : Unknown(q, j)' => Unknown(q, j),
         pc[c] = "look" /\ Gone(j) => Gone(j)',
         r # None => RecordKept(r),
         \A d \in Caller : pc'[d] \in OwnPcs /\ call'[d].job = j /\ pc[c] \in OwnPcs =>
                             pc[d] \in OwnPcs /\ call[d].job = j
  PROVE  CallerInv(c)'
<1>0. /\ CallerInv(c) /\ pc'[c] = pc[c] /\ call'[c] = call[c] /\ (lock = c => lock' = c)
      /\ call'[c].job = j /\ call'[c].duplicate = k /\ call'[c].request = r
  BY DEF SubmitInv, Stays
<1>1. SectionLocked(c)'
  BY <1>0 DEF CallerInv, SectionLocked
<1>2. ArgumentsGiven(c)'
  <2>1. call[c].duplicate # None => Exists(call[c].duplicate)'
    BY <1>0 DEF Exists
  <2> QED BY <1>0, <2>1 DEF CallerInv, ArgumentsGiven
<1>3. SearchStands(c)'
  <2>1. ASSUME pc[c] \in {"bind", "look", "create"}, call[c].phase # "early",
               call[c].duplicate = None, call[c].spec \in DuplicateSpec
        PROVE  index'[call[c].spec] = None /\ Evidence(call[c].spec)' = {}
    <3>1. lock = c /\ index[call[c].spec] = None /\ Evidence(call[c].spec) = {}
      BY <1>0, <2>1 DEF CallerInv, SectionLocked, SearchStands, LockedPcs
    <3> QED BY <1>0, <3>1 DEF Evidence, Exists
  <2> QED BY <1>0, <2>1 DEF SearchStands
<1>4. FollowsBinding(c)'
  <2>1. CASE pc[c] = "look"
    <3>1. j \in Job /\ r \in Request /\ record[r] # None
      BY <1>0, <2>1, CallTyped DEF CallerInv, FollowsBinding
    <3>2. record'[r] # None /\ (record'[r].job = j \/ (call[c].phase = "early" /\ Gone(j)'))
      <4>1. CASE call[c].phase = "early"
        <5>1. record[r].job \in Job
          BY <3>1 DEF SubmitInv, TypeOK, Binding
        <5> QED BY <1>0, <2>1, <3>1, <4>1, <5>1 DEF CallerInv, FollowsBinding, RecordKept
      <4>2. CASE call[c].phase # "early"
        BY <1>0, <2>1, <3>1, <4>2 DEF CallerInv, FollowsBinding, SectionLocked
      <4> QED BY <4>1, <4>2
    <3> QED BY <1>0, <2>1, <3>2 DEF FollowsBinding, FollowPcs, Gone, Exists, Unknown
  <2>2. CASE pc[c] \in FollowPcs
    <3>1. /\ j \in Job /\ r \in Request /\ Exists(j)' /\ ~Gone(j)'
          /\ record[r] # None /\ record[r].job = j
      BY <1>0, <2>2, CallTyped DEF CallerInv, FollowsBinding, JobKept, Gone
    <3>2. record'[r] # None /\ record'[r].job = j
      BY <1>0, <2>2, <3>1 DEF RecordKept
    <3> QED BY <1>0, <2>2, <3>1, <3>2 DEF FollowsBinding, FollowPcs, Exists
  <2>3. CASE pc[c] \notin FollowPcs \cup {"look"}
    BY <1>0, <2>3 DEF FollowsBinding
  <2> QED BY <2>1, <2>2, <2>3
<1>5. MayCreate(c)'
  <2>1. CASE pc[c] \in {"create", "record_duplicate"}
    <3>1. lock = c /\ j \in Job /\ JobKept(c, j) /\ pc[c] \notin FollowPcs
      BY <1>0, <2>1, CallTyped DEF CallerInv, SectionLocked, LockedPcs, FollowPcs
    <3> QED BY <1>0, <2>1, <3>1 DEF CallerInv, MayCreate, JobKept, Exists, Unknown
  <2>2. CASE pc[c] \notin {"create", "record_duplicate"}
    BY <1>0, <2>2 DEF MayCreate
  <2> QED BY <2>1, <2>2
<1>6. OwnsJob(c)'
  <2>1. CASE pc[c] \in OwnPcs
    <3>1. j \in Job /\ Exists(j)' /\ ~Gone(j)' /\ JobKept(c, j) /\ pc[c] \notin FollowPcs
      BY <1>0, <2>1, CallTyped DEF CallerInv, OwnsJob, JobKept, Gone, FollowPcs, OwnPcs, LaunchPcs
    <3>2. pc[c] \in {"mark", "dispatch"} => lock = c
      BY <1>0 DEF CallerInv, SectionLocked, LockedPcs
    <3>3. IF pc[c] \in {"mark", "dispatch"} /\ r # None
          THEN Unknown(r, j)'
          ELSE \A q \in Request : ~Unknown(q, j)'
      BY <1>0, <2>1, <3>2 DEF CallerInv, OwnsJob, Unknown
    <3>4. pc[c] \notin {"mark", "dispatch"} /\ r # None =>
            record'[r] # None /\ record'[r].job = j
      BY <1>0, <2>1, <3>1 DEF CallerInv, OwnsJob, RecordKept
    <3>5. \A d \in Caller : pc'[d] \in OwnPcs /\ call'[d].job = j => d = c
      BY <1>0, <2>1 DEF CallerInv, OwnsJob
    <3>6. job'[j].spec = call'[c].spec
      BY <1>0, <2>1, <3>1 DEF CallerInv, OwnsJob, JobKept
    <3>7. /\ pc[c] \in {"mark", "dispatch", "index", "unlock", "launch"} => job'[j].launches = 0
          /\ pc[c] \in {"dispatch", "index", "unlock", "launch", "bind_worker"} => job'[j].marker = c
      BY <1>0, <3>1 DEF CallerInv, OwnsJob, JobKept
    <3> QED BY <1>0, <2>1, <3>1, <3>3, <3>4, <3>5, <3>6, <3>7 DEF OwnsJob, Exists, Unknown
  <2>2. CASE pc[c] \notin OwnPcs
    BY <1>0, <2>2 DEF OwnsJob, OwnPcs, LaunchPcs
  <2> QED BY <2>1, <2>2
<1> QED BY <1>1, <1>2, <1>3, <1>4, <1>5, <1>6 DEF CallerInv

(* Binding a request keeps the invariant.                                  *)
LEMMA BindKeeps ==
  ASSUME SubmitInv, NEW c \in Caller, Bind(c)
  PROVE  FileInv' /\ \A d \in Caller : CallerInv(d)'
<1> DEFINE r == call[c].request
<1>1. CASE Bound(r) /\ Consult(c) /\ UNCHANGED <<Files, alive, Bounds>>
  BY <1>1, ConsultKeeps DEF Bind, Files
<1>2. CASE ~Bound(r) /\ BindUnread(c)
  <2>1. PICK j \in Job :
          /\ Fresh(j)
          /\ record' = IF r = None THEN record
                       ELSE [record EXCEPT ![r] =
                              [spec |-> call[c].spec, job |-> j, state |-> "unknown"]]
          /\ call' = [call EXCEPT ![c].job = j]
    BY <1>2 DEF BindUnread
  <2>2. /\ pc[c] = "bind" /\ r \in Request \cup {None} /\ call[c] \in CallRecord
        /\ CallerInv(c) /\ lock = c /\ call[c].phase # "early" /\ call[c].spec # None
        /\ r # None => record[r] = None
    BY <1>2, CallTyped DEF BindUnread, SubmitInv, CallerInv, SectionLocked, LockedPcs, CallRecord,
                           Bound
  <2>3. /\ UNCHANGED <<index, job, lock, told>>
        /\ pc' = [pc EXCEPT ![c] = IF call[c].duplicate # None THEN "record_duplicate" ELSE "create"]
    BY <1>2 DEF BindUnread, Goto
  <2>4. /\ pc'[c] = IF call[c].duplicate # None THEN "record_duplicate" ELSE "create"
        /\ call'[c].job = j /\ call'[c].request = r /\ call'[c].spec = call[c].spec
        /\ call'[c].phase = call[c].phase /\ call'[c].duplicate = call[c].duplicate
        /\ \A d \in Caller \ {c} : Stays(d)
    BY <2>1, <2>2, <2>3 DEF SubmitInv, TypeOK, CallRecord, Stays
  <2>5. /\ job[j].dir = "none" /\ \A k \in Request : record[k] # None => record[k].job # j
        /\ \A d \in Caller : call[d].job # j
    BY <2>1 DEF Fresh
  <2>6. \A q \in Request : record'[q] = record[q] \/ (q = r /\ record[q] = None /\ Unknown(q, j)')
    BY <2>1, <2>2, <2>5 DEF SubmitInv, TypeOK, Unknown
  <2>7. \A q \in Request, k \in Job : Unknown(q, k)' => Unknown(q, k) \/ (q = r /\ k = j)
    BY <2>6 DEF Unknown
  <2>8. \A k \in Job : (Exists(k)' <=> Exists(k)) /\ \A d \in Caller : JobKept(d, k)
    BY <2>3 DEF Exists, JobKept
  <2>9. ASSUME NEW k \in Job, Gone(k), k # j PROVE Gone(k)'
    <3>1. \A d \in Caller : pc'[d] = "create" => call'[d].job # k
      BY <2>4, <2>9 DEF Gone, Stays
    <3> QED BY <2>7, <2>8, <2>9, <3>1 DEF Gone
  <2>10. job[j].launches = 0 /\ ~Exists(j)
    BY <2>5 DEF SubmitInv, FileInv, AttemptsDistinct, TypeOK, JobRecord, Exists
  <2>11. FileInv'
    <3> USE DEF SubmitInv, FileInv
    <3>1. DispatchedIsPublished'
      BY <2>3, <2>6 DEF DispatchedIsPublished, Unknown
    <3>2. AttemptsDistinct'
      <4>1. \A q \in Request : ~Unknown(q, j)
        BY <2>5 DEF Unknown
      <4> QED BY <2>3, <2>7, <2>10, <4>1 DEF AttemptsDistinct
    <3>3. OneLaunchPerRequest' /\ OneJobPerSpec'
      BY <2>3 DEF OneLaunchPerRequest, OneJobPerSpec, Exists
    <3>4. OriginIsBound'
      BY <2>3, <2>6 DEF OriginIsBound
    <3>5. ToldIsBound'
      <4>1. ASSUME NEW q \in Request, NEW k \in told[q]
            PROVE  record'[q] # None /\ (record'[q].job = k \/ Gone(k)')
        <5>1. k \in Job /\ k # j
          BY <2>5 DEF DispatchedIsPublished, TypeOK
        <5> QED BY <2>6, <2>9, <5>1 DEF ToldIsBound
      <4> QED BY <2>3, <4>1 DEF ToldIsBound
    <3>6. IndexIsTrue'
      BY <2>3 DEF IndexIsTrue, Evidence, Exists
    <3> QED BY <3>1, <3>2, <3>3, <3>4, <3>5, <3>6
  <2>12. ASSUME NEW d \in Caller \ {c} PROVE CallerInv(d)'
    <3>1. PICK i \in Job \cup {None}, k \in Job \cup {None}, q \in Request \cup {None} :
            i = call[d].job /\ k = call[d].duplicate /\ q = call[d].request
      BY CallTyped DEF CallRecord
    <3>2. i # j /\ (k # None => Exists(k)')
      BY <2>5, <2>8, <3>1 DEF SubmitInv, CallerInv, ArgumentsGiven
    <3>3. \A p \in Request : Unknown(p, i)' => Unknown(p, i)
      BY <2>6, <3>2 DEF Unknown
    <3>4. q # None => RecordKept(q)
      BY <2>6 DEF RecordKept
    <3>5. \A e \in Caller : pc'[e] \in OwnPcs => pc[e] \in OwnPcs /\ call'[e].job = call[e].job
      BY <2>4 DEF Stays, OwnPcs, LaunchPcs
    <3>6. pc[d] = "look" /\ Gone(i) => Gone(i)'
      BY <2>9, <3>1, <3>2, CallTyped
    <3>7. pc[d] \in FollowPcs \cup OwnPcs \cup {"create", "record_duplicate"} => JobKept(d, i)
      BY <2>8, <3>1, CallTyped
    <3> QED BY <2>2, <2>4, <3>1, <3>2, <3>3, <3>4, <3>5, <3>6, <3>7, OthersKeep
  <2>13. CallerInv(c)'
    <3>1. MayCreate(c)'
      <4>1. ~Exists(j)' /\ job'[j].launches = 0
        BY <2>3, <2>10 DEF Exists
      <4>2. r = None => \A q \in Request : ~Unknown(q, j)'
        BY <2>1, <2>5 DEF Unknown
      <4>3. r # None => Unknown(call[c].request, j)'
        <5>1. ASSUME r # None
              PROVE  /\ record'[r].state = "unknown" /\ record'[r].job = j
                     /\ record'[r] \in Binding
          BY <2>1, <2>2, <5>1, CallTyped DEF SubmitInv, TypeOK, Binding, CallRecord
        <5> QED BY <2>4, <5>1, BindingAssumption DEF Unknown
      <4> QED BY <2>4, <4>1, <4>2, <4>3 DEF MayCreate, Exists, Unknown
    <3>2. SearchStands(c)'
      BY <2>2, <2>3, <2>4 DEF CallerInv, SearchStands, Evidence, Exists
    <3>3. SectionLocked(c)' /\ ArgumentsGiven(c)'
      BY <2>2, <2>3, <2>4 DEF CallerInv, SectionLocked, ArgumentsGiven, LockedPcs, FollowPcs,
                              OwnPcs, LaunchPcs, Exists
    <3>4. FollowsBinding(c)' /\ OwnsJob(c)'
      BY <2>4 DEF FollowsBinding, OwnsJob, FollowPcs, OwnPcs, LaunchPcs
    <3> QED BY <3>1, <3>2, <3>3, <3>4 DEF CallerInv
  <2> QED BY <2>11, <2>12, <2>13
<1> QED BY <1>1, <1>2 DEF Bind

(* A binding that becomes dispatched is not unknown any more.               *)
LEMMA DispatchedFacts ==
  ASSUME SubmitInv, NEW c \in Caller, NEW j \in Job, Dispatched(c, j),
         call[c].request \in Request, call[c].spec \in JobSpec
  PROVE  /\ \A q \in Request : q # call[c].request => record'[q] = record[q]
         /\ record'[call[c].request] # None /\ record'[call[c].request].job = j
         /\ record'[call[c].request].state = "dispatched"
         /\ \A q \in Request, k \in Job :
              Unknown(q, k)' => Unknown(q, k) /\ q # call[c].request
<1> DEFINE r == call[c].request
<1>1. record'[r] = [spec |-> call[c].spec, job |-> j, state |-> "dispatched"]
  BY DEF Dispatched, SubmitInv, TypeOK
<1>2. \A q \in Request : q # r => record'[q] = record[q]
  BY DEF Dispatched, SubmitInv, TypeOK
<1>3. record'[r] \in Binding
  BY <1>1 DEF Binding
<1>4. record'[r] # None /\ record'[r].job = j /\ record'[r].state = "dispatched"
  BY <1>1, <1>3, BindingAssumption
<1> QED BY <1>2, <1>4 DEF Unknown

(* What only changes bindings to dispatched does to the files.              *)
LEMMA DispatchFiles ==
  ASSUME SubmitInv, NEW c \in Caller, NEW j \in Job, Dispatched(c, j),
         call[c].request \in Request, call[c].spec \in JobSpec,
         UNCHANGED <<job, index>>, Exists(j), told' \in [Request -> SUBSET Job],
         \A k \in Job : Gone(k) => Gone(k)',
         RecordKept(call[c].request),
         \A q \in Request : \A k \in told'[q] :
           k \in told[q] \/ (q = call[c].request /\ k = j)
  PROVE  FileInv'
<1> USE DEF SubmitInv, FileInv
<1> DEFINE r == call[c].request
<1>1. DispatchedIsPublished'
  BY DispatchedFacts DEF DispatchedIsPublished, Exists
<1>2. AttemptsDistinct'
  BY DispatchedFacts DEF AttemptsDistinct
<1>3. OneLaunchPerRequest' /\ OneJobPerSpec'
  BY DEF OneLaunchPerRequest, OneJobPerSpec, Exists
<1>4. OriginIsBound'
  BY DispatchedFacts DEF OriginIsBound
<1>5. ToldIsBound'
  <2>1. ASSUME NEW q \in Request, NEW k \in told'[q]
        PROVE  record'[q] # None /\ (record'[q].job = k \/ Gone(k)')
    <3>1. k \in Job
      OBVIOUS
    <3>2. CASE q = r
      BY <3>1, <3>2, <2>1, DispatchedFacts DEF ToldIsBound, RecordKept
    <3>3. CASE q # r
      BY <3>1, <3>3, <2>1, DispatchedFacts DEF ToldIsBound
    <3> QED BY <3>2, <3>3
  <2> QED BY <2>1 DEF ToldIsBound
<1>6. IndexIsTrue'
  BY DEF IndexIsTrue, Evidence, Exists
<1> QED BY <1>1, <1>2, <1>3, <1>4, <1>5, <1>6

(* And to the other callers.                                               *)
LEMMA DispatchOthers ==
  ASSUME SubmitInv, NEW c \in Caller, NEW j \in Job, Dispatched(c, j), lock = c,
         call[c].request \in Request, call[c].spec \in JobSpec,
         UNCHANGED <<job, index>>,
         \A k \in Job : Gone(k) => Gone(k)',
         RecordKept(call[c].request),
         NEW d \in Caller \ {c}, Stays(d),
         \A e \in Caller : pc'[e] \in OwnPcs => pc[e] \in OwnPcs /\ call'[e].job = call[e].job
  PROVE  CallerInv(d)'
<1>1. PICK i \in Job \cup {None}, k \in Job \cup {None}, q \in Request \cup {None} :
        i = call[d].job /\ k = call[d].duplicate /\ q = call[d].request
  BY CallTyped DEF CallRecord
<1>2. k # None => Exists(k)'
  BY <1>1 DEF SubmitInv, CallerInv, ArgumentsGiven, Exists
<1>3. \A p \in Request : Unknown(p, i)' => Unknown(p, i)
  BY DispatchedFacts DEF Unknown
<1>4. q # None => RecordKept(q)
  BY DispatchedFacts DEF RecordKept
<1>5. pc[d] = "look" /\ Gone(i) => Gone(i)'
  BY <1>1, CallTyped
<1>6. JobKept(d, i)
  BY DEF JobKept, Exists
<1> QED BY <1>1, <1>2, <1>3, <1>4, <1>5, <1>6, OthersKeep

(* So does binding it to a duplicate.                                      *)
LEMMA RecordDuplicateKeeps ==
  ASSUME SubmitInv, NEW c \in Caller, RecordDuplicate(c)
  PROVE  FileInv' /\ \A d \in Caller : CallerInv(d)'
<1> DEFINE r == call[c].request
<1>1. PICK j \in Job, k \in Job : j = call[c].job /\ k = call[c].duplicate
  BY CallTyped DEF RecordDuplicate, SubmitInv, CallerInv, ArgumentsGiven, CallRecord
<1>2. /\ pc[c] = "record_duplicate" /\ r \in Request /\ call[c].spec \in JobSpec
      /\ lock = c /\ Exists(k) /\ ~Exists(j) /\ Unknown(r, j)
      /\ Dispatched(c, k) /\ Answer(c, k) /\ UNCHANGED <<job, index>>
  BY <1>1, CallTyped DEF RecordDuplicate, SubmitInv, CallerInv, SectionLocked, LockedPcs,
                         ArgumentsGiven, MayCreate
<1>3. /\ pc'[c] = "idle" /\ call'[c] = NoCall
      /\ \A d \in Caller \ {c} : Stays(d)
  BY <1>2 DEF Answer, Goto, Unlocked, SubmitInv, TypeOK, Stays
<1>4. \A d \in Caller : pc'[d] = "create" => FALSE
  <2>1. ASSUME NEW d \in Caller, pc'[d] = "create" PROVE FALSE
    <3>1. d # c /\ pc[d] = "create"
      BY <1>3, <2>1 DEF Stays
    <3>2. lock = d
      BY <3>1 DEF SubmitInv, CallerInv, SectionLocked, LockedPcs
    <3> QED BY <1>2, <3>1, <3>2
  <2> QED BY <2>1
<1>5. ASSUME NEW i \in Job, Gone(i) \/ i = j PROVE Gone(i)'
  <2>1. ~Exists(i)'
    BY <1>2, <1>5 DEF Gone, Exists
  <2>2. \A q \in Request : ~Unknown(q, i)'
    <3>1. \A q \in Request : Unknown(q, j) => q = r
      BY <1>2 DEF SubmitInv, FileInv, AttemptsDistinct
    <3> QED BY <1>2, <1>5, <3>1, DispatchedFacts DEF Gone
  <2> QED BY <1>4, <2>1, <2>2 DEF Gone
<1>6. RecordKept(r)
  BY <1>2, <1>5, DispatchedFacts DEF RecordKept, Unknown
<1>7. FileInv'
  <2>1. told' \in [Request -> SUBSET Job]
    BY <1>2, AnswerTyped DEF SubmitInv
  <2>2. \A q \in Request : \A i \in told'[q] : i \in told[q] \/ (q = r /\ i = k)
    BY <1>2 DEF Answer, SubmitInv, TypeOK
  <2> QED BY <1>2, <1>5, <1>6, <2>1, <2>2, DispatchFiles
<1>8. \A e \in Caller : pc'[e] \in OwnPcs => pc[e] \in OwnPcs /\ call'[e].job = call[e].job
  BY <1>3 DEF Stays, OwnPcs, LaunchPcs
<1>9. \A d \in Caller \ {c} : CallerInv(d)'
  BY <1>2, <1>3, <1>5, <1>6, <1>8, DispatchOthers
<1> QED BY <1>3, <1>7, <1>9, IdleKeeps

(* So does recording that its job was published.                           *)
LEMMA DispatchKeeps ==
  ASSUME SubmitInv, NEW c \in Caller, Dispatch(c)
  PROVE  FileInv' /\ \A d \in Caller : CallerInv(d)'
<1> DEFINE r == call[c].request
           step == IF call[c].spec \in DuplicateSpec THEN "index" ELSE "unlock"
<1>1. PICK j \in Job : j = call[c].job
  BY CallTyped DEF Dispatch, OwnPcs
<1>2. /\ pc[c] = "dispatch" /\ pc[c] \in OwnPcs /\ r \in Request /\ call[c].spec \in JobSpec
      /\ lock = c /\ Exists(j) /\ Unknown(r, j) /\ CallerInv(c)
      /\ Dispatched(c, j) /\ UNCHANGED <<job, index, lock, call, told>>
      /\ pc' = [pc EXCEPT ![c] = step] /\ pc'[c] = step
  BY <1>1, CallTyped DEF Dispatch, Goto, SubmitInv, TypeOK, CallerInv, SectionLocked, LockedPcs,
                         OwnsJob, OwnPcs, ArgumentsGiven
<1>3. \A d \in Caller \ {c} : Stays(d)
  BY <1>2 DEF SubmitInv, TypeOK, Stays
<1>4. \A e \in Caller : /\ pc'[e] \in OwnPcs => pc[e] \in OwnPcs
                        /\ pc'[e] = "create" => pc[e] = "create"
  BY <1>2 DEF SubmitInv, TypeOK
<1>5. ASSUME NEW i \in Job, Gone(i) PROVE Gone(i)'
  BY <1>2, <1>4, <1>5, DispatchedFacts DEF Gone, Exists
<1>6. RecordKept(r)
  BY <1>2, DispatchedFacts DEF RecordKept, Unknown
<1>7. FileInv'
  BY <1>2, <1>5, <1>6, DispatchFiles DEF SubmitInv, TypeOK
<1>8. \A d \in Caller \ {c} : CallerInv(d)'
  BY <1>2, <1>3, <1>4, <1>5, <1>6, DispatchOthers
<1>9. CallerInv(c)'
  <2>1. OwnsJob(c)'
    <3>1. \A q \in Request : ~Unknown(q, j)'
      BY <1>2, DispatchedFacts DEF SubmitInv, FileInv, AttemptsDistinct
    <3>2. record'[r] # None /\ record'[r].job = j
      BY <1>2, DispatchedFacts
    <3> QED BY <1>1, <1>2, <1>4, <3>1, <3>2 DEF CallerInv, OwnsJob, OwnPcs, LaunchPcs, Exists, Unknown
  <2> QED BY <1>2, <2>1
      DEF CallerInv, SectionLocked, ArgumentsGiven, SearchStands, FollowsBinding, MayCreate,
          LockedPcs, FollowPcs, OwnPcs, LaunchPcs, Exists
<1> QED BY <1>7, <1>8, <1>9

(* So does publishing the job.                                             *)
LEMMA CreateKeeps ==
  ASSUME SubmitInv, NEW c \in Caller, Create(c)
  PROVE  FileInv' /\ \A d \in Caller : CallerInv(d)'
<1> DEFINE s == call[c].spec
           r == call[c].request
<1>1. PICK j \in Job : j = call[c].job
  BY CallTyped DEF Create
<1>2. /\ pc[c] = "create" /\ call[c] \in CallRecord /\ s \in JobSpec
      /\ lock = c /\ call[c].phase # "early" /\ call[c].duplicate = None
      /\ ~Exists(j) /\ job[j].launches = 0 /\ CallerInv(c)
      /\ r # None => Unknown(r, j)
      /\ r = None => \A q \in Request : ~Unknown(q, j)
  BY <1>1, CallTyped DEF Create, SubmitInv, CallerInv, SectionLocked, LockedPcs, ArgumentsGiven,
                         MayCreate
<1>3. /\ job' = [job EXCEPT ![j] = [NoJob EXCEPT !.dir = "present", !.spec = call[c].spec,
                                     !.launches = job[j].launches,
                                     !.origin = call[c].request]]
      /\ pc' = [pc EXCEPT ![c] = "mark"]
      /\ UNCHANGED <<record, index, lock, call, told>>
  BY <1>1, <1>2 DEF Create, Goto
<1>4. /\ job'[j].dir = "present" /\ job'[j].spec = s /\ job'[j].launches = 0 /\ job'[j].origin = r
      /\ \A k \in Job : k # j => job'[k] = job[k]
      /\ pc'[c] = "mark" /\ \A d \in Caller : d # c => pc'[d] = pc[d]
  BY <1>2, <1>3 DEF SubmitInv, TypeOK, NoJob
<1>5. ~Gone(j)
  BY <1>1, <1>2 DEF Gone
<1>6. ASSUME NEW k \in Job, Gone(k) PROVE Gone(k)'
  BY <1>3, <1>4, <1>5, <1>6 DEF Gone, Exists, Unknown
<1>7. \A k \in Job : k # j => (Exists(k)' <=> Exists(k))
  BY <1>4 DEF Exists
<1>8. /\ \A t \in DuplicateSpec : t # s => Evidence(t)' \subseteq Evidence(t)
      /\ Evidence(s)' \subseteq Evidence(s) \cup {j}
  BY <1>3, <1>4, <1>7 DEF Evidence
<1>9. s \in DuplicateSpec => index[s] = None /\ Evidence(s) = {}
  BY <1>2 DEF CallerInv, SearchStands
<1>10. FileInv'
  <2> USE DEF SubmitInv, FileInv
  <2>1. DispatchedIsPublished'
    <3>1. \A k \in Job : job[k].dir # "none" => job'[k].dir # "none"
      BY <1>4
    <3>2. \A q \in Request : record[q] # None => record[q].job \in Job
      BY DEF TypeOK, Binding
    <3> QED BY <1>3, <3>1, <3>2 DEF DispatchedIsPublished, TypeOK
  <2>2. AttemptsDistinct'
    BY <1>3, <1>4 DEF AttemptsDistinct, Unknown
  <2>3. OriginIsBound'
    BY <1>2, <1>3, <1>4 DEF OriginIsBound, Unknown
  <2>4. OneLaunchPerRequest'
    <3>1. \A k \in Job : job'[k].launches <= 1
      BY <1>4 DEF OneLaunchPerRequest
    <3>2. ASSUME NEW k \in Job, k # j, job[k].origin = r, r # None PROVE FALSE
      <4>1. r \in Request
        BY <1>2, <3>2 DEF CallRecord
      <4> QED BY <1>2, <3>2, <4>1 DEF OriginIsBound, Unknown
    <3> QED BY <1>4, <3>1, <3>2 DEF OneLaunchPerRequest
  <2>5. ToldIsBound'
    BY <1>3, <1>6 DEF ToldIsBound, TypeOK
  <2>6. IndexIsTrue'
    BY <1>3, <1>8, <1>9 DEF IndexIsTrue
  <2>7. OneJobPerSpec'
    <3>1. ASSUME NEW k \in Job, k # j, Exists(k), job[k].spec = s, s \in DuplicateSpec
          PROVE  FALSE
      BY <1>9, <3>1 DEF Evidence
    <3> QED BY <1>4, <1>7, <3>1 DEF OneJobPerSpec
  <2> QED BY <2>1, <2>2, <2>3, <2>4, <2>5, <2>6, <2>7
<1>11. ASSUME NEW d \in Caller \ {c} PROVE CallerInv(d)'
  <2>1. PICK i \in Job \cup {None}, k \in Job \cup {None}, q \in Request \cup {None} :
          i = call[d].job /\ k = call[d].duplicate /\ q = call[d].request
    BY CallTyped DEF CallRecord
  <2>2. Stays(d)
    BY <1>3, <1>4 DEF Stays
  <2>3. k # None => Exists(k)'
    BY <1>2, <1>7, <2>1 DEF SubmitInv, CallerInv, ArgumentsGiven
  <2>4. pc[d] \in FollowPcs \cup OwnPcs \cup {"create", "record_duplicate"} => i # j /\ i \in Job
    <3>1. pc[d] \in {"create", "record_duplicate"} => lock = d
      BY DEF SubmitInv, CallerInv, SectionLocked, LockedPcs
    <3>2. pc[d] \in FollowPcs \cup OwnPcs => Exists(i) /\ i \in Job
      BY <2>1, CallTyped DEF SubmitInv, CallerInv, FollowsBinding, OwnsJob
    <3> QED BY <1>2, <3>1, <3>2
  <2>5. pc[d] \in FollowPcs \cup OwnPcs \cup {"create", "record_duplicate"} => JobKept(d, i)
    BY <1>4, <1>7, <2>4 DEF JobKept
  <2>6. \A p \in Request : Unknown(p, i)' => Unknown(p, i)
    BY <1>3 DEF Unknown
  <2>7. q # None => RecordKept(q)
    BY <1>3 DEF RecordKept
  <2>8. pc[d] = "look" /\ Gone(i) => Gone(i)'
    BY <1>6, <2>1, CallTyped
  <2>9. \A e \in Caller : pc'[e] \in OwnPcs /\ call'[e].job = i /\ pc[d] \in OwnPcs =>
                            pc[e] \in OwnPcs /\ call[e].job = i
    BY <1>1, <1>3, <1>4, <2>4
  <2> QED BY <1>2, <2>1, <2>2, <2>3, <2>5, <2>6, <2>7, <2>8, <2>9, OthersKeep
<1>12. CallerInv(c)'
  <2>1. OwnsJob(c)'
    <3>1. \A d \in Caller : pc'[d] \in OwnPcs /\ call'[d].job = j => d = c
      BY <1>2, <1>3, <1>4, CallTyped DEF SubmitInv, CallerInv, OwnsJob
    <3>2. r \in Request \cup {None}
      BY <1>2 DEF CallRecord
    <3>3. IF r # None THEN Unknown(r, j)' ELSE \A q \in Request : ~Unknown(q, j)'
      BY <1>2, <1>3 DEF Unknown
    <3> QED BY <1>1, <1>3, <1>4, <3>1, <3>3 DEF OwnsJob, Exists, Unknown
  <2> QED BY <1>2, <1>3, <1>4, <2>1
      DEF CallerInv, SectionLocked, ArgumentsGiven, SearchStands, FollowsBinding, MayCreate,
          LockedPcs, FollowPcs, OwnPcs, LaunchPcs, Exists
<1> QED BY <1>10, <1>11, <1>12

(* So does launching its worker.                                           *)
LEMMA LaunchKeeps ==
  ASSUME SubmitInv, NEW c \in Caller, Launch(c)
  PROVE  FileInv' /\ \A d \in Caller : CallerInv(d)'
<1> DEFINE r == call[c].request
<1>1. PICK j \in Job : j = call[c].job
  BY CallTyped DEF Launch, OwnPcs, LaunchPcs
<1>2. /\ pc[c] = "launch" /\ pc[c] \in OwnPcs /\ Exists(j) /\ job[j].launches = 0
      /\ \A q \in Request : ~Unknown(q, j)
      /\ CallerInv(c)
      /\ \A d \in Caller \ {c} : pc[d] \in OwnPcs => call[d].job # j
  BY <1>1 DEF Launch, SubmitInv, CallerInv, OwnsJob, OwnPcs, LaunchPcs
<1>3. PICK step \in {"bind_worker", "clear_failed"} : pc' = [pc EXCEPT ![c] = step]
  BY DEF Launch, Goto
<1>4. UNCHANGED <<record, index, lock, call, told>>
  BY DEF Launch
<1>5. /\ \A k \in Job : /\ job'[k].dir = job[k].dir /\ job'[k].spec = job[k].spec
                        /\ job'[k].origin = job[k].origin /\ job'[k].marker = job[k].marker
                        /\ k # j => job'[k].launches = job[k].launches
      /\ job'[j].launches \in {0, 1}
  BY <1>1, <1>2 DEF Launch, SubmitInv, TypeOK, JobRecord
<1>6. /\ pc'[c] = step /\ \A d \in Caller : d # c => pc'[d] = pc[d]
      /\ \A e \in Caller : /\ pc'[e] \in OwnPcs => pc[e] \in OwnPcs
                           /\ pc'[e] = "create" => pc[e] = "create"
  BY <1>2, <1>3 DEF SubmitInv, TypeOK
<1>7. \A k \in Job : (Exists(k)' <=> Exists(k)) /\ (Gone(k) => Gone(k)')
  BY <1>4, <1>5, <1>6 DEF Exists, Gone, Unknown
<1>8. FileInv'
  <2> USE DEF SubmitInv, FileInv
  <2>1. DispatchedIsPublished'
    BY <1>4, <1>5 DEF DispatchedIsPublished, TypeOK, Binding
  <2>2. AttemptsDistinct'
    BY <1>2, <1>4, <1>5 DEF AttemptsDistinct, Unknown, Exists
  <2>3. OriginIsBound' /\ OneLaunchPerRequest'
    BY <1>4, <1>5 DEF OriginIsBound, OneLaunchPerRequest
  <2>4. ToldIsBound'
    BY <1>4, <1>7 DEF ToldIsBound, TypeOK
  <2>5. IndexIsTrue' /\ OneJobPerSpec'
    BY <1>4, <1>5, <1>7 DEF IndexIsTrue, OneJobPerSpec, Evidence
  <2> QED BY <2>1, <2>2, <2>3, <2>4, <2>5
<1>9. ASSUME NEW d \in Caller \ {c} PROVE CallerInv(d)'
  <2>1. PICK i \in Job \cup {None}, k \in Job \cup {None}, q \in Request \cup {None} :
          i = call[d].job /\ k = call[d].duplicate /\ q = call[d].request
    BY CallTyped DEF CallRecord
  <2>2. Stays(d)
    BY <1>4, <1>6 DEF Stays
  <2>3. k # None => Exists(k)'
    BY <1>7, <2>1 DEF SubmitInv, CallerInv, ArgumentsGiven
  <2>4. pc[d] \in OwnPcs \cup {"create", "record_duplicate"} => i # j
    BY <1>2, <2>1 DEF SubmitInv, CallerInv, MayCreate
  <2>5. pc[d] \in FollowPcs \cup OwnPcs \cup {"create", "record_duplicate"} => i \in Job
    BY <2>1, CallTyped
  <2>6. q # None => RecordKept(q)
    BY <1>4 DEF RecordKept
  <2>7. \A p \in Request : Unknown(p, i)' => Unknown(p, i)
    BY <1>4 DEF Unknown
  <2>8. pc[d] = "look" /\ Gone(i) => Gone(i)'
    BY <1>7, <2>1, CallTyped
  <2>9. pc[d] \in FollowPcs \cup OwnPcs \cup {"create", "record_duplicate"} => JobKept(d, i)
    BY <1>5, <1>7, <2>4, <2>5 DEF JobKept
  <2> QED BY <1>4, <1>5, <1>6, <1>7, <2>1, <2>2, <2>3, <2>6, <2>7, <2>8, <2>9, OthersKeep
<1>10. CallerInv(c)'
  <2>1. OwnsJob(c)'
    BY <1>1, <1>2, <1>3, <1>4, <1>5, <1>6, <1>7
       DEF CallerInv, OwnsJob, OwnPcs, LaunchPcs, Unknown, Exists
  <2>2. call[c].duplicate # None => Exists(call[c].duplicate)'
    BY <1>2, <1>4, <1>5, CallTyped DEF CallerInv, ArgumentsGiven, Exists, CallRecord
  <2> QED BY <1>2, <1>3, <1>4, <1>6, <2>1, <2>2
      DEF CallerInv, SectionLocked, ArgumentsGiven, SearchStands, FollowsBinding, MayCreate,
          LockedPcs, FollowPcs, OwnPcs, LaunchPcs
<1> QED BY <1>8, <1>9, <1>10

(* So does removing it.                                                    *)
LEMMA RemoveKeeps ==
  ASSUME SubmitInv, NEW j \in Job, Remove(j)
  PROVE  FileInv' /\ \A d \in Caller : CallerInv(d)'
<1>1. /\ UNCHANGED <<record, index, lock, pc, call, told>>
      /\ \A c \in Caller : call[c].job # j /\ call[c].duplicate # j
      /\ job' = [job EXCEPT ![j] = [job[j] EXCEPT !.dir = "removed", !.marker = None]]
  BY Zenon DEF Remove
<1>2. /\ \A k \in Job : /\ job'[k].spec = job[k].spec /\ job'[k].launches = job[k].launches
                        /\ job'[k].origin = job[k].origin
                        /\ k # j => job'[k] = job[k]
      /\ job'[j].dir = "removed"
  BY <1>1 DEF SubmitInv, TypeOK, JobRecord
<1>3. /\ \A k \in Job : (Exists(k)' => Exists(k)) /\ (Gone(k) => Gone(k)')
      /\ \A k \in Job : k # j => (Exists(k)' <=> Exists(k))
  BY <1>1, <1>2 DEF Exists, Gone, Unknown
<1>4. \A s \in DuplicateSpec : Evidence(s)' \subseteq Evidence(s)
  BY <1>2, <1>3 DEF Evidence
<1>5. FileInv'
  <2> USE DEF SubmitInv, FileInv
  <2>1. DispatchedIsPublished'
    <3>1. \A k \in Job : job[k].dir # "none" => job'[k].dir # "none"
      BY <1>2
    <3>2. \A q \in Request : record[q] # None => record[q].job \in Job
      BY DEF TypeOK, Binding
    <3> QED BY <1>1, <3>1, <3>2 DEF DispatchedIsPublished, TypeOK
  <2>2. AttemptsDistinct'
    BY <1>1, <1>2 DEF AttemptsDistinct, Unknown
  <2>3. OriginIsBound' /\ OneLaunchPerRequest'
    BY <1>1, <1>2 DEF OriginIsBound, OneLaunchPerRequest
  <2>4. ToldIsBound'
    BY <1>1, <1>3 DEF ToldIsBound, TypeOK
  <2>5. IndexIsTrue' /\ OneJobPerSpec'
    BY <1>1, <1>2, <1>3, <1>4 DEF IndexIsTrue, OneJobPerSpec
  <2> QED BY <2>1, <2>2, <2>3, <2>4, <2>5
<1>6. ASSUME NEW d \in Caller PROVE CallerInv(d)'
  <2>1. PICK i \in Job \cup {None}, k \in Job \cup {None}, q \in Request \cup {None} :
          i = call[d].job /\ k = call[d].duplicate /\ q = call[d].request
    BY CallTyped DEF CallRecord
  <2>2. Stays(d)
    BY <1>1 DEF Stays
  <2>3. k # None => Exists(k)'
    BY <1>1, <1>3, <2>1 DEF SubmitInv, CallerInv, ArgumentsGiven
  <2>4. q # None => RecordKept(q)
    BY <1>1 DEF RecordKept
  <2>5. \A p \in Request : Unknown(p, i)' => Unknown(p, i)
    BY <1>1 DEF Unknown
  <2>6. pc[d] = "look" /\ Gone(i) => Gone(i)'
    BY <1>3, <2>1, CallTyped
  <2>7. pc[d] \in FollowPcs \cup OwnPcs \cup {"create", "record_duplicate"} => JobKept(d, i)
    BY <1>1, <1>2, <1>3, <2>1, CallTyped DEF JobKept
  <2> QED BY <1>1, <1>2, <1>3, <2>1, <2>2, <2>3, <2>4, <2>5, <2>6, <2>7, OthersKeep
<1> QED BY <1>5, <1>6

-----------------------------------------------------------------------------
(* What submit promises.                                                   *)

(* No request, no job and no call: the invariant holds.                    *)
LEMMA InitSubmits == Init => SubmitInv
<1> SUFFICES ASSUME Init PROVE SubmitInv
  OBVIOUS
<1>1. TypeOK
  BY DEF Init, TypeOK, JobRecord, NoJob, CallRecord, NoCall, Pcs, Status, ACTIVE_STATES
<1>2. FileInv
  BY DEF Init, FileInv, DispatchedIsPublished, AttemptsDistinct, OneLaunchPerRequest,
         OriginIsBound, ToldIsBound, IndexIsTrue, OneJobPerSpec, NoJob, Exists, Unknown
<1>3. ASSUME NEW c \in Caller PROVE CallerInv(c)
  BY DEF Init, CallerInv, SectionLocked, ArgumentsGiven, SearchStands, FollowsBinding, MayCreate,
         OwnsJob, NoCall, LockedPcs, FollowPcs, OwnPcs, LaunchPcs
<1> QED BY <1>1, <1>2, <1>3 DEF SubmitInv

(* Every step keeps it.                                                    *)
LEMMA StepSubmits == SubmitInv /\ [Next]_vars => SubmitInv'
<1> SUFFICES ASSUME SubmitInv, [Next]_vars PROVE SubmitInv'
  OBVIOUS
<1>1. ASSUME NEW c \in Caller, Step(c) PROVE SubmitInv'
  <2>1. TypeOK'
    BY <1>1, LookTyped, SectionTyped, LaunchTyped DEF Step
  <2>2. FileInv' /\ \A d \in Caller : CallerInv(d)'
    BY <1>1, EarlyKeeps, LookStepKeeps, FollowStepKeeps, LockKeeps, FindKeeps, BindKeeps,
       RecordDuplicateKeeps, CreateKeeps, OwnStepKeeps, DispatchKeeps, IndexKeeps, UnlockKeeps,
       LaunchKeeps DEF Step
  <2> QED BY <2>1, <2>2 DEF SubmitInv
<1>2. ASSUME \/ \E c \in Caller, r \in Request \cup {None}, s \in JobSpec : Submit(c, r, s)
             \/ \E c \in Caller : Die(c)
             \/ \E j \in Job : WorkerBinds(j) \/ WorkerStarts(j) \/ WorkerFails(j) \/ Remove(j)
             \/ \E s \in DuplicateSpec : LoseEntry(s)
      PROVE  SubmitInv'
  <2>1. TypeOK'
    BY <1>2, OutsideTyped
  <2>2. FileInv' /\ \A d \in Caller : CallerInv(d)'
    BY <1>2, SubmitKeeps, DieKeeps, WorkerKeeps, RemoveKeeps, LoseEntryKeeps
  <2> QED BY <2>1, <2>2 DEF SubmitInv
<1>3. CASE UNCHANGED vars
  BY <1>3 DEF vars, SubmitInv, TypeOK, FileInv, CallerInv, DispatchedIsPublished,
     AttemptsDistinct, OneLaunchPerRequest, OriginIsBound, ToldIsBound, IndexIsTrue,
     OneJobPerSpec, Evidence, Exists, Unknown, Gone, SectionLocked, ArgumentsGiven,
     SearchStands, FollowsBinding, MayCreate, OwnsJob
<1> QED BY <1>1, <1>2, <1>3 DEF Next

(* The invariant of submit, for any number of retries, servers and deaths.  *)
THEOREM SubmitInvariant == Spec => []SubmitInv
  BY InitSubmits, StepSubmits, PTL DEF Spec

(* Published before dispatched, marked before launched (submit, launch      *)
(* marker).                                                                *)
THEOREM EvidenceIsAhead == Spec => []BindingInv
<1>1. SubmitInv => BindingInv
  BY DEF SubmitInv, FileInv, CallerInv, OwnsJob, BindingInv, LaunchIsMarked
<1> QED BY <1>1, SubmitInvariant, PTL

(* A request makes one job, and a job is launched once (submit's bindings). *)
THEOREM LaunchedOnce == Spec => []OneLaunchPerRequest
<1>1. SubmitInv => OneLaunchPerRequest
  BY DEF SubmitInv, FileInv
<1> QED BY <1>1, SubmitInvariant, PTL

(* Answers to one request name one retained job (_request_job_replay).      *)
THEOREM OneAnswer == Spec => []AnswersAgree
<1>1. SubmitInv => AnswersAgree
  <2> SUFFICES ASSUME SubmitInv, NEW r \in Request, NEW j \in told[r], NEW k \in told[r],
                      Exists(j), Exists(k)
               PROVE  j = k
    BY DEF AnswersAgree
  <2> QED BY DEF SubmitInv, FileInv, ToldIsBound, Gone
<1> QED BY <1>1, SubmitInvariant, PTL

(* One retained job for each specification of an indexed family             *)
(* (_find_duplicate_submission and the rebuilding of the index).            *)
THEOREM SpecsAreSubmittedOnce == Spec => []OneJobPerSpec
<1>1. SubmitInv => OneJobPerSpec
  BY DEF SubmitInv, FileInv
<1> QED BY <1>1, SubmitInvariant, PTL

=============================================================================
