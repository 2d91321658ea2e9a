--------------------------- MODULE RequestBinding ---------------------------
(***************************************************************************)
(* JobManager.submit: a client may send the same request again when it did *)
(* not hear the answer, to the same or to another server, and gets the     *)
(* job of the first call.  Three pieces of durable evidence tell a retry   *)
(* what became of that call: the request's binding record, the job's       *)
(* directory, and the launch marker with the identity of the launcher.     *)
(* For some families of jobs an index finds a job of the same spec too.    *)
(*                                                                         *)
(* A caller is a thread of a server and stands for it.  The submit lock is *)
(* JobLock, used as the atomic lock it implements.                         *)
(***************************************************************************)
EXTENDS JobStates, FiniteSets

CONSTANTS
    Caller,         \* calls of submit run here
    Request,        \* request ids
    JobSpec,        \* what is asked for, up to its fingerprint
    DuplicateSpec,  \* those of the families with an index
    Job,            \* job ids
    None,
    MaxCalls,       \* bound on the calls
    MaxDeaths,      \* bound on the servers that die
    MaxLosses       \* bound on the times the index loses its entries

ASSUME FamilyAssumption == DuplicateSpec \subseteq JobSpec
ASSUME NoneAssumption == None \notin Caller \cup Request \cup JobSpec \cup Job
ASSUME BoundsAssumption == MaxCalls \in Nat /\ MaxDeaths \in Nat /\ MaxLosses \in Nat

VARIABLES
    record,     \* request-bindings: per request None or its binding
    index,      \* the duplicate index: per spec a job or None
    job,        \* per id the job directory and the process launched for it
    lock,       \* the caller that holds .submit.lock
    alive,      \* callers whose server runs
    pc,         \* the step each caller is about to take
    call,       \* the request, spec and job a caller works on
    told,       \* per request the jobs its clients were told of
    calls, losses

vars == <<record, index, job, lock, alive, pc, call, told, calls, losses>>

Binding == [spec : JobSpec, job : Job, state : {"unknown", "dispatched"}]
ASSUME BindingAssumption == None \notin Binding

\* dir: the directory is published, or was and has been removed since.
JobRecord == [dir : {"none", "present", "removed"}, spec : JobSpec \cup {None},
              status : Status, bound : BOOLEAN, marker : Caller \cup {None},
              launches : Nat, origin : Request \cup {None}]
NoJob == [dir |-> "none", spec |-> None, status |-> "submitted", bound |-> FALSE,
          marker |-> None, launches |-> 0, origin |-> None]

\* phase: before the locks, in the first locked section, or in the second.
\* duplicate: the job of the same spec that a locked section found.
CallRecord == [request : Request \cup {None}, spec : JobSpec \cup {None}, job : Job \cup {None},
               duplicate : Job \cup {None}, phase : {"early", "first", "second"}]
NoCall == [request |-> None, spec |-> None, job |-> None, duplicate |-> None, phase |-> "early"]

LookPcs == {"early", "look", "marker1", "marker2", "take", "look_locked", "marker_locked",
            "marker3"}
LockedPcs == {"find", "bind", "record_duplicate", "create", "mark", "dispatch", "index", "unlock"}
LaunchPcs == {"launch", "bind_worker", "clear", "clear_failed", "fail"}
Pcs == LookPcs \cup LockedPcs \cup LaunchPcs \cup {"idle", "down", "lock"}

Init ==
    /\ record = [r \in Request |-> None]
    /\ index = [s \in DuplicateSpec |-> None]
    /\ job = [j \in Job |-> NoJob]
    /\ lock = None
    /\ alive = Caller
    /\ pc = [c \in Caller |-> "idle"]
    /\ call = [c \in Caller |-> NoCall]
    /\ told = [r \in Request |-> {}]
    /\ calls = 0
    /\ losses = 0

Files == <<record, index, job>>
Bounds == <<calls, losses>>

Exists(j) == job[j].dir = "present"
Unlaunched(j) == job[j].status = "submitted" /\ ~job[j].bound
MarkerAlive(j) == job[j].marker \in alive

\* uuid4: an id nobody has seen.
Fresh(j) ==
    /\ job[j].dir = "none"
    /\ \A r \in Request : record[r] # None => record[r].job # j
    /\ \A c \in Caller : call[c].job # j

Goto(c, step) == pc' = [pc EXCEPT ![c] = step]
Unlocked(c) == IF lock = c THEN None ELSE lock

\* The call returns; its client is told of job j unless it is None.
Answer(c, j) ==
    /\ Goto(c, "idle")
    /\ call' = [call EXCEPT ![c] = NoCall]
    /\ lock' = Unlocked(c)
    /\ told' = IF call[c].request = None \/ j = None
               THEN told
               ELSE [told EXCEPT ![call[c].request] = @ \cup {j}]

Refuse(c) == Answer(c, None)

\* A duplicate is looked for before the preflight and again after it.
NextSection(c) ==
    /\ Goto(c, "lock")
    /\ call' = [call EXCEPT ![c].phase =
                  IF call[c].phase = "early" /\ call[c].spec \in DuplicateSpec
                  THEN "first" ELSE "second"]

-----------------------------------------------------------------------------
(* A request that may be bound already                                     *)

Submit(c, r, s) ==
    /\ pc[c] = "idle"
    /\ calls < MaxCalls
    /\ calls' = calls + 1
    /\ call' = [call EXCEPT ![c] = [NoCall EXCEPT !.request = r, !.spec = s]]
    /\ Goto(c, "early")
    /\ UNCHANGED <<Files, lock, alive, told, losses>>

\* A record of another spec refuses; one of this spec leads to its job.
Consult(c) ==
    LET r == call[c].request IN
    IF record[r].spec # call[c].spec
    THEN Refuse(c)
    ELSE /\ call' = [call EXCEPT ![c].job = record[r].job]
         /\ Goto(c, "look")
         /\ UNCHANGED <<lock, told>>

Bound(r) == r # None /\ record[r] # None

Early(c) ==
    /\ pc[c] = "early"
    /\ IF Bound(call[c].request)
       THEN Consult(c)
       ELSE NextSection(c) /\ UNCHANGED <<lock, told>>
    /\ UNCHANGED <<Files, alive, Bounds>>

\* Without a directory an unknown attempt is taken up, a dispatched one is not.
Absent(c) ==
    IF record[call[c].request].state = "dispatched"
    THEN Refuse(c)
    ELSE /\ IF call[c].phase = "early"
            THEN NextSection(c)
            ELSE /\ Goto(c, IF call[c].duplicate # None THEN "record_duplicate" ELSE "create")
                 /\ UNCHANGED call
         /\ UNCHANGED <<lock, told>>

Look(c) ==
    /\ pc[c] = "look"
    /\ LET j == call[c].job IN
       \/ ~Exists(j) /\ Absent(c)
       \/ Exists(j) /\ ~Unlaunched(j) /\ Answer(c, j)
       \/ /\ Exists(j) /\ Unlaunched(j)
          /\ Goto(c, "marker1")
          /\ UNCHANGED <<call, lock, told>>
    /\ UNCHANGED <<Files, alive, Bounds>>

\* A live marker means that the launcher is at work.
Marker1(c) ==
    /\ pc[c] = "marker1"
    /\ IF MarkerAlive(call[c].job)
       THEN Answer(c, call[c].job)
       ELSE Goto(c, "marker2") /\ UNCHANGED <<call, lock, told>>
    /\ UNCHANGED <<Files, alive, Bounds>>

Marker2(c) ==
    /\ pc[c] = "marker2"
    /\ Goto(c, IF MarkerAlive(call[c].job) THEN "marker3" ELSE "take")
    /\ UNCHANGED <<Files, lock, alive, call, told, Bounds>>

\* The lock is not reentrant: a caller that has it waits for itself and, like
\* one that waits for another, answers in the end that the launch is under way.
Take(c) ==
    /\ pc[c] = "take"
    /\ \/ /\ lock = None
          /\ lock' = c
          /\ Goto(c, "look_locked")
          /\ UNCHANGED <<call, told>>
       \/ lock # None /\ Answer(c, call[c].job)
    /\ UNCHANGED <<Files, alive, Bounds>>

LookLocked(c) ==
    /\ pc[c] = "look_locked"
    /\ IF Unlaunched(call[c].job)
       THEN Goto(c, "marker_locked") /\ UNCHANGED <<call, lock, told>>
       ELSE Answer(c, call[c].job)
    /\ UNCHANGED <<Files, alive, Bounds>>

\* update_state refuses an edge that TRANSITIONS does not have.
Interrupt(j) ==
    job' = IF "interrupted" \in TRANSITIONS[job[j].status]
           THEN [job EXCEPT ![j].status = "interrupted"]
           ELSE job

\* An orphan is marked interrupted.
MarkerLocked(c) ==
    /\ pc[c] = "marker_locked"
    /\ IF MarkerAlive(call[c].job) THEN UNCHANGED job ELSE Interrupt(call[c].job)
    /\ Answer(c, call[c].job)
    /\ UNCHANGED <<record, index, alive, Bounds>>

\* The last test uses the state that was read first.
Marker3(c) ==
    /\ pc[c] = "marker3"
    /\ IF MarkerAlive(call[c].job) THEN UNCHANGED job ELSE Interrupt(call[c].job)
    /\ Answer(c, call[c].job)
    /\ UNCHANGED <<record, index, alive, Bounds>>

-----------------------------------------------------------------------------
(* The locked sections                                                     *)

Lock(c) ==
    /\ pc[c] = "lock"
    /\ \/ /\ lock = None
          /\ lock' = c
          /\ Goto(c, IF call[c].spec \in DuplicateSpec THEN "find" ELSE "bind")
          /\ UNCHANGED <<call, told>>
       \/ lock # None /\ Refuse(c)
    /\ UNCHANGED <<Files, alive, Bounds>>

\* The jobs whose retained spec is s; a rebuilt index names one of them.
Evidence(s) == {j \in Job : Exists(j) /\ job[j].spec = s}
Rebuilt == [s \in DuplicateSpec |->
              IF Evidence(s) = {} THEN None ELSE CHOOSE j \in Evidence(s) : TRUE]

\* The first section ends; the second one goes on to create the job.
NotFound(c) ==
    /\ IF call[c].phase = "first"
       THEN NextSection(c) /\ lock' = None
       ELSE Goto(c, "bind") /\ UNCHANGED <<call, lock>>
    /\ UNCHANGED told

\* With a request the duplicate is bound to it, without one it is the answer.
Found(c, j) ==
    IF call[c].request = None
    THEN Answer(c, j)
    ELSE /\ call' = [call EXCEPT ![c].duplicate = j]
         /\ Goto(c, "bind")
         /\ UNCHANGED <<lock, told>>

\* Mutant of Entries: a miss in the index is taken for absence.
EntriesIndexed(s) == index

\* A miss leads to a rebuild.
Entries(s) == IF index[s] = None THEN Rebuilt ELSE index

\* An entry without a directory is dropped.
Find(c) ==
    /\ pc[c] = "find"
    /\ LET s == call[c].spec
           j == Entries(s)[s] IN
       IF j # None /\ Exists(j)
       THEN index' = Entries(s) /\ Found(c, j)
       ELSE index' = [Entries(s) EXCEPT ![s] = None] /\ NotFound(c)
    /\ UNCHANGED <<record, job, alive, Bounds>>

\* Mutant of Bind: the early look is trusted, the record not read again.
BindUnread(c) ==
    /\ pc[c] = "bind"
    /\ \E j \in Job :
        /\ Fresh(j)
        /\ record' = IF call[c].request = None THEN record
                     ELSE [record EXCEPT ![call[c].request] =
                            [spec |-> call[c].spec, job |-> j, state |-> "unknown"]]
        /\ call' = [call EXCEPT ![c].job = j]
    /\ Goto(c, IF call[c].duplicate # None THEN "record_duplicate" ELSE "create")
    /\ UNCHANGED <<index, job, lock, alive, told, Bounds>>

\* An unbound request is bound to an id before anything is done for it.
Bind(c) ==
    \/ ~Bound(call[c].request) /\ BindUnread(c)
    \/ /\ pc[c] = "bind"
       /\ Bound(call[c].request)
       /\ Consult(c)
       /\ UNCHANGED <<Files, alive, Bounds>>

Dispatched(c, j) ==
    record' = [record EXCEPT ![call[c].request] =
                [spec |-> call[c].spec, job |-> j, state |-> "dispatched"]]

RecordDuplicate(c) ==
    /\ pc[c] = "record_duplicate"
    /\ Dispatched(c, call[c].duplicate)
    /\ Answer(c, call[c].duplicate)
    /\ UNCHANGED <<index, job, alive, Bounds>>

\* The directory is renamed into place with everything in it.
Create(c) ==
    /\ pc[c] = "create"
    /\ LET j == call[c].job IN
       IF Exists(j)
       THEN Refuse(c) /\ UNCHANGED job
       ELSE /\ job' = [job EXCEPT ![j] = [NoJob EXCEPT !.dir = "present", !.spec = call[c].spec,
                                           !.launches = job[j].launches,
                                           !.origin = call[c].request]]
            /\ Goto(c, "mark")
            /\ UNCHANGED <<lock, call, told>>
    /\ UNCHANGED <<record, index, alive, Bounds>>

\* Mutant of Mark: the launch is not announced.
MarkNothing(c) ==
    /\ pc[c] = "mark"
    /\ Goto(c, IF call[c].request # None THEN "dispatch"
               ELSE IF call[c].spec \in DuplicateSpec THEN "index" ELSE "unlock")
    /\ UNCHANGED <<Files, lock, alive, call, told, Bounds>>

\* The marker is armed before the lock is released.
Mark(c) ==
    /\ pc[c] = "mark"
    /\ job' = [job EXCEPT ![call[c].job].marker = c]
    /\ Goto(c, IF call[c].request # None THEN "dispatch"
               ELSE IF call[c].spec \in DuplicateSpec THEN "index" ELSE "unlock")
    /\ UNCHANGED <<record, index, lock, alive, call, told, Bounds>>

Dispatch(c) ==
    /\ pc[c] = "dispatch"
    /\ Dispatched(c, call[c].job)
    /\ Goto(c, IF call[c].spec \in DuplicateSpec THEN "index" ELSE "unlock")
    /\ UNCHANGED <<index, job, lock, alive, call, told, Bounds>>

\* An index without any entry is rebuilt first.
Index(c) ==
    /\ pc[c] = "index"
    /\ LET entries == IF \A s \in DuplicateSpec : index[s] = None THEN Rebuilt ELSE index IN
       index' = [entries EXCEPT ![call[c].spec] = call[c].job]
    /\ Goto(c, "unlock")
    /\ UNCHANGED <<record, job, lock, alive, call, told, Bounds>>

Unlock(c) ==
    /\ pc[c] = "unlock"
    /\ lock' = None
    /\ Goto(c, "launch")
    /\ UNCHANGED <<Files, alive, call, told, Bounds>>

-----------------------------------------------------------------------------
(* The launch, outside the lock                                            *)

\* The process may not start, or not be identified within two seconds.
Launch(c) ==
    /\ pc[c] = "launch"
    /\ \/ /\ job' = [job EXCEPT ![call[c].job].launches = @ + 1]
          /\ \E step \in {"bind_worker", "clear_failed"} : Goto(c, step)
       \/ Goto(c, "clear_failed") /\ UNCHANGED job
    /\ UNCHANGED <<record, index, lock, alive, call, told, Bounds>>

BindWorker(c) ==
    /\ pc[c] = "bind_worker"
    /\ job' = [job EXCEPT ![call[c].job].bound = TRUE]
    /\ Goto(c, "clear")
    /\ UNCHANGED <<record, index, lock, alive, call, told, Bounds>>

Unmark(c) == job' = [job EXCEPT ![call[c].job].marker = None]

Clear(c) ==
    /\ pc[c] = "clear"
    /\ Unmark(c)
    /\ Answer(c, call[c].job)
    /\ UNCHANGED <<record, index, alive, Bounds>>

ClearFailed(c) ==
    /\ pc[c] = "clear_failed"
    /\ Unmark(c)
    /\ Goto(c, "fail")
    /\ UNCHANGED <<record, index, lock, alive, call, told, Bounds>>

\* JobLaunchError names the job.
Fail(c) ==
    /\ pc[c] = "fail"
    /\ job' = IF "failed" \in TRANSITIONS[job[call[c].job].status]
              THEN [job EXCEPT ![call[c].job].status = "failed"] ELSE job
    /\ Answer(c, call[c].job)
    /\ UNCHANGED <<record, index, alive, Bounds>>

-----------------------------------------------------------------------------
(* The worker, the operator, and faults                                    *)

\* A worker binds itself before it does anything else.
WorkerBinds(j) ==
    /\ job[j].launches > 0 /\ Exists(j) /\ ~job[j].bound
    /\ job' = [job EXCEPT ![j].bound = TRUE]
    /\ UNCHANGED <<record, index, lock, alive, pc, call, told, Bounds>>

WorkerStarts(j) ==
    /\ Exists(j) /\ job[j].bound /\ job[j].status = "submitted"
    /\ job' = [job EXCEPT ![j].status = "starting"]
    /\ UNCHANGED <<record, index, lock, alive, pc, call, told, Bounds>>

WorkerFails(j) ==
    /\ job[j].status = "starting"
    /\ job' = [job EXCEPT ![j].status = "failed"]
    /\ UNCHANGED <<record, index, lock, alive, pc, call, told, Bounds>>

\* Retention removes finished jobs.
Remove(j) ==
    /\ Exists(j)
    /\ job[j].status \in {"failed", "interrupted"}
    /\ \A c \in Caller : call[c].job # j /\ call[c].duplicate # j
    /\ job' = [job EXCEPT ![j] = [@ EXCEPT !.dir = "removed", !.marker = None]]
    /\ UNCHANGED <<record, index, lock, alive, pc, call, told, Bounds>>

\* The index file is lost, or some of its entries are.
LoseEntry(s) ==
    /\ losses < MaxLosses
    /\ losses' = losses + 1
    /\ index[s] # None
    /\ index' = [index EXCEPT ![s] = None]
    /\ UNCHANGED <<record, job, lock, alive, pc, call, told, calls>>

\* JobLock takes a dead owner's lock away.
Die(c) ==
    /\ c \in alive
    /\ Cardinality(Caller \ alive) < MaxDeaths
    /\ alive' = alive \ {c}
    /\ lock' = Unlocked(c)
    /\ Goto(c, "down")
    /\ call' = [call EXCEPT ![c] = NoCall]
    /\ UNCHANGED <<Files, told, Bounds>>

Step(c) ==
    \/ Early(c) \/ Look(c) \/ Marker1(c) \/ Marker2(c) \/ Take(c) \/ LookLocked(c)
    \/ MarkerLocked(c) \/ Marker3(c)
    \/ Lock(c) \/ Find(c) \/ Bind(c) \/ RecordDuplicate(c)
    \/ Create(c) \/ Mark(c) \/ Dispatch(c) \/ Index(c) \/ Unlock(c)
    \/ Launch(c) \/ BindWorker(c) \/ Clear(c) \/ ClearFailed(c) \/ Fail(c)

Next ==
    \/ \E c \in Caller, r \in Request \cup {None}, s \in JobSpec : Submit(c, r, s)
    \/ \E c \in Caller : Step(c) \/ Die(c)
    \/ \E j \in Job : WorkerBinds(j) \/ WorkerStarts(j) \/ WorkerFails(j) \/ Remove(j)
    \/ \E s \in DuplicateSpec : LoseEntry(s)

Spec == Init /\ [][Next]_vars

=============================================================================
