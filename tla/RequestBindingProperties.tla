---------------------- MODULE RequestBindingProperties ----------------------
(***************************************************************************)
(* What a client that repeats a request may rely on.                       *)
(***************************************************************************)
EXTENDS RequestBinding

\* Shapes of the durable evidence, of the callers' work and of the bounds.
TypeOK ==
    /\ record \in [Request -> Binding \cup {None}]
    /\ index \in [DuplicateSpec -> Job \cup {None}]
    /\ job \in [Job -> JobRecord]
    /\ lock \in Caller \cup {None}
    /\ alive \subseteq Caller
    /\ pc \in [Caller -> Pcs]
    /\ call \in [Caller -> CallRecord]
    /\ told \in [Request -> SUBSET Job]
    /\ calls \in 0..MaxCalls
    /\ losses \in 0..MaxLosses

\* A request makes one job and the job is launched once, however often the
\* request is sent, by how many servers, and wherever the first one died.
OneLaunchPerRequest ==
    /\ \A j \in Job : job[j].launches <= 1
    /\ \A j, k \in Job :
        job[j].origin # None /\ job[j].origin = job[k].origin => j = k

\* Every answer to a request names the same job, as long as that is retained.
AnswersAgree ==
    \A r \in Request : \A j, k \in told[r] : Exists(j) /\ Exists(k) => j = k

\* No two retained jobs of an indexed family have the same spec, although the
\* index may be behind the directories or lose its entries.
OneJobPerSpec ==
    \A j, k \in Job :
        /\ Exists(j) /\ Exists(k)
        /\ job[j].spec = job[k].spec /\ job[j].spec \in DuplicateSpec
        => j = k

\* A binding says "dispatched" only once the job is published, and a client is
\* told of a published job only: the crash of a server in between leaves an
\* unknown binding, which a retry takes up.
DispatchedIsPublished ==
    \A r \in Request :
        /\ record[r] # None /\ record[r].state = "dispatched" => job[record[r].job].dir # "none"
        /\ \A j \in told[r] : job[j].dir # "none"

\* Whoever may launch a job, or has launched a worker that is not bound yet,
\* has its marker on it: this is what a retry and a resume look at.
LaunchIsMarked ==
    \A c \in Caller : pc[c] \in {"unlock", "launch", "bind_worker"} => job[call[c].job].marker = c

\* The evidence a retry reads is ahead of what the caller that died did next:
\* published before dispatched, marked before launched.
BindingInv == TypeOK /\ DispatchedIsPublished /\ LaunchIsMarked

\* A retry takes a job for an orphan only if no worker is bound to it.
OrphanIsUnbound ==
    [][\A j \in Job :
        job[j].status # "interrupted" /\ job'[j].status = "interrupted" => ~job[j].bound]_vars

\* An answer that a launch is under way, given because the submit lock was
\* busy, is given while another server has the lock.
WaitsForOthers == \A c \in Caller : pc[c] = "take" => lock # c

-----------------------------------------------------------------------------
(* The inductive invariant.                                                *)

Unknown(r, j) == record[r] # None /\ record[r].state = "unknown" /\ record[r].job = j

\* Nobody will publish job j: it is not there, and no binding and no caller is
\* about to make it.
Gone(j) ==
    /\ ~Exists(j)
    /\ \A r \in Request : ~Unknown(r, j)
    /\ \A c \in Caller : pc[c] = "create" => call[c].job # j

\* The callers that follow an existing job, and those that made theirs.
FollowPcs == {"marker1", "marker2", "take", "look_locked", "marker_locked", "marker3"}
OwnPcs == {"mark", "dispatch", "index", "unlock"} \cup LaunchPcs

\* Two attempts that may both be taken up are of two jobs, and neither of them
\* was launched.
AttemptsDistinct ==
    /\ \A q, r \in Request, j \in Job : Unknown(q, j) /\ Unknown(r, j) => q = r
    /\ \A j \in Job :
        job[j].launches > 0 => job[j].dir # "none" /\ \A r \in Request : ~Unknown(r, j)

\* A job is made for the request that is bound to it, and a binding leaves its
\* job only for a duplicate.
OriginIsBound ==
    \A j \in Job, r \in Request :
        job[j].origin = r =>
            record[r] # None /\ (record[r].job = j \/ record[r].state = "dispatched")

\* What clients were told of is the bound job, or gone for good.
ToldIsBound ==
    \A r \in Request : \A j \in told[r] :
        record[r] # None /\ (record[r].job = j \/ Gone(j))

\* An entry of the index names the only job of its spec.
IndexIsTrue ==
    \A s \in DuplicateSpec : index[s] # None => Evidence(s) \subseteq {index[s]}

\* Who is in a locked section has the lock, a retry that consults a bound
\* request inside one included.
SectionLocked(c) ==
    /\ pc[c] \in LockedPcs \cup {"look"} /\ call[c].phase # "early" => lock = c
    /\ pc[c] \in LockedPcs \cup {"lock"} => call[c].phase # "early"
    /\ pc[c] = "early" => call[c].phase = "early"
    /\ pc[c] = "find" => call[c].spec \in DuplicateSpec

\* A caller that works has the arguments its step needs.
ArgumentsGiven(c) ==
    /\ pc[c] \notin {"idle", "down"} => call[c].spec # None
    /\ pc[c] \in FollowPcs \cup OwnPcs \cup {"look", "create", "record_duplicate"} =>
        call[c].job # None
    /\ pc[c] \in {"look", "dispatch", "record_duplicate"} \cup FollowPcs => call[c].request # None
    /\ call[c].duplicate # None => Exists(call[c].duplicate) /\ call[c].request # None
    /\ pc[c] = "record_duplicate" => call[c].duplicate # None
    /\ pc[c] = "create" => call[c].duplicate = None
    /\ call[c].phase = "early" \/ pc[c] \in {"lock", "find"} => call[c].duplicate = None

\* Behind a search that found nothing there is nothing.
SearchStands(c) ==
    /\ pc[c] \in {"bind", "look", "create"}
    /\ call[c].phase # "early" /\ call[c].duplicate = None /\ call[c].spec \in DuplicateSpec
    => index[call[c].spec] = None /\ Evidence(call[c].spec) = {}

\* A retry follows the bound job, or one that is gone.
FollowsBinding(c) ==
    /\ pc[c] = "look" =>
        /\ record[call[c].request] # None
        /\ \/ record[call[c].request].job = call[c].job
           \/ call[c].phase = "early" /\ Gone(call[c].job)
    /\ pc[c] \in FollowPcs =>
        /\ Exists(call[c].job)
        /\ record[call[c].request] # None /\ record[call[c].request].job = call[c].job

\* The id is the caller's: nobody else is bound to it or has made it.
MayCreate(c) ==
    pc[c] \in {"create", "record_duplicate"} =>
        /\ ~Exists(call[c].job)
        /\ job[call[c].job].launches = 0
        /\ IF call[c].request = None
           THEN \A r \in Request : ~Unknown(r, call[c].job)
           ELSE Unknown(call[c].request, call[c].job)

\* The job a caller has made is there, marked and not launched before.
OwnsJob(c) ==
    /\ pc[c] \in OwnPcs =>
        /\ Exists(call[c].job)
        /\ job[call[c].job].spec = call[c].spec
        /\ \A d \in Caller : pc[d] \in OwnPcs /\ call[d].job = call[c].job => d = c
        /\ IF pc[c] \in {"mark", "dispatch"} /\ call[c].request # None
           THEN Unknown(call[c].request, call[c].job)
           ELSE \A r \in Request : ~Unknown(r, call[c].job)
        /\ pc[c] \notin {"mark", "dispatch"} /\ call[c].request # None =>
            /\ record[call[c].request] # None
            /\ record[call[c].request].job = call[c].job
    /\ pc[c] \in {"mark", "dispatch", "index", "unlock", "launch"} =>
        job[call[c].job].launches = 0
    /\ pc[c] \in {"dispatch", "index", "unlock", "launch", "bind_worker"} =>
        job[call[c].job].marker = c

CallerInv(c) ==
    /\ SectionLocked(c)
    /\ ArgumentsGiven(c)
    /\ SearchStands(c)
    /\ FollowsBinding(c)
    /\ MayCreate(c)
    /\ OwnsJob(c)

FileInv ==
    /\ DispatchedIsPublished
    /\ AttemptsDistinct
    /\ OneLaunchPerRequest
    /\ OriginIsBound
    /\ ToldIsBound
    /\ IndexIsTrue
    /\ OneJobPerSpec

\* The invariant, in which the lock and the order of the evidence meet.
SubmitInv == TypeOK /\ FileInv /\ \A c \in Caller : CallerInv(c)

=============================================================================
