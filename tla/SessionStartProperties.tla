------------------------ MODULE SessionStartProperties ------------------------
(***************************************************************************)
(* What SessionManager promises of the one client of a process, the lease  *)
(* that covers it and the end of a start.                                  *)
(***************************************************************************)
EXTENDS SessionStart

WorkerRecord == [pc : WorkerPcs, client : MaybeClient, errors : BOOLEAN, loaded : BOOLEAN,
                 retired : BOOLEAN, released : BOOLEAN]

FlagsTyped ==
    /\ starting \in BOOLEAN /\ cancelled \in BOOLEAN /\ cleanup \in BOOLEAN
    /\ error \in BOOLEAN /\ restart \in BOOLEAN
    /\ owns \in BOOLEAN /\ hasLease \in BOOLEAN /\ refused \in BOOLEAN

\* The types of the state: part of SessionInv.
SessionTypeOK ==
    /\ FlagsTyped
    /\ client \in MaybeClient /\ reusable \in MaybeClient
    /\ attempt \in 0..MaxStarts /\ guard \in 0..MaxStarts
    /\ watchdog \in [Attempt -> {"none", "armed", "expired", "off"}]
    /\ worker \in [Attempt -> WorkerRecord]
    /\ tool \in ToolPcs
    /\ retiring \in MaybeClient
    /\ early \in BOOLEAN
    /\ ended \subseteq Attempt
    /\ connects \in 0..MaxConnects

\* The attempts that are making a client, or hold one not yet handed over.
Making == {a \in Attempt : worker[a].pc \in {"construct", "publish", "retire_cancelled"}}

\* A start's client that is under construction, or made and not yet retired,
\* keeps the lease (DEPLOYMENT.md: "the owned lease remains held until that
\* call returns and cleanup is verified").
HeldUntilRetired == Making # {} => hasLease

\* A kept client that could not be retired when a start failed before MPh was
\* loaded is shown as the client although the start may have had no lease yet.
LeftBehind == \E a \in Attempt : worker[a].errors /\ ~worker[a].loaded

\* A client of any origin is covered by the solver lease while this process may
\* have it: another process never finds the solver free before that.
LeaseCoversClient == HeldUntilRetired /\ (client # "none" /\ ~LeftBehind => hasLease)

\* MPh's one client per process, under the solver lease: no two attempts make
\* one, and none constructs while a client is published.
OneMaker ==
    \A a \in Making : Making = {a} /\ (client = "none" \/ worker[a].pc # "construct")

\* Every client has the lease and is alone, until a tool acts beside a worker in
\* its last clauses.
SessionInv == SessionTypeOK /\ (early \/ (LeaseCoversClient /\ OneMaker))

\* Nothing of a start is under way.
Quiet == tool = "idle" /\ \A a \in Attempt : worker[a].pc \in {"none", "done"}

\* When nothing is under way the process has the lease only for a client, for
\* a cleanup it reports, or because its release was refused; and no start is
\* reported that nobody runs.  What acted beside a worker in its last clauses is
\* excused.
NothingLeaks ==
    Quiet /\ ~early =>
        /\ hasLease = owns
        /\ owns => client # "none" \/ cleanup \/ refused
        /\ ~starting

\* A start that was cancelled or timed out never publishes its client,
\* whenever the constructor returns, unless a tool has acted beside a worker in
\* its last clauses (Finally resets the flag of whichever start is marked then).
EndedStaysEnded ==
    [][~early => \A a \in ended :
        At(a, "publish") /\ ~At(a, "publish")' => client' = client]_sessionVars

\* A start is over in the end, even if its constructor never returns; the same
\* excuse (Finally drops the watchdog of whichever start has one then).
StartEnds == starting /\ ~early ~> ~starting \/ early

-----------------------------------------------------------------------------
(* The invariant behind them: what a session is like until a tool acts     *)
(* beside a worker in its last clauses.                                    *)

Busy(a) == worker[a].pc \notin {"none", "done"}
OnItsWay(a) == Busy(a) /\ worker[a].pc \notin EndSteps
Idle == \A a \in Attempt : ~Busy(a)

\* Only the latest attempt is at work, and none that is still to be launched.
OneWorker ==
    \A a \in Attempt :
        /\ Busy(a) => a = attempt
        /\ a > attempt \/ (a = attempt /\ tool = "launch") => worker[a] = NewWorker

\* A start is shown until its worker is in its last clauses, and no longer
\* than somebody works at it; until then there is no client.
UnderWay ==
    /\ tool = "launch" \/ (\E a \in Attempt : OnItsWay(a)) =>
        (starting \/ cleanup) /\ client = "none"
    /\ Idle /\ tool # "launch" => ~starting

\* A disconnect has the session to itself.
DisconnectAlone ==
    /\ tool \in {"retire", "drop", "release"} => Idle
    /\ tool = "retire" => retiring = client
    /\ tool = "release" => client = "none"

\* The locals of a worker tell how far it came.
LocalsTell(a) ==
    LET w == worker[a] IN
    /\ OnItsWay(a) \/ w.pc = "retire_failed" => ~w.errors /\ ~w.retired /\ ~w.released
    /\ w.pc \in {"check_construct", "construct", "publish"} => w.loaded
    /\ w.pc \in {"check_construct", "construct"} => w.client = "none"
    /\ w.pc \in {"publish", "retire_failed"} => w.client # "none"
    /\ w.pc = "fail" => ~w.released /\ (w.client # "none" => w.retired)
    /\ w.pc = "retire_cancelled" =>
        w.loaded /\ w.client # "none" /\ ~w.errors /\ ~w.retired /\ ~w.released
    /\ w.pc = "discard" => w.loaded /\ w.retired
    /\ w.pc = "give_up" => ~(w.client # "none" /\ w.loaded) /\ ~w.released
    /\ w.errors => w.retired /\ ~w.released
    /\ w.released => w.retired \/ w.client = "none"

\* The process knows that it has the lease, but for the moment of its
\* acquisition, and a worker that has loaded MPh has it until it releases it.
LeaseKnown ==
    /\ owns => hasLease
    /\ hasLease => owns \/ \E a \in Attempt : At(a, "own")
    /\ \A a \in Attempt :
        /\ At(a, "own") => hasLease
        /\ At(a, "obey_own") \/ At(a, "load") => owns
        /\ Busy(a) /\ worker[a].loaded /\ ~worker[a].released => owns
        /\ Busy(a) /\ worker[a].released => ~owns \/ refused

\* The client that is shown beside a worker is its own.
ClientIsItsOwn ==
    \A a \in Attempt :
        Busy(a) /\ client # "none" =>
            client = worker[a].client /\ (worker[a].loaded \/ worker[a].errors)

\* An attempt that is not cancelled is over when it comes to its last clause,
\* with nothing left to release that is not reported.
EndIsReported ==
    /\ \A a \in Attempt :
        At(a, "finally") =>
            /\ cancelled \/ ~starting
            /\ cancelled \/ client # "none" \/ ~owns \/ refused \/ cleanup
            /\ worker[a].released => ~starting
    /\ Idle /\ tool # "release" /\ owns => client # "none" \/ cleanup \/ refused

\* An attempt that was ended stays marked until its last clause.
EndedIsMarked ==
    /\ \A a \in ended : a <= attempt
    /\ \A a \in Attempt :
        a = attempt /\ a \in ended /\ (tool = "launch" \/ OnItsWay(a)) => cancelled

Undisturbed ==
    /\ OneWorker
    /\ UnderWay
    /\ DisconnectAlone
    /\ \A a \in Attempt : LocalsTell(a)
    /\ LeaseKnown
    /\ ClientIsItsOwn
    /\ LeaseCoversClient
    /\ EndIsReported
    /\ EndedIsMarked

\* There is an attempt when its worker is launched and while a start is shown.
LaunchKnown == tool \in {"launch", "arm"} \/ starting => attempt \in Attempt

StartInv == SessionTypeOK /\ LaunchKnown /\ (early \/ Undisturbed)

=============================================================================
