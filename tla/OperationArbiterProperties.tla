--------------------- MODULE OperationArbiterProperties ---------------------
(***************************************************************************)
(* What the operation arbiter promises.                                    *)
(***************************************************************************)
EXTENDS OperationArbiter

Holds(c) == pc[c] \in {"hold", "release", "release_read"}

\* The calls that have a claim and have not started to remove its file.
Claimed(c) == Holds(c) \/ (pc[c] = "remove" /\ why[c] = "release")

Exists(f) ==
    \/ f = path \/ f \in retained
    \/ \E d \in Caller : pc[d] \in MovedPcs /\ kept[d] = f

Files == File \cup {None}
Pcs == {"idle", "create", "open_lock", "verify", "hold", "release", "remove", "move"}
       \cup ReadPcs \cup WritePcs \cup DeletePcs \cup MovedPcs

\* The variables hold values of their types (operation_arbiter.py 58-81).
TypeOK ==
    /\ path \in Files /\ doomed \subseteq File /\ retained \subseteq File
    /\ text \in [File -> Text]
    /\ maker \in [File -> Caller \cup {None}]
    /\ pc \in [Caller -> Pcs]
    /\ file \in [Caller -> Files] /\ fd \in [Caller -> Files] /\ kept \in [Caller -> Files]
    /\ why \in [Caller -> Why]
    /\ try \in [Caller -> 1 .. Attempts]
    /\ poll \in [Poller -> Files]
    /\ guard \in [Process -> Caller \cup {None}]
    /\ dead \subseteq Process

\* "Fail-fast durable mutex for calls that may touch COMSOL state"
\* (operation_arbiter.py 73): no two calls run their tools at the same time,
\* whatever is killed, removed or restored around them.
MutualExclusion ==
    \A c, d \in Caller : pc[c] = "hold" /\ pc[d] = "hold" => c = d

\* While a call holds a claim, operation.lock is the file it wrote, whole, so
\* that everybody else is refused (operation_arbiter.py 246-260).
ClaimIsNamed ==
    \A c \in Caller : Claimed(c) => path = file[c] /\ text[path] = "full" /\ path \notin doomed

\* Removal by content never deletes the file of a claim somebody else holds;
\* at worst it moves it aside (io.py 387-391, operation_arbiter.py 224-245).
ClaimSurvives ==
    \A c \in Caller : Claimed(c) => Exists(file[c]) /\ file[c] \notin doomed

\* "The file cannot be a live lock (live locks are written atomically by this
\* protocol)" (operation_arbiter.py 228-229): a lock removed as malformed is not
\* one that a call is still writing.
MalformedIsAbandoned ==
    \A c, d \in Caller :
        /\ \/ pc[c] = "close_delete"
           \/ pc[c] = "check" /\ kept[c] = fd[c] /\ TRUE \in Matches(c, fd[c])
        /\ why[c] \in {"empty", "partial"} /\ pc[d] \in WritePcs
        => file[d] # fd[c]

\* A lock that is reported active, with the advice to retry
\* (operation_arbiter.py 246-251), is the lock of a call that is going on.
ActiveIsOwned ==
    path # None /\ path \notin doomed /\ text[path] = "full" /\ Alive(maker[path])
        => file[maker[path]] = path

-----------------------------------------------------------------------------
(***************************************************************************)
(* The inductive invariant.                                                *)
(***************************************************************************)
Publishing(c) == pc[c] \in WritePcs \cup {"verify", "verify_read"}
Removing(c) == pc[c] \in {"remove", "move"} \cup DeletePcs \cup MovedPcs

\* An open descriptor and a moved name stand for a file.
Handles ==
    \A c \in Caller :
        /\ pc[c] \in ReadPcs \cup DeletePcs \cup {"move"} \cup MovedPcs => fd[c] \in File
        /\ pc[c] \in MovedPcs => kept[c] \in File
        /\ pc[c] \in WritePcs => file[c] \in File

\* A call runs in a live process.
LiveCalls == \A c \in Caller : pc[c] # "idle" => Alive(c)

\* What a call publishes, claims or withdraws is a file it made itself.
OwnFiles ==
    \A c \in Caller :
        Publishing(c) \/ Holds(c) \/ (Removing(c) /\ why[c] \in {"cleanup", "release"})
        => file[c] \in File /\ maker[file[c]] = c

\* A removal has a reason, and what it removes as stale was written by a
\* process that is dead.
Reasons ==
    \A c \in Caller : Removing(c) =>
        /\ why[c] # "none"
        /\ why[c] = "stale" => file[c] \in File /\ ~Alive(maker[file[c]])

\* nt never renames; posix never dooms.
PlatformSteps ==
    /\ Platform = "nt" => \A c \in Caller : pc[c] \notin {"move"} \cup MovedPcs
    /\ Platform = "posix" => doomed = {} /\ \A c \in Caller : pc[c] \notin DeletePcs

\* nt: an open handle keeps the name, and excludes the handles it does not
\* share with.
Sharing ==
    Platform = "nt" =>
        /\ \A f \in doomed : path = f
        /\ \A c \in Caller : pc[c] \in ReadPcs =>
              fd[c] = path /\ path \in File \ doomed /\ Deleters(path) = {}
        /\ \A c \in Caller : pc[c] \in DeletePcs =>
              fd[c] = path /\ path \in File /\ Writers(path) = {}

ClaimIsNamedOnWindows == Platform = "nt" => ClaimIsNamed

\* posix: from the moment a call reads its whole publication back, the file
\* exists, wherever it was moved to.
Secured(c) == Claimed(c) \/ (pc[c] = "verify_read" /\ IsOwn(c))

SecuredExist ==
    Platform = "posix" => \A c \in Caller : Secured(c) => text[file[c]] = "full" /\ Exists(file[c])

\* The inductive invariant behind MutualExclusion and ClaimSurvives
\* (operation_arbiter.py 194-355, io.py 298-484).
ArbiterInv ==
    /\ TypeOK /\ Handles /\ LiveCalls /\ OwnFiles /\ Reasons
    /\ PlatformSteps /\ Sharing
    /\ ClaimIsNamedOnWindows /\ SecuredExist

-----------------------------------------------------------------------------
\* The lock of a process that died, written whole or not, does not stay in the
\* way of those that ask (operation_arbiter.py 224-245).
DeadOwnerRecovered ==
    \A f \in File : (path = f /\ ~Alive(maker[f])) ~> (path # f \/ Alive(maker[f]))
=============================================================================
