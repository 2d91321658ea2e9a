------------------------------ MODULE ClaimFile ------------------------------
(***************************************************************************)
(* A file that calls create exclusively, read, and remove by content:      *)
(* durable/io.py as operation_arbiter.py uses it, with the sharing rules   *)
(* of the two platforms the server runs on.                                *)
(*                                                                         *)
(* A file is a model value.  It stands for one inode and for the payload   *)
(* of the call that created it, which no other payload equals because it   *)
(* carries a fresh operation id.  What is in the file is its text.         *)
(***************************************************************************)
EXTENDS Naturals, FiniteSets

CONSTANTS
    Caller,     \* the threads that call COMSOL-bound tools
    Process,    \* the server processes
    ProcessOf,  \* the process of each caller
    Poller,     \* readers of get_operation_status
    File,       \* inodes
    None,       \* no file, no caller
    Platform,   \* "nt" or "posix"
    Faults      \* the system calls that may fail for a reason of their own

ASSUME CallerAssumption == ProcessOf \in [Caller -> Process]
ASSUME NoneAssumption == None \notin Caller \cup File
ASSUME PlatformAssumption == Platform \in {"nt", "posix"}
ASSUME FaultsAssumption == Faults \subseteq {"create", "write", "read", "probe", "unlink"}

VARIABLES
    path,       \* the file that operation.lock names, or None
    text,       \* how much of its payload each file holds
    maker,      \* the caller that created each file
    doomed,     \* nt: files whose deletion waits for their handles
    retained,   \* posix: files left in a quarantine directory
    pc,         \* the step each caller is about to take
    file,       \* the file whose bytes a caller writes, claims or wants removed
    fd,         \* the file a caller has open for reading or removal
    why,        \* why it removes a file
    kept,       \* the file it moved to its quarantine directory
    poll        \* the file each poller has open

fileVars == <<path, text, maker, doomed, retained>>

Text == {"empty", "partial", "full"}

\* A removal withdraws a publication, releases a claim, or takes away a lock
\* that was met: a malformed one, of which "empty" or "partial" bytes were
\* read, or the whole one of an owner that is gone.
Why == {"none", "empty", "partial", "stale", "cleanup", "release"}

ReadPcs == {"read_lock", "verify_read", "release_read"}
WritePcs == {"write", "close"}
DeletePcs == {"mark", "close_delete"}
MovedPcs == {"check", "restore"}

\* Descriptors: the reading, writing and deleting handles that are open on f.
Readers(f) == {c \in Caller : pc[c] \in ReadPcs /\ fd[c] = f}
Writers(f) == {c \in Caller : pc[c] \in WritePcs /\ file[c] = f}
Deleters(f) == {c \in Caller : pc[c] \in DeletePcs /\ fd[c] = f}
Polled(f) == \E q \in Poller : poll[q] = f

\* Mutant of CanDelete: the creator's descriptor shares deletion.
CanDeleteWhileWritten(f) ==
    Platform = "nt" => f \notin doomed /\ Readers(f) = {} /\ ~Polled(f)

\* os.open asks for a handle that does not share deletion, so on nt a file is
\* either open for reading or writing or open for deletion, and a file whose
\* deletion is pending cannot be opened at all.
CanRead(f) == Platform = "nt" => f \notin doomed /\ Deleters(f) = {}
CanDelete(f) ==
    Platform = "nt" => f \notin doomed /\ Readers(f) = {} /\ Writers(f) = {} /\ ~Polled(f)

\* An inode and a payload nothing refers to: a file that is in a quarantine
\* directory and that no call remembers is forgotten.
Fresh(f) ==
    /\ f # path /\ ~Polled(f)
    /\ \A c \in Caller : f \notin {file[c], fd[c], kept[c]}

\* The outcomes of unlink_if_content's predicate for c on file f: equal bytes,
\* or for a cleanup a prefix of the bytes.  Two partial payloads may coincide,
\* and a partial one may be a prefix of another whole one.
Expected(c) == IF why[c] \in {"empty", "partial"} THEN why[c] ELSE "full"

Matches(c, f) ==
    CASE f = file[c] /\ why[c] = "cleanup" -> {TRUE}
      [] f = file[c] /\ why[c] # "cleanup" -> {text[f] = Expected(c)}
      [] f # file[c] /\ text[f] = "empty" -> {why[c] \in {"empty", "cleanup"}}
      [] f # file[c] /\ text[f] = "partial" ->
            IF why[c] \in {"partial", "cleanup"} THEN BOOLEAN ELSE {FALSE}
      [] f # file[c] /\ text[f] = "full" -> {FALSE}

\* os.open with O_CREAT and O_EXCL.
CreateExclusive(c, f) ==
    /\ path = None /\ Fresh(f)
    /\ path' = f
    /\ text' = [text EXCEPT ![f] = "empty"]
    /\ maker' = [maker EXCEPT ![f] = c]
    /\ retained' = retained \ {f}
    /\ UNCHANGED doomed

\* The last handle of a doomed file closes: its name becomes free.
CloseHandle(f, remaining) ==
    IF f \in doomed /\ remaining = {}
    THEN path' = None /\ doomed' = doomed \ {f}
    ELSE UNCHANGED <<path, doomed>>
=============================================================================
