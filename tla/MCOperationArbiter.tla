------------------------ MODULE MCOperationArbiter ------------------------
(***************************************************************************)
(* Instances of OperationArbiter for TLC.                                  *)
(***************************************************************************)
EXTENDS OperationArbiterProperties, TLC

CONSTANTS a1, a2, a3, p1, p2

\* Each caller in a server of its own: the caller stands for the server too.
OneEach == [c \in Caller |-> c]

\* Two threads of one server and one of another.
TwoServers == a1 :> p1 @@ a2 :> p1 @@ a3 :> p2

\* What a file held does not matter once nothing refers to it.
Referenced ==
    <<path, doomed, retained, pc, file, fd, why, kept, poll, try, guard, dead,
      [f \in {g \in File : ~Fresh(g)} |-> <<text[f], maker[f]>>]>>

\* Files are alike, and so are callers when each is a server.
FileSymmetry == Permutations(File)
Symmetry == Permutations(File) \cup Permutations(Caller)
=============================================================================
