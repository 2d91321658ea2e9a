------------------------------ MODULE MCJobLock ------------------------------
(***************************************************************************)
(* Two servers, one with two threads.                                      *)
(***************************************************************************)
EXTENDS JobLockProperties, TLC

CONSTANTS t1, t2, t3, server1, server2

MCProcessOf == t1 :> server1 @@ t2 :> server1 @@ t3 :> server2

=============================================================================
