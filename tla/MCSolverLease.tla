---------------------------- MODULE MCSolverLease ----------------------------
(***************************************************************************)
(* Instances of SolverLease for TLC.                                       *)
(***************************************************************************)
EXTENDS SolverLeaseProperties

=============================================================================
