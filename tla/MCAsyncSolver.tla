---------------------------- MODULE MCAsyncSolver ----------------------------
(***************************************************************************)
(* Instances of AsyncSolver for TLC.                                       *)
(***************************************************************************)
EXTENDS AsyncSolverProperties

=============================================================================
