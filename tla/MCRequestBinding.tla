--------------------------- MODULE MCRequestBinding ---------------------------
(***************************************************************************)
(* Instances of RequestBinding for TLC.                                    *)
(***************************************************************************)
EXTENDS RequestBindingProperties, TLC

\* Job ids are alike, and so are servers.
Symmetry == Permutations(Job) \cup Permutations(Caller)

=============================================================================
