---------------------------- MODULE MCDurableJob ----------------------------
(***************************************************************************)
(* DurableJob for TLC.  Processes of a kind are interchangeable: no         *)
(* definition chooses or compares them, so their permutations are a         *)
(* symmetry of the specification.  Liveness runs use none.                 *)
(***************************************************************************)
EXTENDS AttemptInvariant, TLC

Symmetry == Permutations(Workers) \union Permutations(Coordinators) \union Permutations(Managers)

=============================================================================
