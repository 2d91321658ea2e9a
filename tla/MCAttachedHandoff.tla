--------------------------- MODULE MCAttachedHandoff ---------------------------
(***************************************************************************)
(* The instance of AttachedHandoff that TLC checks.                        *)
(***************************************************************************)
EXTENDS AttachedHandoffProperties
=============================================================================
