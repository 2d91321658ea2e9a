---------------------------- MODULE MCSessionStart ----------------------------
(* SessionStart for TLC: the bounds are in the cfg.                        *)
EXTENDS SessionStartProperties

=============================================================================
