----------------------------- MODULE MCWallWatchdog -----------------------------
(***************************************************************************)
(* The instance of WallWatchdog that TLC checks.                           *)
(***************************************************************************)
EXTENDS WallWatchdogProperties
=============================================================================
