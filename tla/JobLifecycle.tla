---------------------------- MODULE JobLifecycle ----------------------------
(***************************************************************************)
(* What a durable job promises to those who watch state.json: its status   *)
(* follows TRANSITIONS within an attempt, a resumable status is left only  *)
(* by starting the next attempt, a completed job never changes, and an     *)
(* attempt enters and ends cancellation only while a request authorizes    *)
(* the cancellation of that attempt.                                       *)
(***************************************************************************)
EXTENDS JobStates

VARIABLES
  status,     \* what state.status says
  attempt,    \* what state.attempt says
  authorized  \* the attempt whose cancellation is authorized, 0 for none

lifecycleVars == <<status, attempt, authorized>>

LifecycleInit == status = "submitted" /\ attempt = 1 /\ authorized = 0

Ordinary == Status \ (CANCELLING_STATES \union {"cancelled"})

(* The attempt goes on or ends, other than by cancellation.                *)
Progress ==
  /\ status \notin RESUMABLE_STATES
  /\ status' \in TRANSITIONS[status] \intersect Ordinary
  /\ UNCHANGED <<attempt, authorized>>

(* A cancellation of the current attempt is authorized.                    *)
Authorize ==
  /\ CanCancel(status)
  /\ authorized' = attempt
  /\ UNCHANGED <<status, attempt>>

(* The authorized cancellation moves the attempt one step further.         *)
CancelAdvances ==
  /\ authorized = attempt
  /\ status' \in TRANSITIONS[status] \ Ordinary
  /\ UNCHANGED <<attempt, authorized>>

NextAttempt ==
  /\ status \in RESUMABLE_STATES
  /\ status' = "starting"
  /\ attempt' = attempt + 1
  /\ UNCHANGED authorized

(* An authorization that outlived its attempt is withdrawn.                *)
Withdraw ==
  /\ authorized # attempt
  /\ authorized' = 0
  /\ UNCHANGED <<status, attempt>>

LifecycleNext ==
  Progress \/ Authorize \/ CancelAdvances \/ NextAttempt \/ Withdraw

LifecycleSpec == LifecycleInit /\ [][LifecycleNext]_lifecycleVars

=============================================================================
