------------------------------ MODULE JobStates ------------------------------
(***************************************************************************)
(* The status vocabulary of a durable job and the edges state.json may     *)
(* take: ACTIVE_STATES, TERMINAL_STATES and TRANSITIONS of jobs/store.py.   *)
(* No state of its own; the store, the actors and the abstract lifecycle    *)
(* all read these definitions.                                             *)
(***************************************************************************)
EXTENDS Naturals

ACTIVE_STATES == {"submitted", "starting", "smoke_running", "smoke_validated",
                  "running", "cancel_requested", "cancelling"}

TERMINAL_STATES == {"completed", "failed", "interrupted", "cancelled"}

Status == ACTIVE_STATES \union TERMINAL_STATES

(* The statuses JobManager.resume accepts (manager.py). *)
RESUMABLE_STATES == {"failed", "interrupted", "cancelled"}

(* The statuses a matching cancellation puts a job in. *)
CANCELLING_STATES == {"cancel_requested", "cancelling"}

TRANSITIONS ==
    [s \in Status |->
        CASE s = "submitted" -> {"starting", "failed", "interrupted", "cancel_requested"}
          [] s = "starting" -> {"smoke_running", "failed", "interrupted", "cancel_requested"}
          [] s = "smoke_running" -> {"smoke_validated", "failed", "interrupted",
                                     "cancel_requested"}
          [] s = "smoke_validated" -> {"running", "completed", "failed", "interrupted",
                                       "cancel_requested"}
          [] s = "running" -> {"completed", "failed", "interrupted", "cancel_requested"}
          [] s = "cancel_requested" -> {"cancelling", "interrupted", "failed"}
          [] s = "cancelling" -> {"cancelled", "interrupted", "failed"}
          [] s \in RESUMABLE_STATES -> {"starting"}
          [] s = "completed" -> {}]

CanCancel(s) == "cancel_requested" \in TRANSITIONS[s]

=============================================================================
