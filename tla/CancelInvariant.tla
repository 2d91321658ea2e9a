--------------------------- MODULE CancelInvariant ---------------------------
(***************************************************************************)
(* The inductive invariant behind CancelledIsProved, in named parts.  It    *)
(* follows the evidence from the request to the commit: which worker a      *)
(* request names, who may replace state.cancel, and what a coordinator      *)
(* still knows to be true when it commits.                                 *)
(***************************************************************************)
EXTENDS DurableJob

(* A manager between two writes holds the lock; a resume has already left   *)
(* the terminal status.                                                    *)
SectionsHeld ==
  \A m \in Managers :
    /\ mgr[m].pc \in {"resume_control", "cancel_state"} => lock = m
    /\ mgr[m].pc = "resume_control" => status = "starting"

Born(w) == w \in Workers => worker[w].pc # "unborn"

(* Every identity recorded anywhere belongs to a process that was launched. *)
IdentitiesBorn ==
  /\ Born(bound)
  /\ Born(control.worker)
  /\ \A m \in Managers : Born(mgr[m].w)
  /\ \A c \in Coordinators : Born(coordinator[c].target)

(* Request ids are drawn from those issued.                                *)
RequestsIssued ==
  /\ control.rid <= requests
  /\ \A m \in Managers : mgr[m].rid <= requests
  /\ \A c \in Coordinators : coordinator[c].rid <= requests

Acting(c) == coordinator[c].pc \in ActingPCs

(* An acting coordinator and the control it serves name the same worker,   *)
(* and the descendants it knows are that worker's.                         *)
TargetsAgree ==
  \A c \in Coordinators :
    Acting(c) =>
      /\ coordinator[c].rid # 0
      /\ control.rid = coordinator[c].rid => coordinator[c].target = control.worker
      /\ coordinator[c].descendants \subseteq {coordinator[c].target}
      /\ coordinator[c].pc \notin {"check_target", "block"}
           => coordinator[c].target \in Workers

(* Only a claimed request carries evidence, and a copy that a server may    *)
(* write back carries none.                                                *)
EvidenceOwned ==
  /\ status = "cancel_requested" => cancel.coordinator = None /\ cancel.descendants = {}
  /\ status \in {"cancelling", "cancelled"} => cancel.descendants \subseteq {control.worker}
  /\ \A m \in Managers : mgr[m].snap.coordinator = None /\ mgr[m].snap.descendants = {}
  /\ \A c \in Coordinators :
       cancel.coordinator = c /\ coordinator[c].pc \in {"verify", "commit"}
         => cancel.descendants = coordinator[c].descendants

(* What a coordinator verified is still true when it commits.              *)
VerifiedStands ==
  \A c \in Coordinators :
    coordinator[c].pc = "commit" =>
      /\ worker[coordinator[c].target].pc = "dead"
      /\ lease.holder # coordinator[c].target
      /\ \A w \in coordinator[c].descendants : ~ChildActive(w)

(* The invariant: every part above, and the property itself with the        *)
(* named worker dead rather than merely not alive (all of jobs/).           *)
CancelInv ==
  /\ TypeOK
  /\ SectionsHeld
  /\ IdentitiesBorn
  /\ RequestsIssued
  /\ TargetsAgree
  /\ EvidenceOwned
  /\ VerifiedStands
  /\ CancelledIsProved

=============================================================================
