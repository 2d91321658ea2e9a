SPECIFICATION Spec
CONSTANTS
  Workers = {w1}
  Coordinators = {c1, c2}
  Managers = {m1}
  None = None
  MaxAttempt = 1
  MaxRequest = 1
  Contained = TRUE
  InspectionMayFail = TRUE
  LaunchMayFail = TRUE
  MaxFaults = 2
  Killable = {"worker", "coordinator", "server"}
SYMMETRY Symmetry
INVARIANTS CancelledIsProved NoSurvivor
CHECK_DEADLOCK FALSE
