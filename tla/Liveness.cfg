SPECIFICATION AttendedSpec
CONSTANTS
  Workers = {w1}
  Coordinators = {c1, c2, c3}
  Managers = {m1}
  None = None
  MaxAttempt = 1
  MaxRequest = 1
  Contained = TRUE
  InspectionMayFail = FALSE
  LaunchMayFail = FALSE
  MaxFaults = 1
  Killable = {"worker", "coordinator", "server"}
INVARIANTS OneCoordinator
PROPERTIES CancelEnds DeadWorkerNoticed
CHECK_DEADLOCK FALSE

