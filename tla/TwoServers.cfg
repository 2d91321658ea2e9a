SPECIFICATION Spec
CONSTANTS
  Workers = {w1, w2}
  Coordinators = {c1, c2}
  Managers = {m1, m2}
  None = None
  MaxAttempt = 2
  MaxRequest = 1
  Contained = TRUE
  InspectionMayFail = FALSE
  LaunchMayFail = FALSE
  MaxFaults = 0
  Killable = {}
SYMMETRY Symmetry
INVARIANTS SolverIsBound OldRequestStopsNoNewWorker RequestCoherent Cancellable
PROPERTIES CompletedByItsWorker ResumeWaitsForLaunch ImplementsLifecycle
CHECK_DEADLOCK FALSE
