\* One run whose command may leave a background child.
CONSTANTS
  r1 = r1
  r2 = r2
  Runs = {r1}
  MaxRuns = 1
  CancelRuns = {r1}
  MaxCrashes = 0
SPECIFICATION Spec
PROPERTY TimeoutEndsRun
CHECK_DEADLOCK FALSE
