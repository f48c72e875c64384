\* Two runs of a task that keeps one run; one run before a crash, if one comes.
CONSTANTS
  r1 = r1
  r2 = r2
  Runs = {r1, r2}
  MaxRuns = 1
  CancelRuns = {r1}
  MaxCrashes = 1
SPECIFICATION Spec
INVARIANTS
  TypeOK
  RunsAreAccounted
PROPERTY FinalIsFinal
CONSTRAINT OneRunBeforeCrash
CHECK_DEADLOCK FALSE
