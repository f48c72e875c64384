\* One daemon that is stopped while it waits for a TCP port that comes free.
CONSTANTS
  d1 = d1
  d2 = d2
  d3 = d3
  Daemons = {d1}
  PortHolder = "other"
  MaxCrashes = 0
SPECIFICATION Spec
PROPERTY StopReturns
CHECK_DEADLOCK FALSE
