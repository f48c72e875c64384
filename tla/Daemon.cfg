\* Three processes, one of which may be killed; another program has the TCP port at first.
CONSTANTS
  d1 = d1
  d2 = d2
  d3 = d3
  Daemons = {d1, d2, d3}
  PortHolder = "other"
  MaxCrashes = 1
SYMMETRY Symmetry
SPECIFICATION Spec
INVARIANTS
  TypeOK
  OneServes
  SocketTellsTheTruth
CHECK_DEADLOCK FALSE
