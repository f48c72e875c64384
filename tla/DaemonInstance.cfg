\* Three processes: one leaves, one opened its pidfile before that, one starts after it.
CONSTANTS
  d1 = d1
  d2 = d2
  d3 = d3
  Daemons = {d1, d2, d3}
  PortHolder = "none"
  MaxCrashes = 0
SYMMETRY Symmetry
SPECIFICATION Spec
INVARIANT OneInstance
CHECK_DEADLOCK FALSE
