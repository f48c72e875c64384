\* Two sessions, a limit of one and one crash.
CONSTANTS
  s1 = s1
  s2 = s2
  s3 = s3
  Sessions = {s1, s2}
  MaxSessions = 1
  MaxCrashes = 1
SPECIFICATION Spec
INVARIANTS
  TypeOK
  LiveWithinLimit
  EverySessionHasOwner
  EndIsDurable
PROPERTIES
  DiskNeverGoesBack
  ManagerGetsOn
CHECK_DEADLOCK FALSE
