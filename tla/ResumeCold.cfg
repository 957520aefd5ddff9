\* Both instances restart while a run waits; leadership overlaps.
CONSTANTS
  Instances = {a, b}
  Runs = {r1}
  Origin = {}
  Dispatchers = {a, b}
  MaxWaits = 1
  MaxPublishes = 0
  MaxEvents = 1
  MaxCrashes = 1
  Lossy = TRUE
SPECIFICATION Spec
INVARIANTS TypeOK AtMostOneRunner  EachWaitClaimedOnce
PROPERTIES ImplementsLedger
SYMMETRY InstanceSymmetry
CHECK_DEADLOCK FALSE
