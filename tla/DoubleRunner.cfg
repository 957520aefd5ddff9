CONSTANTS
  Instances = {a}
  Runs = {r1}
  Origin = {a}
  Dispatchers = {a}
  MaxWaits = 1
  MaxPublishes = 2
  MaxEvents = 0
  MaxCrashes = 0
  Lossy = FALSE
SPECIFICATION Spec
INVARIANTS AtMostOneRunner
CHECK_DEADLOCK FALSE
