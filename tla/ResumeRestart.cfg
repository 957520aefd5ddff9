\* Two instances, one of them the scheduler leader, restart while a run waits,
\* which waits a second time later.
CONSTANTS
  Instances = {a, b}
  Runs = {r1}
  Origin = {}
  Dispatchers = {a}
  MaxWaits = 2
  MaxPublishes = 1
  MaxEvents = 0
  MaxCrashes = 0
  Lossy = FALSE
SPECIFICATION FairSpec
INVARIANTS AtMostOneRunner
PROPERTIES  ClaimIsRequested
CHECK_DEADLOCK FALSE
