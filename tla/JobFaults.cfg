\* One job; a process crashes, a call raises, old jobs are cleaned up.
SPECIFICATION Spec
CONSTANTS
  w1 = w1
  w2 = w2
  j1 = j1
  j2 = j2
  NoJob = NoJob
  Workers <- TwoWorkers
  Jobs <- OneJob
  MaxAttempts = 2
  Capacity = 1
  MaxCrashes = 1
  MaxFaults = 1
  CleansUp = TRUE
  SendersCrash = TRUE
INVARIANTS TypeOK AtMostOneExecution ClaimsBounded
CHECK_DEADLOCK FALSE
