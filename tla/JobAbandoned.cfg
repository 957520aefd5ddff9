\* A worker crashes while it executes a job.
SPECIFICATION FairSpec
CONSTANTS
  w1 = w1
  w2 = w2
  j1 = j1
  j2 = j2
  NoJob = NoJob
  Workers <- TwoWorkers
  Jobs <- OneJob
  MaxAttempts = 2
  Capacity = 4
  MaxCrashes = 1
  MaxFaults = 0
  CleansUp = FALSE
  SendersCrash = FALSE
PROPERTIES CrashedJobRecovered
CHECK_DEADLOCK FALSE
