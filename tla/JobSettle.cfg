\* Two jobs, a worker and its recovery thread; nothing crashes.
SPECIFICATION FairSpec
CONSTANTS
  w1 = w1
  w2 = w2
  j1 = j1
  j2 = j2
  NoJob = NoJob
  Workers <- OneWorker
  Jobs <- TwoJobs
  MaxAttempts = 2
  Capacity = 3
  MaxCrashes = 0
  MaxFaults = 0
  CleansUp = FALSE
  SendersCrash = FALSE
 
PROPERTIES DoneStaysDone  ImplementsJobLedger
CHECK_DEADLOCK FALSE
