\* A worker process and two API processes.
SPECIFICATION FairSpec
CONSTANTS
  p1 = p1
  p2 = p2
  p3 = p3
  Processes = {p1, p2, p3}
  StopsFirst = {p1}
  IdOf <- OwnIds
  NoOwner = NoOwner
  TTL = 4
  MaxGap = 3
  Timely = TRUE
INVARIANTS TypeOK OneLeader 
PROPERTIES DeadLeaseExpires ImplementsLock
