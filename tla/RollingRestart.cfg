SPECIFICATION Spec
CONSTANTS
  p1 = p1
  p2 = p2
  p3 = p3
  Processes = {p1, p2}
  StopsFirst = {}
  IdOf <- OwnIds
  NoOwner = NoOwner
  TTL = 4
  MaxGap = 3
  Timely = TRUE
INVARIANTS OneScheduler
