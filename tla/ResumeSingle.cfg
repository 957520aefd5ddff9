CONSTANTS
  Instances = {a}
  Runs = {r1}
  Origin = {a}
  Dispatchers = {a}
  MaxWaits = 1
  MaxPublishes = 1
  MaxEvents = 1
  MaxCrashes = 0
  Lossy = FALSE
SPECIFICATION FairSpec
PROPERTIES StrandedRunResumes
CHECK_DEADLOCK FALSE
