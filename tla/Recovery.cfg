SPECIFICATION FairSpec
CONSTANTS
    r1 = r1
    r2 = r2
    NoRow = NoRow
    Runs <- MCRuns
    Bad <- MCBad
    Timeout <- MCTimeout
    WaitTimeout = 1
    StuckAfter = 2
    Horizon = 2
    MaxCrashes = 1
    MaxJobs = 1
INVARIANTS TypeOK RecoveredStays
PROPERTIES OverStaysOver  
