SPECIFICATION PipelineFairSpec
CONSTANTS
    worker = worker
    sweep = sweep
    chat = chat
    n1 = n1
    n2 = n2
    NoNode = NoNode
    Callers <- MCCallers
    AsyncCallers <- MCAsync
    Workers <- MCWorkers
    Sweeper = sweep
    Nodes <- MCNodes
    Hopeless <- MCHopeless
    Limit = 2
    MaxAttempts = 2
    MaxJobs = 1
    FailureThreshold = 2
    RecoveryTimeout = 1
INVARIANTS TypeOK HalfOpenFlag TripsAtThreshold PipelineTypeOK 
PROPERTIES  ThreadProbeEnds  PendingIsServed
