CONSTANTS
    j1 = j1
    j2 = j2
    w1 = w1
    w2 = w2
    w3 = w3
    None = None
    Job <- TwoJobs
    Worker <- TwoWorkers
    Unhandled <- OneUnhandled
    BatchSize = 1
    MaxAttempts = 1
    LocksCanLapse = TRUE
SPECIFICATION FairSpec
PROPERTY EveryJobSettles
INVARIANT LockMatchesStatus
