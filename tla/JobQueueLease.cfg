CONSTANTS
    j1 = j1
    j2 = j2
    w1 = w1
    w2 = w2
    w3 = w3
    None = None
    Job <- TwoJobs
    Worker <- ThreeWorkers
    Unhandled <- NoneUnhandled
    BatchSize = 2
    MaxAttempts = 2
    LocksCanLapse = FALSE
SPECIFICATION Spec
INVARIANT TypeOK
INVARIANT LeaseInv
INVARIANT OneDelivery
PROPERTY ContractSpec
INVARIANT DeadMeansExhausted
