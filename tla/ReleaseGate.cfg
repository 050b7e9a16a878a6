CONSTANTS
    f1 = f1
    f2 = f2
    good = good
    bad = bad
    j1 = j1
    j2 = j2
    j3 = j3
    w1 = w1
    w2 = w2
    u1 = u1
    u2 = u2
    p1 = p1
    m1 = m1
    None = None
    Filename <- OneFile
    Content <- GoodOrBad
    Blocking <- OnlyBad
    Job <- TwoJobs
    Worker <- TwoWorkers
    Uploader <- TwoUploaders
    Publisher <- OnePublisher
    Manager <- OneManager
    Failures <- AnyButScanner
SPECIFICATION Spec
INVARIANT TypeOK
INVARIANT StoredBeforeListed
 
 
PROPERTY ContentIsImmutable
PROPERTY NeverUnpublished
CHECK_DEADLOCK FALSE
