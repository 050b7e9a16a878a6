CONSTANTS
    f1 = f1
    f2 = f2
    good = good
    bad = bad
    j1 = j1
    j2 = j2
    j3 = j3
    w1 = w1
    w2 = w2
    u1 = u1
    u2 = u2
    p1 = p1
    m1 = m1
    None = None
    Filename <- TwoFiles
    Content <- GoodOrBad
    Blocking <- OnlyBad
    Job <- ThreeJobs
    Worker <- OneWorker
    Uploader <- OneUploader
    Publisher <- OnePublisher
    Manager <- Nobody
    Failures <- NoFailure
SPECIFICATION FairSpec
PROPERTY ScanningEnds
 
CHECK_DEADLOCK FALSE
