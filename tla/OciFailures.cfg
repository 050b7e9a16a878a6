CONSTANTS
    b1 = b1
    b2 = b2
    m1 = m1
    m2 = m2
    c1 = c1
    c2 = c2
    s1 = s1
    s2 = s2
    None = None
    Blob <- TwoBlobs
    Manifest <- OneManifest
    Layers <- Pair
    Client <- OneClient
    Sweeper <- TwoSweepers
    BatchSize = 1
    Operations <- AllOperations
    Failures <- AnyFailure
SPECIFICATION Spec
CONSTRAINT Worthwhile
INVARIANT TypeOK
 
 
