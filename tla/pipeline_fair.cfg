\* One complete whose event two processes get, and two deletes; only storage fails.
CONSTANTS
    p1 = p1
    p2 = p2
    a1 = a1
    c1 = c1
    c2 = c2
    d1 = d1
    d2 = d2
    Procs        <- TwoProcs
    Assets       <- OneAsset
    Completes    <- OneComplete
    Deletes      <- TwoDeletes
    Faults       <- StorageFaults
SPECIFICATION FairSpec
INVARIANT ReadyHasBlob
INVARIANT ReadyIsIndexed
INVARIANT OneEmbedderPerAsset
PROPERTY UploadIsProcessed
