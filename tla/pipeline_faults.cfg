\* Two completes and two deletes of a file, and every fault.
CONSTANTS
    p1 = p1
    p2 = p2
    a1 = a1
    c1 = c1
    c2 = c2
    d1 = d1
    d2 = d2
    Procs        <- OneProc
    Assets       <- OneAsset
    Completes    <- TwoCompletes
    Deletes      <- TwoDeletes
    Faults       <- FaultKinds
SPECIFICATION Spec
INVARIANT TypeOK
INVARIANT UploadedContentStored
PROPERTY ImplementsLifecycle
