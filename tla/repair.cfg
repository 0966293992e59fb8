\* Two files, one place for a call, and a folder; calls time out or fail, workers take
\* the same locks, runs are interrupted and killed.
CONSTANTS
    a1 = a1
    a2 = a2
    f1 = f1
    Assets       = {a1,a2,f1}
    Blobless     = {f1}
    CollectionOf <- TwoCollections
    Chunk        = 1
    Concurrency  = 1
    Window       = 1
    Tolerated    = 0
    MaxRetries   = 2
    SaveEvery    = 2
    Faults       = {"slow","silent","redis"}
    Stops        = {"interrupt","kill"}
    MaxRuns      = 2
SPECIFICATION FairSpec
VIEW View
INVARIANT DoneUnlessCut
INVARIANT ProgressIsKept
INVARIANT AllRepaired
INVARIANT CandidatesWereMissing
PROPERTY RunsEnd
CHECK_DEADLOCK FALSE
