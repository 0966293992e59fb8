\* A protected, expiring snapshot link and a live one, two viewers, every way to delete.
CONSTANTS
    s1 = s1
    l1 = l1
    u1 = u1
    v1 = v1
    v2 = v2
    d1 = d1
    Creates      <- TwoModes
    Snapshots    <- OneSnapshot
    Protected    <- OneSnapshot
    Expiring     <- OneSnapshot
    Users        <- OneUser
    Author       <- AllByOne
    Views        <- TwoViews
    Deletes      <- OneDelete
    OtherDeletes = TRUE
    Quota        = 1
    MaxRevision  = 2
SPECIFICATION Spec
INVARIANT SnapshotFrozen
INVARIANT AccessCountExact
INVARIANT SnapshotHasContent
INVARIANT DeletedFileUnreachable
SYMMETRY ViewSymmetry
VIEW Relevant
CHECK_DEADLOCK FALSE
