\* The tree request or a path, and a delete, plain or recursive, against inserts and deletes.
CONSTANTS
    a1 = a1
    a2 = a2
    a3 = a3
    root = root
    d1 = d1
    Assets       <- ThreeAssets
    Root         = root
    Deletes      <- OneDelete
    PageLimit    = 2
    DeleteLimit  = 2
    MaxDepth     = 2
    MaxSegments  = 2
    ListLimit    = 2
    MaxLength    = 3
SPECIFICATION PathSpec
INVARIANT SteadyPathsResolve
INVARIANT TreeComplete
PROPERTY DeletesFitContents
SYMMETRY ThreeSymmetry
CHECK_DEADLOCK FALSE
