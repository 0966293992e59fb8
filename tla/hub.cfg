\* Three connections of one organisation in one process, an asset and a message.
CONSTANTS
    c1 = c1
    c2 = c2
    c3 = c3
    a1 = a1
    o1 = o1
    p1 = p1
    p2 = p2
    Conns        = {c1,c2,c3}
    Assets       = {a1}
    Org          <- OneOrg
    Proc         <- OneProc
    MaxMessages  = 1
SPECIFICATION Spec
INVARIANT EndedIsForgotten
INVARIANT LeftOnce
INVARIANT BroadcastReachesOrg
INVARIANT ServedIsForgotten
SYMMETRY ThreeSymmetry
CHECK_DEADLOCK FALSE
