\* One sync, by the App or by a token, with every failure; a listing of three is cut to two.
CONSTANTS
    f1 = f1
    f2 = f2
    d1 = d1
    i1 = i1
    p1 = p1
    s1 = s1
    Files        = {f1,f2}
    Dirs         = {d1}
    Issues       = {i1}
    Pulls        = {p1}
    Syncs        = {s1}
    Cap          = 2
    Faults       = {"github","item","database"}
SPECIFICATION Spec
INVARIANT CountsAreRows
INVARIANT ItemsHaveRepo
INVARIANT FullSync
CHECK_DEADLOCK FALSE
