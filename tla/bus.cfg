\* One process and one client of two organisations' events; two drops.
CONSTANTS
    p1 = p1
    c1 = c1
    o1 = o1
    o2 = o2
    Procs        = {p1}
    Clients      = {c1}
    Orgs         = {o1,o2}
    OrgOf        <- OrgOne
    MaxEvents    = 2
    MaxDrops     = 2
SPECIFICATION BusFairSpec
INVARIANT AllHandlersStart
INVARIANT ForwardedInOrder
PROPERTY ConsumerComesBack
CHECK_DEADLOCK FALSE
