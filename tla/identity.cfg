\* Two requests in two processes with every token; the user switches and both stores fail.
CONSTANTS
    r1 = r1
    r2 = r2
    p1 = p1
    p2 = p2
    Requests     = {r1,r2}
    Proc         <- TwoProcs
    Tokens       <- AllTokens
    OrgRole      <- SomeRoles
    MaxOrg       = 2
    TTL          = 1
    MaxLag       = 1
    Faults       = {"redis","omnius"}
SPECIFICATION FairSpec
INVARIANT RoleIsOfOrg
PROPERTY AnswersAreRecent
PROPERTY FailsOpen
CHECK_DEADLOCK FALSE
