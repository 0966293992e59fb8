\* One user of two organizations whose role and organization change, and chains of minted tokens.
CONSTANTS
    u1 = u1
    o1 = o1
    o2 = o2
    own = own
    r1 = r1
    Users        = {u1}
    Orgs         = {o1,o2}
    OwnOrg       <- OwnOrgs
    Requests     = {r1}
    OrgRoles     = {"admin","owner"}
    Asked        = {"owner","admin","viewer","agent:full"}
    Extras       <- SomeExtras
    Lives        = {2}
    SessionLife  = 1
    MaxLag       = 0
    MaxTime      = 2
    MaxTokens    = 1
    MaxChanges   = 2
    Faults       = {"omnius"}
SPECIFICATION Spec
INVARIANT AuthorityIsRooted
INVARIANT AppWritesForOrgs
INVARIANT SessionsAreRecent
SYMMETRY OrgSymmetry
CHECK_DEADLOCK FALSE
