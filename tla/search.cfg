\* Two organisations in one collection, every mode, filter and failure, and room for one result or two.
CONSTANTS
    o1 = o1
    o2 = o2
    t1 = t1
    t2 = t2
    Assets       = {1,2,3}
    Orgs         = {o1,o2}
    Types        = {t1,t2}
    OrgOf        <- OneForeign
    TypeOf       <- LastOther
    CollectionOf <- SharedCollection
    Alike        = {1,2,3}
    Org          = o1
    Modes        = {"fulltext","semantic","hybrid"}
    Filters      <- UpToTwoTypes
    Limits       = {1,2}
    Faults       = {"index","database"}
SPECIFICATION Spec
INVARIANT ResultsWereLive
INVARIANT RankedByBoth
INVARIANT SteadyAreFound
CHECK_DEADLOCK FALSE
