CONSTANTS
    Caller = {c1, c2}
    Key = {k1, k2}
    Entry = {e1, e2}
    None = None
    MaxTime = 2
SPECIFICATION FairSpec
INVARIANTS
    IInv
PROPERTIES
    PromiseSpec
    DueIsCalled
