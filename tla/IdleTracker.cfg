SPECIFICATION FairSpec
CONSTANTS
    Caller = {c1, c2}
    App = {a, b}
    Generation = {1, 2}
    Window = {0, 1}
    Entry = {e1, e2, e3, e4}
    None = None
    MaxTime = 2
INVARIANTS
    IInv
PROPERTIES
    PromiseSpec
    IdleIsSuspended
CHECK_DEADLOCK FALSE
