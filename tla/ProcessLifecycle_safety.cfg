CONSTANTS
    Caller = {c1, c2}
    Manager = {m1, m2}
    Pid = {p1, p2}
    Nobody = Nobody
    MaxRestarts = 1
    OldRestarts = {0, 5}
    KillMayFail = TRUE
SPECIFICATION Spec
SYMMETRY Symmetry
INVARIANTS
    IInv
    OneLiveProcess
    LiveProcessIsReachable
    RecordIsTruthful
PROPERTIES
    ManualStopSticks
