CONSTANTS
    Caller = {c1, c2}
    Manager = {m1}
    Pid = {p1, p2}
    Nobody = Nobody
    MaxRestarts = 0
    OldRestarts = {0}
    KillMayFail = TRUE
SPECIFICATION FairSpec
PROPERTIES
    StopReturns
    DeadPidIsForgotten
