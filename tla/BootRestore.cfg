CONSTANTS
    App = {a, b}
    Stranger = Stranger
    AutoRestart = {a}
    Leased = {a, b}
    Blind = {b}
    None = None
    Pid = {1, 2}
    MaxBirth = 2
    MaxTime = 2
    SlowReplay = FALSE
    LateRequests = FALSE
    PidsComeRound = FALSE
SPECIFICATION Spec
CHECK_DEADLOCK FALSE
INVARIANTS
    AuthorityIsEarned
    NoProcessIsLeftBehind
    ShutdownStopsAll
    LeaseIsKept
    FinalIsFinal
