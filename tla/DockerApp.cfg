CONSTANTS
    Admin = {a1}
    Idler = idler
    Expirer = expirer
    Document = {d1, d2}
    Leased = {d1}
    Idle = {d1}
    None = None
    Container = {1, 2, 3}
    MaxGen = 2
    Overlap = {{}, {idler, expirer}}
    CrashAnywhere = FALSE
SPECIFICATION Spec
CHECK_DEADLOCK FALSE
INVARIANTS
    NoStrayContainer
    AgreesOnWhatRuns
    LeaseIsKept
PROPERTIES
    CallbackEndsItsOwn
