CONSTANTS
    x = x
    y = y
    z = z
    a = a
    b = b
    App = {a, b}
    Name = {x, y, z}
    Begins <- XBeginsY
    Naming <- Different
    None = None
    MaxLines = 2
    MaxSize = 1
    MaxFiles = 2
    CheckEvery = 2
    Failure <- Anything
    SameSecond = FALSE
    MaxLogged = 7
    Quota <- Mostly
    MaxTime = 2
SPECIFICATION Spec
CHECK_DEADLOCK FALSE
INVARIANTS
    OldestGoFirst
    FileIsBounded
    ShownIsConsecutive
