CONSTANTS
    Saver = {s1}
    Loop = loop
    MainThread = mainThread
    Nobody = Nobody
    ChanCap = 1
    SlowReplay = FALSE
    IOMayFail = TRUE
    Damage = {}
    MaxVersion = 2
    MaxSec = 1
    MaxCrashes = 2
    MaxDamages = 0
SPECIFICATION Spec
INVARIANTS
    MainIsNeverTorn
    LockFileIsReleased
PROPERTIES
    DurableSpec
