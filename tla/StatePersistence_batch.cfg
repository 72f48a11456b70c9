CONSTANTS
    Saver = {s1}
    Loop = loop
    MainThread = mainThread
    Nobody = Nobody
    ChanCap = 1
    SlowReplay = FALSE
    IOMayFail = FALSE
    Damage = {"altered"}
    MaxVersion = 2
    MaxSec = 0
    MaxCrashes = 0
    MaxDamages = 1
SPECIFICATION FairSpec
INVARIANTS
    DroppedEventIsSaved
    CloseSavesEverything
    OneDamageIsSurvived
PROPERTIES
    EventuallySaved
