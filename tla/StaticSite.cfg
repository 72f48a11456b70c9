CONSTANTS
    Admin = {a1}
    Visitor = {v1, v2}
    Idler = idler
    Expirer = expirer
    Document = {d1, d2}
    Exposed = {d1}
    Leased = {d1}
    Idle = {d1, d2}
    Pinned = {}
    Generated = generated
    None = None
    Op = {"apply", "stop", "remove"}
    Site = {1, 2, 3, 4, 5}
    Root = {1, 2, 3}
    MaxGen = 2
    Overlap = {{v1, v2}, {v1, v2, idler}, {idler, expirer}}
    CrashAnywhere = FALSE
SPECIFICATION Spec
CHECK_DEADLOCK FALSE
INVARIANTS
    ServedSiteIsWhole
    RecordIsTruthful
    NoListenerLeaks
    
PROPERTIES
    CallbackEndsItsOwn
