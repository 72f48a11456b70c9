CONSTANTS
    Caller = {c1}
    Expirer = expirer
    Nobody = Nobody
    Config = {a, b}
    Leased = {a}
    Legacy = legacy
    Op = {"apply", "start", "stop", "restart", "remove"}
    MaxInst = 2
    MaxLeased = 2
SPECIFICATION FairSpec
PROPERTIES
    LeaseEnds
