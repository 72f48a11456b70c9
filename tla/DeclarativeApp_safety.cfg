CONSTANTS
    Caller = {c1, c2}
    Expirer = expirer
    Nobody = Nobody
    Config = {a, b}
    Leased = {a}
    Legacy = legacy
    Op = {"apply", "start", "stop", "restart"}
    MaxInst = 3
    MaxLeased = 2
SPECIFICATION Spec
SYMMETRY Symmetry
CONSTRAINT Small
VIEW View
INVARIANTS
    RecordIsTruthful
PROPERTIES
    ExpiryEndsItsOwn
