SPECIFICATION FairSpec
CONSTANTS
    a = a
    b = b
    Replica = {a, b}
    None = None
    MaxChanges = 2
    MaxFaults = 1
INVARIANTS
    TypeOK
    NoLostKey
PROPERTIES
    Takeover
    CleanedUp
CHECK_DEADLOCK FALSE
