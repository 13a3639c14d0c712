SPECIFICATION FairSpec
CONSTANTS
    a = a
    b = b
    Names <- MCNames
    Classes <- MCBrokerClasses
    Target = "mt"
    Filtered = TRUE
    Gaps = TRUE
    MaxPerClass = 2
    MaxListed = 2
    MaxChanges = 3
    MaxCrashes = 1
INVARIANTS
    TypeOK
    ScaleDownPending
    ScaleUpPending
PROPERTIES
    ScaledDown
    ScaledUp
