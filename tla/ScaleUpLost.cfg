SPECIFICATION Spec
CONSTANTS
    a = a
    b = b
    Names <- MCNames
    Classes <- MCChannelClasses
    Target = "imc"
    Filtered = FALSE
    Gaps = FALSE
    MaxPerClass = 2
    MaxListed = 2
    MaxChanges = 2
    MaxCrashes = 0
INVARIANT IdleOnlyIfUnused
