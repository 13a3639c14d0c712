SPECIFICATION FairSpec
CONSTANTS
    Deployments = {"imc-controller", "mt-broker-filter", "mt-broker-ingress"}
    Overrides <- MCOverrides
    DefaultHPA <- MCDefaultHPA
    Templates <- MCTemplates
    MaxEdits = 2
    MaxFailures = 1
INVARIANTS
    TypeOK
    ScaledToZero
    ScaledFromZero
    OverrideWins
    HPABounds
    LastOverrideWins
PROPERTIES
    Undisturbed
    Converges
