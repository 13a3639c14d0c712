SPECIFICATION FairSpec
CONSTANTS
    imc = imc
    broker = broker
    Kinds <- MCKinds
    Order <- MCOrder
    Reconcilers = {r1}
    MaxDeletes = 1
INVARIANTS
    TypeOK
    NoLeakedInformer
    ListerTracksCRD
PROPERTIES
    ListerReturns
    ListersAvailable
    ImplementsLifecycle
CHECK_DEADLOCK FALSE
