SPECIFICATION FairSpec
CONSTANTS
    imc = imc
    broker = broker
    Kinds <- MCOneKind
    Order <- MCOneOrder
    Reconcilers = {r1}
    MaxDeletes = 1
PROPERTY ListerUsableBeforeCRD
CHECK_DEADLOCK FALSE
