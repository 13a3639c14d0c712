SPECIFICATION FairSpec
CONSTANTS
    eventing = eventing
    kafka = kafka
    Parsers = {eventing, kafka}
    MaxGen = 2
    MaxFailures = 1
    MaxCrashes = 1
    MaxChanges = 1
INVARIANTS
    TypeOK
    ReadyMeansInstalled
    TLSRemoved
PROPERTIES
    ReadyEventually
    ImplementsInstaller
