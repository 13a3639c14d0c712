SPECIFICATION FairSpec
CONSTANTS
    Nil = Nil
    Manifest <- MCManifest
    ToLower <- MCToLower
    ToUpper <- MCToUpper
    Submissions <- MCSubmissions
    Order <- MCOrder
    Edits <- MCEdits
    MaxSubmits = 2
    MaxEdits = 1
    MaxFailures = 1
INVARIANTS
    TypeOK
    Converged
    Precedence
    ChannelsAgree
    KafkaAgrees
    TLSAgrees
    AdmittedLevelsKnown
PROPERTIES
    ConfiguredEventually
