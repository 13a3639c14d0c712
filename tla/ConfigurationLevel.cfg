SPECIFICATION Spec
CONSTANTS
    Nil = Nil
    Manifest <- MCManifest
    ToLower <- MCToLower
    ToUpper <- MCToUpper
    Submissions <- MCSubmissions
    Order <- MCOrder
    Edits <- MCEdits
    MaxSubmits = 1
    MaxEdits = 0
    MaxFailures = 0
INVARIANTS
    NoLevelsMeansNone
