SPECIFICATION FairSpec
CONSTANTS
    Parsers <- MCParsers
    Deployments <- MCDeployments
    Releases = {1, 2, 3}
    Minor <- MCMinor
    Manifest <- MCManifest
    Rollbacks = TRUE
    MaxRollouts = 2
    MaxFailures = 2
    MaxCrashes = 1
INVARIANTS
    TypeOK
    PostInstallOnlyOnUpgrade
PROPERTIES
    UpgradeRecognised
    UpgradeCompletes
