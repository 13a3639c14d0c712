SPECIFICATION Spec
CONSTANTS
    Parsers <- MCParsers
    Deployments <- MCDeployments
    Releases = {1, 2, 3}
    Minor <- MCMinor
    Manifest <- MCManifest
    Rollbacks = FALSE
    MaxRollouts = 1
    MaxFailures = 1
    MaxCrashes = 0
PROPERTY PostInstallOnUpgrade
