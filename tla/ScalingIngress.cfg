SPECIFICATION Spec
CONSTANTS
    Deployments = {"mt-broker-ingress"}
    Overrides <- MCOverrides
    DefaultHPA <- MCDefaultHPA
    Templates <- MCTemplates
    MaxEdits = 0
    MaxFailures = 0
INVARIANT IngressScaledToZero
