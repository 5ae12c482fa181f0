SPECIFICATION FairSpec
CONSTANTS
    None = None
    Replicas = {a, b, c}
    Deployments <- MCDeployments
    MaxCrashes = 2
INVARIANT TypeOK
PROPERTIES
    CatchUpUnlessTorn
    ImplementsInstall
