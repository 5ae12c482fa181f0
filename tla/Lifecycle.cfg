SPECIFICATION FairSpec
CONSTANTS
    None = None
    Infinite = Infinite
    Requests = {r1, r2}
    MaxBoots = 2
    Normalised <- MCNormalised
    Environments <- MCEnvironments
INVARIANTS
    OneRuntime
    HandlersShareOpenRuntime
    NothingLeftOpen
    RunsAsConfigured
PROPERTY ShutdownEnds
