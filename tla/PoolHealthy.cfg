CONSTANTS
    MaxWorkers = 3
    MaxFaults = 0
    TimeoutPossible = FALSE
    MaxCalls = 2
SPECIFICATION FairSpec
PROPERTY HealthyDispatchSucceeds
