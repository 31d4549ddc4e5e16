CONSTANTS
    MaxWorkers = 2
    MaxFaults = 2
    TimeoutPossible = TRUE
    MaxCalls = 2
SPECIFICATION FairSpec
PROPERTY EveryCallReturns
