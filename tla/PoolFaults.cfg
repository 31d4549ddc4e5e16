\* Three thread records (so partial spawns exist), two dispatches, two faults.
CONSTANTS
    MaxWorkers = 3
    MaxFaults = 2
    TimeoutPossible = TRUE
    MaxCalls = 2
SPECIFICATION Spec
INVARIANTS TypeOK PendingCountsOwing NothingFreedInUse
PROPERTY ImplementsForkJoin
