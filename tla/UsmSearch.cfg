\* Three rungs (1, 2, 3), windows of two samples, a trial cut short after one.
CONSTANTS
    Limit = 3
    Samples = 2
    EarlyAt = 1
    Warmup = 1
    Recheck = 10
    Cooldown = 4
    Drift = 2
    Times = {4, 9}
    Pools = {p1, p2, p3}
    None = None
SPECIFICATION Spec
SYMMETRY Symmetry
INVARIANTS PoolsAccounted WindowPure SettledExhaustive
PROPERTIES AdoptedOnEvidence ImplementsSharpener
