\* Two rungs and a short recheck: liveness is checked without symmetry.
CONSTANTS
    Limit = 2
    Samples = 1
    EarlyAt = 1
    Warmup = 1
    Recheck = 3
    Cooldown = 1
    Drift = 2
    Times = {4, 9}
    Pools = {p1, p2, p3}
    None = None
SPECIFICATION FairSpec
PROPERTIES SearchEnds SearchReopens
