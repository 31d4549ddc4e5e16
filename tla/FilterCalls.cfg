\* A fallback, a probe window and a miss limit of two frames each.
CONSTANTS
    MissLimit = 2
    ProbeWindow = 2
    Options <- AllOptions
SPECIFICATION Spec
INVARIANTS PicturesBalanced BackendsAccounted ShownWhole NoDeadBackend FirstFrameFits
PROPERTY DriftFailsOver
