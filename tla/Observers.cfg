CONSTANTS
    GridStep = 4
    BlockSize = 8
    ProbeWindow = 2
    MinFrames = 2
    MinSamples = 4
    SoftMean = 3
    BlockyMean = 4
    ReportWindow = 3
    MaxTime = 4
    MaxBadReads = 1
    Playbacks <- SomePlaybacks
    Pictures <- SomePictures
    MaxCalls = 4
SPECIFICATION Spec
INVARIANTS SweepInside VerdictOnEvidence SamplesTrue
