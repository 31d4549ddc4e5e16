CONSTANTS
    MaxWorkers = 4
    MaxHeight = 6
    MaxFrames = 2
    Amounts = {0, 51, 5000}
    Samples = {0, 1, 2, 127, 128, 253, 254, 255}
SPECIFICATION Spec
INVARIANTS ReferenceOutput NoRace WrittenOnce RoundingAgrees
