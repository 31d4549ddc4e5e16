\* Odd and even sizes; windows that start on, and off, a chroma group.
CONSTANTS
    Chromas = {"YUV420P", "YUV422P", "YUV444P", "NV12", "RGB24"}
    Widths = {4, 5}
    Heights = {3, 4}
    XOffsets = {0, 1, 2}
    YOffsets = {0, 1}
    Slack <- MCSlack
SPECIFICATION Spec
INVARIANTS
    InStorage
    ChromaInStep
    CropInside
    HealthySeen
