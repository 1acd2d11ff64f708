\* Three requests, two layers, two iterations.
SPECIFICATION Spec
CONSTANTS
    r1 = r1
    r2 = r2
    r3 = r3
    Reqs = {r1, r2, r3}
    Layers = 2
    GpuBlocks = {1, 2}
    CpuBlocks = {1, 2}
    ExtraLayer = TRUE
    MaxIters = 2
SYMMETRY MCSymmetry
INVARIANTS RaceFree OutputsRight KvInPlace
CHECK_DEADLOCK FALSE
