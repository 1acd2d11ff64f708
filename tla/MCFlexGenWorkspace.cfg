\* Two batches, attention on the CPU, attention and MLP as separate layers.
SPECIFICATION Spec
CONSTANTS
    Configs <- MCOneWorkspace
    HiddenLayers = 2
    DebugBatches = 7
INVARIANT WorkspacesDistinct
CHECK_DEADLOCK FALSE
