\* Every loop with the policies it can run with; two hidden layers.
SPECIFICATION Spec
CONSTANTS
    Configs <- MCConfigs
    HiddenLayers = 2
    DebugBatches = 7
INVARIANTS RaceFree TokensRight
PROPERTY GenerationEnds
CHECK_DEADLOCK FALSE
