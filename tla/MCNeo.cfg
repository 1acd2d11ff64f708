\* Four requests, three ids, a GPU of four blocks of two tokens, a CPU of seven.
SPECIFICATION Spec
CONSTANTS
    Reqs <- MCReqs
    Ids <- MCIds
    PromptLen <- MCPromptLen
    MaxOut <- MCMaxOut
    Text = {2, 4}
    BlockSize = 2
    GpuBlocks = 4
    CpuBlocks = 7
    ExtraLayer = TRUE
    MaxBatch = 3
    MaxTokens = 7
    LinrThreshold = 4
    Modes = {"partial", "cpu_only", "gpu_only"}
INVARIANTS TypeOK BlocksConserved IdsConserved QueuesMatchTables SwapsCopyWholeRequests OnlyCpuBlocksRunOut
 
CHECK_DEADLOCK FALSE
