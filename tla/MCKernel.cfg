CONSTANTS
  Past = 2
  New = 3
  Chunks = 3
  QTiles = 3
SPECIFICATION FairSpec
INVARIANTS
  SharedBuffersAlternate OperandsFenced
PROPERTIES
  WriteBackReadsStableTile PipelineAttends BlockEnds
