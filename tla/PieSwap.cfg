\* Four layers, one of them offloaded: one rotates, and passes 1 and 2 are
\* separated by a decision of the adaptive controller.
SPECIFICATION FairSpec
CONSTANTS
  NumLayers = 4
  Offloaded = 1
  CheckInterval = 1
  MaxPass = 2
  MaxAhead = 3
INVARIANTS
  TypeOK
  EmptySlotIsIdle
  AttentionSeesKept
  HostCopyComplete
PROPERTIES
  PassesEnd
\* The run ends with its last pass.
CHECK_DEADLOCK FALSE
