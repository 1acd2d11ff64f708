CONSTANTS
  Configs <- MCConfigs
  Memory = 9
  Peaks = {0, 3, 6, 10}
  DenseBits = 2
  LinrTime <- MCLinrTime
  PrefTime <- MCPrefTime
  GdecTime <- MCGdecTime
  CdecTime <- MCCdecTime
  MaxStops = 2
SPECIFICATION Spec
INVARIANTS PredictionsExact LinrIndexRight  StartFailsOnlyWhen
CHECK_DEADLOCK FALSE
