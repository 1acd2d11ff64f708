CONSTANTS
  Rids = {i, j, k, l}
  MaxReqs = 3
  Tile = 2
  MaxSeq = 4
  NoRow = NoRow
  Zero = Zero
  Junk = Junk
  MaxBs = 2
  GraphSizes = {2}
  Prompts = {2}
  FirstId = i
  MaxAdmits = 4
SPECIFICATION Spec
SYMMETRY Symmetry
INVARIANT GraphReadsPool
CHECK_DEADLOCK FALSE
