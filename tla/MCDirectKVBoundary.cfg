CONSTANTS
  Reqs = {a, b}
  Rids = {i, j}
  Prompts <- AnyPrompt
  a = a
  b = b
  c = c
  MaxReqs = 2
  Tile = 2
  MaxSeq = 4
  NoRow = NoRow
  NoRid = NoRid
  Zero = Zero
  Junk = Junk
  DefaultStream = TRUE
SPECIFICATION Spec
INVARIANT AllTokensStored
CHECK_DEADLOCK FALSE
