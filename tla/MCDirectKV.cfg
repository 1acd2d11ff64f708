CONSTANTS
  Reqs = {a, b, c}
  Rids = {i, j, k}
  Prompts <- MCPrompts
  a = a
  b = b
  c = c
  MaxReqs = 2
  Tile = 2
  MaxSeq = 6
  NoRow = NoRow
  NoRid = NoRid
  Zero = Zero
  Junk = Junk
  DefaultStream = TRUE
SPECIFICATION Spec
SYMMETRY Symmetry
INVARIANTS TypeOK RowOwnership ActiveIdsOwnRows ProcessedTokensStored AttentionReadsOwnContext NoForeignContext OutOfRowsOnlyWhenOversized
PROPERTIES HostLeavesRowsInFlight PoolIsLease StepsEnd
CHECK_DEADLOCK FALSE
