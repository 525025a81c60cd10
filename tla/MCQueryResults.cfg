SPECIFICATION FairSpec
CONSTANTS
  plain = plain
  bounded = bounded
  NULL = NULL
  Query = {plain, bounded}
  TextSkip <- MCTextSkip
  TextLimit <- MCTextLimit
  Stored <- MCStored
  Doc = {1, 2, 3}
  Skip = {0, 2}
  Batch = {1}
  ShellBatch = 2
  DefaultLimit = 3
  MaxParts = 2
  MaxOps = 2
  MaxPending = 2
CHECK_DEADLOCK FALSE
INVARIANTS TabTruthful FreshAtRest
PROPERTY TextCompletes
