SPECIFICATION MenuSpec
CONSTANTS
  Form <- MCForm
  Old <- MCOld
  MaxRecords = 2
  MaxOps = 3
  MaxPending = 1
  NULL = NULL
INVARIANTS ImportedOnce ConnectionsSound FileCurrent MenusCurrent
