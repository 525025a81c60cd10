SPECIFICATION FairSpec
CONSTANTS
  Kind <- AllKinds
  MaxHandles = 2
  MaxRequests = 1
INVARIANT WorkersServe ExplorerTruthful
 
CHECK_DEADLOCK FALSE
