SPECIFICATION FairSpec
CONSTANTS
  Object = {o1}
  Worker = {w1, w2}
  Addr = {a1}
  NULL = NULL
  ReuseAddr = TRUE
  MaxRequests = 2
  MaxDepth = 3
  MaxCalls = 1
  MaxSubs = 2
INVARIANT SubscribersAlive
PROPERTY DeliveredInOrder BusDelivers
CHECK_DEADLOCK FALSE
