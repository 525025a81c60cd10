SPECIFICATION FairIndexSpec
CONSTANTS
  Name = {"a", "auto"}
  AutoName = "auto"
  Option = {"unique", "5s", "9s"}
  Expiry = {"5s", "9s"}
  MaxOps = 2
  MaxReloads = 1
  NULL = NULL
CHECK_DEADLOCK FALSE
INVARIANT FreshAtRest
PROPERTY LoadingEnds
