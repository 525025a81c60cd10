SPECIFICATION FairSpec
CONSTANTS
  Script <- MCScript
  Timeout = {0, 1, 3}
  MaxRequests = 2
  MaxChanges = 2
  NULL = NULL
CHECK_DEADLOCK FALSE
INVARIANTS EngineFaithful InfoOfOwnStatement
PROPERTY EveryScriptAnswered
