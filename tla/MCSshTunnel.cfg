SPECIFICATION FairSpec
CONSTANTS
  Fd <- MCFd
  MaxErrors <- MCMaxErrors
  SelectMayFail = TRUE
  AllocMayFail = TRUE
CHECK_DEADLOCK FALSE
INVARIANTS
  Ownership
  ClientsHaveChannels
PROPERTIES KeepsContract HangupReleased
