SPECIFICATION FairSpec
CONSTANTS
  MaxVersion <- Versions
  MaxTabs = 3
  MaxFaults = 1
CHECK_DEADLOCK FALSE
INVARIANTS NotOutdated NewsIsShown
PROPERTY ExchangesEnd
