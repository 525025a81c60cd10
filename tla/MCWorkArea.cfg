CONSTANTS
  Text <- MCText
  EmptyText = ""
  Part <- MCPart
  Cut <- MCCut
  File <- MCFile
  Js <- MCJs
  Found <- MCFound
  MaxShells = 2
  MaxAsks = 1
  MaxSteps = 2
SPECIFICATION Spec
INVARIANTS ShellsAreTabs UnstarredIsSaved
PROPERTIES SavedIsShown
CHECK_DEADLOCK FALSE
