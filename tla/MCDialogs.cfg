SPECIFICATION DialogsSpec
CONSTANTS
  NULL = NULL
  MaxEdits <- MCMaxEdits
  MaxMembers = 3
  TypedText <- MCTypedText
  TypedMember <- MCTypedMember
  Present = {"file"}
  AtHome <- MCAtHome
  Left <- MCLeft
  Prompted = {"y"}
  Saved <- MCSaved
  Server <- MCServer
  User <- MCUser
  Database = {"db"}
  TypedNumber <- MCTypedNumber
  IntMax = 30000
  LongMax = 30001
  TwoPages = TRUE
INVARIANTS
  ReopenShowsSame
  FormFollowsBoxes
  MembersUsable
  SentConsistent
