SPECIFICATION ItemsSpec
CONSTANTS
  Db = {"d", "admin"}
  Name <- FewNames
  Temp = "temp"
  SystemDb = {"admin"}
  Kind <- BothKinds
  Found <- OneCollection
  NULL = NULL
  MaxOps = 3
  MaxPending = 2
  Member = {"m1", "m2"}
  Info <- FewInfos
INVARIANT ItemsLive TreeSettled SetShownAsKnown
CHECK_DEADLOCK FALSE
