CONSTANTS
  Budgets <- AnyBudget
  Keys = {1, 2, 3}
  Prefixed = {1, 3}
  Contents = {"a", "b"}
  RetryCounts <- AnyRetryCount
  PageSize = 1
  MaxDelete = 2
  MaxPuts = 2
  MaxLength = 5
  MaxStep = 6
  Unclean <- AroundThreshold
  Normal <- WithNan
  Tables <- ShortTables
  RawTables <- ShortRaw
  Groups <- FewGroups
SPECIFICATION HSpec
INVARIANTS TypeOK ReturnsOnlySuccess Verdict S3TypeOK RenameKeeps DownloadVerdict NothingMissed GenericEnds CleanExact DiffExact DefcCodesUnique
PROPERTY CallEnds
CHECK_DEADLOCK FALSE
