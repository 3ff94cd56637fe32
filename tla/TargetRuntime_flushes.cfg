SPECIFICATION FairSpec
CONSTANTS
  Router = Router
  NoKey = NoKey
  NoArticle = NoArticle
  Article = {a1, a2}
  Caller = {Router, sweep}
  RowKey <- MCRowKey
  Kinds = {"plain", "digest", "summary", "ahead"}
  Modes <- MCModes
  MaxAttempts = 2
  SummaryThresholds = {1, 3}
  MaxItems = 2
  Aligned = FALSE
  MaxTries = 2
  MaxSlot = 1
  MaxWindows = 3
  MaxCrashes = 1
INVARIANT NoItemIsStranded ShownOnce
PROPERTY EveryWindowCloses
CHECK_DEADLOCK FALSE
