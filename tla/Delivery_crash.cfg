SPECIFICATION Spec
CONSTANTS
  a1 = a1
  a2 = a2
  f = f
  group = group
  bili = bili
  NoKey = NoKey
  NoArticle = NoArticle
  Article = {a1}
  Formatter = {f}
  Target = {group}
  Guarded = {group}
  Routes = "group"
  Legs <- MCLegs
  RowKey <- MCRowKey
  Caller <- MCCaller
  Filtered = {}
  Empty = {}
  Chunks = 2
  Doubt = FALSE
  MaxAttempts = 2
  MaxDefers = 2
  MaxSends = 2
  MaxInc = 3
  MaxCrashes = 1
INVARIANT DuplicatesNeedACrash ForwardedIsSettled QueuedIsStored NothingForgotten
PROPERTY PostsEachPartOnce
CHECK_DEADLOCK FALSE
