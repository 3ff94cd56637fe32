SPECIFICATION Spec
CONSTANTS
  a1 = a1
  a2 = a2
  f = f
  group = group
  bili = bili
  NoKey = NoKey
  NoArticle = NoArticle
  Article = {a1, a2}
  Formatter = {f}
  Target = {group, bili}
  Guarded = {group}
  Routes = "group"
  Legs <- MCLegs
  RowKey <- MCRowKey
  Caller <- MCCaller
  Filtered = {}
  Empty = {}
  Chunks = 1
  Doubt = FALSE
  MaxAttempts = 2
  MaxDefers = 2
  MaxSends = 2
  MaxInc = 2
  MaxCrashes = 0
INVARIANTS NothingForgotten
CHECK_DEADLOCK FALSE
