SPECIFICATION FairSpec
CONSTANTS
  a1 = a1
  a2 = a2
  f = f
  group = group
  bili = bili
  NoKey = NoKey
  NoArticle = NoArticle
  Article = {a1, a2}
  Formatter = {f}
  Target = {group, bili}
  Guarded = {group}
  Routes = "both"
  Legs <- MCLegs
  RowKey <- MCRowKey
  Caller <- MCCaller
  Filtered <- MCFiltered
  Empty = {a2}
  Chunks = 1
  Doubt = TRUE
  MaxAttempts = 2
  MaxDefers = 2
  MaxSends = 2
  MaxInc = 1
  MaxCrashes = 0
PROPERTIES EveryArticleSettles
CHECK_DEADLOCK FALSE
