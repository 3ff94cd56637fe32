CONSTANTS
  hook = hook
  p1 = p1
  p2 = p2
  Hook <- hook
  Passes <- MCPasses
  Body <- MCBody
  Rules <- MCRules
  Admins = {}
  KnownSelf <- MCSelf
  Count = 2
  MaxPages = 2
  Budget = 4
  Scenes <- MCScenes
SPECIFICATION FairSpec
INVARIANT CursorIsHonest OkMeansAnswered
PROPERTY EveryMessageIsHandled
CHECK_DEADLOCK FALSE
