SPECIFICATION FairSpec
CONSTANTS
  SharedPhraseMin = 3
  TokenMin = 2
  MaxRecallTokens = 2
  Names <- MCNames
  Post <- MCPost
  Targets = {"a", "b"}
  Drivers = {1, 2}
  First = 1
  JoinPlatforms <- MCJoinPlatforms
  MaxTries = 2
  Scenes <- MCScenes
INVARIANT NoTwinUploads MarkerKeptUntilSeeded
PROPERTY EveryVideoIsShown
CHECK_DEADLOCK FALSE
