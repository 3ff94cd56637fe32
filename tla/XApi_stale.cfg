SPECIFICATION MCSpec
CONSTANTS
  None = None
  c1 = c1
  c2 = c2
  k1 = k1
  Callers = {c1, c2}
  Keys = {k1}
  Wants <- Session
  Attempts = 2
  SkipBackoff = FALSE
  Fragile <- Shaky
  ListScenes <- MCListScenes
  Fold <- Folds
  MaxHydrated = 3
  ListDefault = 2
  ListMost = 4
  HydrateCount = 5
  Unknown = Unknown
  ApiScenes <- MCApiScenes
  Workers = {1, 2, 3}
  ClientOf <- CrawlOf
  NoWorker = NoWorker
  Ids = {1, 2}
  ApiRetries = 1
  PageAnswers <- MCPageAnswers
  PageResults <- MCPageResults
  Handle = "idol"
  Lower <- Lowered
  Looks = 3
  Rounds = {1}
  Tasks = {"posts", "video", "follows"}
  Browsers = {TRUE, FALSE}
  Visits <- Visited
  Fetched <- Tales
  Players <- Played
  Api <- Told
  InstaScenes <- MCInstaScenes
  BreakerThreshold = 2
  ChannelScenes <- MCChannelScenes
  DefaultLimit = 8
  MaxLimit = 20
  ChannelDefault = 2
  ChannelMost = 4
  ListAttempts = 2
  Texts = {"t1", "t2", "t3"}
  Providers = {"primary", "fallback"}
  Retries = 1
  Threshold = 2
  Cooldown = 2
  WritesSchedules = TRUE
  MaxTime = 2
  MaxRestarts = 1
INVARIANT StaleIdIsDropped
CHECK_DEADLOCK FALSE
