SPECIFICATION FairSpec
CONSTANTS
  plain = plain
  logged = logged
  u1 = u1
  u2 = u2
  a1 = a1
  a2 = a2
  s1 = s1
  Crawler = {plain, logged}
  Url = {u1, u2}
  Article = {a1, a2}
  Session = {s1}
  NoSession = NoSession
  Setups <- MCSetups
  Urls <- MCUrls
  Shown <- MCShown
  Quotes <- MCQuotes
  Uses <- MCUses
  Class = {"auth", "timeout"}
  Retried <- MCRetried
  Durations <- MCDurations
  MaxGen = 2
  Loads <- MCLoads
  MaxBoards = 2
  MaxCrashes = 1
  MaxEscalation = 1
  Cap = 2
  BrokenThreshold = 2
  ResumeAfter = 1
INVARIANT NewsIsToldOnce
PROPERTY LiftsAreEarned JobsComeBack
CHECK_DEADLOCK FALSE
