SPECIFICATION FairSpec
CONSTANTS
  post = post
  note = note
  Message = {post, note}
  RowKey = {post, note}
  Caller = {1, 2}
  NoKey = NoKey
  NoText = NoText
  MaxAttempts = 2
  BaseCooldown = 1
  MaxCooldown = 2
  PolicyCooldown = 2
  ProbeInterval = 1
  Text <- MCText
  Chunks <- MCChunks
  Media <- MCMedia
  Bridge = "snowluma"
  Answers <- MCAnswers
  Checks = 1
  Slack = 0
  MaxFaults = 2
INVARIANT NothingAppearsTwice RestartKeepsCircuit
PROPERTY EveryMessageSettles
CHECK_DEADLOCK FALSE
