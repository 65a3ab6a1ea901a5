SPECIFICATION FairSpec
CONSTANTS
  r1 = r1
  r2 = r2
  Loops = {l1}
  NoLoop = NoLoop
  RuleList <- One
  Cooldown <- OneCooldown
  Flaky = {}
  Unformattable = {r1}
  NumChannels = 1
  SendsFail = TRUE
  SilenceIds = {}
  MaxSilence = 0
  MaxAge = 2
PROPERTY EveryAlertRaised
