SPECIFICATION FairSpec
CONSTANTS
  r1 = r1
  r2 = r2
  Loops = {l1}
  NoLoop = NoLoop
  RuleList <- Pair
  Cooldown <- PairCooldown
  Flaky = {r1}
  Unformattable = {r1}
  NumChannels = 2
  SendsFail = TRUE
  SilenceIds = {}
  MaxSilence = 0
  MaxAge = 2
INVARIANT ChannelsAgree
PROPERTY CooldownKept
PROPERTY AlertsResolve
PROPERTY AlertsRaised
