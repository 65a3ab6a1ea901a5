SPECIFICATION FairSpec
CONSTANTS
  r1 = r1
  r2 = r2
  Loops = {l1, l2}
  NoLoop = NoLoop
  RuleList <- One
  Cooldown <- OneCooldown
  Flaky = {}
  Unformattable = {}
  NumChannels = 1
  SendsFail = FALSE
  SilenceIds = {s1}
  MaxSilence = 2
  MaxAge = 2
INVARIANT RunningHasLoop
PROPERTY SilenceSettles
PROPERTY StopEndsLoops
