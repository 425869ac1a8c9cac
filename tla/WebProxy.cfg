SPECIFICATION FairSpec
CONSTANTS
  Callers = {ann, bob}
  MaxTick = 1
  MaxRewards = 2
  MaxTrials = 2
INVARIANTS ActionsAnswer RewardsOnce NewsIsNew
PROPERTY EveryoneHears
CHECK_DEADLOCK FALSE
