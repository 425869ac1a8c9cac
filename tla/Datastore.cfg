SPECIFICATION FairSpec
CONSTANTS
  a = a
  b = b
  r = r
  Nobody = Nobody
  Trials <- TwoTrials
  Readers <- OneReader
  Deletable <- OnlyB
  Last <- MCLast
  BatchSize = 2
  MaxSize = 1
INVARIANT SizeCoversStored
PROPERTIES SamplesAsLogged BatchFlushed ObserversFinish SpaceReclaimed
CHECK_DEADLOCK FALSE
