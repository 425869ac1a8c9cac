SPECIFICATION FairSpec
CONSTANTS
  a = a
  b = b
  c = c
  Ids <- MCIds
  TimedIds <- MCTimedIds
  Rank <- MCRank
  NoLock = NoLock
  MaxRounds = 3
INVARIANT SettlementsCounted
PROPERTIES GoneAreNotTimed RoundEnds
