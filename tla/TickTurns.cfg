SPECIFICATION MCSpec
CONSTANTS
  a = a
  b = b
  Nobody = Nobody
  Actors <- MCActors
  Rank <- MCRank
  Required <- OnlyB
  TimedActors <- OnlyA
  AutoActors <- None
  Flaky <- None
  Absent <- None
  MaxSteps = 1
  NbBuffered = 2
  EnvMayEnd = TRUE
  EnvMayFail = FALSE
  MayRequestEnd = TRUE
  MayTerminate = FALSE
INVARIANTS TypeOK ActionInOwnSample
PROPERTY TrialEnds
