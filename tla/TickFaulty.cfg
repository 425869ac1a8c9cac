SPECIFICATION Spec
CONSTANTS
  a = a
  b = b
  Nobody = Nobody
  Actors <- MCActors
  Rank <- MCRank
  Required <- OnlyA
  TimedActors <- None
  AutoActors <- OnlyA
  Flaky <- OnlyB
  Absent <- Both
  MaxSteps = 1
  NbBuffered = 2
  EnvMayEnd = TRUE
  EnvMayFail = TRUE
  MayRequestEnd = TRUE
  MayTerminate = TRUE
INVARIANTS NoLostWakeup AvailableIsExact AllSamplesLogged
PROPERTY ImplementsProtocol
CHECK_DEADLOCK FALSE
