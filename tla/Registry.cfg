SPECIFICATION Spec
CONSTANTS
  c1 = c1
  c2 = c2
  c3 = c3
  k = k
  v = v
  w = w
  id = id
  other = other
  Nobody = Nobody
  Clients <- SameId
  Killers <- MCKillers
  Watchers <- TwoWatchers
  Ids <- MCIds
  Id <- MCId
  Unnamed <- MCUnnamed
  Inactive <- SameId
  GcFrequency = 2
INVARIANTS TypeOK UniqueIds StartedIsFound WatcherIsCurrent
PROPERTY ToldInOrder
CHECK_DEADLOCK FALSE
