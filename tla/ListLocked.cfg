SPECIFICATION FairSpec
CONSTANTS
  c1 = c1
  c2 = c2
  c3 = c3
  k = k
  v = v
  w = w
  id = id
  other = other
  Nobody = Nobody
  Clients <- OtherId
  Killers <- MCKillers
  Watchers <- OneWatcher
  Ids <- MCIds
  Id <- MCId
  Unnamed <- MCUnnamed
  Inactive <- OnlyC1
  GcFrequency = 1
PROPERTY ListUsable
CHECK_DEADLOCK FALSE
