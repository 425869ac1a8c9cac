SPECIFICATION MCSpec
CONSTANTS
  t = t
  u = u
  v = v
  lists = lists
  plain = plain
  exporter = exporter
  None = None
  Blank = Blank
  Trials = {t, u, v}
  Actors <- MCActors
  Scripts <- MCScripts
  Kinds <- MCKinds
  Filters <- MCFilters
  Wanted <- MCWanted
  OldFiles <- MCOld
  Requests = {plain, exporter}
  Exporter = exporter
  Listers = {lists}
  ChunkSize = 2
  PageSize = 1
  MaxIdx = 3
  MaxCrashes = 1
  Prefixed <- MCPrefixed
  MaxExports = 1
INVARIANTS StoreConsistent RetrievedInOrder PagesComplete GivenAsLogged TransferWhole
PROPERTY RetrievalEnds
CHECK_DEADLOCK FALSE
