SPECIFICATION MCSpec
CONSTANTS
  s = s
  m = m
  cli = cli
  res = res
  Services <- MCServices
  Desc <- MCDesc
  Types <- MCTypes
  Callers <- MCCallers
  Processes <- OnlyS
  Manual <- OnlyM
  CliPermanent <- OnlyTrue
  Cli = cli
  Resolver = res
  Token = "t"
  Urls <- MCUrls
  Loads <- OneLoad
  RegistrationLag = 1
  LoadBalancing = TRUE
  CheckOnInquire = TRUE
  ForcePermanent = FALSE
  NbRounds = 1
  MaxFailed = 2
  HealthCheckPeriod = 1
  CheckTime = 0
  MaxRecords = 2
  MaxCrashes = 0
  MaxFailures = 0
INVARIANT PermanentStays
CHECK_DEADLOCK FALSE
