SPECIFICATION OrderlySpec
CONSTANTS
  a = a
  b = b
  m1 = m1
  m2 = m2
  d1 = d1
  d2 = d2
  Models <- MCModels
  Payloads <- MCPayloads
  Clients <- MCClients
  UsedBy <- OneModel
  Ops <- Alone
  Asked <- MCAsked
  ListLimits <- MCLimits
  MaxItems = 2
  MaxVersion = 3
  MaxCrashes = 1
  MaxFailures = 0
INVARIANT CreatesNew
CHECK_DEADLOCK FALSE
