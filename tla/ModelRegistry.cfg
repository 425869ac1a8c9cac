SPECIFICATION MCSpec
CONSTANTS
  a = a
  b = b
  m1 = m1
  m2 = m2
  d1 = d1
  d2 = d2
  Models <- MCModels
  Payloads <- MCPayloads
  Clients <- MCClients
  UsedBy <- OwnModel
  Ops <- MCOps
  Asked <- MCAsked
  ListLimits <- MCLimits
  MaxItems = 1
  MaxVersion = 2
  MaxCrashes = 2
  MaxFailures = 1
INVARIANTS ArchivedSurvives ReadsWhatWasCreated
PROPERTIES CallsEnd
CHECK_DEADLOCK FALSE
