SPECIFICATION RelaySpec
CONSTANTS
  Parts = {"fetch", "retention", "drain", "file", "api", "requests", "calls"}
  FetchCases <- MCFetchCases
  RetentionCases <- MCRetentionCases
  END_OF_GROUP = 4
  DrainCases <- MCDrainCases
  CloseFlush = 1
  CoordinatorCases <- MCCoordinatorCases
  NotUtf8 = {"xfe", "xff"}
  ApiCases <- MCApiCases
  EntryTtl = 3
  RequestCases <- MCRequestCases
  MaxPublishTracks = 1
  Callers = {c1, c2}
  MaxTracks = 2
  MaxPublishers = 2
  MaxOther = 0
  Followers = {}
  QueueCapacity = 1
  LogCapacity = 1
INVARIANTS FetchSound RetainedRight NoneCutShort Coordinated AcceptedIsReachable CallersServed
PROPERTIES RelaySettles CallsSettle
CHECK_DEADLOCK FALSE
