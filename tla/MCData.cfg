SPECIFICATION DataSpec
CONSTANTS
  DataParts = {"plane", "loss", "names", "life"}
  MaxId = 2
  Streams <- MCStreams
  Units <- MCUnits
  Cases <- MCCases
  Depth = 2
  Sizes = {1, 3}
  Limits = {2}
  MaxWritten = 4
  Requests = {1, 2}
  Suffixes = {"a", "b"}
  QueueCapacity = 1
  MaxKnown = 2
  MaxStreams = 2
  MaxNames = 2
  SetupCases <- MCSetupCases
  MaxPathSegments = 3
  MaxRequests = 2
  MaxForeign = 2
  RESPONSE_TIMEOUT = 1
  MaxTime = 2
INVARIANTS
  MirrorFaithful
  SubscriptionSound
  LossReported
  NamespacesFaithful
  SessionSound
CHECK_DEADLOCK FALSE
