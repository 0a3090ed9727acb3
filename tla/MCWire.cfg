CONSTANTS
  Parts = {"codec", "stream", "copy", "draft19"}
  Alphabet = {0, 1, 2, 4, 5}
  MaxString = 4
  MaxFields = 2
  MaxFieldLen = 2
  MaxNameLen = 4
  MaxText = 2
  COPY_CHUNK_SIZE = 30
  RequestKinds = {"Subscribe", "Publish", "Fetch"}
  MaxInFlight = 1
  Scripts <- MCScripts
  Responses <- MCResponses
SPECIFICATION WireLayerSpec
INVARIANTS RecodedAlike ReadAsWritten CopiedFaithfully AccountsAgree
CHECK_DEADLOCK FALSE
