CONSTANTS
  Parts = {"copy"}
  Alphabet = {0, 1, 2, 4, 5, 13}
  MaxString = 4
  MaxFields = 2
  MaxFieldLen = 2
  MaxNameLen = 4
  MaxText = 2
  COPY_CHUNK_SIZE = 30
  RequestKinds = {"Subscribe", "Publish", "Fetch"}
  MaxInFlight = 1
  Scripts <- MCScripts
  Responses <- MCResponsesMarked
SPECIFICATION WireLayerSpec
INVARIANTS WellFormedIsFinished
CHECK_DEADLOCK FALSE
