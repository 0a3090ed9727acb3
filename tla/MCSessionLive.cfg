CONSTANTS
  Parts = {"tracks", "namespaces"}
  SetupMax = {3}
  MaxU64 = 7
  Names = {a}
  MaxIds = 2
  KeepReaders = TRUE
  Subs = {s}
SPECIFICATION SessionFairSpec
PROPERTIES RequestsAnswered NothingHeldOnTo
CHECK_DEADLOCK FALSE
