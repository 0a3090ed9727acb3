CONSTANTS
  Parts = {"ids", "tracks", "namespaces"}
  SetupMax = {3, 6}
  MaxU64 = 7
  Names = {a, b}
  MaxIds = 2
  KeepReaders = FALSE
  Subs = {s}
SPECIFICATION SessionSpec
SYMMETRY NameSymmetry
INVARIANTS NoReplay FlowControl MapsAgree
CHECK_DEADLOCK FALSE
