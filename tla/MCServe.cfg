CONSTANTS
  Parts = {"watch", "queue", "subgroups", "objects", "datagrams", "track", "tracks"}
  Waiters = {a, b}
  Gens = {g1, g2}
  Halves = {left, right}
  MaxVersion = 3
  MaxClones = 2
  Items = {i1, i2, i3}
  Poppers = {p, q}
  Readers = {r1, r2}
  Taps = {t}
  Windows = {1, 2}
  MaxGroup = 2
  Subs = {0, 1}
  MaxCreates = 3
  MaxId = 2
  Sizes = {0, 2}
  Chunks = {1, 2}
  MaxObjects = 2
  Depths = {0, 2, 3}
  MaxWrites = 4
  Names = {n}
  Subscribers = {s1, s2}
  MaxTracks = 3
SPECIFICATION ServeSpec
INVARIANTS NoLostWakeup QueueConserves SubgroupsDelivered DatagramsAccounted TracksSound
PROPERTY ImplementsLossyLog
CHECK_DEADLOCK FALSE
