CONSTANTS
  Parts = {"watch", "subgroups", "tracks"}
  Waiters = {a, b}
  Gens = {g1, g2}
  Halves = {left, right}
  MaxVersion = 3
  MaxClones = 2
  Items = {i1, i2, i3}
  Poppers = {p, q}
  Readers = {r1, r2}
  Taps = {}
  Windows = {1, 2}
  MaxGroup = 2
  Subs = {0}
  MaxCreates = 3
  MaxId = 2
  Sizes = {0, 2}
  Chunks = {1, 2}
  MaxObjects = 2
  Depths = {0, 2, 3}
  MaxWrites = 4
  Names = {n}
  Subscribers = {s1, s2}
  MaxTracks = 3
SPECIFICATION ServeFairSpec
PROPERTIES ChangeIsSeen EventuallyDelivered AnsweredWhileServed
CHECK_DEADLOCK FALSE
