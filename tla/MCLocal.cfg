CONSTANTS
  Parts = {"tracks", "namespaces"}
  Callers = {c1}
  Watchers = {w}
  Followers = {w}
  MaxTracks = 2
  MaxPublishers = 1
  MaxOther = 1
  QueueCapacity = 1
  LogCapacity = 1
  Namespaces = {a, b}
  MaxSources = 3
  MaxRefs = 2
  MaxChanges = 4
  Capacity = 1
SPECIFICATION LocalSpec
SYMMETRY Symmetry
INVARIANTS ListedWhileSourced WatcherConverges
CHECK_DEADLOCK FALSE
