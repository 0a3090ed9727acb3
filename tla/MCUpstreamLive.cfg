CONSTANTS
  Parts = {"pull", "pool"}
  Fields <- AllFields
  Prefixes <- AllPrefixes
  Relays = {r}
  MaxLeases = 2
  MaxHolders = 2
  MaxPulls = 3
  MaxChanges = 0
  MaxRetries = 1
  Callers = {c1, c2}
  Nil = Nil
  Slots = {s1, s2, s3}
  Conns = {k1, k2}
  MaxCalls = 2
  TrackSlots = {t1}
  Subs = {u1}
  MaxTrackCalls = 0
SPECIFICATION UpstreamLiveSpec
PROPERTY UpstreamSettles
CHECK_DEADLOCK FALSE
