CONSTANTS
  Parts = {"covering", "pull", "pool", "shared"}
  Fields <- AllFields
  Prefixes <- AllPrefixes
  Relays = {r}
  MaxLeases = 3
  MaxHolders = 1
  MaxPulls = 2
  MaxChanges = 1
  MaxRetries = 0
  Callers = {c1, c2}
  Nil = Nil
  Slots = {s1, s2, s3, s4}
  Conns = {k1, k2, k3}
  MaxCalls = 3
  TrackSlots = {t1, t2, t3, t4, t5}
  Subs = {u1, u2, u3, u4}
  MaxTrackCalls = 4
SPECIFICATION UpstreamSpec
INVARIANTS RootsAreBroadest LeasesServed LiveIsPooled OneSubscription
PROPERTIES ImplementsCovering OnlyItsOwnIsDropped
CHECK_DEADLOCK FALSE
