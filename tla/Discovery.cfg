SPECIFICATION DiscoverySpec
CONSTANTS
  me = me
  a = a
  b = b
  x = x
  Others = {a, b}
  Topics = {x}
  Subscriptions <- WithHub
  Movers = {me, b}
  TrackAll = {TRUE, FALSE}
  MinPeers = 2
  MaxChanges = 3
  MaxLost = 1
INVARIANTS
  CacheAnnounced
PROPERTIES
  PeersMeet
  GoneUnheard
CHECK_DEADLOCK FALSE
