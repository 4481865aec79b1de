SPECIFICATION Spec
CONSTANTS
  PingEvery = 2
  PongDeadline = 9
  Watchdog = 12
  Stable = 6
  Keepalive = 6
  SynGap = 7
  Slow = 3
  Capacity = 7
  Bound <- MCBound
INVARIANTS TypeOK RecoversInTime
PROPERTIES LiveSessionKept StableSessionResetsBackoff
