SPECIFICATION FairSpec
CONSTANTS
  dac_level = dac_level
  climate = climate
  Conns = {c1}
  Entities = {dac_level, climate}
  Order <- MCOrder
  Repushed = {dac_level}
  Values = {1, 2}
  None = None
  ChanMax = 2
  RingMax = 1
  MaxChanges = 2
  MaxLogs = 1
  MaxRequests = 3
INVARIANTS TypeOK ConnectedMeansHeard
PROPERTIES NoRequestSkipped MissedUpdatesHeal EveryEntityShown
