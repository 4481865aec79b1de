SPECIFICATION Spec
CONSTANTS
  MaxVoltage = 14
  Near = 2
  Baseline = 4
  Meaningful = 4
  ZeroWatts = 1
  Alpha = 50
  Threshold = 20
  MaxAge = 2
  Cooldown = 1
  HistoryMax = 3
  HistoryKeep = 2
  HistoryNeeded = 2
  Window = 2
  SweepSteps = 3
  Spans = {8, 12}
  Driven = {0, 4, 5, 11}
  Draws <- MCDraws
  Targets = {0, 1, 3, 5, 8, 12}
  MaxWrites = 3
INVARIANTS TypeOK PoolingIsIsotonic VoltageGivesPower MorePowerMoreVoltage
PROPERTIES CurveNeverLost
