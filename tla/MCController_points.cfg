SPECIFICATION Spec
CONSTANTS
  Mode = "calibration"
  MaxVoltage = 3
  MaxPower = 4000
  Curve <- MCCurve
  InitialVoltage = 1
  RampStep = 1
  RampTarget = 80
  MaxVoltageStep = 1
  Tolerance = 100
  UseFactor = 90
  PowerLimitStart <- MCStart
  PowerLimitStop <- MCStop
  SurplusOverride = 0
  MinTarget = 200
  TankLimit = 85
  GridHeatPower = 4000
  GridHeatHysteresis = 3
  MaxSetpoint = 70
  CutoffVoltage = 1
  CutoffPower = 200
  CutoffDuration = 2
  RecoveryTemp = 60
  SensorMaxAge = 3
  SwitchMaxAge = 3
  FeedMaxAge = 0
  WatchdogInterval = 1
  FirstCheck = 2
  SettleTime = 1
  SweepSteps = 2
  StepDuration = 2
  MinCalPower = 1500
  MinSweepVoltage = 2
  LimiterVoltage = 2
  MeaningfulVoltage = 1
  ZeroWatts = 10
  NoTemp = NoTemp
  GridValues <- Export
  TankTemps = {NoTemp}
  RodTemps = {NoTemp}
  SwitchValues = {"on"}
  Setpoints = {}
  LimiterValues = {FALSE}
  CalibrationCanAge = TRUE
INVARIANTS PointsBelongToTheirVoltage
CHECK_DEADLOCK FALSE
