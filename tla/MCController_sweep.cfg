SPECIFICATION FairSpec
CONSTANTS
  Mode = "calibration"
  MaxVoltage = 3
  MaxPower = 4000
  Curve <- MCCurve
  InitialVoltage = 1
  RampStep = 1
  RampTarget = 80
  MaxVoltageStep = 1
  Tolerance = 100
  UseFactor = 90
  PowerLimitStart <- MCStart
  PowerLimitStop <- MCStop
  SurplusOverride = 0
  MinTarget = 200
  TankLimit = 85
  GridHeatPower = 4000
  GridHeatHysteresis = 3
  MaxSetpoint = 70
  CutoffVoltage = 1
  CutoffPower = 200
  CutoffDuration = 2
  RecoveryTemp = 60
  SensorMaxAge = 1
  SwitchMaxAge = 1
  FeedMaxAge = 0
  WatchdogInterval = 1
  FirstCheck = 2
  SettleTime = 1
  SweepSteps = 2
  StepDuration = 1
  MinCalPower = 1500
  MinSweepVoltage = 2
  LimiterVoltage = 2
  MeaningfulVoltage = 1
  ZeroWatts = 10
  NoTemp = NoTemp
  GridValues <- ExportOrImport
  TankTemps = {NoTemp}
  RodTemps = {50, 65}
  SwitchValues = {"on"}
  Setpoints = {}
  LimiterValues = {TRUE, FALSE}
  CalibrationCanAge = TRUE
INVARIANTS TypeOK OutputConsistent StaleGridBound
PROPERTIES SafeOutput StopEndsAtZero SweepTerminates OpenLimiterStopsHeating
CHECK_DEADLOCK FALSE
