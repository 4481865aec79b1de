SPECIFICATION BusesSpec
CONSTANTS
  Bauds <- MCBauds
  Supported = {9600, 19200, 38400, 115200}
  None = None
  Missing = Missing
  Unset = Unset
  Sensors = {g, s}
  Good = {g}
  Values = {20, 21, 22, 85, 126}
  ChangeThreshold = 2
  PollInterval = 1
  CrcRetries = 2
  BackoffThreshold = 2
  BackoffCycles = 2
  Allowances = {2, 3}
  OffSecs = 4
  TxInterval = 2
  Frames = {f1, f2}
  MaxLine = 5
  MaxWire = 7
INVARIANTS BusesTypeOK PollsAtTheMetersRate UsedIsShownIsMeasured GoodSensorReadInTime PumpLimited
PROPERTIES PowerComesBack SickSensorComesBack FramesAreEarned ReaderFindsBack
