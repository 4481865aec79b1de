SPECIFICATION Spec
CONSTANTS
  Volts = {0, 6, 8}
  Safe = 6
  MaxCommands = 3
  MaxQueue = 3
  SavesFail = FALSE
  None = None
PROPERTIES HeatNeverBlocks
