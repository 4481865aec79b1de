SPECIFICATION FairSpec
CONSTANTS
  Volts = {0, 1, 2}
  Safe = 1
  StartAttempts = 2
  Attempts = 2
  BusModes = {"up", "down"}
  MaxDepth = 6
PROPERTIES StoppedRodEndsAtZero
