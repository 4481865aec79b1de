SPECIFICATION FairSpec
CONSTANTS
  Volts = {0, 6}
  Safe = 6
  MaxCommands = 2
  MaxQueue = 3
  SavesFail = TRUE
  None = None
INVARIANTS TypeOK CopiesAgree
PROPERTIES RelayFollowsDesired
