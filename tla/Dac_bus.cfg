SPECIFICATION FairSpec
CONSTANTS
  Volts = {0, 1, 2}
  Safe = 1
  StartAttempts = 2
  Attempts = 2
  BusModes = {"up", "down", "flaky"}
  MaxDepth = 4
INVARIANTS TypeOK
PROPERTIES Ch1ZeroOnlyWhenAsked RodDrivenOnlyAsAsked CallsReturn DeadProcessEndsAtZero
