CONSTANTS
  Lookback = 2
  Leaky <- MCLeaky
  Settings <- MCSettings
SPECIFICATION Spec
INVARIANT CompleteRunPasses
CHECK_DEADLOCK FALSE
