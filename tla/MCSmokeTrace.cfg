CONSTANTS
  Lookback = 1
  Leaky <- MCLeaky
  Settings <- MCSettings
SPECIFICATION FairSpec
INVARIANT PreflightSuffices
PROPERTY PassIsEarned
PROPERTY RunEnds
CHECK_DEADLOCK FALSE
