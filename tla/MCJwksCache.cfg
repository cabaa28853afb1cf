CONSTANTS
  a = a
  b = b
  signing = signing
  Threads <- MCThreads
  Kids <- MCKids
  SigningKids <- MCKids
  TTL = 0
  RefreshBound = 1
  BootTimes <- MCBootTimes
  MaxTime = 3
SPECIFICATION FairSpec
INVARIANT FreshKey
INVARIANT RotatedKeyUsable
PROPERTY ImplementsKeyLookup
PROPERTY CallsEnd
