CONSTANTS
  bffApi = bffApi
  agentApi = agentApi
  mcpApi = mcpApi
  read = read
  write = write
  issuer = issuer
  tenant = tenant
  stranger = stranger
  empty = empty
  fragment = fragment
  Strings <- MCStrings
  Trim <- MCTrim
  Length <- MCLength
  Empty = empty
  Fragment = fragment
  Absent = Absent
  Null = Null
  Unparsable = Unparsable
  MaxItems = 3
  MaxChars = 9
  Skew = 1
  UserTokens <- MCUserTokens
  Fixtures <- MCFixtures
  Config <- MCConfig
  Tool = write
  OboScopes <- MCOboScopes
  Lifetime = 2
  MaxTime = 7
  NoToken = NoToken
SPECIFICATION FairSpec
INVARIANT InboundTokenStays
PROPERTY DelegationExpires
PROPERTY EveryRequestAnswered
PROPERTY EveryHandlerEnds
PROPERTY ImplementsSessionGate
CHECK_DEADLOCK FALSE
