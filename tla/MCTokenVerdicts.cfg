CONSTANTS
  Strings <- MCStrings
  Trim <- MCTrim
  Length <- MCLength
  Empty = ""
  Fragment = "..."
  Absent = Absent
  Null = Null
  Unparsable = Unparsable
  MaxItems = 2
  MaxChars = 10
  Skew = 1
  Tokens <- MCTokens
  Environments <- MCEnvironments
  Placeholders = {"other"}
  BlueprintPlaceholder = "other"
  Tool = "write"
  DownstreamAudience = "mcp"
  DownstreamScopes <- MCDownstreamScopes
  MaxTime = 4
SPECIFICATION Spec
INVARIANT GatewaysAgree
INVARIANT SanitizingKeepsVerdict
INVARIANT SanitizingWidensAsNamed
INVARIANT ExchangeIsConfined
INVARIANT StrictArmsEveryGuard
INVARIANT SidecarAgrees
PROPERTY ValidityIsAnInterval
CHECK_DEADLOCK FALSE
