CONSTANTS
  ann = ann
  ben = ben
  c1 = c1
  c2 = c2
  c3 = c3
  None = None
  Accounts <- MCAccounts
  Clicks <- MCClicks
SPECIFICATION FairSpec
INVARIANT TextIsOwn
PROPERTY ClicksEnd
