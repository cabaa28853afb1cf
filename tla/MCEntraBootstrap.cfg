CONSTANTS
  r1 = r1
  r2 = r2
  main = main
  branch = branch
  Runs <- MCRuns
  Refs <- MCRefs
  Initial <- MCInitial
  Cli = Cli
  Guest = Guest
  Edited = {"mcp"}
  Missing = Missing
  Copies = 2
  MaxStarts = 1
SPECIFICATION Spec
SYMMETRY Symmetry
INVARIANT TypeOK
INVARIANT SerialRunsKeepNamesUnique
INVARIANT DoneMeansWired
PROPERTY WiredStays
PROPERTY ScopeIdsStable
PROPERTY ForgetsOnlyTheUnseen
CHECK_DEADLOCK FALSE
