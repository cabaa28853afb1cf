CONSTANTS
  r1 = r1
  r2 = r2
  main = main
  branch = branch
  bff = bff
  agent = agent
  Refs <- MCRefs
  Apps <- MCApps
  Absent = Absent
  Placeholder = Placeholder
  Waiting = Waiting
  Runs <- MCOneRun
  Inputs <- MCAnyInput
SPECIFICATION Spec
INVARIANT StagesInOrder
CHECK_DEADLOCK FALSE
