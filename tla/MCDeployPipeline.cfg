CONSTANTS
  r1 = r1
  r2 = r2
  main = main
  branch = branch
  bff = bff
  agent = agent
  Refs <- MCRefs
  Apps <- MCApps
  Absent = Absent
  Placeholder = Placeholder
  Waiting = Waiting
  Runs <- MCRuns
  Inputs <- MCInputs
SPECIFICATION Spec
SYMMETRY Symmetry
INVARIANT TypeOK
INVARIANT DeployedIsPublished
INVARIANT NoRunStuck
PROPERTY ChangesAreApproved
PROPERTY RolloutLeavesOneVersion
PROPERTY ServicesKept
CHECK_DEADLOCK FALSE
