CONSTANTS
  agent = agent
  mcp = mcp
  resume = resume
  shutdown = shutdown
  smoke = smoke
  deploy = deploy
  Apps <- MCApps
  Inner <- MCApps
  Resumes <- MCNone
  Shutdowns <- MCNone
  Smokes <- MCSmokes
  Deploys <- MCDeploys
  Group <- MCGroup
  Missing = Missing
  NoApp = NoApp
SPECIFICATION Spec
INVARIANT ExposureEnds
INVARIANT OpenWhenProbed
PROPERTY RolloutCompletes
CHECK_DEADLOCK FALSE
