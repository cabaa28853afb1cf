CONSTANTS
  agent = agent
  mcp = mcp
  resume = resume
  shutdown = shutdown
  smoke = smoke
  deploy = deploy
  Apps <- MCOneApp
  Inner <- MCOneApp
  Resumes <- MCNone
  Shutdowns <- MCNone
  Smokes <- MCSmokes
  Deploys <- MCDeploys
  Group <- MCGroup
  Missing = Missing
  NoApp = NoApp
SPECIFICATION Spec
INVARIANT RestoredMeansInternal
CHECK_DEADLOCK FALSE
