CONSTANTS
  agent = agent
  mcp = mcp
  resume = resume
  shutdown = shutdown
  smoke = smoke
  deploy = deploy
  Apps <- MCOneApp
  Inner <- MCOneApp
  Resumes <- MCResumes
  Shutdowns <- MCShutdowns
  Smokes <- MCSmokes
  Deploys <- MCDeploys
  Group <- MCGroup
  Missing = Missing
  NoApp = NoApp
SPECIFICATION Spec
INVARIANT ShutdownSticks
CHECK_DEADLOCK FALSE
