SPECIFICATION FairAgentSpec
CONSTANTS
  s1 = s1
  handler = handler
  Main = main
  p1 = p1
  p2 = p2
  good = good
  empty = empty
  api = api
  None = None
  Supervisors <- MCSupervisors
  Callers <- MCCallers
  Pids <- MCPids
  Configs <- MCConfigs
  Valid <- MCGood
  AutoStart <- MCGood
  Posted <- MCGood
  Endpoints <- MCEndpoints
  Api <- MCApi
  GraceTicks = 0
  PidReuse = FALSE
  Systemd = TRUE
  Dies = TRUE
INVARIANTS
  AgentTypeOK
  MinersHaveAnAgent
PROPERTIES
  MachineRunsMinerService
  AgentReturns
