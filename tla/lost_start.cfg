SPECIFICATION Spec
CONSTANTS
  s1 = s1
  s2 = s2
  c1 = c1
  c2 = c2
  p1 = p1
  p2 = p2
  good = good
  other = other
  empty = empty
  api = api
  api2 = api2
  None = None
  Supervisors <- MCSupervisors
  Callers <- MCCallers
  Pids <- MCPids
  Configs <- MCTwoConfigs
  Valid <- MCOneValid
  Endpoints <- MCEndpoints
  Api <- MCApi
  GraceTicks = 0
  PidReuse = FALSE
SYMMETRY MCSymmetry
INVARIANTS
  DesiredIsSupervised
