CONSTANTS
  go1 = go1
  go2 = go2
  go3 = go3
  Nobody = Nobody
  Instance = {go1, go2}
  Preferred = go1
  Deployments <- MCPair
  Timeout = 5
  ElectionPeriod = 1
  ClaimDelay = 1
  Pause = 5
  Lag = 0
  Phase <- MCPhase
  Overtaking = FALSE
  MaxCrashes = 1
  MaxDecisions = 2
  MaxProduce = 0
  Announcements = {1}
SPECIFICATION Spec
INVARIANT GameOverOnce
CHECK_DEADLOCK FALSE
