CONSTANTS
  go1 = go1
  go2 = go2
  go3 = go3
  Nobody = Nobody
  Instance = {go1, go2, go3}
  Preferred = go1
  Deployments <- MCDeployments
  Timeout = 8
  ElectionPeriod = 3
  ClaimDelay = 1
  Pause = 8
  Lag = 1
  Phase <- MCPhase
  Overtaking = FALSE
  MaxCrashes = 1
  MaxDecisions = 1
  MaxProduce = 1
  Announcements = {0}
SPECIFICATION FairSpec
INVARIANT TypeOK
INVARIANT AtMostOneLeader
INVARIANT OneLeaderPerEpoch
PROPERTY EndIsRecorded
PROPERTY LeaderReturns
PROPERTY OneLeaderAgain
