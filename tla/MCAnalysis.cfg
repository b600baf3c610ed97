CONSTANTS
  shire = shire
  bree = bree
  moria = moria
  mordor = mordor
  island = island
  east = east
  south = south
  down = down
  direct = direct
  up = up
  short = short
  long = long
  khamul = khamul
  witchKing = witchKing
  Nowhere = Nowhere
  Region = {shire, bree, moria, mordor, island}
  Path = {east, south, down, direct, up}
  PathConfig <- MCPathConfig
  Route = {short, long}
  RoutePaths <- MCRoutePaths
  StartRegion = shire
  Nazgul = {khamul, witchKing}
  Request = {r1, r2}
  Worker = {w1, w2}
  Worlds <- MCWorlds
  MaxRequests <- MCMaxRequests
  TriggerCapacity = 1
  WorkCapacity = 2
SPECIFICATION Spec
INVARIANT TypeOK
INVARIANT NoSendOnClosed
INVARIANT EachScoredOnce
INVARIANT AnswerIsRight
INVARIANT ServedInOrder
INVARIANT ShortestIsShortest
PROPERTY JobEnds
CHECK_DEADLOCK FALSE
