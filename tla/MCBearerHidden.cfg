CONSTANTS
  frodo = frodo
  gandalf = gandalf
  wraith = wraith
  saruman = saruman
  shire = shire
  bree = bree
  doom = doom
  toBree = toBree
  toDoom = toDoom
  byPass = byPass
  Nowhere = Nowhere
  None = None
  Unit = {frodo, gandalf, wraith, saruman}
  Region = {shire, bree, doom}
  Path = {toBree, toDoom, byPass}
  RingBearer = frodo
  UnitCfg <- MCUnitCfg
  PathCfg <- MCPathCfg
  TerrainBonus <- MCTerrainBonus
  StartControl <- MCStartControl
  MountDoom = doom
  Mordor = doom
  Isengard = bree
  HiddenUntilTurn = 1
  MaxTurns = 3
  Menu <- MCMenu
  MaxRoute = 2
  MaxOrders = 1
  MaxLate = 0
  AwayTurns = {}
SPECIFICATION Spec
INVARIANT RingBearerHidden
