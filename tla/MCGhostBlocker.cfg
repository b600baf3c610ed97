CONSTANTS
  frodo = frodo
  aragorn = aragorn
  gimli = gimli
  wraith = wraith
  uruk = uruk
  saruman = saruman
  shire = shire
  rohan = rohan
  isengard = isengard
  mordor = mordor
  fords = fords
  eastRoad = eastRoad
  southRoad = southRoad
  Nowhere = Nowhere
  None = None
  Unit = {frodo, aragorn, gimli, wraith, uruk, saruman}
  Region = {shire, rohan, isengard, mordor}
  Path = {fords, eastRoad, southRoad}
  RingBearer = frodo
  UnitCfg <- MCUnitCfg
  PathCfg <- MCPathCfg
  TerrainBonus <- MCTerrainBonus
  StartControl <- MCStartControl
  MountDoom = mordor
  Mordor = mordor
  Isengard = isengard
  HiddenUntilTurn = 4
  MaxTurns = 4
  Menu <- MCMenu
  MaxRoute = 1
  MaxOrders = 2
  MaxLate = 0
  AwayTurns = {}
SPECIFICATION Spec
INVARIANT BlockedByPresence
