CONSTANTS
  go1 = go1
  go2 = go2
  NoWorld = NoWorld
  u1 = u1
  Instance = {go1, go2}
  FirstLeader = go1
  FirstOwner = go2
  Unit = {u1}
  MaxTurn = 3
  MaxNews = 2
  MaxEvents = 2
SPECIFICATION Spec
INVARIANT TypeOK
INVARIANT OrdersInTime
PROPERTY PlaysByTheBook
PROPERTY BufferedIsPlayed
PROPERTY TurnsGoOn
CHECK_DEADLOCK FALSE
