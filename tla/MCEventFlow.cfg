CONSTANTS
  shire = shire
  bree = bree
  tab = tab
  player = player
  Nowhere = Nowhere
  Region = {shire, bree}
  StartRegion = shire
  Connection = {tab}
  Player = {player}
  PlayerOf <- MCPlayerOf
  InboxCapacity = 1
  Prompt = TRUE
  Lag = 0
  MaxTurns = 2
  MaxUpsets = 1
SPECIFICATION Spec
INVARIANT TypeOK
INVARIANT SecretKept
INVARIANT CaughtUp
INVARIANT EndReachesListeners
CHECK_DEADLOCK FALSE
PROPERTY Settles
