CONSTANTS
  UnitKey <- MCUnitKey
  SettingKey <- MCSettingKey
  Piece <- MCPiece
  File <- MCFile
SPECIFICATION Spec
INVARIANT UnitsAreLoaded
CHECK_DEADLOCK FALSE
