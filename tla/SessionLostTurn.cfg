SPECIFICATION HistorySpec
CONSTANTS
  KeepTurns = 1
  MaxTurns = 3
  MaxOthers = 2
INVARIANTS
  TurnsAreKept
CHECK_DEADLOCK FALSE
