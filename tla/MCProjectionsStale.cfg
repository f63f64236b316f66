SPECIFICATION RowsSpec
CONSTANTS
  RowGames = {g1}
  Viewers = {v1, v2}
  NoRepair = NoRepair
  RowRevision = 4
INVARIANTS
  RebuiltGamesAreCurrent
CHECK_DEADLOCK FALSE
