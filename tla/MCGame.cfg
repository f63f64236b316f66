SPECIFICATION PartsSpec
CONSTANTS
  NumPlayers = 3
  Tiles <- MCTiles
  RackPoints <- MCRackPoints
  RackSize = 2
  MinExchange = 2
  PassRounds = 1
  Shuffles <- MCShuffles
  MoveScores = {0, 3}
  MaxRevision = 7
  Tabs = {t1, t2}
  RackTiles = {1, 2, 3}
  BlankTiles = {2}
  RackLimit = 2
  BoardSquares = {s1, s2}
  MinimumForExchange = 1
  NoTile = 0
  NoChoice = none
  LastRevision = 4
  MaxClicks = 4
  Requests = {r1, r2, r3}
  GameWords = {w1}
  FoundTtl = 3
  MissingTtl = 2
  Enabled = TRUE
  Nobody = nobody
  MaxClock = 5
  MaxLookups = 4
SYMMETRY TabSymmetry
INVARIANTS
  TypeOK
  TilesConserved
  RacksFullWhileBagLasts
  TurnIsPlayable
  EndIsNotMissed
  RackIsShownWhole
  PlansFitTheGame
  DraftsAreCoherent
PROPERTIES
  ResignedAreOut
  ExchangeIsReal
  TurnsAreSeenFirst
  RowsLiveOut
