SPECIFICATION Spec
CONSTANTS
  NumPlayers = 3
  Tiles <- MCTiles
  RackPoints <- MCRackPoints
  RackSize = 1
  MinExchange = 1
  PassRounds = 1
  Shuffles <- MCShuffles
  MoveScores = {0, 2}
  MaxRevision = 7
  ReplayError = ReplayError
INVARIANTS
  AcceptedCommandsApply
  ReplayGivesTheGame
  RoundRobin
  PassEndingIsComplete
  FinalScoresSettleEarnings
PROPERTIES
  ImplementsGame
\* A completed game accepts no command.
CHECK_DEADLOCK FALSE
