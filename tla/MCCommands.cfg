SPECIFICATION PartsSpec
CONSTANTS
  c1 = c1
  c2 = c2
  c3 = c3
  again = again
  once = once
  Commands = {c1, c2, c3}
  Key <- MCKey
  Created = Created
  MaxEvents = 2
  Requests = {q1, q2, q3}
  Idle = Idle
  LastRevision = 5
  NumPlayers = 2
  Tiles <- MCTiles
  RackPoints <- MCRackPoints
  RackSize = 1
  MinExchange = 1
  PassRounds = 1
  Shuffles <- MCShuffles
  MoveScores = {0, 2}
  MaxRevision = 5
  ReplayError = ReplayError
  Classic = Classic
  Generated = Generated
  Unsupported = Unsupported
SYMMETRY Symmetry
INVARIANTS
  JournalIsContiguous
  RecoveredIsJournal
  OldGamesRecover
PROPERTIES
  ImplementsCommandLog
\* No request is received beyond the bound.
CHECK_DEADLOCK FALSE
