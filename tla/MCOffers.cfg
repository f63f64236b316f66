SPECIFICATION PartsSpec
CONSTANTS
  Users = {alice, bob, carol}
  Challenges = {c1, c2}
  Invitations = {i1}
  Requests = {q1, q2}
  Idle = Idle
  BoardSize = 3
  Start <- MCStart
  Premiums <- MCPremiums
  RackSize = 3
  FullRackBonus = 5
  ScoreBound = 13
  Letters = {"A", "B"}
  Words <- MCWords
  Face <- MCFace
  Points <- MCPoints
  Blank = "blank"
  NoLetter = "none"
  MaxScore = 2147483647
  MaxPlayers = 16
  MaxBoardSize = 64
  MaxTileSets = 22
  BoardSizes <- MCBoardSizes
  TileSets = {0, 1, 21, 22, 23}
  PlayerCounts = {14, 15, 17}
SYMMETRY Symmetry
INVARIANTS
  GamesMatchOffers
  BoardIsCrossword
  PlaysAreJudged
  GuidanceIsSound
  AcceptedSettingsArePlayable
PROPERTIES
  OutcomeIsFinal
\* Every offer may have been answered, and a started lobby stops.
CHECK_DEADLOCK FALSE
