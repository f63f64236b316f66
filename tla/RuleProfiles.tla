---------------------------- MODULE RuleProfiles ----------------------------
(***************************************************************************)
(* The rule profile of a game (packages/game_domain/src/rules.rs): the     *)
(* reviewed classic profile, the profiles generated from it for other      *)
(* board sizes and numbers of tile sets, and the validation every profile  *)
(* passes.  The state is what a lobby of lobbies.rs does with them: its    *)
(* settings are changed within the policy of the deployment, and a start   *)
(* generates a profile from them.                                          *)
(*                                                                         *)
(* A quantity is a u8.  A score is a u32; MaxScore stands for its largest  *)
(* value and is set to 2^31 - 1, where TLC's own integers end: a profile   *)
(* within the smaller bound is within the larger one.                      *)
(***************************************************************************)
EXTENDS Integers, FiniteSets, FiniteSetsExt, Functions

CONSTANTS
  MaxScore,      \* the largest score
  MaxPlayers,    \* GameCreationPolicy.max_players
  MaxBoardSize,  \* GameCreationPolicy.max_board_size
  MaxTileSets,   \* GameCreationPolicy.max_tile_sets
  BoardSizes,    \* the sizes, tile sets and numbers of players the forms of
  TileSets,      \* the run ask for; the policy decides which are accepted
  PlayerCounts

VARIABLES
  settings,      \* the settings of the lobby
  started        \* what the last start answered

profileVars == <<settings, started>>

\* GameCreationPolicy::new refuses a policy that admits no game.
ASSUME PolicyAssumption ==
  /\ MaxPlayers \in Nat /\ MaxPlayers >= 2
  /\ MaxBoardSize \in 1..255 /\ MaxTileSets \in 1..255

\* A score is at least as wide as TLC's integers.
ASSUME ScoreAssumption == MaxScore \in Nat /\ MaxScore >= 2147483647

U8 == 255

-----------------------------------------------------------------------------
(* The classic layout: 15 by 15 squares, numbered from 0 *)

Word(n) == [kind |-> "Word", by |-> n]
Letter(n) == [kind |-> "Letter", by |-> n]

\* A square and its images under the symmetries of the classic board.
Images(x, y) ==
  LET both(c) == {c, 14 - c}
  IN  (both(x) \X both(y)) \cup (both(y) \X both(x))

\* The squares of each premium.
TripleWord == ({0, 7, 14} \X {0, 7, 14}) \ {<<7, 7>>}
DoubleWord == (UNION {Images(i, i) : i \in 1..4}) \cup {<<7, 7>>}
TripleLetter == ({1, 5, 9, 13} \X {1, 5, 9, 13}) \ Images(1, 1)
DoubleLetter == Images(0, 3) \cup Images(2, 6) \cup Images(3, 7) \cup Images(6, 6)

InitialPremiums ==
  [c \in TripleWord \cup DoubleWord \cup TripleLetter \cup DoubleLetter |->
     IF c \in TripleWord THEN Word(3)
     ELSE IF c \in DoubleWord THEN Word(2)
     ELSE IF c \in TripleLetter THEN Letter(3) ELSE Letter(2)]

\* The classic distribution, its faces grouped: `faces` letters with the same
\* quantity and points.  The last group is the blank.
InitialTiles ==
  { [faces |-> 1, quantity |-> 12, points |-> 1],   \* E
    [faces |-> 2, quantity |-> 9,  points |-> 1],   \* A I
    [faces |-> 1, quantity |-> 8,  points |-> 1],   \* O
    [faces |-> 3, quantity |-> 6,  points |-> 1],   \* N R T
    [faces |-> 3, quantity |-> 4,  points |-> 1],   \* L S U
    [faces |-> 1, quantity |-> 4,  points |-> 2],   \* D
    [faces |-> 1, quantity |-> 3,  points |-> 2],   \* G
    [faces |-> 4, quantity |-> 2,  points |-> 3],   \* B C M P
    [faces |-> 5, quantity |-> 2,  points |-> 4],   \* F H V W Y
    [faces |-> 1, quantity |-> 1,  points |-> 5],   \* K
    [faces |-> 2, quantity |-> 1,  points |-> 8],   \* J X
    [faces |-> 2, quantity |-> 1,  points |-> 10],  \* Q Z
    [faces |-> 1, quantity |-> 2,  points |-> 0] }

TileCount(tiles) == SumFunction([t \in tiles |-> t.faces * t.quantity])

InitialProfile ==
  [ boardSize |-> 15, start |-> <<7, 7>>, premiums |-> InitialPremiums,
    tiles |-> InitialTiles, rackSize |-> 7, fullRackBonus |-> 50,
    minExchange |-> 7, scorelessLimit |-> 6 ]

-----------------------------------------------------------------------------
(* Generated layouts *)

\* Faulty: scales to the size instead of the last coordinate.
ScaleCoordinatePastEdge(c, size) ==
  IF size = 1 THEN 0 ELSE (c * size + 7) \div 14

\* Nearest-neighbour scaling of 0..14 onto 0..size - 1.
ScaleCoordinate(c, size) ==
  IF size = 1 THEN 0 ELSE (c * (size - 1) + 7) \div 14

PremiumRank(p) ==
  IF p.kind = "Word" THEN (IF p.by = 3 THEN 4 ELSE 3)
                     ELSE (IF p.by = 3 THEN 2 ELSE 1)

\* The premiums whose scaled square is c; the highest rank among them stays,
\* whatever the order in which they come.
ScaledOnto(c, size) ==
  {InitialPremiums[s] : s \in
     {s \in DOMAIN InitialPremiums :
        <<ScaleCoordinate(s[1], size), ScaleCoordinate(s[2], size)>> = c}}
Highest(premiums) ==
  CHOOSE p \in premiums : \A q \in premiums : PremiumRank(q) <= PremiumRank(p)

GeneratedPremiums(size) ==
  IF size = 15 THEN InitialPremiums
  ELSE LET centre == <<size \div 2, size \div 2>>
           scaled == {<<ScaleCoordinate(s[1], size), ScaleCoordinate(s[2], size)>> :
                        s \in DOMAIN InitialPremiums}
       IN  [c \in scaled \cup {centre} |->
              IF c = centre THEN Word(2) ELSE Highest(ScaledOnto(c, size))]

-----------------------------------------------------------------------------
(* Validation *)

OnBoard(profile, c) ==
  c[1] \in 0..(profile.boardSize - 1) /\ c[2] \in 0..(profile.boardSize - 1)

\* The squares of the row or the column with number n.
LineSquares(profile, horizontal, n) ==
  {IF horizontal THEN <<o, n>> ELSE <<n, o>> : o \in 0..(profile.boardSize - 1)}

\* The most a full line can score, as its two factors: the sum of the letters,
\* each the dearest tile of the profile, and the product of the word premiums.
DearestTile(profile) == Max({t.points : t \in profile.tiles})
Factor(profile, c, kind) ==
  IF c \in DOMAIN profile.premiums /\ profile.premiums[c].kind = kind
  THEN profile.premiums[c].by ELSE 1
LineLetters(profile, line) ==
  SumFunction([c \in line |-> DearestTile(profile) * Factor(profile, c, "Letter")])
LineMultiplier(profile, line) ==
  FoldFunction(LAMBDA x, y : x * y, 1, [c \in line |-> Factor(profile, c, "Word")])

\* The most one line can score, as validate_score_bounds adds it up.
LineScore(profile, line) == LineLetters(profile, line) * LineMultiplier(profile, line)

ScoreBoundsHold(profile) ==
  \A horizontal \in BOOLEAN : \A n \in 0..(profile.boardSize - 1) :
    LineScore(profile, LineSquares(profile, horizontal, n))
      + profile.fullRackBonus <= MaxScore

\* RuleProfile::validate.  The identifiers of the profile and of its
\* dictionary, and the spelling of its faces, are fixed by the code.
Validates(profile) ==
  /\ profile.boardSize > 0
  /\ OnBoard(profile, profile.start)
  /\ \A c \in DOMAIN profile.premiums :
       OnBoard(profile, c) /\ profile.premiums[c].by >= 2
  /\ profile.tiles # {}
  /\ \A t \in profile.tiles : t.quantity > 0
  /\ profile.rackSize > 0
  /\ profile.minExchange >= profile.rackSize
  /\ profile.scorelessLimit > 0
  /\ ScoreBoundsHold(profile)

\* generated_rule_profile: a profile, or the error it answers.
NoProfile(why) == [ok |-> FALSE, why |-> why]
GeneratedProfile(size, sets) ==
  IF size = 0 THEN NoProfile("EmptyBoard")
  ELSE IF sets = 0 THEN NoProfile("EmptyTileSets")
  ELSE IF \E t \in InitialTiles : t.quantity * sets > U8
    THEN NoProfile("TileQuantityOverflow")
  ELSE LET profile ==
             [InitialProfile EXCEPT
                !.boardSize = size, !.start = <<size \div 2, size \div 2>>,
                !.premiums = GeneratedPremiums(size),
                !.tiles = {[t EXCEPT !.quantity = @ * sets] : t \in InitialTiles}]
       IN  IF Validates(profile) THEN [ok |-> TRUE, profile |-> profile]
                                 ELSE NoProfile("Invalid")

-----------------------------------------------------------------------------
(* A lobby and its settings *)

\* GameCreationPolicy::validate.
Accepts(s) ==
  /\ s.players \in 2..MaxPlayers
  /\ s.size \in 1..MaxBoardSize
  /\ s.sets \in 1..MaxTileSets

NotStarted == [ok |-> FALSE, why |-> "NotStarted"]

\* create_lobby, with the values the form starts from.
ProfileInit ==
  /\ settings = [players |-> 2, size |-> 15, sets |-> 1]
  /\ started = NotStarted

\* update_lobby_settings of an open lobby.
Configure(s) ==
  /\ ~started.ok
  /\ Accepts(s)
  /\ settings' = s
  /\ started' = NotStarted

\* start_lobby with every seat taken: generated_rule_profile, and then
\* initialize_game, which validates the profile again and must fill every rack.
Outcome(s) ==
  LET generated == GeneratedProfile(s.size, s.sets)
  IN  IF generated.ok /\ TileCount(generated.profile.tiles)
                           < generated.profile.rackSize * s.players
      THEN NoProfile("InsufficientTiles") ELSE generated

StartGame ==
  /\ started = NotStarted
  /\ started' = Outcome(settings)
  /\ UNCHANGED settings

ProfileNext ==
  \/ \E s \in [players : PlayerCounts, size : BoardSizes, sets : TileSets] : Configure(s)
  \/ StartGame

ProfileSpec == ProfileInit /\ [][ProfileNext]_profileVars

-----------------------------------------------------------------------------
(* Properties *)

\* More than one play can score: the line it is laid on and a line across each
\* of its tiles, every one of them at its best.
BestPlay(profile) ==
  LET best == Max({LineScore(profile, LineSquares(profile, h, n)) :
                     h \in BOOLEAN, n \in 0..(profile.boardSize - 1)})
  IN  (1 + profile.rackSize) * best + profile.fullRackBonus

\* Whatever a policy accepts makes a valid profile, whose opening square is a
\* double word on the board and whose bag holds whole tile sets; a start fails
\* only for want of tiles, or because the quantity of a tile leaves u8.  And no
\* game under it can leave the range of a score, however its tiles are played:
\* validate_score_bounds looks at one line at a time, while a play adds up to
\* eight of them and apply_event adds the plays of a whole game, one per tile at
\* most.
AcceptedSettingsArePlayable ==
  /\ started.ok =>
       LET profile == started.profile
           tiles == TileCount(profile.tiles)
       IN  /\ tiles = 100 * settings.sets
           /\ OnBoard(profile, profile.start)
           /\ profile.premiums[profile.start] = Word(2)
           /\ BestPlay(profile) <= MaxScore \div tiles
  /\ \/ started = NotStarted \/ started.ok
     \/ 100 * settings.sets < 7 * settings.players
     \/ 12 * settings.sets > U8
=============================================================================
