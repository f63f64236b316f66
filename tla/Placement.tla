------------------------------ MODULE Placement ------------------------------
(***************************************************************************)
(* Laying tiles on the board (packages/game_domain/src/gameplay.rs): how a *)
(* draft of placements is judged, which words it forms and what they       *)
(* score, and the guidance a player gets while the draft is incomplete.    *)
(* The state is a board with the words played so far and the rack of       *)
(* whoever plans the next play; module Game has the draws, the turns and   *)
(* the end of a game.                                                      *)
(*                                                                         *)
(* A word is the sequence of its letters.  A draft is a sequence of        *)
(* placements, as a form sends it: nothing keeps a tile or a square from   *)
(* coming twice.                                                           *)
(***************************************************************************)
EXTENDS Integers, Sequences, FiniteSets, FiniteSetsExt, Functions

CONSTANTS
  BoardSize,      \* RuleProfile.board_size
  Start,          \* RuleProfile.start
  Premiums,       \* RuleProfile.premiums: [kind, by] of some squares
  RackSize,       \* RuleProfile.rack_size
  FullRackBonus,  \* RuleProfile.full_rack_bonus
  ScoreBound,     \* the largest value of a score
  Letters,
  Words,          \* the words of the dictionary
  Face, Points,   \* of every tile: its letter or Blank, and what it is worth
  Blank,
  NoLetter        \* a placement that names no letter for a blank

VARIABLES
  board,          \* GameState.board: squares to [tile, letter]
  rack            \* the rack of the planning player

boardVars == <<board, rack>>

Squares == (0..(BoardSize - 1)) \X (0..(BoardSize - 1))
Tiles == DOMAIN Face

ASSUME BoardAssumption ==
  /\ BoardSize \in Nat \ {0} /\ Start \in Squares /\ DOMAIN Premiums \subseteq Squares
  /\ RackSize \in Nat \ {0} /\ IsFiniteSet(Tiles) /\ Blank \notin Letters
  /\ Points \in [Tiles -> Nat] /\ FullRackBonus \in Nat /\ ScoreBound \in Nat

\* Of the bundled list (data/enable1.txt), the one dictionary there is.
ASSUME DictionaryAssumption == Words \subseteq Seq(Letters) /\ \A w \in Words : Len(w) > 1

-----------------------------------------------------------------------------
(* Geometry *)

Axes == {"Horizontal", "Vertical"}
Across(axis) == IF axis = "Horizontal" THEN "Vertical" ELSE "Horizontal"

\* The square n steps along an axis; it may lie off the board.
Step(c, axis, n) ==
  IF axis = "Horizontal" THEN <<c[1] + n, c[2]>> ELSE <<c[1], c[2] + n>>

Neighbors(c) == {Step(c, axis, n) : axis \in Axes, n \in {-1, 1}}

\* placement_axis: tiles in one row, a single tile too, are horizontal.
InLine(squares, axis) ==
  \A c, d \in squares : IF axis = "Horizontal" THEN c[2] = d[2] ELSE c[1] = d[1]
IsLinear(squares) == \E axis \in Axes : InLine(squares, axis)
PlacementAxis(squares) ==
  IF InLine(squares, "Horizontal") THEN "Horizontal" ELSE "Vertical"

\* How many squares on one side of a square have tiles.
Reach(squares, origin, axis, sign) ==
  CHOOSE n \in 0..BoardSize :
    /\ \A k \in 1..n : Step(origin, axis, sign * k) \in squares
    /\ Step(origin, axis, sign * (n + 1)) \notin squares

\* collect_word: back from a square while there are tiles, then forward.
CollectWord(squares, origin, axis) ==
  LET back == Reach(squares, origin, axis, -1)
  IN  [i \in 1..(back + 1 + Reach(squares, origin, axis, 1)) |->
         Step(origin, axis, i - 1 - back)]

SquaresOf(word) == {word[i] : i \in DOMAIN word}
TextOf(tiles, word) == [i \in DOMAIN word |-> tiles[word[i]].letter]

\* The first square in the order of the code's maps.
FirstOf(squares) ==
  CHOOSE c \in squares : \A d \in squares : c[1] < d[1] \/ (c[1] = d[1] /\ c[2] <= d[2])

\* combined_board.
Combined(placed) ==
  [c \in DOMAIN placed \cup DOMAIN board |-> IF c \in DOMAIN placed THEN placed[c] ELSE board[c]]

-----------------------------------------------------------------------------
(* A draft *)

\* placement_letter, and the other tests of candidate_tiles on the i-th
\* placement, in their order.
PlacementError(draft, i) ==
  LET p == draft[i]
  IN  IF \E j \in 1..(i - 1) : draft[j].tile = p.tile THEN "DuplicateTile"
      ELSE IF p.square \notin Squares THEN "CoordinateOutOfBounds"
      ELSE IF p.square \in DOMAIN board THEN "OccupiedCoordinate"
      ELSE IF p.tile \notin rack THEN "TileNotInRack"
      ELSE IF Face[p.tile] # Blank /\ p.letter # NoLetter THEN "UnexpectedBlankLetter"
      ELSE IF Face[p.tile] = Blank /\ p.letter \notin Letters THEN "InvalidBlankLetter"
      ELSE IF \E j \in 1..(i - 1) : draft[j].square = p.square THEN "DuplicateCoordinate"
      ELSE "None"

\* candidate_tiles: the first error of a draft, or its tiles on their squares.
DraftError(draft) ==
  IF draft = <<>> THEN "EmptyTileSelection"
  ELSE LET bad == {i \in DOMAIN draft : PlacementError(draft, i) # "None"}
       IN  IF bad = {} THEN "None" ELSE PlacementError(draft, Min(bad))

LetterOf(p) == IF Face[p.tile] = Blank THEN p.letter ELSE Face[p.tile]
CandidateTiles(draft) ==
  [c \in {draft[i].square : i \in DOMAIN draft} |->
     LET i == CHOOSE i \in DOMAIN draft : draft[i].square = c
     IN  [tile |-> draft[i].tile, letter |-> LetterOf(draft[i])]]

\* Faulty: a play may lie anywhere on a board that is not empty.
ConnectionErrorAnywhere(squares) ==
  LET main == CollectWord(squares \cup DOMAIN board, FirstOf(squares), PlacementAxis(squares))
  IN  IF ~(squares \subseteq SquaresOf(main)) THEN "Gap"
      ELSE IF board = <<>> /\ Start \notin squares THEN "FirstMoveMustCoverStart"
      ELSE "None"

\* validate_connection, of tiles in line: the main word holds all of them, and
\* they cover the start or touch the board.
ConnectionError(squares) ==
  LET main == CollectWord(squares \cup DOMAIN board, FirstOf(squares), PlacementAxis(squares))
  IN  IF ~(squares \subseteq SquaresOf(main)) THEN "Gap"
      ELSE IF board = <<>>
        THEN IF Start \in squares THEN "None" ELSE "FirstMoveMustCoverStart"
      ELSE IF \A c \in squares : Neighbors(c) \cap DOMAIN board = {} THEN "Disconnected"
      ELSE "None"

ShapeError(squares) ==
  IF ~IsLinear(squares) THEN "NotLinear" ELSE ConnectionError(squares)

-----------------------------------------------------------------------------
(* Words and scores *)

\* Faulty: the main word counts even if it is a single tile with words across.
FormedWordsWithMain(placed) ==
  LET axis == PlacementAxis(DOMAIN placed)
      tiled == DOMAIN placed \cup DOMAIN board
      main == CollectWord(tiled, FirstOf(DOMAIN placed), axis)
  IN  {main} \cup {w \in {CollectWord(tiled, c, Across(axis)) :
                            c \in DOMAIN placed} : Len(w) > 1}

\* formed_words: the main word and those across it; the words across alone,
\* when there are any and a single tile makes no main word.
FormedWords(placed) ==
  LET axis == PlacementAxis(DOMAIN placed)
      tiled == DOMAIN placed \cup DOMAIN board
      main == CollectWord(tiled, FirstOf(DOMAIN placed), axis)
      crosses == {w \in {CollectWord(tiled, c, Across(axis)) :
                           c \in DOMAIN placed} : Len(w) > 1}
  IN  IF Len(main) = 1 /\ crosses # {} THEN crosses ELSE {main} \cup crosses

ProductFunction(f) == FoldFunction(LAMBDA x, y : x * y, 1, f)

\* RuleProfile::validate and validate_score_bounds: what premiums multiply by, and
\* that the word premiums of a line can be multiplied.
ASSUME PremiumAssumption ==
  /\ \A c \in DOMAIN Premiums : Premiums[c].by \in Nat \ {0, 1}
  /\ \A squares \in SUBSET {c \in DOMAIN Premiums : Premiums[c].kind = "Word"} :
       IsLinear(squares) => ProductFunction([c \in squares |-> Premiums[c].by]) <= ScoreBound

\* score_word: premiums count under new tiles only.  Overflow is its checked
\* arithmetic failing anywhere on the way.
Overflow == -1
Checked(n) == IF n \in 0..ScoreBound THEN n ELSE Overflow
ScoreWord(placed, word) ==
  LET premium(c, kind) ==
        IF c \in DOMAIN placed \cap DOMAIN Premiums /\ Premiums[c].kind = kind
          THEN Premiums[c].by ELSE 1
      letters == SumFunction([c \in SquaresOf(word) |->
                                Points[Combined(placed)[c].tile] * premium(c, "Letter")])
      multiplier == ProductFunction([c \in SquaresOf(word) |-> premium(c, "Word")])
  IN  IF Overflow \in {Checked(letters), Checked(multiplier)}
        THEN Overflow ELSE Checked(letters * multiplier)

BonusFor(placed) == IF Cardinality(DOMAIN placed) = RackSize THEN FullRackBonus ELSE 0

\* The words of a play and what it scores, or Overflow.
Analysis(placed) ==
  LET words == FormedWords(placed)
      scores == SumFunction([w \in words |-> ScoreWord(placed, w)])
  IN  [words |-> words,
       score |-> IF \E w \in words : ScoreWord(placed, w) = Overflow THEN Overflow
                 ELSE Checked(scores + BonusFor(placed))]

InvalidWords(placed, words) ==
  {w \in words : TextOf(Combined(placed), w) \notin Words}

Failed(error) == [ok |-> FALSE, error |-> error]

\* prepare_play and analyze_candidate_play: words not in the dictionary are
\* reported and are no error.
PreparePlay(draft) ==
  IF DraftError(draft) # "None" THEN Failed(DraftError(draft))
  ELSE LET placed == CandidateTiles(draft)
           shape == ShapeError(DOMAIN placed)
       IN  IF shape # "None" THEN Failed(shape)
           ELSE IF Analysis(placed).score = Overflow THEN Failed("ArithmeticOverflow")
           ELSE [ok |-> TRUE, placed |-> placed, play |-> Analysis(placed),
                 invalid |-> InvalidWords(placed, Analysis(placed).words)]

\* analyze_play, and the tests of decide_play.
AnalyzePlay(draft) ==
  LET prepared == PreparePlay(draft)
  IN  IF prepared.ok /\ prepared.invalid # {} THEN Failed("InvalidWords") ELSE prepared

\* analyze_committed_play, which the move history is made with: no rack and no
\* dictionary.
AnalyzeCommittedPlay(placed) ==
  IF placed = <<>> THEN Failed("EmptyTileSelection")
  ELSE IF ~(DOMAIN placed \subseteq Squares) THEN Failed("CoordinateOutOfBounds")
  ELSE IF DOMAIN placed \cap DOMAIN board # {} THEN Failed("OccupiedCoordinate")
  ELSE IF ShapeError(DOMAIN placed) # "None" THEN Failed(ShapeError(DOMAIN placed))
  ELSE IF Analysis(placed).score = Overflow THEN Failed("ArithmeticOverflow")
  ELSE [ok |-> TRUE, play |-> Analysis(placed)]

-----------------------------------------------------------------------------
(* Guidance *)

\* adjacent_open_squares.
AdjacentOpenSquares ==
  ((UNION {Neighbors(c) : c \in DOMAIN board}) \cap Squares) \ DOMAIN board

\* Faulty: the columns of a draft in one row are taken from its first tile to
\* the edge of the board.
RequiredToEdge(squares) ==
  IF board = <<>> /\ Start \notin squares THEN {Start}
  ELSE IF ~IsLinear(squares) THEN {}
  ELSE LET axis == PlacementAxis(squares)
       IN  {c \in Squares \ (squares \cup DOMAIN board) :
              /\ InLine(squares \cup {c}, axis)
              /\ \E n \in 1..BoardSize : Step(FirstOf(squares), axis, n) = c}

\* required_gap_squares: the start of an empty board, or the open squares
\* between the tiles of a draft in line.
RequiredGapSquares(squares) ==
  IF board = <<>> /\ Start \notin squares THEN {Start}
  ELSE IF ~IsLinear(squares) THEN {}
  ELSE LET axis == PlacementAxis(squares)
       IN  {c \in Squares \ (squares \cup DOMAIN board) :
              /\ InLine(squares \cup {c}, axis)
              /\ \E m, n \in 1..BoardSize :
                   Step(c, axis, -m) \in squares /\ Step(c, axis, n) \in squares}

\* placement_guidance of the squares a draft occupies.
PlacementGuidance(squares) ==
  IF squares = {}
    THEN [required |-> {}, eligible |-> IF board = <<>> THEN {Start} ELSE AdjacentOpenSquares]
    ELSE [required |-> RequiredGapSquares(squares),
          eligible |-> {c \in Squares \ (squares \cup DOMAIN board) :
                          ShapeError(squares \cup {c}) = "None"}]

-----------------------------------------------------------------------------
(* The game around it *)

\* The tiles of the racks and of the bag.
Unplaced(tiles) == Tiles \ {tiles[c].tile : c \in DOMAIN tiles}

\* What a rack may hold after refills: any tiles that are not on the board.
Hands(tiles) ==
  LET left == Unplaced(tiles)
  IN  kSubset(IF Cardinality(left) < RackSize THEN Cardinality(left) ELSE RackSize, left)

BoardInit == board = <<>> /\ rack \in Hands(board)

\* Faulty: takes the analysis of a candidate for that of a play.
LayTilesUnchecked(draft) ==
  LET prepared == PreparePlay(draft)
  IN  /\ prepared.ok
      /\ board' = Combined(prepared.placed)
      /\ rack' \in Hands(board')

\* decide_play and the TilesPlayed event of an accepted draft.
LayTiles(draft) ==
  LET prepared == AnalyzePlay(draft)
  IN  /\ prepared.ok
      /\ board' = Combined(prepared.placed)
      /\ rack' \in Hands(board')

\* The turn is another player's, or tiles were exchanged.
ChangeHands == rack' \in Hands(board) /\ UNCHANGED board

\* The drafts that put every tile of a subset of the rack somewhere.  The order
\* of a draft decides only which error it is refused with.
DraftsOf(tiles) ==
  LET order == CHOOSE s \in [1..Cardinality(tiles) -> tiles] :
                 \A i, j \in DOMAIN s : s[i] = s[j] => i = j
      blanks == {t \in tiles : Face[t] = Blank}
  IN  {[i \in DOMAIN order |->
          [square |-> at[i], tile |-> order[i],
           letter |-> IF order[i] \in blanks THEN named[order[i]] ELSE NoLetter]] :
         at \in [DOMAIN order -> Squares], named \in [blanks -> Letters]}

\* A careless form: one tile anywhere, of anybody, with any letter, or a tile
\* of the rack twice.
LettersFor(t) == IF Face[t] = Blank THEN Letters ELSE {NoLetter}
Careless ==
  LET anywhere == Squares \cup {<<BoardSize, 0>>, <<0, BoardSize>>}
      any == [square : anywhere, tile : Tiles, letter : Letters \cup {NoLetter}]
  IN  {<<p>> : p \in any}
        \cup {<<[q EXCEPT !.square = Start], q>> : q \in {q \in any : q.tile \in rack}}

Drafts == (UNION {DraftsOf(tiles) : tiles \in SUBSET rack}) \cup Careless

BoardNext ==
  \/ \E draft \in Drafts : LayTiles(draft)
  \/ ChangeHands

BoardSpec == BoardInit /\ [][BoardNext]_boardVars

-----------------------------------------------------------------------------
(* Properties *)

\* The stretches of a line of at least two squares.
Segments ==
  {s \in {[i \in 1..n |-> Step(c, axis, i - 1)] :
            n \in 2..BoardSize, c \in Squares, axis \in Axes} : SquaresOf(s) \subseteq Squares}

\* The words a reader of the board sees: the stretches full of tiles that are
\* part of no longer one.
Runs(squares) ==
  LET full == {s \in Segments : SquaresOf(s) \subseteq squares}
  IN  {s \in full : \A t \in full : ~(SquaresOf(s) \subseteq SquaresOf(t) /\ Len(s) < Len(t))}

IsConnected(squares) ==
  \A part \in (SUBSET squares) \ {{}, squares} :
    \E c \in part : Neighbors(c) \cap (squares \ part) # {}

\* Whatever is played, in however many turns, the board stays a crossword: one
\* piece through the start, without a tile outside a word, and all that can be
\* read in it is in the dictionary.
BoardIsCrossword ==
  LET squares == DOMAIN board
      runs == Runs(squares)
  IN  /\ squares # {} => Start \in squares
      /\ IsConnected(squares)
      /\ squares = UNION {SquaresOf(s) : s \in runs}
      /\ \A s \in runs : TextOf(board, s) \in Words

\* The score by the rules of the game: every run with a new tile, premiums
\* under new tiles, and the bonus of a full rack.
ScoreOf(placed, runs) ==
  LET value(c) == Points[Combined(placed)[c].tile]
      factors(s, kind) == {c \in SquaresOf(s) \cap DOMAIN placed \cap DOMAIN Premiums :
                             Premiums[c].kind = kind}
      letters(s) ==
        SumFunction([c \in SquaresOf(s) |-> value(c)])
          + SumFunction([c \in factors(s, "Letter") |-> (Premiums[c].by - 1) * value(c)])
      multiplier(s) == ProductFunction([c \in factors(s, "Word") |-> Premiums[c].by])
  IN  SumFunction([s \in runs |-> letters(s) * multiplier(s)]) + BonusFor(placed)

NewRuns(placed) ==
  {s \in Runs(DOMAIN Combined(placed)) : SquaresOf(s) \cap DOMAIN placed # {}}

\* A play as the rules of the game put it: own tiles on open squares, in one
\* line and without a gap, leaving the board in one piece through the start,
\* and every run with a new tile a word.
IsLegal(draft, placed) ==
  LET after == DOMAIN Combined(placed)
  IN  /\ Cardinality(DOMAIN placed) = Len(draft)
      /\ Cardinality({draft[i].tile : i \in DOMAIN draft} \cap rack) = Len(draft)
      /\ \A i \in DOMAIN draft : draft[i].letter \in LettersFor(draft[i].tile)
      /\ DOMAIN placed \subseteq Squares \ DOMAIN board
      /\ \/ Cardinality(DOMAIN placed) = 1
         \/ \E s \in Segments : DOMAIN placed \subseteq SquaresOf(s) /\ SquaresOf(s) \subseteq after
      /\ Start \in after /\ IsConnected(after)
      /\ NewRuns(placed) # {}
      /\ \A s \in NewRuns(placed) : TextOf(Combined(placed), s) \in Words

\* A draft is accepted exactly when it is a legal play whose score is in range,
\* and then for that score; and the move history, which sees neither the rack
\* nor the dictionary, shows the same words and the same score.  (A player who
\* has run out of tiles has nothing to draft.)
PlaysAreJudged ==
  rack # {} => \A draft \in Drafts :
    LET placed == CandidateTiles(draft)
        judged == AnalyzePlay(draft)
        score == ScoreOf(placed, NewRuns(placed))
    IN  /\ judged.ok <=> IsLegal(draft, placed) /\ score <= ScoreBound
        /\ judged.ok => /\ judged.play.score = score
                        /\ judged.play.words = NewRuns(placed)
                        /\ AnalyzeCommittedPlay(placed) = [ok |-> TRUE, play |-> judged.play]

\* The guidance never misleads: an eligible square is one that completes the
\* draft, every such square is shown, and a required square is in every legal
\* shape the draft can grow into.
GuidanceIsSound ==
  rack # {} =>
  LET shapes == {s \in SUBSET (Squares \ DOMAIN board) :
                   s # {} /\ Cardinality(s) <= RackSize /\ ShapeError(s) = "None"}
  IN  \A squares \in {{}} \cup UNION {kSubset(n, Squares \ DOMAIN board) : n \in 1..(RackSize - 1)} :
        LET guidance == PlacementGuidance(squares)
        IN  /\ \A c \in Squares \ (squares \cup DOMAIN board) :
                 c \in guidance.eligible <=> squares \cup {c} \in shapes
            /\ \A s \in shapes : squares \subseteq s => guidance.required \subseteq s
=============================================================================
