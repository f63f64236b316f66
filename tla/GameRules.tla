------------------------------ MODULE GameRules ------------------------------
(***************************************************************************)
(* The pure rules of one game: who is next, what a draw takes from the     *)
(* bag, and how scores are settled when a game ends.  They are the helper  *)
(* functions of packages/game_domain/src/engine.rs and gameplay.rs; both   *)
(* the atomic aggregate (Game) and the event-sourced one (Engine) use them.*)
(*                                                                         *)
(* Tiles are identities: the code gives every physical tile a unique id    *)
(* and compares ids only.  A rack is a set of tiles (its order is private  *)
(* presentation), the bag is a sequence whose END is drawn first, as in    *)
(* the Vec of the code.                                                    *)
(*                                                                         *)
(* A definition marked Faulty is no part of the model: it is a plausible   *)
(* bug, put in the place of the definition after it to see that the        *)
(* properties notice.                                                      *)
(***************************************************************************)
EXTENDS Integers, Sequences, FiniteSets

CONSTANTS
  NumPlayers,   \* seated players; seat numbers are the turn order
  Tiles,        \* the physical tiles build_bag makes
  RackPoints,   \* RackPoints[S]: the sum of the points printed on the tiles S
  RackSize,     \* RuleProfile.rack_size
  MinExchange,  \* RuleProfile.minimum_tiles_for_exchange
  PassRounds,   \* RuleProfile.scoreless_turn_limit / 2
  Shuffles,     \* the bag orders a shuffle seed may produce
  MoveScores,   \* what an accepted play may score
  MaxRevision   \* bound: no command is submitted from this revision on

Players == 1..NumPlayers

BagTiles(bag) == {bag[i] : i \in 1..Len(bag)}

(***************************************************************************)
(* initialize_game refuses fewer than two players; RuleProfile::validate   *)
(* refuses an empty rack and an exchange threshold below the rack size; a  *)
(* scoreless_turn_limit of 1 halves to 0 pass rounds, so 0 is allowed.     *)
(***************************************************************************)
ASSUME PlayersAssumption == NumPlayers \in Nat /\ NumPlayers >= 2
ASSUME TilesAssumption == IsFiniteSet(Tiles)
ASSUME PointsAssumption == RackPoints \in [SUBSET Tiles -> Nat]
ASSUME ProfileAssumption ==
  /\ RackSize \in Nat \ {0}
  /\ MinExchange \in Nat /\ MinExchange >= RackSize
  /\ PassRounds \in Nat
ASSUME ShufflesAssumption ==
  \A s \in Shuffles :
    /\ s \in Seq(Tiles)
    /\ BagTiles(s) = Tiles
    /\ \A i, j \in 1..Len(s) : s[i] = s[j] => i = j
    /\ Len(s) >= NumPlayers * RackSize
ASSUME ScoresAssumption == MoveScores \subseteq Nat
ASSUME BoundAssumption == MaxRevision \in Nat

\* Why a game ends under these rules; Legacy is of games an older release ended.
Reasons == {"RackOut", "ConsecutivePassRounds", "InsufficientActivePlayers"}
CompletionReasons == Reasons \cup {"Legacy"}

-----------------------------------------------------------------------------
(* Turn order *)

\* The seat k places after seat t, around the table.
SeatAfter(t, k) == IF t + k > NumPlayers THEN t + k - NumPlayers ELSE t + k

\* Faulty: does not skip resigned players; always restarts from seat 1.
NextTurnUnskipped(active, t) == SeatAfter(t, 1)
NextTurnFromFirst(active, t) ==
  CHOOSE p \in active \ {t} : \A q \in active \ {t} : p <= q

\* advance_turn: the first seat after t whose player is still active.
NextTurn(active, t) ==
  LET first == CHOOSE k \in 1..NumPlayers :
                 /\ SeatAfter(t, k) \in active
                 /\ \A j \in 1..(k - 1) : SeatAfter(t, j) \notin active
  IN  SeatAfter(t, first)

-----------------------------------------------------------------------------
(* The bag *)

\* Faulty: a bag that is short is not drawn from; the drawn tiles are taken
\* off the wrong end.
DrawCountAllOrNothing(bag, wanted) == IF wanted <= Len(bag) THEN wanted ELSE 0
WithoutBottom(bag, n) == SubSeq(bag, n + 1, Len(bag))

\* How many tiles a draw of `wanted` takes from a bag that may be short.
DrawCount(bag, wanted) == IF wanted <= Len(bag) THEN wanted ELSE Len(bag)

\* The tiles a draw of n takes, and the bag it leaves.
TopTiles(bag, n) == {bag[i] : i \in (Len(bag) - n + 1)..Len(bag)}
WithoutTop(bag, n) == SubSeq(bag, 1, Len(bag) - n)

\* The orders in which a set of tiles can be listed.
Orders(S) == {s \in [1..Cardinality(S) -> S] : BagTiles(s) = S}

\* A set of numbered tiles in the order of their numbers.
Ascending(S) == CHOOSE s \in Orders(S) : \A i, j \in 1..Len(s) : i < j => s[i] < s[j]

\* The first `RackSize` tiles from the end of the bag go to seat 1, the next
\* to seat 2, and so on; what is left is the bag of the game.
DealtRack(s, p) == {s[i] : i \in (Len(s) - p * RackSize + 1)..(Len(s) - (p - 1) * RackSize)}

-----------------------------------------------------------------------------
(* Scores *)

\* Faulty: a penalty may leave a negative score.
PlainSub(a, b) == a - b

SaturatingSub(a, b) == IF b <= a THEN a - b ELSE 0

\* leaders / calculated_leaders: every seated player with the highest score,
\* players who resigned included.
Leaders(scores) == {p \in Players : \A q \in Players : scores[q] <= scores[p]}

\* completion_event_with_rack_penalties: everyone loses what is on their rack.
PenalisedScores(scores, racks) ==
  [p \in Players |-> SaturatingSub(scores[p], RackPoints[racks[p]])]

\* Faulty: the last move is not in the scores the settlement starts from.
RackOutScoresWithoutMove(scores, racks, finisher, moveScore) ==
  LET left == UNION {racks[q] : q \in Players \ {finisher}}
  IN  [p \in Players |->
         IF p = finisher THEN scores[p] + RackPoints[left]
                         ELSE SaturatingSub(scores[p], RackPoints[racks[p]])]

\* completion_event_after_rack_out, computed from the state BEFORE the play:
\* the finisher gains the move and everything left on the other racks, the
\* others lose their own rack.
RackOutScores(scores, racks, finisher, moveScore) ==
  LET left == UNION {racks[q] : q \in Players \ {finisher}}
  IN  [p \in Players |->
         IF p = finisher THEN scores[p] + moveScore + RackPoints[left]
                         ELSE SaturatingSub(scores[p], RackPoints[racks[p]])]

\* Faulty: the player who passes last is not counted.
RequiredPassesOfOthers(active) == (Cardinality(active) - 1) * PassRounds

\* decide_pass: consecutive passes that end the game.
RequiredPasses(active) == Cardinality(active) * PassRounds
=============================================================================
