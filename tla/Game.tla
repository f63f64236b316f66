-------------------------------- MODULE Game --------------------------------
(***************************************************************************)
(* One game as its players see it: every accepted command is one step.     *)
(* A step is decide_command (gameplay.rs) followed by apply_event          *)
(* (engine.rs) for every event it decided, which game_service.rs performs  *)
(* inside one database transaction.  The module Engine takes the step      *)
(* apart into its events and is shown to implement this one.               *)
(*                                                                         *)
(* Word geometry, dictionary and scoring (prepare_play) are abstracted to  *)
(* "some non-empty part of the rack is laid and scores some amount"; they  *)
(* never look at the bag, the turn or another rack.                        *)
(***************************************************************************)
EXTENDS GameRules

VARIABLES
  status,              \* "Active" or "Completed"
  active_players,      \* players who have not resigned
  active_player,       \* whose command is accepted
  board,               \* tiles committed to the board
  racks,               \* tiles on each player's rack
  bag,                 \* tiles left, in draw order from the end
  scores,
  consecutive_passes,  \* passes since the last play, exchange or resignation
  leaders,             \* {} while the game runs
  completion_reason,   \* "None" while the game runs
  revision             \* canonical events applied

vars == <<status, active_players, active_player, board, racks, bag, scores,
          consecutive_passes, leaders, completion_reason, revision>>

Init ==
  /\ \E s \in Shuffles :
       /\ racks = [p \in Players |-> DealtRack(s, p)]
       /\ bag = WithoutTop(s, NumPlayers * RackSize)
  /\ active_player \in Players
  /\ active_players = Players
  /\ board = {}
  /\ scores = [p \in Players |-> 0]
  /\ consecutive_passes = 0
  /\ status = "Active"
  /\ leaders = {}
  /\ completion_reason = "None"
  /\ revision = 1

-----------------------------------------------------------------------------
\* ensure_actor, with the bound on the length of a game.
MayAct(p) ==
  /\ status = "Active"
  /\ p \in active_players
  /\ active_player = p
  /\ revision < MaxRevision

\* The event of the command itself, with nothing after it.
GameGoesOn ==
  /\ revision' = revision + 1
  /\ UNCHANGED <<status, leaders, completion_reason>>

\* The event of the command, then GameCompleted with these final scores.
GameEnds(final, reason) ==
  /\ scores' = final
  /\ leaders' = Leaders(final)
  /\ completion_reason' = reason
  /\ status' = "Completed"
  /\ revision' = revision + 2

\* A play of the tiles T empties the rack and the bag cannot refill it.
IsRackOut(p, T) ==
  /\ Len(bag) <= Cardinality(T)
  /\ Cardinality(racks[p]) - Cardinality(T) + DrawCount(bag, Cardinality(T)) = 0

Play(p, T, score) ==
  LET n == DrawCount(bag, Cardinality(T))
  IN  /\ MayAct(p)
      /\ T # {} /\ T \subseteq racks[p]
      /\ board' = board \cup T
      /\ racks' = [racks EXCEPT ![p] = (@ \ T) \cup TopTiles(bag, n)]
      /\ bag' = WithoutTop(bag, n)
      /\ consecutive_passes' = 0
      /\ active_player' = NextTurn(active_players, p)
      /\ \/ /\ IsRackOut(p, T)
            /\ GameEnds(RackOutScores(scores, racks, p, score), "RackOut")
         \/ /\ ~IsRackOut(p, T)
            /\ scores' = [scores EXCEPT ![p] = @ + score]
            /\ GameGoesOn
      /\ UNCHANGED active_players

\* Faulty: the returned tiles are put back before the replacements are drawn.
ExchangeReturnsFirst(p, T) ==
  LET n == Cardinality(T)
  IN  /\ MayAct(p)
      /\ T # {} /\ T \subseteq racks[p]
      /\ Len(bag) >= MinExchange
      /\ \E back \in Orders(T) :
           /\ bag' = WithoutTop(bag \o back, n)
           /\ racks' = [racks EXCEPT ![p] = (@ \ T) \cup TopTiles(bag \o back, n)]
      /\ consecutive_passes' = 0
      /\ active_player' = NextTurn(active_players, p)
      /\ GameGoesOn
      /\ UNCHANGED <<active_players, board, scores>>

\* The replacements are drawn before the returned tiles go back into the bag,
\* on its drawing end.
Exchange(p, T) ==
  LET n == Cardinality(T)
  IN  /\ MayAct(p)
      /\ T # {} /\ T \subseteq racks[p]
      /\ Len(bag) >= MinExchange
      /\ \E back \in Orders(T) : bag' = WithoutTop(bag, n) \o back
      /\ racks' = [racks EXCEPT ![p] = (@ \ T) \cup TopTiles(bag, n)]
      /\ consecutive_passes' = 0
      /\ active_player' = NextTurn(active_players, p)
      /\ GameGoesOn
      /\ UNCHANGED <<active_players, board, scores>>

Pass(p) ==
  /\ MayAct(p)
  /\ consecutive_passes' = consecutive_passes + 1
  /\ active_player' = NextTurn(active_players, p)
  /\ \/ /\ consecutive_passes + 1 >= RequiredPasses(active_players)
        /\ GameEnds(PenalisedScores(scores, racks), "ConsecutivePassRounds")
     \/ /\ consecutive_passes + 1 < RequiredPasses(active_players)
        /\ GameGoesOn
        /\ UNCHANGED scores
  /\ UNCHANGED <<active_players, board, racks, bag>>

\* Faulty: a resignation does not restart the count of passes.
ResignKeepsPasses(p) ==
  /\ MayAct(p)
  /\ active_players' = active_players \ {p}
  /\ \/ /\ Cardinality(active_players) = 2
        /\ GameEnds(PenalisedScores(scores, racks), "InsufficientActivePlayers")
        /\ UNCHANGED active_player
     \/ /\ Cardinality(active_players) # 2
        /\ active_player' = NextTurn(active_players', p)
        /\ GameGoesOn
        /\ UNCHANGED scores
  /\ UNCHANGED <<consecutive_passes, board, racks, bag>>

\* A resigned player keeps rack and score; with one player left there is no
\* next turn and the game ends.
Resign(p) ==
  /\ MayAct(p)
  /\ active_players' = active_players \ {p}
  /\ consecutive_passes' = 0
  /\ \/ /\ Cardinality(active_players) = 2
        /\ GameEnds(PenalisedScores(scores, racks), "InsufficientActivePlayers")
        /\ UNCHANGED active_player
     \/ /\ Cardinality(active_players) # 2
        /\ active_player' = NextTurn(active_players', p)
        /\ GameGoesOn
        /\ UNCHANGED scores
  /\ UNCHANGED <<board, racks, bag>>

Next ==
  \E p \in Players :
    \/ \E T \in SUBSET racks[p], score \in MoveScores : Play(p, T, score)
    \/ \E T \in SUBSET racks[p] : Exchange(p, T)
    \/ Pass(p)
    \/ Resign(p)

Spec == Init /\ [][Next]_vars

-----------------------------------------------------------------------------
(* Properties *)

\* Types of the state of an aggregate (GameState in model.rs).
TypeOK ==
  /\ status \in {"Active", "Completed"}
  /\ active_players \subseteq Players
  /\ active_player \in Players
  /\ board \subseteq Tiles
  /\ racks \in [Players -> SUBSET Tiles]
  /\ bag \in Seq(Tiles)
  /\ scores \in [Players -> Nat]
  /\ consecutive_passes \in Nat
  /\ leaders \subseteq Players
  /\ completion_reason \in Reasons \cup {"None"}
  /\ revision \in Nat

\* Tiles are conserved: every physical tile is at exactly one place, in the
\* bag, on one rack or on the board.  The code only checks that no tile is
\* twice (validate_tile_uniqueness); a lost tile would go unnoticed.
TilesConserved ==
  /\ \A i, j \in 1..Len(bag) : bag[i] = bag[j] => i = j
  /\ \A p \in Players : racks[p] \cap BagTiles(bag) = {}
  /\ \A p, q \in Players : p # q => racks[p] \cap racks[q] = {}
  /\ board \cap BagTiles(bag) = {}
  /\ \A p \in Players : board \cap racks[p] = {}
  /\ Tiles = board \cup BagTiles(bag) \cup UNION {racks[p] : p \in Players}

\* Racks stay full for as long as the bag holds a tile, whatever mix of
\* plays, exchanges and resignations came before: the draws of decide_play
\* and decide_exchange are never short by accident.
RacksFullWhileBagLasts ==
  bag # <<>> => \A p \in Players : Cardinality(racks[p]) = RackSize

\* A running game has an opponent for the player to move, and the turn is
\* never stuck on a player who resigned (ensure_turn would refuse every
\* command from then on).
TurnIsPlayable ==
  status = "Active" =>
    /\ active_player \in active_players
    /\ Cardinality(active_players) >= 2

\* The two endings that need no resignation are never missed: while a game
\* runs nobody's rack is empty, and the passes since the last other command
\* are fewer than the ones that end it, also after a resignation lowered
\* the number required.
EndIsNotMissed ==
  status = "Active" =>
    /\ \A p \in Players : racks[p] # {}
    /\ consecutive_passes = 0 \/ consecutive_passes < RequiredPasses(active_players)

\* A resigned player's rack is out of play and their score is untouched until
\* the final settlement, whatever the others do.
ResignedAreOut ==
  [][\A p \in Players \ active_players :
       /\ racks'[p] = racks[p]
       /\ active_player' # p
       /\ status' = "Active" => scores'[p] = scores[p]]_vars

\* An exchange is a real one (decide_exchange draws before apply_event returns
\* the tiles): a turn that ends with nothing played, passed or resigned has put
\* tiles of the rack into the bag, none of them is drawn back in the same step,
\* and rack and bag are as large as before.
ExchangeIsReal ==
  [][LET returned == racks[active_player] \ racks'[active_player]
     IN  (/\ status' = "Active" /\ active_players' = active_players
          /\ board' = board /\ consecutive_passes' = 0)
         => /\ returned # {} /\ returned \subseteq BagTiles(bag')
            /\ Cardinality(racks'[active_player]) = Cardinality(racks[active_player])
            /\ Len(bag') = Len(bag)]_vars
=============================================================================
