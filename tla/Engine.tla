------------------------------- MODULE Engine -------------------------------
(***************************************************************************)
(* The event-sourced aggregate: a command is decided against the recovered *)
(* state (decide_command, gameplay.rs), its events are appended to the     *)
(* journal, applied one by one (apply_event, engine.rs) and the result is  *)
(* stored as a snapshot (journal.rs), all in the transaction of            *)
(* submit_in_transaction (game_service.rs).  Nothing is kept in memory     *)
(* between commands: every command recovers the game from what is stored.  *)
(*                                                                         *)
(* Shown to implement the module Game, with the recovered state as the     *)
(* refinement mapping.                                                     *)
(***************************************************************************)
EXTENDS GameRules, SequencesExt

CONSTANT ReplayError   \* what apply_event returns instead of a state

\* Tile ids are numbers: returned tiles are listed in the order of their ids.
ASSUME TileIdsAssumption == Tiles \subseteq Nat

VARIABLES
  journal,   \* game_journal rows of this game, in revision order
  snapshot   \* latest row of game_snapshots, NoSnapshot before the first

vars == <<journal, snapshot>>

NoSnapshot == [revision |-> 0]

\* GameState in model.rs.
State ==
  [status : {"Active", "Completed"}, active_players : SUBSET Players, active_player : Players,
   board : SUBSET Tiles, racks : [Players -> SUBSET Tiles], bag : Seq(Tiles),
   scores : [Players -> Nat], scoreless_turns : Nat, consecutive_passes : Nat,
   leaders : SUBSET Players, completion_reason : CompletionReasons \cup {"None"}, revision : Nat]

ASSUME ReplayErrorAssumption == ReplayError \notin State

-----------------------------------------------------------------------------
(* Applying events: engine.rs *)

\* apply_event of GameStarted; `first` plays first.
StartState(e) ==
  [status |-> "Active", active_players |-> Players, active_player |-> e.first_player,
   board |-> {}, racks |-> e.racks, bag |-> e.bag, scores |-> [p \in Players |-> 0],
   scoreless_turns |-> 0, consecutive_passes |-> 0, leaders |-> {},
   completion_reason |-> "None", revision |-> 1]

\* take_drawn_tiles: the event names the tiles in the order they are popped.
Pops(bag, drawn) ==
  /\ Len(drawn) <= Len(bag)
  /\ \A i \in 1..Len(drawn) : drawn[i] = bag[Len(bag) - i + 1]

IsTurnOf(g, p) == p \in g.active_players /\ g.active_player = p

\* No error of apply_active_event for this event.
Fits(g, e) ==
  /\ g.status = "Active"
  /\ CASE e.type = "TilesPlayed" ->
            /\ IsTurnOf(g, e.player)
            /\ e.placements \subseteq g.racks[e.player]
            /\ Pops(g.bag, e.drawn)
       [] e.type = "TilesExchanged" ->
            /\ IsTurnOf(g, e.player)
            /\ ToSet(e.returned) \subseteq g.racks[e.player]
            /\ Pops(g.bag, e.drawn)
       [] e.type \in {"TurnPassed", "GameResigned"} -> IsTurnOf(g, e.player)
       [] e.type = "GameCompleted" ->
            DOMAIN e.scores = Players /\ e.leaders = Leaders(e.scores)

Refilled(g, e, spent) == [g.racks EXCEPT ![e.player] = (@ \ spent) \cup ToSet(e.drawn)]

Applied(g, e) ==
  CASE e.type = "TilesPlayed" ->
         [g EXCEPT !.racks = Refilled(g, e, e.placements),
                   !.board = @ \cup e.placements,
                   !.bag = WithoutTop(@, Len(e.drawn)),
                   !.scores[e.player] = @ + e.score,
                   !.scoreless_turns = 0, !.consecutive_passes = 0,
                   !.active_player = NextTurn(g.active_players, @)]
    [] e.type = "TilesExchanged" ->
         [g EXCEPT !.racks = Refilled(g, e, ToSet(e.returned)),
                   !.bag = WithoutTop(@, Len(e.drawn)) \o e.returned,
                   !.scoreless_turns = 0, !.consecutive_passes = 0,
                   !.active_player = NextTurn(g.active_players, @)]
    [] e.type = "TurnPassed" ->
         [g EXCEPT !.scoreless_turns = @ + 1, !.consecutive_passes = @ + 1,
                   !.active_player = NextTurn(g.active_players, @)]
    [] e.type = "GameResigned" ->
         LET left == g.active_players \ {e.player}
         IN  [g EXCEPT !.active_players = left,
                       !.consecutive_passes = 0,
                       !.active_player = IF Cardinality(left) >= 2 THEN NextTurn(left, @) ELSE @]
    [] e.type = "GameCompleted" ->
         [g EXCEPT !.scores = e.scores, !.leaders = e.leaders,
                   !.completion_reason = e.reason, !.status = "Completed"]

\* validate_tile_uniqueness: no tile is at two places.
TilesUnique(g) ==
  /\ \A i, j \in 1..Len(g.bag) : g.bag[i] = g.bag[j] => i = j
  /\ g.board \cap BagTiles(g.bag) = {}
  /\ \A p \in Players :
       /\ g.racks[p] \cap (g.board \cup BagTiles(g.bag)) = {}
       /\ \A q \in Players \ {p} : g.racks[p] \cap g.racks[q] = {}

ApplyEvent(g, e) ==
  IF g = ReplayError \/ ~Fits(g, e) THEN ReplayError
  ELSE LET after == [Applied(g, e) EXCEPT !.revision = @ + 1]
       IN  IF TilesUnique(after) THEN after ELSE ReplayError

\* The state after the first n events, for every n.
ApplyAll(g, events) ==
  LET after[n \in 0..Len(events)] ==
        IF n = 0 THEN g ELSE ApplyEvent(after[n - 1], events[n])
  IN  after[Len(events)]

-----------------------------------------------------------------------------
(* Deciding commands: gameplay.rs *)

Completed(scores, reason) ==
  [type |-> "GameCompleted", scores |-> scores, leaders |-> Leaders(scores), reason |-> reason]

\* Faulty: the tiles are taken from the front of the bag.
DrawnFromFront(g, n) == SubSeq(g.bag, 1, DrawCount(g.bag, n))

\* The first n tiles of the bag counted from its end, in that order.
Drawn(g, n) == SubSeq(Reverse(g.bag), 1, DrawCount(g.bag, n))

DecidePlay(g, p, cmd) ==
  LET n     == Cardinality(cmd.tiles)
      drawn == Drawn(g, n)
      play  == [type |-> "TilesPlayed", player |-> p, placements |-> cmd.tiles,
                score |-> cmd.score, drawn |-> drawn]
      out   == Len(g.bag) <= n /\ Cardinality(g.racks[p]) - n + Len(drawn) = 0
  IN  IF out THEN <<play, Completed(RackOutScores(g.scores, g.racks, p, cmd.score), "RackOut")>>
             ELSE <<play>>

DecideExchange(g, p, cmd) ==
  <<[type |-> "TilesExchanged", player |-> p,
     returned |-> Ascending(cmd.tiles),
     drawn |-> Drawn(g, Cardinality(cmd.tiles))]>>

DecidePass(g, p) ==
  LET pass == [type |-> "TurnPassed", player |-> p]
  IN  IF g.consecutive_passes + 1 >= RequiredPasses(g.active_players)
      THEN <<pass, Completed(PenalisedScores(g.scores, g.racks), "ConsecutivePassRounds")>>
      ELSE <<pass>>

DecideResignation(g, p) ==
  LET resign == [type |-> "GameResigned", player |-> p]
  IN  IF Cardinality(g.active_players) = 2
      THEN <<resign, Completed(PenalisedScores(g.scores, g.racks), "InsufficientActivePlayers")>>
      ELSE <<resign>>

\* Faulty: an exchange from a bag that has run out.
LegalWithEmptyBag(g, p, cmd) ==
  /\ g.status = "Active" /\ p \in g.active_players /\ g.active_player = p
  /\ cmd.type \in {"Play", "Exchange"} => cmd.tiles # {} /\ cmd.tiles \subseteq g.racks[p]

\* The checks that make decide_command return an error.
Legal(g, p, cmd) ==
  /\ g.status = "Active" /\ p \in g.active_players /\ g.active_player = p
  /\ cmd.type \in {"Play", "Exchange"} => cmd.tiles # {} /\ cmd.tiles \subseteq g.racks[p]
  /\ cmd.type = "Exchange" => Len(g.bag) >= MinExchange

Decide(g, p, cmd) ==
  CASE cmd.type = "Play"     -> DecidePlay(g, p, cmd)
    [] cmd.type = "Exchange" -> DecideExchange(g, p, cmd)
    [] cmd.type = "Pass"     -> DecidePass(g, p)
    [] cmd.type = "Resign"   -> DecideResignation(g, p)

-----------------------------------------------------------------------------
(* Storing and recovering: journal.rs *)

\* GameStateV3 has no scoreless_turns: decoding restores it from the passes.
EncodedState(g) == [f \in DOMAIN g \ {"scoreless_turns"} |-> g[f]]

\* Faulty: the count of passes is lost with the legacy field.
DecodedWithoutPasses(row) ==
  [f \in DOMAIN row \cup {"scoreless_turns"} |->
     IF f \in {"scoreless_turns", "consecutive_passes"} THEN 0 ELSE row[f]]

DecodedState(row) ==
  [f \in DOMAIN row \cup {"scoreless_turns"} |->
     IF f = "scoreless_turns" THEN row.consecutive_passes ELSE row[f]]

\* load_events(game, after)
EventsAfter(after) == SubSeq(journal, after + 1, Len(journal))

\* replay of a whole journal.
Replay(events) == ApplyAll(StartState(Head(events)), Tail(events))

\* recover_game: the latest snapshot and the tail after its revision.
Recovered ==
  IF snapshot = NoSnapshot THEN Replay(journal)
  ELSE ApplyAll(DecodedState(snapshot), EventsAfter(snapshot.revision))

-----------------------------------------------------------------------------
\* initialize_game: each seat in turn is dealt from the end of the bag.
Started(s, first) ==
  [type |-> "GameStarted", first_player |-> first,
   racks |-> [p \in Players |->
                BagTiles(SubSeq(Reverse(s), (p - 1) * RackSize + 1, p * RackSize))],
   bag |-> WithoutTop(s, NumPlayers * RackSize)]

\* A game is created with its start event and no snapshot.
Init ==
  /\ \E s \in Shuffles, first \in Players : journal = <<Started(s, first)>>
  /\ snapshot = NoSnapshot

\* submit_in_transaction: any error rolls everything back.
Submit(p, cmd) ==
  LET current == Recovered
      events  == Decide(current, p, cmd)
      after   == ApplyAll(current, events)
  IN  /\ current.revision < MaxRevision
      /\ Legal(current, p, cmd)
      /\ after # ReplayError
      /\ journal' = journal \o events
      /\ snapshot' = EncodedState(after)

GameCommands(g, p) ==
  LET subsets == SUBSET g.racks[p]
  IN  [type : {"Play"}, tiles : subsets, score : MoveScores]
      \cup [type : {"Exchange"}, tiles : subsets]
      \cup [type : {"Pass", "Resign"}]

Next == \E p \in Players : \E cmd \in GameCommands(Recovered, p) : Submit(p, cmd)

Spec == Init /\ [][Next]_vars
=============================================================================
