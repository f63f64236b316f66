------------------------------- MODULE MCGame -------------------------------
(***************************************************************************)
(* Three parts of one game that share no state; part, chosen at the start, *)
(* says which of them a behaviour is about, and the others rest.           *)
(*   - "game": three players with racks of two tiles.                      *)
(*   - "one tab", "two tabs": a player who composes turns, with a rack of  *)
(*     two tiles, one of them a blank, and one more tile in the bag.  With *)
(*     one tab four clicks are explored; with two tabs, from the plan of   *)
(*     an earlier visit and with one move less, two clicks when the turn   *)
(*     is the player's at the start and one when it is not.                *)
(*   - "definitions": one word played, asked for by three requests.        *)
(***************************************************************************)
EXTENDS Game, TurnPage, Definitions, TLC

VARIABLE part

\* Eight tiles: two stay in the bag after the deal, so one exchange is
\* possible before the bag runs out and rack-outs are a few plays away.
MCTiles == 1..8
MCPoints == [t \in MCTiles |-> t % 3]
MCRackPoints == [S \in SUBSET MCTiles |-> MapThenSumSet(LAMBDA t : MCPoints[t], S)]
MCShuffles == {<<1, 2, 3, 4, 5, 6, 7, 8>>, <<3, 8, 6, 1, 4, 7, 2, 5>>}

TabSymmetry == Permutations(Tabs)

\* A plan with one tile placed and the blank picked, made on revision 1.
EarlierPlan ==
  [revision |-> 1,
   draft |-> [EmptyDraft EXCEPT
                !.placements = {[tile |-> 1, square |-> CHOOSE s \in BoardSquares : TRUE,
                                 lettered |-> FALSE]},
                !.selected = 2, !.rackTile = 2]]

StartsWith(plans, turns, clicked) ==
  /\ games \in {<<[rack |-> {1, 2}, bag |-> RackTiles \ {1, 2}, board |-> {},
                   myTurn |-> myTurn, completed |-> FALSE]>> : myTurn \in turns}
  /\ plan \in plans /\ order = <<>>
  /\ page = [t \in Tabs |-> NoPage] /\ req = [t \in Tabs |-> NoRequest]
  /\ clicks = clicked

\* The game of a part that is not about it: the first deal.
GameRests ==
  /\ Init
  /\ racks = [p \in Players |-> DealtRack(<<1, 2, 3, 4, 5, 6, 7, 8>>, p)]
  /\ active_player = 1

PartsInit ==
  /\ DefinitionsInit
  /\ \/ part = "game" /\ Init /\ StartsWith({NoPlan}, {TRUE}, MaxClicks)
     \/ part = "one tab" /\ GameRests /\ StartsWith({NoPlan}, BOOLEAN, 0)
     \/ part = "two tabs" /\ GameRests /\ StartsWith({EarlierPlan}, {TRUE}, 2)
     \/ part = "two tabs" /\ GameRests /\ StartsWith({EarlierPlan}, {FALSE}, 3)
     \/ part = "definitions" /\ GameRests /\ StartsWith({NoPlan}, {TRUE}, MaxClicks)

GamePart == part = "game" /\ Next /\ UNCHANGED <<turnVars, definitionVars>>

\* A completed game, and one at the bound of its length, accepts no command.
GameOver ==
  /\ part = "game" /\ ~\E p \in Players : MayAct(p)
  /\ UNCHANGED <<vars, turnVars, definitionVars>>

TurnPart ==
  /\ part \in {"one tab", "two tabs"} /\ TurnNext
  /\ part = "two tabs" => Len(games') < LastRevision
  /\ part = "one tab" => \E t \in Tabs : req'[t] = NoRequest /\ page'[t] = NoPage
  /\ UNCHANGED <<vars, definitionVars>>

DefinitionsPart ==
  part = "definitions" /\ DefinitionsNext /\ UNCHANGED <<vars, turnVars>>

PartsNext ==
  /\ UNCHANGED part
  /\ GamePart \/ GameOver \/ TurnPart \/ DefinitionsPart

PartsSpec == PartsInit /\ [][PartsNext]_<<part, vars, turnVars, definitionVars>>

=============================================================================
