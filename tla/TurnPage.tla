------------------------------ MODULE TurnPage ------------------------------
(***************************************************************************)
(* A player composing a turn (packages/app/src/routes.rs, with             *)
(* rack_preferences.rs and move_plans.rs).  A page shows one revision of   *)
(* the game, the player's rack in an order of their own, and a draft; each *)
(* click posts the draft back with the revision it was made on.  What is   *)
(* composed is stored as the player's plan, one per game, whichever tab it *)
(* comes from.  A request reads the game, the rack order and the plan one  *)
(* after the other, so turns committed in between show up in some and not  *)
(* in others.                                                              *)
(*                                                                         *)
(* The rules of a play are those of module Placement; here a play may be   *)
(* refused for its words.  Tiles are numbers, and a rack lists them in     *)
(* ascending order where the player has not said otherwise.                *)
(***************************************************************************)
EXTENDS Integers, Sequences, FiniteSets, FiniteSetsExt

CONSTANTS
  Tabs,
  RackTiles,    \* the tiles that can come to the player's rack
  BlankTiles,   \* the blanks among them
  RackLimit,    \* how many tiles a rack holds
  BoardSquares,
  MinimumForExchange,
  NoTile, NoChoice,
  LastRevision,  \* bound of the exploration: the last revision of the game
  MaxClicks     \* bound of the exploration: forms posted, by all tabs

VARIABLES
  games,        \* the revisions of the game, the last one current
  plan,         \* the table move_plans: [draft, revision], or NoPlan
  order,        \* the table rack_preferences: a sequence of tiles
  page,         \* what each tab shows, or NoPage
  req,          \* the request each tab waits for, or NoRequest
  clicks

turnVars == <<games, plan, order, page, req, clicks>>

ASSUME RackAssumption ==
  /\ RackTiles \subseteq Nat /\ IsFiniteSet(RackTiles) /\ BlankTiles \subseteq RackTiles
  /\ RackLimit \in Nat \ {0} /\ MinimumForExchange \in Nat
\* No tile is an Option<TileId> that is None.
ASSUME NoTileAssumption == NoTile \notin RackTiles

Current == games[Len(games)]
NoPlan == [revision |-> -1]
NoPage == [revision |-> -1]
NoRequest == [kind |-> "none"]

-----------------------------------------------------------------------------
(* Drafts *)

\* TurnDraft and TurnMode; letter says whether a letter was chosen for a blank.
EmptyDraft ==
  [selected |-> NoTile, letter |-> FALSE, placements |-> {}, rackTile |-> NoTile,
   exchange |-> {}, mode |-> "Play"]

HasComposedTurnInput(d) ==
  d.letter \/ d.placements # {} \/ d.exchange # {} \/ d.mode # "Play"

\* Faulty: keeps a placement whose square was taken.
ReconcileKeepsSquares(g, d) ==
  LET waits == ~g.myTurn /\ d.mode # "Play"
      held(t) == IF t \in g.rack THEN t ELSE NoTile
  IN  [selected |-> held(d.selected),
       letter |-> d.letter /\ (d.selected = NoTile \/ d.selected \in g.rack),
       placements |-> {p \in d.placements : p.tile \in g.rack},
       rackTile |-> held(d.rackTile),
       exchange |-> IF waits THEN {} ELSE d.exchange \cap g.rack,
       mode |-> IF waits THEN "Play" ELSE d.mode]

\* reconcile_draft: tiles that left the rack and squares that were taken are
\* dropped, and a turn-ending mode when the turn has gone.
ReconcileDraft(g, d) ==
  LET waits == ~g.myTurn /\ d.mode # "Play"
      held(t) == IF t \in g.rack THEN t ELSE NoTile
  IN  [selected |-> held(d.selected),
       letter |-> d.letter /\ (d.selected = NoTile \/ d.selected \in g.rack),
       placements |-> {p \in d.placements : p.tile \in g.rack /\ p.square \notin g.board},
       rackTile |-> held(d.rackTile),
       exchange |-> IF waits THEN {} ELSE d.exchange \cap g.rack,
       mode |-> IF waits THEN "Play" ELSE d.mode]

\* Faulty: a tile picked in the rack stays picked.
BeginActionKeepsPick(d, action) == d

\* TurnDraft::begin_action.
BeginAction(d, action) ==
  IF action \in {"PICK_RACK_TILE", "SWAP_RACK_TILES", "SHUFFLE_RACK", "ZOOM"}
    THEN d ELSE [d EXCEPT !.rackTile = NoTile]

PlacementsWithout(d, tile) == {p \in d.placements : p.tile # tile}

\* The tests of game_compose_route that answer with a message and the draft as
\* it is, in the order of the code: the game is over, the turn is not the
\* player's, and what the action itself asks for.
Refused(form, d, g, shown) ==
  LET action == form.action
  IN  \/ g.completed /\ action # "ZOOM"
      \/ ~g.myTurn /\ action \in {"BEGIN_EXCHANGE", "TOGGLE_EXCHANGE", "REVIEW_EXCHANGE",
                                  "CONFIRM_PASS", "CONFIRM_RESIGN"}
      \/ action \in {"CHOOSE_TILE", "TOGGLE_EXCHANGE"} /\ form.tile \notin g.rack
      \/ action = "PICK_RACK_TILE" /\ form.tile \notin shown
      \/ action = "SWAP_RACK_TILES"
           /\ d.rackTile # form.tile /\ ~({d.rackTile, form.tile} \subseteq shown)
      \/ action = "REVIEW_EXCHANGE" /\ d.exchange = {}
      \/ /\ action = "PLACE_TILE"
         /\ \/ d.selected = NoTile
            \/ form.square \in g.board
            \/ \E p \in d.placements : p.square = form.square /\ p.tile # d.selected
            \/ d.selected \in BlankTiles \cap g.rack /\ ~d.letter

\* What the action makes of the draft.
Edited(form, d, g) ==
  CASE form.action = "CHOOSE_TILE" -> [d EXCEPT !.selected = form.tile, !.letter = FALSE]
    [] form.action = "CHOOSE_BLANK_LETTER" -> [d EXCEPT !.letter = TRUE]
    [] form.action = "CANCEL_TILE_PICK" ->
         [d EXCEPT !.selected = NoTile, !.letter = FALSE, !.rackTile = NoTile]
    [] form.action = "PLACE_TILE" ->
         [d EXCEPT !.placements = PlacementsWithout(d, d.selected)
                     \cup {[tile |-> d.selected, square |-> form.square,
                            lettered |-> d.selected \in BlankTiles \cap g.rack]},
                   !.selected = NoTile, !.letter = FALSE]
    [] form.action = "REMOVE_TILE" ->
         [d EXCEPT !.placements = PlacementsWithout(d, form.tile),
                   !.selected = form.tile, !.letter = FALSE]
    [] form.action = "PICK_RACK_TILE" ->
         [d EXCEPT !.rackTile = form.tile, !.selected = form.tile]
    [] form.action = "SWAP_RACK_TILES" ->
         IF d.rackTile = form.tile THEN [d EXCEPT !.selected = form.tile]
         ELSE [d EXCEPT !.rackTile = NoTile, !.selected = NoTile]
    [] form.action = "BEGIN_EXCHANGE" ->
         [d EXCEPT !.mode = "Exchange", !.selected = NoTile, !.placements = {}]
    [] form.action = "TOGGLE_EXCHANGE" ->
         [d EXCEPT !.exchange = IF form.tile \in @ THEN @ \ {form.tile} ELSE @ \cup {form.tile}]
    [] form.action = "REVIEW_EXCHANGE" -> [d EXCEPT !.mode = "ConfirmExchange"]
    [] form.action = "CONFIRM_PASS" -> [d EXCEPT !.mode = "ConfirmPass"]
    [] form.action = "CONFIRM_RESIGN" -> [d EXCEPT !.mode = "ConfirmResign"]
    [] form.action = "CANCEL_MODE" -> [d EXCEPT !.mode = "Play", !.exchange = {}]
    [] form.action = "CLEAR" -> EmptyDraft
    [] OTHER -> d

-----------------------------------------------------------------------------
(* The order of the rack *)

TilesOf(s) == {s[i] : i \in DOMAIN s}

AscendingTiles(tiles) ==
  CHOOSE s \in [1..Cardinality(tiles) -> tiles] :
    TilesOf(s) = tiles /\ \A i, j \in DOMAIN s : i < j => s[i] < s[j]

\* The tiles of s that are on the rack, in the order of s.
OnRack(s, rack) ==
  LET kept[n \in 0..Len(s)] ==
        IF n = 0 THEN <<>>
        ELSE IF s[n] \in rack THEN Append(kept[n - 1], s[n]) ELSE kept[n - 1]
  IN  kept[Len(s)]

\* Faulty: tiles that are new to the rack are not appended.
ReconcileWithoutNew(preferred, rack) == OnRack(preferred, rack)

\* reconcile_rack_order; the sequences it is given list no tile twice.
ReconcileRackOrder(preferred, rack) ==
  OnRack(preferred, rack) \o AscendingTiles(rack \ TilesOf(preferred))

\* swap_rack_tiles.
SwapRackTiles(s, a, b) ==
  [i \in DOMAIN s |-> IF s[i] = a THEN b ELSE IF s[i] = b THEN a ELSE s[i]]

\* shuffle_rack_order may give any order.
ShufflesOf(s) == {p \in [DOMAIN s -> TilesOf(s)] : TilesOf(p) = TilesOf(s)}

-----------------------------------------------------------------------------
(* What a page offers *)

Form(action) == [action |-> action]
TileForm(action, tile) == [action |-> action, tile |-> tile]

\* visual_rack: the tiles of the order that the page's game has on the rack.
ShownRack(p) == OnRack(p.order, games[p.revision].rack)

\* rack_action.
RackAction(d) ==
  IF d.mode = "Exchange" THEN "TOGGLE_EXCHANGE"
  ELSE IF d.rackTile # NoTile THEN "SWAP_RACK_TILES" ELSE "PICK_RACK_TILE"

\* blank_letter_picker_open.
PickerOpen(g, d) == ~d.letter /\ d.selected \in BlankTiles \cap g.rack

\* visual_board: a drafted tile is taken back, an open square is played on.
BoardForms(g, d) ==
  {TileForm("REMOVE_TILE", p.tile) : p \in d.placements}
    \cup {[action |-> "PLACE_TILE", square |-> s] :
            s \in BoardSquares \ (g.board \cup {p.square : p \in d.placements})}

\* visual_turn_actions and the actions of a player who waits.
ActionForms(g, d) ==
  LET mine == ~g.completed /\ g.myTurn
      plays == ~mine \/ d.mode = "Play"
      offered(action, condition) == IF condition THEN {Form(action)} ELSE {}
  IN  offered("SHUFFLE_RACK", ~g.completed /\ plays)
        \cup offered("CLEAR", ~g.completed /\ plays /\ d.placements # {})
        \cup offered("BEGIN_EXCHANGE",
                     mine /\ plays /\ Cardinality(g.bag) >= MinimumForExchange)
        \cup offered("CONFIRM_PASS", mine /\ plays)
        \cup offered("CONFIRM_RESIGN", mine /\ plays)
        \cup offered("REVIEW_EXCHANGE", mine /\ d.mode = "Exchange")
        \cup offered("CANCEL_MODE", mine /\ d.mode # "Play")

\* The forms of a page that are posted to the compose route.
ComposeForms(p) ==
  LET g == games[p.revision]
      d == p.draft
  IN  {Form("ZOOM")} \cup BoardForms(g, d) \cup ActionForms(g, d)
        \cup (IF ~g.completed \/ d.mode = "Play"
                THEN {TileForm(RackAction(d), t) : t \in TilesOf(ShownRack(p))} ELSE {})
        \cup (IF PickerOpen(g, d)
                THEN {Form("CANCEL_TILE_PICK"), Form("CHOOSE_BLANK_LETTER")} ELSE {})

\* The command the turn form of a page holds, or NoChoice:
\* visual_turn_actions, confirmed_command_forms and PendingMoveForm::game_command.
TurnCommand(p) ==
  LET g == games[p.revision]
      d == p.draft
  IN  IF g.completed \/ ~g.myTurn THEN NoChoice
      ELSE CASE d.mode = "Play" /\ d.placements # {} ->
                  [name |-> "PLAY", placements |-> d.placements]
             [] d.mode = "ConfirmExchange" /\ d.exchange # {} ->
                  [name |-> "EXCHANGE", tiles |-> d.exchange]
             [] d.mode = "ConfirmPass" -> [name |-> "PASS"]
             [] d.mode = "ConfirmResign" -> [name |-> "RESIGN"]
             [] OTHER -> NoChoice

-----------------------------------------------------------------------------
(* The game *)

Fits(placements, g) ==
  \A p \in placements : p.tile \in g.rack /\ p.square \notin g.board

Draws(bag, n) == kSubset(IF Cardinality(bag) < n THEN Cardinality(bag) ELSE n, bag)

\* The games an accepted command can lead to.
AfterCommand(g, command) ==
  CASE command.name = "PLAY" ->
         IF ~Fits(command.placements, g) THEN {}
         ELSE LET used == {p.tile : p \in command.placements}
              IN  {[g EXCEPT !.rack = (@ \ used) \cup drawn, !.bag = @ \ drawn, !.myTurn = FALSE,
                             !.board = @ \cup {p.square : p \in command.placements},
                             !.completed = (g.rack \ used) \cup drawn = {}] :
                     drawn \in Draws(g.bag, Cardinality(used))}
    [] command.name = "EXCHANGE" ->
         IF ~(command.tiles \subseteq g.rack) \/ Cardinality(g.bag) < MinimumForExchange THEN {}
         ELSE {[g EXCEPT !.rack = (@ \ command.tiles) \cup drawn, !.myTurn = FALSE,
                         !.bag = (@ \ drawn) \cup command.tiles] :
                 drawn \in Draws(g.bag, Cardinality(command.tiles))}
    [] command.name = "PASS" -> {[g EXCEPT !.myTurn = FALSE]}
    [] OTHER -> {[g EXCEPT !.completed = TRUE]}

\* Another player plays on some square or on none, and the turn comes round.
OthersMove ==
  /\ ~Current.myTurn /\ ~Current.completed /\ Len(games) < LastRevision
  /\ \E squares \in {{}} \cup {{s} : s \in BoardSquares \ Current.board} :
       games' = Append(games, [Current EXCEPT !.board = @ \cup squares, !.myTurn = TRUE])
  /\ UNCHANGED <<plan, order, page, req, clicks>>

-----------------------------------------------------------------------------
(* Requests *)

TurnInit ==
  /\ games \in {<<[rack |-> rack, bag |-> RackTiles \ rack, board |-> {},
                   myTurn |-> myTurn, completed |-> FALSE]>> :
                  rack \in kSubset(RackLimit, RackTiles), myTurn \in BOOLEAN}
  /\ plan = NoPlan /\ order = <<>>
  /\ page = [t \in Tabs |-> NoPage] /\ req = [t \in Tabs |-> NoRequest]
  /\ clicks = 0

Request(kind, phase) ==
  [kind |-> kind, phase |-> phase, draft |-> EmptyDraft, expected |-> 0, revision |-> 0,
   order |-> <<>>, form |-> NoChoice, reloads |-> FALSE, rearranged |-> FALSE]

\* A request begins with load_authorized_game_page, whose reading of the game is
\* part of the step that sends it: nothing a request does comes before it.

\* game_route.
Open(t) ==
  /\ req[t] = NoRequest
  /\ req' = [req EXCEPT ![t] = [Request("open", "order") EXCEPT !.revision = Len(games)]]
  /\ UNCHANGED <<games, plan, order, page, clicks>>

Click(t, request) ==
  /\ req[t] = NoRequest /\ page[t] # NoPage /\ clicks < MaxClicks
  /\ clicks' = clicks + 1
  /\ req' = [req EXCEPT ![t] = [request EXCEPT !.expected = page[t].revision,
                                               !.draft = page[t].draft,
                                               !.rearranged = page[t].rearranged]]
  /\ UNCHANGED <<games, plan, order, page>>

\* A form of the page is posted to game_compose_route or to game_turn_route.
Compose(t) ==
  page[t] # NoPage /\ \E form \in ComposeForms(page[t]) :
    Click(t, [Request("compose", "order") EXCEPT !.form = form, !.revision = Len(games)])
SubmitTurn(t) ==
  /\ page[t] # NoPage /\ TurnCommand(page[t]) # NoChoice
  /\ Click(t, [Request("turn", "commit") EXCEPT !.form = TurnCommand(page[t])])

At(t, kinds, phase) == req[t].kind \in kinds /\ req[t].phase = phase

\* The page that answers a request.
Show(t, draft) ==
  /\ page' = [page EXCEPT ![t] = [revision |-> req[t].revision, order |-> req[t].order,
                                  draft |-> draft, rearranged |-> req[t].rearranged]]
  /\ req' = [req EXCEPT ![t] = NoRequest]

\* load_authorized_game_page: the game, and later, from a game recovered once
\* more, the order of the rack.
ReadGame(t) ==
  /\ At(t, {"compose"}, "game")
  /\ req' = [req EXCEPT ![t].revision = Len(games), ![t].phase = "order"]
  /\ UNCHANGED <<games, plan, order, page, clicks>>

ReadOrder(t) ==
  /\ At(t, {"open", "compose", "turn"}, "order")
  /\ LET shown == [req[t] EXCEPT !.order = ReconcileRackOrder(order, Current.rack)]
     IN  IF req[t].kind = "turn"
           THEN /\ page' = [page EXCEPT ![t] =
                     [revision |-> shown.revision, order |-> shown.order,
                      draft |-> EmptyDraft, rearranged |-> FALSE]]
                /\ req' = [req EXCEPT ![t] = NoRequest]
           ELSE /\ req' = [req EXCEPT ![t] = [shown EXCEPT !.phase = "handle"]]
                /\ UNCHANGED page
  /\ UNCHANGED <<games, plan, order, clicks>>

\* load_move_plan; when it fails, the player counts as having no plan.
LoadedPlans == {plan, NoPlan}

\* The draft of the plan, brought into line with the game that was read.
StoredDraft(t, loaded) ==
  ReconcileDraft(games[req[t].revision], IF loaded = NoPlan THEN EmptyDraft ELSE loaded.draft)

Persists(t, draft) ==
  /\ req' = [req EXCEPT ![t].draft = draft, ![t].phase = "persist", ![t].rearranged = FALSE]
  /\ UNCHANGED page

\* game_route: the plan is stored again when it was made on an older revision.
ShowStored(t) ==
  /\ At(t, {"open"}, "handle")
  /\ \E loaded \in LoadedPlans :
       IF loaded # NoPlan /\ loaded.revision < req[t].revision
         THEN Persists(t, StoredDraft(t, loaded)) ELSE Show(t, StoredDraft(t, loaded))
  /\ UNCHANGED <<games, plan, order, clicks>>

\* game_compose_route on a page of an older revision: the stored plan, and not
\* the draft that was posted, is what is shown.
ShowStale(t) ==
  /\ At(t, {"compose"}, "handle") /\ ~req[t].reloads
  /\ req[t].expected # req[t].revision
  /\ \E loaded \in LoadedPlans : Persists(t, StoredDraft(t, loaded))
  /\ UNCHANGED <<games, plan, order, clicks>>

Rearranges(form, d) ==
  \/ form.action = "SHUFFLE_RACK"
  \/ form.action = "SWAP_RACK_TILES" /\ d.rackTile # form.tile

\* game_compose_route: what a click on a current page does.
Handle(t) ==
  /\ At(t, {"compose"}, "handle") /\ ~req[t].reloads
  /\ req[t].expected = req[t].revision
  /\ LET g == games[req[t].revision]
         form == req[t].form
         d == BeginAction(req[t].draft, form.action)
     IN  CASE Refused(form, d, g, TilesOf(req[t].order)) -> Show(t, d)
           [] ~Refused(form, d, g, TilesOf(req[t].order)) /\ Rearranges(form, d) ->
                req' = [req EXCEPT ![t].draft = d, ![t].phase = "save"] /\ UNCHANGED page
           [] ~Refused(form, d, g, TilesOf(req[t].order)) /\ ~Rearranges(form, d) ->
                IF form.action = "SWAP_RACK_TILES" THEN Show(t, Edited(form, d, g))
                ELSE /\ req' = [req EXCEPT ![t].draft = Edited(form, d, g),
                                           ![t].phase = "persist"]
                     /\ UNCHANGED page
  /\ UNCHANGED <<games, plan, order, clicks>>

\* save_rack_order, with a game recovered once more, and the page is loaded
\* again; or it fails, and the draft is shown as it was.
SaveOrder(t) ==
  /\ At(t, {"compose"}, "save")
  /\ \/ /\ \E wanted \in
             IF req[t].form.action = "SHUFFLE_RACK" THEN ShufflesOf(req[t].order)
             ELSE {SwapRackTiles(req[t].order, req[t].draft.rackTile, req[t].form.tile)} :
             order' = ReconcileRackOrder(wanted, Current.rack)
        /\ req' = [req EXCEPT ![t].draft = Edited(req[t].form, @, Current),
                              ![t].phase = "game", ![t].reloads = TRUE]
        /\ UNCHANGED page
     \/ Show(t, req[t].draft) /\ UNCHANGED order
  /\ UNCHANGED <<games, plan, clicks>>

\* The reloaded page shows the draft without reconciling it; a shuffle stores
\* it under the revision that was loaded.
ShowRearranged(t) ==
  /\ At(t, {"compose"}, "handle") /\ req[t].reloads
  /\ LET moved == req[t].rearranged \/ req[t].revision # req[t].expected
     IN  IF req[t].form.action = "SHUFFLE_RACK"
           THEN /\ req' = [req EXCEPT ![t].phase = "persist", ![t].rearranged = moved]
                /\ UNCHANGED page
           ELSE /\ page' = [page EXCEPT ![t] =
                     [revision |-> req[t].revision, order |-> req[t].order,
                      draft |-> req[t].draft, rearranged |-> moved]]
                /\ req' = [req EXCEPT ![t] = NoRequest]
  /\ UNCHANGED <<games, plan, order, clicks>>

\* persist_draft; the page is shown whether or not it succeeds.
PersistDraft(t) ==
  /\ At(t, {"open", "compose"}, "persist")
  /\ plan' \in {plan, IF HasComposedTurnInput(req[t].draft)
                        THEN [revision |-> req[t].revision, draft |-> req[t].draft] ELSE NoPlan}
  /\ Show(t, req[t].draft)
  /\ UNCHANGED <<games, order, clicks>>

\* Faulty: takes a turn made on an older revision.
AcceptsLate(t) == ~Current.completed /\ Current.myTurn

\* The dispatcher and the command service (modules LiveUpdates and Commands).
Accepts(t) == req[t].expected = Len(games) /\ ~Current.completed /\ Current.myTurn

\* The turn is committed; or it is also committed and the answer is an error,
\* "The turn could not be persisted", that leaves the page as it is.
CommitTurn(t) ==
  /\ At(t, {"turn"}, "commit") /\ Accepts(t) /\ Len(games) < LastRevision
  /\ \E g \in AfterCommand(Current, req[t].form) : games' = Append(games, g)
  /\ \/ req' = [req EXCEPT ![t].phase = "clear"]
     \/ req' = [req EXCEPT ![t] = NoRequest]
  /\ UNCHANGED <<plan, order, page, clicks>>

\* turn_rejection: a message on the page, which stays.
RejectTurn(t) ==
  /\ At(t, {"turn"}, "commit")
  /\ req' = [req EXCEPT ![t] = NoRequest]
  /\ UNCHANGED <<games, plan, order, page, clicks>>

\* clear_move_plan after an accepted turn, whose failure is ignored, and the
\* game is read.
ClearPlan(t) ==
  /\ At(t, {"turn"}, "clear")
  /\ plan' \in {plan, NoPlan}
  /\ req' = [req EXCEPT ![t].phase = "order", ![t].revision = Len(games)]
  /\ UNCHANGED <<games, order, page, clicks>>

\* A query fails, or the answer is lost: the tab still shows what it showed.  A
\* request lost before it wrote anything was as well never sent.
Lose(t) ==
  /\ req[t] # NoRequest
  /\ req[t].reloads \/ (req[t].kind = "turn" /\ req[t].phase # "commit")
  /\ req' = [req EXCEPT ![t] = NoRequest]
  /\ UNCHANGED <<games, plan, order, page, clicks>>

TurnNext ==
  \/ OthersMove
  \/ \E t \in Tabs :
       \/ Open(t) \/ Compose(t) \/ SubmitTurn(t) \/ ReadGame(t) \/ ReadOrder(t)
       \/ ShowStored(t) \/ ShowStale(t) \/ Handle(t) \/ SaveOrder(t) \/ ShowRearranged(t)
       \/ PersistDraft(t) \/ CommitTurn(t) \/ RejectTurn(t) \/ ClearPlan(t) \/ Lose(t)

TurnSpec == TurnInit /\ [][TurnNext]_turnVars

-----------------------------------------------------------------------------
(* Properties *)

IsCurrent(t) == page[t] # NoPage /\ page[t].revision = Len(games)

\* A page of the current game shows every tile of the rack, once, although the
\* order of the rack is stored with one rack, read with a second one and shown
\* with a third, and other tabs rearrange it and play from it meanwhile.
RackIsShownWhole ==
  \A t \in Tabs : IsCurrent(t) =>
    /\ TilesOf(ShownRack(page[t])) = Current.rack
    /\ Len(ShownRack(page[t])) = Cardinality(Current.rack)

\* A page of the current game plans only with tiles that are on the rack and
\* on squares that are open, whatever turns were committed since the plan was
\* begun and from whichever tab it was stored.  The exception are pages whose
\* game changed while the rack was rearranged: they are shown without
\* reconciling the draft.
PlansFitTheGame ==
  \A t \in Tabs : IsCurrent(t) /\ ~page[t].rearranged =>
    /\ Fits(page[t].draft.placements, Current)
    /\ page[t].draft.exchange \subseteq Current.rack

\* No sequence of clicks, reloads and stored plans mixes up a draft: the tile
\* picked for a swap is the selected one, no tile and no square is planned
\* twice, only a blank is planned with a letter, and tiles are marked for an
\* exchange only while one is composed.
DraftsAreCoherent ==
  \A d \in {page[t].draft : t \in {t \in Tabs : page[t] # NoPage}}
             \cup (IF plan = NoPlan THEN {} ELSE {plan.draft}) :
    /\ d.rackTile # NoTile => d.selected = d.rackTile
    /\ \A p, q \in d.placements : p.tile = q.tile \/ p.square = q.square => p = q
    /\ \A p \in d.placements : p.lettered => p.tile \in BlankTiles
    /\ d.exchange # {} => d.mode \in {"Exchange", "ConfirmExchange"}
    /\ d.mode = "Exchange" => d.placements = {} /\ d.selected = NoTile

\* A turn is committed only from a page that shows the game it is committed
\* to, and it is what that page showed: not the draft of another tab, and not a
\* second time by a player who was told that it could not be persisted.
TurnsAreSeenFirst ==
  [][\A t \in Tabs : At(t, {"turn"}, "commit") /\ req'[t] # req[t] /\ games' # games =>
       /\ IsCurrent(t)
       /\ req[t].form = TurnCommand(page[t])]_turnVars
=============================================================================
