---------------------------- MODULE EngineProofs ----------------------------
(***************************************************************************)
(* Proofs about the event-sourced game (Engine, EngineProperties), for     *)
(* every number of players, every set of tiles and every rule profile.     *)
(*                                                                         *)
(* A recovered game is the result of a recursion over a journal of any     *)
(* length.  Its two equations, ReplayOfNothing and ReplayOfOneMore, come   *)
(* from the existence of the recursive function, by least counterexample.  *)
(*                                                                         *)
(* The last part is about the games of older releases (Payloads): rows of  *)
(* several versions say what one journal says, and replay as it does.      *)
(***************************************************************************)
EXTENDS EngineProperties, Payloads, RulesProofs

-----------------------------------------------------------------------------
(* Applying events one by one *)

\* f holds the states after 0, 1, ..., Len(es) of the events, from g on.
AfterEach(f, g, es) ==
  f = [n \in 0..Len(es) |-> IF n = 0 THEN g ELSE ApplyEvent(f[n - 1], es[n])]

\* There is a function from the numbers of events to the states they lead to.
LEMMA AfterEachExists ==
  ASSUME NEW E, NEW es \in Seq(E), NEW g
  PROVE  \E f : AfterEach(f, g, es)
<1> DEFINE Upto(f, m) == f = [n \in 0..m |-> IF n = 0 THEN g ELSE ApplyEvent(f[n - 1], es[n])]
           Bad == {m \in 0..Len(es) : ~ \E f : Upto(f, m)}
<1>1. Len(es) \in Nat
  BY LenProperties
<1>2. \E f : Upto(f, 0)
  <2> WITNESS [n \in 0..0 |-> g]
  <2> QED
    OBVIOUS
<1>3. ASSUME NEW m \in 1..Len(es), NEW f, Upto(f, m - 1)
      PROVE  \E h : Upto(h, m)
  <2> DEFINE h == [n \in 0..m |-> IF n = m THEN ApplyEvent(f[m - 1], es[m]) ELSE f[n]]
  <2>1. \A n \in 0..(m - 1) : f[n] = IF n = 0 THEN g ELSE ApplyEvent(f[n - 1], es[n])
    <3> HIDE DEF h
    <3> QED
      BY <1>3
  <2>2. ASSUME NEW n \in 0..m
        PROVE  h[n] = IF n = 0 THEN g ELSE ApplyEvent(h[n - 1], es[n])
    <3>1. CASE n = m
      <4>1. h[n] = ApplyEvent(f[m - 1], es[m]) /\ m - 1 \in 0..m /\ m - 1 # m
        BY <3>1, <1>1
      <4>2. h[m - 1] = f[m - 1]
        BY <4>1
      <4> QED
        BY <4>1, <4>2, <3>1
    <3>2. CASE n = 0
      BY <3>2, <2>1
    <3>3. CASE n # 0 /\ n # m
      <4>1. n \in 0..(m - 1) /\ n - 1 \in 0..m /\ n - 1 # m
        BY <3>3, <1>1
      <4>2. h[n] = f[n] /\ h[n - 1] = f[n - 1]
        BY <4>1, <3>3
      <4> HIDE DEF h
      <4> QED
        BY <4>1, <4>2, <3>3, <2>1
    <3> QED
      BY <3>1, <3>2, <3>3
  <2>3. h = [n \in 0..m |-> h[n]]
    OBVIOUS
  <2> HIDE DEF h
  <2>4. Upto(h, m)
    BY <2>2, <2>3
  <2> QED
    BY <2>4
<1>4. Bad = {}
  <2> SUFFICES ASSUME Bad # {} PROVE FALSE
    OBVIOUS
  <2> HIDE DEF Upto
  <2>1. PICK m \in Bad : \A k \in Bad : m <= k
    <3>1. Bad \in SUBSET Nat
      BY <1>1
    <3> HIDE DEF Bad
    <3> QED
      BY <3>1, LeastNatural
  <2>2. m \in 1..Len(es)
    BY <1>2, <1>1
  <2>3. m - 1 \in 0..Len(es) /\ ~(m <= m - 1)
    BY <2>2, <1>1
  <2>4. \E f : Upto(f, m - 1)
    BY <2>1, <2>3
  <2> QED
    BY <2>4, <2>2, <1>3
<1> HIDE DEF Upto
<1>5. \E f : Upto(f, Len(es))
  BY <1>4, <1>1
<1> QED
  BY <1>5 DEF AfterEach, Upto

\* One more event leaves the states before it as they were.
LEMMA AfterEachAgrees ==
  ASSUME NEW E, NEW es \in Seq(E), NEW e \in E, NEW g, NEW f, NEW h,
         AfterEach(f, g, es), AfterEach(h, g, Append(es, e))
  PROVE  \A n \in 0..Len(es) : h[n] = f[n]
<1> DEFINE Bad == {n \in 0..Len(es) : h[n] # f[n]}
           more == Append(es, e)
<1>1. /\ Len(es) \in Nat /\ Len(more) = Len(es) + 1
      /\ \A n \in 1..Len(es) : more[n] = es[n]
  BY LenProperties, AppendProperties
<1> HIDE DEF more
<1>2. /\ \A n \in 0..Len(es) : f[n] = IF n = 0 THEN g ELSE ApplyEvent(f[n - 1], es[n])
      /\ \A n \in 0..Len(more) : h[n] = IF n = 0 THEN g ELSE ApplyEvent(h[n - 1], more[n])
  BY DEF AfterEach, more
<1>3. ASSUME Bad # {}
      PROVE  FALSE
  <2>1. PICK n \in Bad : \A k \in Bad : n <= k
    <3>1. Bad \in SUBSET Nat
      BY <1>1
    <3> HIDE DEF Bad
    <3> QED
      BY <3>1, <1>3, LeastNatural
  <2>2. n # 0
    BY <1>1, <1>2
  <2>3. n \in 1..Len(es) /\ n - 1 \in 0..Len(es) /\ n \in 0..Len(more) /\ ~(n <= n - 1)
    BY <2>2, <1>1
  <2>4. h[n - 1] = f[n - 1]
    BY <2>1, <2>3
  <2>5. h[n] = f[n]
    BY <2>3, <2>4, <1>1, <1>2
  <2> QED
    BY <2>5
<1> QED
  BY <1>3

\* ApplyAll gives the last of these states.
LEMMA ApplyAllIsLast ==
  ASSUME NEW E, NEW es \in Seq(E), NEW g
  PROVE  \E f : AfterEach(f, g, es) /\ ApplyAll(g, es) = f[Len(es)]
<1> DEFINE f == CHOOSE f : AfterEach(f, g, es)
<1>1. AfterEach(f, g, es)
  BY AfterEachExists
<1>2. ApplyAll(g, es) = f[Len(es)]
  BY DEF ApplyAll, AfterEach
<1> QED
  BY <1>1, <1>2

\* No events change nothing.
LEMMA ReplayOfNothing ==
  ASSUME NEW g
  PROVE  ApplyAll(g, <<>>) = g
<1>1. << >> \in Seq({}) /\ Len(<< >>) = 0
  OBVIOUS
<1>2. PICK f : AfterEach(f, g, <<>>) /\ ApplyAll(g, <<>>) = f[Len(<<>>)]
  BY <1>1, ApplyAllIsLast
<1> QED
  BY <1>1, <1>2 DEF AfterEach

\* One more event is applied to what the others give: replay is incremental,
\* for a journal of any length.
LEMMA ReplayOfOneMore ==
  ASSUME NEW E, NEW es \in Seq(E), NEW e \in E, NEW g
  PROVE  ApplyAll(g, Append(es, e)) = ApplyEvent(ApplyAll(g, es), e)
<1> DEFINE more == Append(es, e)
<1>1. /\ Len(es) \in Nat /\ more \in Seq(E) /\ Len(more) = Len(es) + 1
      /\ more[Len(es) + 1] = e
  BY LenProperties, AppendProperties
<1>2. PICK f : AfterEach(f, g, es) /\ ApplyAll(g, es) = f[Len(es)]
  BY ApplyAllIsLast
<1>3. PICK h : AfterEach(h, g, more) /\ ApplyAll(g, more) = h[Len(more)]
  BY <1>1, ApplyAllIsLast
<1>4. h[Len(es)] = f[Len(es)]
  BY <1>1, <1>2, <1>3, AfterEachAgrees
<1>5. h[Len(more)] = ApplyEvent(h[Len(more) - 1], more[Len(more)])
  <2> HIDE DEF more
  <2>1. Len(more) \in 0..Len(more) /\ Len(more) # 0
    BY <1>1
  <2> QED
    BY <2>1, <1>3 DEF AfterEach
<1>6. Len(more) - 1 = Len(es)
  BY <1>1
<1> QED
  BY <1>1, <1>2, <1>3, <1>4, <1>5, <1>6

-----------------------------------------------------------------------------
(* What one event changes *)

\* A state with the event applied, its tiles not yet checked.
Stepped(g, e) == [Applied(g, e) EXCEPT !.revision = @ + 1]

\* What every event but GameCompleted leaves alone.
GoesOn(g, h) ==
  /\ h.revision = g.revision + 1
  /\ h.status = g.status /\ h.leaders = g.leaders
  /\ h.completion_reason = g.completion_reason

StateFields ==
  {"status", "active_players", "active_player", "board", "racks", "bag", "scores",
   "scoreless_turns", "consecutive_passes", "leaders", "completion_reason", "revision"}

\* Every state has the same fields.
LEMMA StateDomain == \A g \in State : DOMAIN g = StateFields
BY DEF State, StateFields

\* Two states that agree on everything but the revision.
SameExceptRevision(g, h) ==
  /\ h.status = g.status /\ h.active_players = g.active_players
  /\ h.active_player = g.active_player /\ h.board = g.board /\ h.racks = g.racks
  /\ h.bag = g.bag /\ h.scores = g.scores /\ h.scoreless_turns = g.scoreless_turns
  /\ h.consecutive_passes = g.consecutive_passes /\ h.leaders = g.leaders
  /\ h.completion_reason = g.completion_reason

\* Counting an event changes the revision only.
LEMMA RevisionCounts ==
  ASSUME NEW g \in State
  PROVE  LET h == [g EXCEPT !.revision = @ + 1]
         IN  h \in State /\ h.revision = g.revision + 1 /\ SameExceptRevision(g, h)
<1> DEFINE h == [g EXCEPT !.revision = @ + 1]
<1>1. h = [status |-> g.status, active_players |-> g.active_players,
           active_player |-> g.active_player, board |-> g.board, racks |-> g.racks,
           bag |-> g.bag, scores |-> g.scores, scoreless_turns |-> g.scoreless_turns,
           consecutive_passes |-> g.consecutive_passes, leaders |-> g.leaders,
           completion_reason |-> g.completion_reason, revision |-> g.revision + 1]
  BY StateDomain DEF StateFields
<1> HIDE DEF h
<1>2. h \in State /\ h.revision = g.revision + 1
  BY <1>1 DEF State
<1>3. SameExceptRevision(g, h)
  BY <1>1 DEF SameExceptRevision
<1> QED
  BY <1>2, <1>3 DEF h

\* TilesPlayed
AfterPlay(g, e, h) ==
  /\ GoesOn(g, h)
  /\ h.active_players = g.active_players
  /\ h.active_player = NextTurn(g.active_players, g.active_player)
  /\ h.board = g.board \cup e.placements
  /\ h.racks = Refilled(g, e, e.placements)
  /\ h.bag = WithoutTop(g.bag, Len(e.drawn))
  /\ h.scores = [g.scores EXCEPT ![e.player] = @ + e.score]
  /\ h.consecutive_passes = 0
  /\ h.scoreless_turns = 0

\* What applying TilesPlayed does.
LEMMA PlayStep ==
  ASSUME NEW g \in State, NEW e \in Events, e.type = "TilesPlayed", Fits(g, e)
  PROVE  Stepped(g, e) \in State /\ AfterPlay(g, e, Stepped(g, e))
<1> DEFINE h == Stepped(g, e)
<1>1. /\ e.player \in Players /\ e.placements \in SUBSET Tiles /\ e.score \in Nat
      /\ e.drawn \in Seq(Tiles)
  BY DEF Events
<1>2. IsTurnOf(g, e.player) /\ Pops(g.bag, e.drawn)
  BY DEF Fits
<1>3. NextTurn(g.active_players, g.active_player) \in Players
  BY <1>2, NextTurnIsActive DEF State, IsTurnOf
<1>4. WithoutTop(g.bag, Len(e.drawn)) \in Seq(Tiles) /\ ToSet(e.drawn) \in SUBSET Tiles
  <2>1. Len(e.drawn) \in 0..Len(g.bag)
    BY <1>1, <1>2, LenProperties DEF Pops, State
  <2>2. WithoutTop(g.bag, Len(e.drawn)) \in Seq(Tiles)
    BY <2>1, DrawSplitsBag DEF State
  <2>3. ToSet(e.drawn) \in SUBSET Tiles
    BY <1>1, ElementOfSeq, LenProperties DEF ToSet
  <2> QED
    BY <2>2, <2>3
<1>5. Applied(g, e) = 
         [g EXCEPT !.racks = Refilled(g, e, e.placements),
                   !.board = @ \cup e.placements,
                   !.bag = WithoutTop(@, Len(e.drawn)),
                   !.scores[e.player] = @ + e.score,
                   !.scoreless_turns = 0, !.consecutive_passes = 0,
                   !.active_player = NextTurn(g.active_players, @)]
  BY DEF Applied
<1>6. Applied(g, e) =
         [status |-> g.status, active_players |-> g.active_players,
          active_player |-> NextTurn(g.active_players, g.active_player),
          board |-> g.board \cup e.placements,
          racks |-> Refilled(g, e, e.placements),
          bag |-> WithoutTop(g.bag, Len(e.drawn)),
          scores |-> [g.scores EXCEPT ![e.player] = @ + e.score],
          scoreless_turns |-> 0, consecutive_passes |-> 0, leaders |-> g.leaders,
          completion_reason |-> g.completion_reason, revision |-> g.revision]
  BY <1>5, StateDomain DEF StateFields
<1>7. Applied(g, e) \in State
  <2>1. Refilled(g, e, e.placements) \in [Players -> SUBSET Tiles]
    BY <1>1, <1>4 DEF Refilled, State
  <2>2. [g.scores EXCEPT ![e.player] = @ + e.score] \in [Players -> Nat]
    BY <1>1 DEF State
  <2> QED
    BY <1>6, <1>1, <1>3, <1>4, <2>1, <2>2 DEF State
<1>8. /\ h \in State /\ h.revision = Applied(g, e).revision + 1
      /\ SameExceptRevision(Applied(g, e), h)
  BY <1>7, RevisionCounts DEF Stepped
<1> HIDE DEF h
<1> QED
  BY <1>6, <1>8 DEF AfterPlay, SameExceptRevision, GoesOn, h

\* TilesExchanged
ReturnedBag(g, e) == WithoutTop(g.bag, Len(e.drawn)) \o e.returned

AfterExchange(g, e, h) ==
  /\ GoesOn(g, h)
  /\ h.active_players = g.active_players
  /\ h.active_player = NextTurn(g.active_players, g.active_player)
  /\ h.board = g.board
  /\ h.racks = Refilled(g, e, ToSet(e.returned))
  /\ h.bag = ReturnedBag(g, e)
  /\ h.scores = g.scores
  /\ h.consecutive_passes = 0
  /\ h.scoreless_turns = 0

\* What applying TilesExchanged does.
LEMMA ExchangeStep ==
  ASSUME NEW g \in State, NEW e \in Events, e.type = "TilesExchanged", Fits(g, e)
  PROVE  Stepped(g, e) \in State /\ AfterExchange(g, e, Stepped(g, e))
<1> DEFINE h == Stepped(g, e)
<1>1. /\ e.player \in Players /\ e.returned \in Seq(Tiles)
      /\ e.drawn \in Seq(Tiles)
  BY DEF Events
<1>2. IsTurnOf(g, e.player) /\ Pops(g.bag, e.drawn)
  BY DEF Fits
<1>3. NextTurn(g.active_players, g.active_player) \in Players
  BY <1>2, NextTurnIsActive DEF State, IsTurnOf
<1>4. WithoutTop(g.bag, Len(e.drawn)) \in Seq(Tiles) /\ ToSet(e.drawn) \in SUBSET Tiles
  <2>1. Len(e.drawn) \in 0..Len(g.bag)
    BY <1>1, <1>2, LenProperties DEF Pops, State
  <2>2. WithoutTop(g.bag, Len(e.drawn)) \in Seq(Tiles)
    BY <2>1, DrawSplitsBag DEF State
  <2>3. ToSet(e.drawn) \in SUBSET Tiles
    BY <1>1, ElementOfSeq, LenProperties DEF ToSet
  <2> QED
    BY <2>2, <2>3
<1>5. Applied(g, e) = 
         [g EXCEPT !.racks = Refilled(g, e, ToSet(e.returned)),
                   !.bag = ReturnedBag(g, e),
                   !.scoreless_turns = 0, !.consecutive_passes = 0,
                   !.active_player = NextTurn(g.active_players, @)]
  BY DEF Applied, ReturnedBag
<1>6. Applied(g, e) =
         [status |-> g.status, active_players |-> g.active_players,
          active_player |-> NextTurn(g.active_players, g.active_player),
          board |-> g.board, racks |-> Refilled(g, e, ToSet(e.returned)),
          bag |-> ReturnedBag(g, e),
          scores |-> g.scores, scoreless_turns |-> 0, consecutive_passes |-> 0,
          leaders |-> g.leaders, completion_reason |-> g.completion_reason,
          revision |-> g.revision]
  BY <1>5, StateDomain DEF StateFields
<1>7. Applied(g, e) \in State
  <2>1. Refilled(g, e, ToSet(e.returned)) \in [Players -> SUBSET Tiles]
    BY <1>1, <1>4 DEF Refilled, State
  <2>2. ReturnedBag(g, e) \in Seq(Tiles)
    BY <1>1, <1>4, PutBack DEF ReturnedBag
  <2> QED
    BY <1>6, <1>1, <1>3, <1>4, <2>1, <2>2 DEF State
<1>8. /\ h \in State /\ h.revision = Applied(g, e).revision + 1
      /\ SameExceptRevision(Applied(g, e), h)
  BY <1>7, RevisionCounts DEF Stepped
<1> HIDE DEF h
<1> QED
  BY <1>6, <1>8 DEF AfterExchange, SameExceptRevision, GoesOn, h

\* TurnPassed
AfterPass(g, e, h) ==
  /\ GoesOn(g, h)
  /\ h.active_players = g.active_players
  /\ h.active_player = NextTurn(g.active_players, g.active_player)
  /\ h.board = g.board
  /\ h.racks = g.racks
  /\ h.bag = g.bag
  /\ h.scores = g.scores
  /\ h.consecutive_passes = g.consecutive_passes + 1
  /\ h.scoreless_turns = g.scoreless_turns + 1

\* What applying TurnPassed does.
LEMMA PassStep ==
  ASSUME NEW g \in State, NEW e \in Events, e.type = "TurnPassed", Fits(g, e)
  PROVE  Stepped(g, e) \in State /\ AfterPass(g, e, Stepped(g, e))
<1> DEFINE h == Stepped(g, e)
<1>2. IsTurnOf(g, e.player)
  BY DEF Fits
<1>3. NextTurn(g.active_players, g.active_player) \in Players
  BY <1>2, NextTurnIsActive DEF State, IsTurnOf
<1>5. Applied(g, e) = 
         [g EXCEPT !.scoreless_turns = @ + 1, !.consecutive_passes = @ + 1,
                   !.active_player = NextTurn(g.active_players, @)]
  BY DEF Applied
<1>6. Applied(g, e) =
         [status |-> g.status, active_players |-> g.active_players,
          active_player |-> NextTurn(g.active_players, g.active_player),
          board |-> g.board, racks |-> g.racks, bag |-> g.bag, scores |-> g.scores,
          scoreless_turns |-> g.scoreless_turns + 1,
          consecutive_passes |-> g.consecutive_passes + 1, leaders |-> g.leaders,
          completion_reason |-> g.completion_reason, revision |-> g.revision]
  BY <1>5, StateDomain DEF StateFields
<1>7. Applied(g, e) \in State
  BY <1>6, <1>3 DEF State
<1>8. /\ h \in State /\ h.revision = Applied(g, e).revision + 1
      /\ SameExceptRevision(Applied(g, e), h)
  BY <1>7, RevisionCounts DEF Stepped
<1> HIDE DEF h
<1> QED
  BY <1>6, <1>8 DEF AfterPass, SameExceptRevision, GoesOn, h

\* GameResigned: whose turn it is once player p has left.
TurnAfterLeaving(g, p) ==
  LET left == g.active_players \ {p}
  IN  IF Cardinality(left) >= 2 THEN NextTurn(left, g.active_player) ELSE g.active_player

AfterResignation(g, e, h) ==
  /\ GoesOn(g, h)
  /\ h.active_players = g.active_players \ {e.player}
  /\ h.active_player = TurnAfterLeaving(g, e.player)
  /\ h.board = g.board
  /\ h.racks = g.racks
  /\ h.bag = g.bag
  /\ h.scores = g.scores
  /\ h.consecutive_passes = 0

\* What applying GameResigned does.
LEMMA ResignStep ==
  ASSUME NEW g \in State, NEW e \in Events, e.type = "GameResigned", Fits(g, e)
  PROVE  Stepped(g, e) \in State /\ AfterResignation(g, e, Stepped(g, e))
<1> DEFINE h == Stepped(g, e)
<1>3. TurnAfterLeaving(g, e.player) \in Players
  <2> DEFINE left == g.active_players \ {e.player}
  <2>1. left \in SUBSET Players /\ g.active_player \in Players
    BY DEF State
  <2>2. Cardinality(left) >= 2 => left # {}
    BY FS_EmptySet
  <2> QED
    BY <2>1, <2>2, NextTurnIsActive DEF TurnAfterLeaving
<1>5. Applied(g, e) = 
         [g EXCEPT !.active_players = g.active_players \ {e.player},
                   !.consecutive_passes = 0,
                   !.active_player = TurnAfterLeaving(g, e.player)]
  BY DEF Applied, TurnAfterLeaving
<1>6. Applied(g, e) =
         [status |-> g.status, active_players |-> g.active_players \ {e.player},
          active_player |-> TurnAfterLeaving(g, e.player), board |-> g.board,
          racks |-> g.racks, bag |-> g.bag, scores |-> g.scores,
          scoreless_turns |-> g.scoreless_turns, consecutive_passes |-> 0,
          leaders |-> g.leaders, completion_reason |-> g.completion_reason,
          revision |-> g.revision]
  BY <1>5, StateDomain DEF StateFields
<1>7. Applied(g, e) \in State
  BY <1>6, <1>3 DEF State
<1>8. /\ h \in State /\ h.revision = Applied(g, e).revision + 1
      /\ SameExceptRevision(Applied(g, e), h)
  BY <1>7, RevisionCounts DEF Stepped
<1> HIDE DEF h
<1> QED
  BY <1>6, <1>8 DEF AfterResignation, SameExceptRevision, GoesOn, h

\* GameCompleted
AfterCompletion(g, e, h) ==
  /\ h.revision = g.revision + 1
  /\ h.status = "Completed"
  /\ h.active_players = g.active_players
  /\ h.active_player = g.active_player
  /\ h.board = g.board
  /\ h.racks = g.racks
  /\ h.bag = g.bag
  /\ h.scores = e.scores
  /\ h.consecutive_passes = g.consecutive_passes
  /\ h.leaders = e.leaders
  /\ h.completion_reason = e.reason

\* What applying GameCompleted does.
LEMMA CompletionStep ==
  ASSUME NEW g \in State, NEW e \in Events, e.type = "GameCompleted", Fits(g, e)
  PROVE  Stepped(g, e) \in State /\ AfterCompletion(g, e, Stepped(g, e))
<1> DEFINE h == Stepped(g, e)
<1>1. e.scores \in [Players -> Nat] /\ e.leaders \in SUBSET Players /\ e.reason \in CompletionReasons
  BY DEF Events
<1>5. Applied(g, e) = 
         [g EXCEPT !.scores = e.scores, !.leaders = e.leaders,
                   !.completion_reason = e.reason, !.status = "Completed"]
  BY DEF Applied
<1>6. Applied(g, e) =
         [status |-> "Completed", active_players |-> g.active_players,
          active_player |-> g.active_player, board |-> g.board, racks |-> g.racks,
          bag |-> g.bag, scores |-> e.scores,
          scoreless_turns |-> g.scoreless_turns,
          consecutive_passes |-> g.consecutive_passes, leaders |-> e.leaders,
          completion_reason |-> e.reason, revision |-> g.revision]
  BY <1>5, StateDomain DEF StateFields
<1>7. Applied(g, e) \in State
  BY <1>6, <1>1 DEF State
<1>8. /\ h \in State /\ h.revision = Applied(g, e).revision + 1
      /\ SameExceptRevision(Applied(g, e), h)
  BY <1>7, RevisionCounts DEF Stepped
<1> HIDE DEF h
<1> QED
  BY <1>6, <1>8 DEF AfterCompletion, SameExceptRevision, GoesOn, h

\* The events that follow the start of a game.
LaterEvents == {e \in Events : e.type # "GameStarted"}

\* What an event that applies has gone through.
LEMMA AppliedEvent ==
  ASSUME NEW g \in State, NEW e \in LaterEvents, ApplyEvent(g, e) # ReplayError
  PROVE  /\ Fits(g, e)
         /\ ApplyEvent(g, e) = Stepped(g, e)
         /\ Stepped(g, e) \in State
         /\ Stepped(g, e).revision = g.revision + 1
         /\ TilesUnique(Stepped(g, e))
<1>1. Fits(g, e) /\ ApplyEvent(g, e) = Stepped(g, e) /\ TilesUnique(Stepped(g, e))
  BY DEF ApplyEvent, Stepped
<1>2. e.type \in {"TilesPlayed", "TilesExchanged", "TurnPassed", "GameResigned", "GameCompleted"}
  BY DEF LaterEvents, Events
<1>3. e \in Events
  BY DEF LaterEvents
<1>4. Stepped(g, e) \in State /\ Stepped(g, e).revision = g.revision + 1
  BY <1>1, <1>2, <1>3, PlayStep, ExchangeStep, PassStep, ResignStep, CompletionStep
     DEF GoesOn, AfterPlay, AfterExchange, AfterPass, AfterResignation, AfterCompletion
<1> QED
  BY <1>1, <1>4

-----------------------------------------------------------------------------
(* The field a snapshot does not keep *)

\* Two states that agree on everything but scoreless_turns.
SameGame(g, h) ==
  /\ h.status = g.status /\ h.active_players = g.active_players
  /\ h.active_player = g.active_player /\ h.board = g.board /\ h.racks = g.racks
  /\ h.bag = g.bag /\ h.scores = g.scores /\ h.consecutive_passes = g.consecutive_passes
  /\ h.leaders = g.leaders /\ h.completion_reason = g.completion_reason
  /\ h.revision = g.revision

\* A state as it is decoded from its snapshot.
Restored(g) == [g EXCEPT !.scoreless_turns = g.consecutive_passes]

\* A snapshot gives the game it was taken of, but for what it restores afresh.
LEMMA RestoredIsSame ==
  ASSUME NEW g \in State
  PROVE  /\ Restored(g) \in State /\ SameGame(g, Restored(g))
         /\ DecodedState(EncodedState(g)) = Restored(g)
<1> DEFINE h == Restored(g)
<1>1. h = [status |-> g.status, active_players |-> g.active_players,
           active_player |-> g.active_player, board |-> g.board, racks |-> g.racks,
           bag |-> g.bag, scores |-> g.scores, scoreless_turns |-> g.consecutive_passes,
           consecutive_passes |-> g.consecutive_passes, leaders |-> g.leaders,
           completion_reason |-> g.completion_reason, revision |-> g.revision]
  BY StateDomain DEF StateFields, Restored
<1>2. DecodedState(EncodedState(g)) = h
  <2> DEFINE row == EncodedState(g)
  <2>1. row = [f \in StateFields \ {"scoreless_turns"} |-> g[f]]
    BY StateDomain DEF EncodedState
  <2>2. row.consecutive_passes = g.consecutive_passes
    BY <2>1 DEF StateFields
  <2>3. DOMAIN row \cup {"scoreless_turns"} = StateFields
    BY <2>1 DEF StateFields
  <2>4. DecodedState(row)
          = [f \in StateFields |-> IF f = "scoreless_turns" THEN g.consecutive_passes ELSE g[f]]
    <3> HIDE DEF row
    <3>1. \A f \in StateFields : f # "scoreless_turns" => row[f] = g[f]
      BY <2>1
    <3> QED
      BY <2>2, <2>3, <3>1 DEF DecodedState
  <2>5. h = [f \in StateFields |-> IF f = "scoreless_turns" THEN g.consecutive_passes ELSE g[f]]
    BY StateDomain DEF Restored
  <2> QED
    BY <2>4, <2>5
<1> HIDE DEF h
<1>3. h \in State
  BY <1>1 DEF State
<1>4. SameGame(g, h)
  BY <1>1 DEF SameGame
<1> QED
  BY <1>2, <1>3, <1>4 DEF h

\* The same game is stored as the same row.
LEMMA SameIsStoredAlike ==
  ASSUME NEW g \in State, NEW h \in State, SameGame(g, h)
  PROVE  EncodedState(g) = EncodedState(h) /\ Restored(g) = Restored(h)
<1>1. \A f \in StateFields \ {"scoreless_turns"} : g[f] = h[f]
  BY DEF SameGame, StateFields
<1>2. EncodedState(g) = EncodedState(h)
  BY <1>1, StateDomain DEF EncodedState
<1> QED
  BY <1>2, RestoredIsSame

\* No rule reads the field: the same event applies to both, or to neither.
LEMMA SameGameGoesOn ==
  ASSUME NEW g \in State, NEW h \in State, SameGame(g, h), NEW e \in LaterEvents,
         ApplyEvent(g, e) # ReplayError
  PROVE  ApplyEvent(h, e) # ReplayError /\ SameGame(ApplyEvent(g, e), ApplyEvent(h, e))
<1>1. /\ Fits(g, e) /\ TilesUnique(Stepped(g, e))
      /\ ApplyEvent(g, e) = Stepped(g, e)
  BY AppliedEvent
<1>2. Fits(h, e)
  BY <1>1 DEF SameGame, Fits, IsTurnOf
<1>3. e \in Events
      /\ e.type \in {"TilesPlayed", "TilesExchanged", "TurnPassed", "GameResigned", "GameCompleted"}
  BY DEF LaterEvents, Events
<1>8. /\ \A S : Refilled(h, e, S) = Refilled(g, e, S)
      /\ ReturnedBag(h, e) = ReturnedBag(g, e)
      /\ TurnAfterLeaving(h, e.player) = TurnAfterLeaving(g, e.player)
  <2>1. \A S : Refilled(h, e, S) = Refilled(g, e, S)
    BY DEF SameGame, Refilled
  <2>2. ReturnedBag(h, e) = ReturnedBag(g, e)
    BY DEF SameGame, ReturnedBag
  <2>3. TurnAfterLeaving(h, e.player) = TurnAfterLeaving(g, e.player)
    BY DEF SameGame, TurnAfterLeaving
  <2> QED
    BY <2>1, <2>2, <2>3
<1>4. SameGame(Stepped(g, e), Stepped(h, e)) /\ Stepped(h, e) \in State
  <2>1. CASE e.type = "TilesPlayed"
    <3>1. /\ Stepped(h, e) \in State
          /\ AfterPlay(g, e, Stepped(g, e)) /\ AfterPlay(h, e, Stepped(h, e))
      BY <1>1, <1>2, <1>3, <2>1, PlayStep
    <3>2. \A a, b : AfterPlay(g, e, a) /\ AfterPlay(h, e, b) => SameGame(a, b)
      BY <1>8 DEF SameGame, GoesOn, AfterPlay
    <3> QED
      BY <3>1, <3>2
  <2>2. CASE e.type = "TilesExchanged"
    <3>1. /\ Stepped(h, e) \in State
          /\ AfterExchange(g, e, Stepped(g, e)) /\ AfterExchange(h, e, Stepped(h, e))
      BY <1>1, <1>2, <1>3, <2>2, ExchangeStep
    <3>2. \A a, b : AfterExchange(g, e, a) /\ AfterExchange(h, e, b) => SameGame(a, b)
      BY <1>8 DEF SameGame, GoesOn, AfterExchange
    <3> QED
      BY <3>1, <3>2
  <2>3. CASE e.type = "TurnPassed"
    <3>1. /\ Stepped(h, e) \in State
          /\ AfterPass(g, e, Stepped(g, e)) /\ AfterPass(h, e, Stepped(h, e))
      BY <1>1, <1>2, <1>3, <2>3, PassStep
    <3>2. \A a, b : AfterPass(g, e, a) /\ AfterPass(h, e, b) => SameGame(a, b)
      BY <1>8 DEF SameGame, GoesOn, AfterPass
    <3> QED
      BY <3>1, <3>2
  <2>4. CASE e.type = "GameResigned"
    <3>1. /\ Stepped(h, e) \in State
          /\ AfterResignation(g, e, Stepped(g, e)) /\ AfterResignation(h, e, Stepped(h, e))
      BY <1>1, <1>2, <1>3, <2>4, ResignStep
    <3>2. \A a, b : AfterResignation(g, e, a) /\ AfterResignation(h, e, b) => SameGame(a, b)
      BY <1>8 DEF SameGame, GoesOn, AfterResignation
    <3> QED
      BY <3>1, <3>2
  <2>5. CASE e.type = "GameCompleted"
    <3>1. /\ Stepped(h, e) \in State
          /\ AfterCompletion(g, e, Stepped(g, e)) /\ AfterCompletion(h, e, Stepped(h, e))
      BY <1>1, <1>2, <1>3, <2>5, CompletionStep
    <3>2. \A a, b : AfterCompletion(g, e, a) /\ AfterCompletion(h, e, b) => SameGame(a, b)
      BY <1>8 DEF SameGame, GoesOn, AfterCompletion
    <3> QED
      BY <3>1, <3>2
  <2> QED
    BY <1>3, <2>1, <2>2, <2>3, <2>4, <2>5
<1>5. TilesUnique(Stepped(h, e))
  BY <1>1, <1>4 DEF SameGame, TilesUnique
<1>6. h # ReplayError
  BY ReplayErrorAssumption
<1>7. ApplyEvent(h, e) = Stepped(h, e)
  BY <1>2, <1>5, <1>6 DEF ApplyEvent, Stepped
<1> QED
  BY <1>1, <1>4, <1>7, ReplayErrorAssumption

-----------------------------------------------------------------------------
(* Replaying a longer journal *)

\* The replay of a journal with one event more.
LEMMA ReplayExtends ==
  ASSUME NEW E, NEW j \in Seq(E), j # <<>>, NEW a \in E
  PROVE  /\ Append(j, a) \in Seq(E) /\ Append(j, a) # <<>>
         /\ j \o <<a>> = Append(j, a)
         /\ Replay(Append(j, a)) = ApplyEvent(Replay(j), a)
<1>1. Append(j, a) \in Seq(E) /\ Append(j, a) # <<>> /\ j \o <<a>> = Append(j, a)
  BY AppendProperties, AppendIsConcat
<1>2. Head(Append(j, a)) = Head(j) /\ Tail(Append(j, a)) = Append(Tail(j), a)
  BY AppendProperties, HeadTailAppend
<1>3. Tail(j) \in Seq(E)
  BY HeadTailProperties
<1> QED
  BY <1>1, <1>2, <1>3, ReplayOfOneMore DEF Replay

\* Two events are appended one after the other.
LEMMA TwoMore ==
  ASSUME NEW E, NEW j \in Seq(E), NEW a \in E, NEW b \in E
  PROVE  j \o <<a, b>> = Append(Append(j, a), b)
BY AppendProperties, ConcatProperties

\* A decision is one event or two.
LEMMA ApplyDecision ==
  ASSUME NEW g, NEW a \in Events, NEW b \in Events
  PROVE  /\ ApplyAll(g, <<a>>) = ApplyEvent(g, a)
         /\ ApplyAll(g, <<a, b>>) = ApplyEvent(ApplyEvent(g, a), b)
<1>1. /\ <<>> \in Seq(Events) /\ <<a>> \in Seq(Events)
      /\ <<a>> = Append(<<>>, a) /\ <<a, b>> = Append(<<a>>, b)
  OBVIOUS
<1>2. ApplyAll(g, Append(<<>>, a)) = ApplyEvent(ApplyAll(g, <<>>), a)
  BY <1>1, ReplayOfOneMore
<1>3. ApplyAll(g, Append(<<a>>, b)) = ApplyEvent(ApplyAll(g, <<a>>), b)
  BY <1>1, ReplayOfOneMore
<1>4. ApplyAll(g, <<>>) = g
  BY ReplayOfNothing
<1> QED
  BY <1>1, <1>2, <1>3, <1>4

-----------------------------------------------------------------------------
(* What the rules decide *)

\* The tiles a command draws are the ones apply_event pops.
LEMMA DrawnPops ==
  ASSUME NEW g \in State, NEW n \in Nat
  PROVE  LET d == Drawn(g, n)
             k == DrawCount(g.bag, n)
         IN  /\ d \in Seq(Tiles) /\ Len(d) = k /\ k \in 0..Len(g.bag)
             /\ Pops(g.bag, d)
             /\ ToSet(d) = TopTiles(g.bag, k)
<1> DEFINE b == g.bag
           k == DrawCount(b, n)
           r == [i \in 1..Len(b) |-> b[Len(b) - i + 1]]
           d == SubSeq(r, 1, k)
<1>1. b \in Seq(Tiles) /\ Len(b) \in Nat /\ \A i \in 1..Len(b) : b[i] \in Tiles
  BY LenProperties, ElementOfSeq DEF State
<1>2. k \in 0..Len(b)
  BY <1>1, DrawCountBound
<1>3. Drawn(g, n) = d
  BY DEF Drawn, Reverse
<1>4. r \in Seq(Tiles) /\ Len(r) = Len(b) /\ \A i \in 1..Len(b) : r[i] = b[Len(b) - i + 1]
  <2>1. \A i \in 1..Len(b) : Len(b) - i + 1 \in 1..Len(b)
    BY <1>1
  <2> QED
    BY <1>1, <2>1
<1> HIDE DEF r, k, b
<1>5. d \in Seq(Tiles) /\ Len(d) = k /\ \A i \in 1..k : d[i] = b[Len(b) - i + 1]
  <2>1. \A i \in 1..k : r[i] \in Tiles /\ i \in 1..Len(b)
    BY <1>1, <1>2, <1>4, ElementOfSeq
  <2>2. /\ d \in Seq(Tiles)
        /\ Len(d) = IF 1 <= k THEN k - 1 + 1 ELSE 0
        /\ \A i \in 1..(k - 1 + 1) : d[i] = r[1 + i - 1]
    BY <2>1, <1>2, <1>4, SubSeqProperties
  <2> QED
    BY <2>1, <2>2, <1>2, <1>4
<1> HIDE DEF d
<1>6. Pops(b, d)
  BY <1>5, <1>2 DEF Pops
<1>7. ToSet(d) = TopTiles(b, k)
  <2>1. ToSet(d) = {d[i] : i \in 1..k}
    <3>1. DOMAIN d = 1..k
      BY <1>5, LenProperties
    <3> QED
      BY <3>1 DEF ToSet
  <2>2. \A i \in 1..k : Len(b) - i + 1 \in (Len(b) - k + 1)..Len(b)
    BY <1>1, <1>2
  <2>3. \A i \in (Len(b) - k + 1)..Len(b) :
          Len(b) - i + 1 \in 1..k /\ Len(b) - (Len(b) - i + 1) + 1 = i
    BY <1>1, <1>2
  <2>4. ToSet(d) \subseteq TopTiles(b, k)
    BY <2>1, <2>2, <1>5 DEF TopTiles
  <2>5. TopTiles(b, k) \subseteq ToSet(d)
    BY <2>1, <2>3, <1>5 DEF TopTiles
  <2> QED
    BY <2>4, <2>5
<1> QED
  BY <1>2, <1>3, <1>5, <1>6, <1>7 DEF b, k

IsAscending(s) == \A i, j \in 1..Len(s) : i < j => s[i] < s[j]

\* Every set of tiles can be listed in the order of their numbers.
LEMMA AscendingExists ==
  ASSUME NEW T \in SUBSET Tiles
  PROVE  Ascending(T) \in Orders(T)
<1> DEFINE Unsorted(S) == ~ \E s \in Orders(S) : IsAscending(s)
           Bad == {Cardinality(S) : S \in {R \in SUBSET Tiles : Unsorted(R)}}
<1>1. ASSUME Bad # {}
      PROVE  FALSE
  <2>1. Bad \in SUBSET Nat
    BY TilesAreFinite
  <2>2. PICK n \in Bad : \A k \in Bad : n <= k
    <3> HIDE DEF Bad
    <3> QED
      BY <2>1, <1>1, LeastNatural
  <2>3. PICK S \in SUBSET Tiles : Unsorted(S) /\ Cardinality(S) = n
    OBVIOUS
  <2>4. n \in Nat /\ IsFiniteSet(S)
    BY <2>3, TilesAreFinite
  <2>5. S # {}
    <3>1. SUFFICES ASSUME S = {} PROVE FALSE
      OBVIOUS
    <3>2. <<>> \in [1..0 -> S] /\ Len(<<>>) = 0
      BY <3>1
    <3>3. Cardinality(S) = 0
      BY <3>1, FS_EmptySet
    <3>4. <<>> \in Orders(S) /\ IsAscending(<<>>)
      BY <3>1, <3>2, <3>3 DEF Orders, BagTiles, IsAscending
    <3> QED
      BY <3>4, <2>3
  <2>6. PICK m \in S : \A x \in S : m <= x
    BY <2>5, LeastNatural, TileIdsAssumption
  <2> DEFINE R == S \ {m}
  <2>7. Cardinality(R) = n - 1 /\ R \in SUBSET Tiles /\ Cardinality(R) \in Nat
    BY <2>3, <2>4, <2>6, FS_RemoveElement, TilesAreFinite
  <2>8. PICK s \in Orders(R) : IsAscending(s)
    <3>1. n - 1 \notin Bad
      BY <2>2, <2>4
    <3> QED
      BY <3>1, <2>7
  <2>9. /\ s \in [1..(n - 1) -> R] /\ Len(s) = n - 1
        /\ R = {s[i] : i \in 1..(n - 1)}
        /\ \A i, j \in 1..(n - 1) : i < j => s[i] < s[j]
    <3>1. s \in [1..Cardinality(R) -> R] /\ BagTiles(s) = R
      BY DEF Orders
    <3>2. s \in [1..(n - 1) -> R]
      BY <3>1, <2>7
    <3>3. Len(s) = n - 1
      BY <3>2, <2>7
    <3> QED
      BY <3>1, <3>2, <3>3, <2>8 DEF BagTiles, IsAscending
  <2> DEFINE h == [i \in 1..n |-> IF i = 1 THEN m ELSE s[i - 1]]
  <2>10. /\ h \in [1..n -> S] /\ Len(h) = n
         /\ h[1] = m /\ 1 \in 1..n
         /\ \A i \in 1..n : i # 1 => h[i] = s[i - 1] /\ i - 1 \in 1..(n - 1)
    <3>1. n >= 1
      BY <2>7, <2>4
    <3>2. \A i \in 1..n : i # 1 => h[i] = s[i - 1] /\ i - 1 \in 1..(n - 1)
      BY <2>4
    <3>3. \A i \in 1..n : h[i] \in S
      BY <3>2, <2>9, <2>6
    <3>4. h[1] = m
      BY <3>1, <2>4
    <3>5. h \in [1..n -> S]
      BY <3>3
    <3>6. Len(h) = n
      BY <3>5, <2>4
    <3> QED
      BY <3>1, <3>2, <3>4, <3>5, <3>6, <2>4
  <2> HIDE DEF h
  <2>11. BagTiles(h) = S
    <3>1. S \subseteq BagTiles(h)
      <4>1. ASSUME NEW x \in R
            PROVE  x \in BagTiles(h)
        <5>1. PICK i \in 1..(n - 1) : s[i] = x
          BY <2>9
        <5>2. i + 1 \in 1..n /\ i + 1 # 1 /\ (i + 1) - 1 = i
          BY <2>4
        <5>3. h[i + 1] = x
          BY <5>1, <5>2, <2>10
        <5> QED
          BY <5>2, <5>3, <2>10 DEF BagTiles
      <4>2. m \in BagTiles(h)
        BY <2>10 DEF BagTiles
      <4> QED
        BY <4>1, <4>2
    <3> QED
      BY <3>1, <2>10 DEF BagTiles
  <2>12. IsAscending(h)
    <3>1. SUFFICES ASSUME NEW i \in 1..n, NEW j \in 1..n, i < j
                   PROVE  h[i] < h[j]
      BY <2>10 DEF IsAscending
    <3>2. j # 1 /\ h[j] = s[j - 1] /\ j - 1 \in 1..(n - 1)
      BY <3>1, <2>10, <2>4
    <3>3. CASE i = 1
      <4>1. h[j] \in R /\ m \in Nat
        BY <3>2, <2>9, TileIdsAssumption
      <4>2. m <= h[j] /\ m # h[j] /\ h[j] \in Nat
        BY <4>1, <2>6, TileIdsAssumption
      <4> QED
        BY <4>1, <4>2, <3>3, <2>10
    <3>4. CASE i # 1
      <4>1. h[i] = s[i - 1] /\ i - 1 \in 1..(n - 1) /\ i - 1 < j - 1
        BY <3>1, <3>4, <2>10, <2>4
      <4> QED
        BY <4>1, <3>2, <2>9
    <3> QED
      BY <3>3, <3>4
  <2>13. h \in Orders(S)
    BY <2>10, <2>11, <2>3 DEF Orders
  <2> QED
    BY <2>12, <2>13, <2>3
<1>2. \E s \in Orders(T) : IsAscending(s)
  BY <1>1
<1> QED
  BY <1>2 DEF Ascending, IsAscending

\* The event of the command itself.
MoveEvent(g, p, cmd) ==
  CASE cmd.type = "Play" ->
         [type |-> "TilesPlayed", player |-> p, placements |-> cmd.tiles,
          score |-> cmd.score, drawn |-> Drawn(g, Cardinality(cmd.tiles))]
    [] cmd.type = "Exchange" ->
         [type |-> "TilesExchanged", player |-> p, returned |-> Ascending(cmd.tiles),
          drawn |-> Drawn(g, Cardinality(cmd.tiles))]
    [] cmd.type = "Pass"   -> [type |-> "TurnPassed", player |-> p]
    [] cmd.type = "Resign" -> [type |-> "GameResigned", player |-> p]

\* The commands that end the game, and the event that says so.
EmptiesRack(g, p, T) ==
  /\ Len(g.bag) <= Cardinality(T)
  /\ Cardinality(g.racks[p]) - Cardinality(T) + DrawCount(g.bag, Cardinality(T)) = 0

Ends(g, p, cmd) ==
  \/ cmd.type = "Play" /\ EmptiesRack(g, p, cmd.tiles)
  \/ cmd.type = "Pass" /\ g.consecutive_passes + 1 >= RequiredPasses(g.active_players)
  \/ cmd.type = "Resign" /\ Cardinality(g.active_players) = 2

Ending(g, p, cmd) ==
  CASE cmd.type = "Play" -> Completed(RackOutScores(g.scores, g.racks, p, cmd.score), "RackOut")
    [] cmd.type = "Pass" -> Completed(PenalisedScores(g.scores, g.racks), "ConsecutivePassRounds")
    [] cmd.type = "Resign" ->
         Completed(PenalisedScores(g.scores, g.racks), "InsufficientActivePlayers")

\* What a command of a player holds.
LEMMA CommandTypes ==
  ASSUME NEW g \in State, NEW p \in Players, NEW cmd \in GameCommands(g, p)
  PROVE  /\ cmd.type \in {"Play", "Exchange", "Pass", "Resign"}
         /\ cmd.type \in {"Play", "Exchange"} =>
              /\ cmd.tiles \in SUBSET Tiles /\ cmd.tiles \subseteq g.racks[p]
              /\ IsFiniteSet(cmd.tiles) /\ Cardinality(cmd.tiles) \in Nat
         /\ cmd.type = "Play" => cmd.score \in MoveScores /\ cmd.score \in Nat
<1>1. g.racks[p] \in SUBSET Tiles
  BY DEF State
<1>2. /\ cmd.type \in {"Play", "Exchange", "Pass", "Resign"}
      /\ cmd.type \in {"Play", "Exchange"} => cmd.tiles \subseteq g.racks[p]
      /\ cmd.type = "Play" => cmd.score \in MoveScores /\ cmd.score \in Nat
  BY ScoresAssumption DEF GameCommands
<1> QED
  BY <1>1, <1>2, TilesAreFinite

\* What a command decides is well formed, whatever the tiles.
LEMMA Decided ==
  ASSUME NEW g \in State, NEW p \in Players, NEW cmd \in GameCommands(g, p)
  PROVE  /\ MoveEvent(g, p, cmd) \in LaterEvents
         /\ MoveEvent(g, p, cmd).player = p
         /\ Ends(g, p, cmd) => Ending(g, p, cmd) \in LaterEvents
         /\ Decide(g, p, cmd) = IF Ends(g, p, cmd)
                                THEN <<MoveEvent(g, p, cmd), Ending(g, p, cmd)>>
                                ELSE <<MoveEvent(g, p, cmd)>>
<1> DEFINE n == Cardinality(cmd.tiles)
<1>1. \A scores \in [Players -> Nat], reason \in CompletionReasons : Completed(scores, reason) \in LaterEvents
  BY DEF Completed, Leaders, LaterEvents, Events
<1>2. /\ g.scores \in [Players -> Nat] /\ g.racks \in [Players -> SUBSET Tiles]
      /\ PenalisedScores(g.scores, g.racks) \in [Players -> Nat]
      /\ \A score \in Nat : RackOutScores(g.scores, g.racks, p, score) \in [Players -> Nat]
  BY SettlementTypes DEF State
<1>3. CASE cmd.type = "Play"
  <2>1. cmd.tiles \in SUBSET Tiles /\ n \in Nat /\ cmd.score \in Nat
    BY <1>3, CommandTypes
  <2>2. Drawn(g, n) \in Seq(Tiles) /\ Len(Drawn(g, n)) = DrawCount(g.bag, n)
    BY <2>1, DrawnPops
  <2>3. MoveEvent(g, p, cmd) \in LaterEvents /\ MoveEvent(g, p, cmd).player = p
    BY <2>1, <2>2, <1>3 DEF MoveEvent, LaterEvents, Events
  <2>4. Ending(g, p, cmd) \in LaterEvents
    BY <2>1, <1>1, <1>2, <1>3 DEF Ending, Reasons, CompletionReasons
  <2>5. Decide(g, p, cmd) = DecidePlay(g, p, cmd)
    BY <1>3 DEF Decide
  <2>6. DecidePlay(g, p, cmd) = IF EmptiesRack(g, p, cmd.tiles)
                                THEN <<MoveEvent(g, p, cmd), Ending(g, p, cmd)>>
                                ELSE <<MoveEvent(g, p, cmd)>>
    BY <2>2, <1>3 DEF DecidePlay, MoveEvent, Ending, EmptiesRack
  <2> QED
    BY <2>3, <2>4, <2>5, <2>6, <1>3 DEF Ends
<1>4. CASE cmd.type = "Exchange"
  <2>1. cmd.tiles \in SUBSET Tiles /\ n \in Nat
    BY <1>4, CommandTypes
  <2>2. Drawn(g, n) \in Seq(Tiles)
    BY <2>1, DrawnPops
  <2>3. Ascending(cmd.tiles) \in Seq(Tiles)
    BY <2>1, AscendingExists, OrderListsTiles
  <2>4. MoveEvent(g, p, cmd) \in LaterEvents /\ MoveEvent(g, p, cmd).player = p
    BY <2>2, <2>3, <1>4 DEF MoveEvent, LaterEvents, Events
  <2>5. Decide(g, p, cmd) = <<MoveEvent(g, p, cmd)>>
    BY <1>4 DEF Decide, DecideExchange, MoveEvent
  <2> QED
    BY <2>4, <2>5, <1>4 DEF Ends
<1>5. CASE cmd.type = "Pass"
  <2>1. MoveEvent(g, p, cmd) \in LaterEvents /\ MoveEvent(g, p, cmd).player = p
    BY <1>5 DEF MoveEvent, LaterEvents, Events
  <2>2. Ending(g, p, cmd) \in LaterEvents
    BY <1>1, <1>2, <1>5 DEF Ending, Reasons, CompletionReasons
  <2>3. Decide(g, p, cmd) = DecidePass(g, p)
    BY <1>5 DEF Decide
  <2> QED
    BY <2>1, <2>2, <2>3, <1>5 DEF DecidePass, Ends, MoveEvent, Ending
<1>6. CASE cmd.type = "Resign"
  <2>1. MoveEvent(g, p, cmd) \in LaterEvents /\ MoveEvent(g, p, cmd).player = p
    BY <1>6 DEF MoveEvent, LaterEvents, Events
  <2>2. Ending(g, p, cmd) \in LaterEvents
    BY <1>1, <1>2, <1>6 DEF Ending, Reasons, CompletionReasons
  <2>3. Decide(g, p, cmd) = DecideResignation(g, p)
    BY <1>6 DEF Decide
  <2> QED
    BY <2>1, <2>2, <2>3, <1>6 DEF DecideResignation, Ends, MoveEvent, Ending
<1> QED
  BY <1>3, <1>4, <1>5, <1>6, CommandTypes

\* The state between the two events, and the one a command leads to.
LEMMA Submitted ==
  ASSUME NEW g \in State, NEW p \in Players, NEW cmd \in GameCommands(g, p),
         ApplyAll(g, Decide(g, p, cmd)) # ReplayError
  PROVE  LET move  == MoveEvent(g, p, cmd)
             moved == Stepped(g, move)
             over  == Ending(g, p, cmd)
             after == ApplyAll(g, Decide(g, p, cmd))
         IN  /\ Fits(g, move) /\ moved \in State /\ after \in State
             /\ moved = ApplyEvent(g, move)
             /\ TilesUnique(after)
             /\ Ends(g, p, cmd) => /\ Fits(moved, over)
                                   /\ AfterCompletion(moved, over, after)
                                   /\ after = ApplyEvent(moved, over)
             /\ ~Ends(g, p, cmd) => after = moved
<1> DEFINE move  == MoveEvent(g, p, cmd)
           moved == Stepped(g, move)
           over  == Ending(g, p, cmd)
           after == ApplyAll(g, Decide(g, p, cmd))
<1>1. /\ move \in LaterEvents /\ move \in Events
      /\ Ends(g, p, cmd) => over \in LaterEvents /\ over \in Events /\ over.type = "GameCompleted"
  BY Decided DEF LaterEvents, Ending, Ends, Completed
<1>2. CASE ~Ends(g, p, cmd)
  <2>1. after = ApplyEvent(g, move)
    BY <1>1, <1>2, Decided, ApplyDecision
  <2> QED
    BY <2>1, <1>1, <1>2, AppliedEvent
<1>3. CASE Ends(g, p, cmd)
  <2>1. after = ApplyEvent(ApplyEvent(g, move), over)
    <3>1. Decide(g, p, cmd) = <<move, over>>
      BY <1>3, Decided
    <3> HIDE DEF move, over
    <3>2. ApplyAll(g, <<move, over>>) = ApplyEvent(ApplyEvent(g, move), over)
      BY <1>1, <1>3, ApplyDecision
    <3> QED
      BY <3>1, <3>2
  <2>2. ApplyEvent(g, move) # ReplayError
    BY <2>1 DEF ApplyEvent
  <2>3. Fits(g, move) /\ moved = ApplyEvent(g, move) /\ moved \in State
    BY <2>2, <1>1, AppliedEvent
  <2>4. /\ Fits(moved, over) /\ after = Stepped(moved, over) /\ after \in State
        /\ TilesUnique(after)
    BY <2>1, <2>3, <1>1, <1>3, AppliedEvent
  <2>5. AfterCompletion(moved, over, after)
    BY <2>3, <2>4, <1>1, <1>3, CompletionStep
  <2> QED
    BY <2>1, <2>3, <2>4, <2>5, <1>3
<1> QED
  BY <1>2, <1>3

-----------------------------------------------------------------------------
(* What is stored *)

\* A journal that starts with GameStarted, holds no other one, and replays
\* to a game with one revision per event.
Replays(j) ==
  /\ j \in Seq(Events) /\ j # <<>>
  /\ \A i \in 1..Len(j) : j[i].type = "GameStarted" <=> i = 1
  /\ Replay(j) \in State
  /\ Replay(j).revision = Len(j)

\* The snapshot is of the last revision, so that no tail is ever applied to it.
Stored ==
  /\ Replays(journal)
  /\ snapshot = IF Len(journal) = 1 THEN NoSnapshot ELSE EncodedState(Replay(journal))

\* One more event that applies.
LEMMA OneMoreReplays ==
  ASSUME NEW j, Replays(j), NEW e \in LaterEvents, ApplyEvent(Replay(j), e) # ReplayError
  PROVE  /\ Replays(Append(j, e))
         /\ Replay(Append(j, e)) = ApplyEvent(Replay(j), e)
         /\ Len(Append(j, e)) = Len(j) + 1 /\ Len(j) >= 1
         /\ j \o <<e>> = Append(j, e)
<1> DEFINE more == Append(j, e)
<1>1. j \in Seq(Events) /\ j # <<>> /\ e \in Events /\ e.type # "GameStarted"
  BY DEF Replays, LaterEvents
<1>2. /\ more \in Seq(Events) /\ more # <<>> /\ j \o <<e>> = more
      /\ Replay(more) = ApplyEvent(Replay(j), e)
  BY <1>1, ReplayExtends
<1>3. /\ Len(j) \in Nat /\ Len(j) >= 1 /\ Len(more) = Len(j) + 1
      /\ \A i \in 1..Len(j) : more[i] = j[i]
      /\ more[Len(j) + 1] = e
  BY <1>1, AppendProperties, LenProperties, EmptySeq
<1> HIDE DEF more
<1>4. \A i \in 1..Len(more) : more[i].type = "GameStarted" <=> i = 1
  BY <1>1, <1>3 DEF Replays
<1>5. Replay(more) \in State /\ Replay(more).revision = Len(more)
  BY <1>2, <1>3, AppliedEvent DEF Replays
<1> QED
  BY <1>2, <1>3, <1>4, <1>5 DEF Replays, more

\* A command accepted in the recovered game extends the journal by events
\* that replay to the same game.
LEMMA JournalExtends ==
  ASSUME NEW j, Replays(j), NEW g \in State, SameGame(g, Replay(j)),
         NEW p \in Players, NEW cmd \in GameCommands(g, p),
         ApplyAll(g, Decide(g, p, cmd)) # ReplayError
  PROVE  LET more == j \o Decide(g, p, cmd)
         IN  /\ Replays(more) /\ Len(more) # 1
             /\ SameGame(ApplyAll(g, Decide(g, p, cmd)), Replay(more))
<1> DEFINE move  == MoveEvent(g, p, cmd)
           moved == ApplyEvent(g, move)
           over  == Ending(g, p, cmd)
           after == ApplyAll(g, Decide(g, p, cmd))
<1>1. /\ move \in LaterEvents
      /\ Ends(g, p, cmd) => over \in LaterEvents
      /\ Decide(g, p, cmd) = IF Ends(g, p, cmd) THEN <<move, over>> ELSE <<move>>
  BY Decided
<1>2. /\ moved \in State /\ moved # ReplayError /\ after \in State
      /\ after = IF Ends(g, p, cmd) THEN ApplyEvent(moved, over) ELSE moved
  BY Submitted, ReplayErrorAssumption
<1>3. /\ ApplyEvent(Replay(j), move) # ReplayError
      /\ SameGame(moved, ApplyEvent(Replay(j), move))
  BY <1>1, <1>2, SameGameGoesOn DEF Replays
<1> DEFINE one == Append(j, move)
<1>4. /\ Replays(one) /\ Replay(one) = ApplyEvent(Replay(j), move)
      /\ Len(one) = Len(j) + 1 /\ Len(j) >= 1
      /\ j \o <<move>> = one
  BY <1>1, <1>3, OneMoreReplays
<1>5. Len(j) \in Nat
  BY LenProperties DEF Replays
<1>6. CASE ~Ends(g, p, cmd)
  <2>1. j \o Decide(g, p, cmd) = one
    BY <1>1, <1>4, <1>6
  <2>2. SameGame(after, Replay(one))
    BY <1>2, <1>3, <1>4, <1>6
  <2> HIDE DEF moved, over, after, move, one
  <2>3. Len(one) # 1
    BY <1>4, <1>5
  <2> QED
    BY <2>1, <2>2, <2>3, <1>4 DEF after
<1>7. CASE Ends(g, p, cmd)
  <2> HIDE DEF moved, over, after, move, one
  <2>1. /\ ApplyEvent(Replay(one), over) # ReplayError
        /\ SameGame(after, ApplyEvent(Replay(one), over))
    <3>1. ApplyEvent(moved, over) # ReplayError
      BY <1>2, <1>7, ReplayErrorAssumption
    <3>2. SameGame(moved, Replay(one)) /\ Replay(one) \in State
      BY <1>3, <1>4 DEF Replays
    <3> QED
      BY <3>1, <3>2, <1>1, <1>2, <1>7, SameGameGoesOn
  <2>2. /\ Replays(Append(one, over))
        /\ Replay(Append(one, over)) = ApplyEvent(Replay(one), over)
        /\ Len(Append(one, over)) = Len(one) + 1
    BY <2>1, <1>1, <1>4, <1>7, OneMoreReplays
  <2>3. j \o <<move, over>> = Append(one, over)
    <3>1. j \in Seq(Events) /\ move \in Events /\ over \in Events
      BY <1>1, <1>7 DEF Replays, LaterEvents
    <3> QED
      BY <3>1, TwoMore DEF one
  <2>4. j \o Decide(g, p, cmd) = Append(one, over)
    BY <2>3, <1>1, <1>7
  <2>5. Len(Append(one, over)) # 1
    BY <2>2, <1>4, <1>5
  <2>6. SameGame(after, Replay(Append(one, over)))
    BY <2>1, <2>2
  <2> QED
    BY <2>2, <2>4, <2>5, <2>6 DEF after
<1> QED
  BY <1>6, <1>7

\* The recovered game is the replay of the journal, up to scoreless_turns.
LEMMA RecoveredIsReplay ==
  Stored => Recovered \in State /\ SameGame(Recovered, Replay(journal))
<1> SUFFICES ASSUME Stored PROVE Recovered \in State /\ SameGame(Recovered, Replay(journal))
  OBVIOUS
<1> DEFINE full == Replay(journal)
<1>1. full \in State /\ full.revision = Len(journal) /\ journal \in Seq(Events)
      /\ Len(journal) \in Nat
  BY LenProperties DEF Stored, Replays
<1> HIDE DEF full
<1>2. CASE Len(journal) = 1
  <2>1. Recovered = full
    BY <1>2 DEF Stored, Recovered, full
  <2> QED
    BY <2>1, <1>1 DEF SameGame, full
<1>3. CASE Len(journal) # 1
  <2>1. snapshot = EncodedState(full)
    BY <1>3 DEF Stored, full
  <2>2. snapshot # NoSnapshot
    <3>1. "status" \in DOMAIN EncodedState(full)
      BY <1>1, StateDomain DEF EncodedState, StateFields
    <3>2. "status" \notin DOMAIN NoSnapshot
      BY DEF NoSnapshot
    <3> QED
      BY <2>1, <3>1, <3>2
  <2>3. snapshot.revision = Len(journal)
    BY <2>1, <1>1, StateDomain DEF EncodedState, StateFields
  <2>4. EventsAfter(snapshot.revision) = <<>>
    <3>1. EventsAfter(snapshot.revision) = SubSeq(journal, Len(journal) + 1, Len(journal))
      BY <2>3 DEF EventsAfter
    <3>2. SubSeq(journal, Len(journal) + 1, Len(journal)) = <<>>
      BY <1>1, SubSeqEmpty
    <3> QED
      BY <3>1, <3>2
  <2>5. Recovered = ApplyAll(DecodedState(snapshot), <<>>)
    BY <2>2, <2>4 DEF Recovered
  <2>6. Recovered = Restored(full)
    BY <2>5, <2>1, <1>1, ReplayOfNothing, RestoredIsSame
  <2> QED
    BY <2>6, <1>1, RestoredIsSame DEF SameGame, full
<1> QED
  BY <1>2, <1>3

-----------------------------------------------------------------------------
(* The start of a game *)

\* Dealing seat by seat from the end of the bag deals the racks of Game.
LEMMA DealtFromTheEnd ==
  ASSUME NEW s \in Shuffles, NEW p \in Players
  PROVE  BagTiles(SubSeq(Reverse(s), (p - 1) * RackSize + 1, p * RackSize)) = DealtRack(s, p)
<1> DEFINE before == (p - 1) * RackSize
           through == p * RackSize
           r == [i \in 1..Len(s) |-> s[(Len(s) - i) + 1]]
           d == SubSeq(r, before + 1, through)
<1>1. /\ Len(s) \in Nat /\ before \in Nat /\ through \in Nat /\ through = before + RackSize
      /\ through <= Len(s) /\ RackSize \in Nat /\ RackSize > 0
  BY DealIntervals, ProfileAssumption
<1>2. s \in Seq(Tiles) /\ \A i \in 1..Len(s) : s[i] \in Tiles
  BY ShufflesAssumption, ElementOfSeq
<1>3. Reverse(s) = r
  BY DEF Reverse
<1>4. r \in Seq(Tiles) /\ Len(r) = Len(s)
      /\ \A i \in 1..Len(s) : r[i] = s[Len(s) - i + 1] /\ r[i] \in Tiles
  <2>1. \A i \in 1..Len(s) : Len(s) - i + 1 \in 1..Len(s)
    BY <1>1
  <2> QED
    BY <1>1, <1>2, <2>1
<1>5. DealtRack(s, p) = {s[i] : i \in (Len(s) - through + 1)..(Len(s) - before)}
  BY DEF DealtRack
<1> HIDE DEF r, before, through
<1>6. /\ d \in Seq(Tiles) /\ Len(d) = RackSize
      /\ \A i \in 1..RackSize : d[i] = r[before + i] /\ before + i \in 1..Len(s)
  <2>1. \A i \in (before + 1)..through : r[i] \in Tiles
    BY <1>1, <1>4
  <2>2. /\ d \in Seq(Tiles)
        /\ Len(d) = IF before + 1 <= through THEN through - (before + 1) + 1 ELSE 0
        /\ \A i \in 1..(through - (before + 1) + 1) : d[i] = r[(before + 1) + i - 1]
    BY <2>1, <1>1, <1>4, SubSeqProperties
  <2> QED
    BY <2>2, <1>1
<1> HIDE DEF d
<1>7. \A i \in 1..RackSize : /\ d[i] = s[Len(s) - before - i + 1]
                             /\ Len(s) - before - i + 1 \in (Len(s) - through + 1)..(Len(s) - before)
  <2> SUFFICES ASSUME NEW i \in 1..RackSize
               PROVE  /\ d[i] = s[Len(s) - before - i + 1]
                      /\ Len(s) - before - i + 1 \in (Len(s) - through + 1)..(Len(s) - before)
    OBVIOUS
  <2>1. d[i] = r[before + i] /\ before + i \in 1..Len(s)
    BY <1>6
  <2>2. r[before + i] = s[Len(s) - (before + i) + 1]
    BY <2>1, <1>4
  <2>3. Len(s) - (before + i) + 1 = Len(s) - before - i + 1
    BY <1>1
  <2>4. Len(s) - before - i + 1 \in (Len(s) - through + 1)..(Len(s) - before)
    BY <1>1
  <2> QED
    BY <2>1, <2>2, <2>3, <2>4
<1>8. \A i \in (Len(s) - through + 1)..(Len(s) - before) :
        /\ Len(s) - before - i + 1 \in 1..RackSize
        /\ Len(s) - before - (Len(s) - before - i + 1) + 1 = i
  BY <1>1
<1>9. BagTiles(d) = {s[i] : i \in (Len(s) - through + 1)..(Len(s) - before)}
  <2>1. BagTiles(d) = {d[i] : i \in 1..RackSize}
    BY <1>6 DEF BagTiles
  <2>2. \A i \in (Len(s) - through + 1)..(Len(s) - before) : \E k \in 1..RackSize : d[k] = s[i]
    BY <1>7, <1>8
  <2> QED
    BY <2>1, <2>2, <1>7
<1> QED
  BY <1>3, <1>5, <1>9 DEF d, before, through

\* The game a shuffle starts.
LEMMA StartOfGame ==
  ASSUME NEW s \in Shuffles, NEW first \in Players
  PROVE  LET e == Started(s, first)
             g == StartState(e)
         IN  /\ e \in Events /\ e.type = "GameStarted" /\ g \in State /\ g.revision = 1
             /\ g.racks = [p \in Players |-> DealtRack(s, p)]
             /\ g.bag = WithoutTop(s, NumPlayers * RackSize)
             /\ g.active_player = first
<1> DEFINE e == Started(s, first)
<1>1. /\ e.racks = [p \in Players |-> DealtRack(s, p)]
      /\ e.bag = WithoutTop(s, NumPlayers * RackSize)
      /\ e.type = "GameStarted" /\ e.first_player = first
  BY DealtFromTheEnd DEF Started
<1>2. [p \in Players |-> DealtRack(s, p)] \in [Players -> SUBSET Tiles]
      /\ WithoutTop(s, NumPlayers * RackSize) \in Seq(Tiles)
  BY DealSplitsShuffle
<1>3. e \in Events
  <2>1. e = [type |-> "GameStarted", first_player |-> first, racks |-> e.racks, bag |-> e.bag]
    BY DEF Started
  <2> HIDE DEF e
  <2> QED
    BY <2>1, <1>1, <1>2 DEF Events
<1> HIDE DEF e
<1>4. StartState(e) \in State
  BY <1>1, <1>2 DEF StartState, State
<1> QED
  BY <1>1, <1>3, <1>4 DEF StartState, e

\* The invariant holds at the start.
LEMMA InitStored == Init => Stored
<1> SUFFICES ASSUME Init PROVE Stored
  OBVIOUS
<1>1. PICK s \in Shuffles, first \in Players : journal = <<Started(s, first)>>
  BY DEF Init
<1> DEFINE e == Started(s, first)
<1>2. e \in Events /\ e.type = "GameStarted" /\ StartState(e) \in State /\ StartState(e).revision = 1
  BY StartOfGame
<1> HIDE DEF e
<1>3. journal \in Seq(Events) /\ journal # <<>> /\ Len(journal) = 1 /\ journal[1] = e
      /\ Head(journal) = e /\ Tail(journal) = <<>>
  BY <1>1, <1>2 DEF e
<1>4. Replay(journal) = StartState(e)
  BY <1>3, ReplayOfNothing DEF Replay
<1>5. Replays(journal)
  BY <1>2, <1>3, <1>4 DEF Replays
<1> QED
  BY <1>3, <1>5 DEF Stored, Init

\* A command keeps the journal and the snapshot in line, and the state it was
\* answered with is the one the journal gives.
LEMMA SubmitKeepsStored ==
  ASSUME Stored, NEW p \in Players, NEW cmd \in GameCommands(Recovered, p), Submit(p, cmd)
  PROVE  /\ Stored'
         /\ SameGame(ApplyAll(Recovered, Decide(Recovered, p, cmd)), Replay(journal'))
<1>1. PICK g : g = Recovered
  OBVIOUS
<1> DEFINE after == ApplyAll(g, Decide(g, p, cmd))
<1>2. /\ g \in State /\ SameGame(g, Replay(journal)) /\ cmd \in GameCommands(g, p)
      /\ Replays(journal)
  BY <1>1, RecoveredIsReplay DEF Stored
<1>3. /\ after # ReplayError
      /\ journal' = journal \o Decide(g, p, cmd)
      /\ snapshot' = EncodedState(after)
  BY <1>1 DEF Submit
<1>4. Replays(journal') /\ Len(journal') # 1 /\ SameGame(after, Replay(journal'))
  BY <1>2, <1>3, JournalExtends
<1>5. after \in State
  BY <1>2, <1>3, Submitted
<1>6. snapshot' = EncodedState(Replay(journal'))
  BY <1>3, <1>4, <1>5, SameIsStoredAlike DEF Replays
<1>7. Stored'
  <2> HIDE DEF after
  <2>1. Len(journal') # 1
    BY <1>4
  <2> QED
    BY <2>1, <1>4, <1>6 DEF Stored
<1> QED
  BY <1>1, <1>4, <1>7

\* Every step keeps it.
LEMMA NextStored == Stored /\ [Next]_vars => Stored'
<1> SUFFICES ASSUME Stored, [Next]_vars PROVE Stored'
  OBVIOUS
<1>1. CASE Next
  BY <1>1, SubmitKeepsStored DEF Next
<1>2. CASE UNCHANGED vars
  BY <1>2 DEF vars, Stored
<1> QED
  BY <1>1, <1>2

\* It holds in every reachable state.
LEMMA AlwaysStored == Spec => []Stored
<1> QED
  BY InitStored, NextStored, PTL DEF Spec

\* The journal alone is enough (recover_game, replay): a restart that loses the
\* snapshots, or a reader that ignores them, sees the game the players see.
THEOREM JournalIsEnough == Spec => []ReplayGivesTheGame
<1>1. Stored => ReplayGivesTheGame
  <2> SUFFICES ASSUME Stored PROVE ReplayGivesTheGame
    OBVIOUS
  <2>1. TypeOK
    <3>1. journal \in Seq(Events) /\ Len(journal) \in Nat /\ Len(journal) >= 1
      BY EmptySeq, LenProperties DEF Stored, Replays
    <3>2. \A i \in 1..Len(journal) : journal[i] \in Events /\ (journal[i].type = "GameStarted" <=> i = 1)
      BY <3>1, ElementOfSeq DEF Stored, Replays
    <3>3. snapshot.revision \in Nat
      <4>1. CASE Len(journal) = 1
        BY <4>1 DEF Stored, NoSnapshot
      <4>2. CASE Len(journal) # 1
        <5>1. EncodedState(Replay(journal)).revision = Replay(journal).revision
          BY StateDomain DEF Stored, Replays, EncodedState, StateFields
        <5> QED
          BY <5>1, <4>2, <3>1 DEF Stored, Replays
      <4> QED
        BY <4>1, <4>2
    <3> QED
      BY <3>1, <3>2, <3>3 DEF TypeOK
  <2>2. Replay(journal) \in State /\ Replay(journal).revision = Len(journal)
    BY DEF Stored, Replays
  <2>3. EncodedState(Replay(journal)) = EncodedState(Recovered)
    BY <2>2, RecoveredIsReplay, SameIsStoredAlike
  <2> QED
    BY <2>1, <2>2, <2>3, ReplayErrorAssumption DEF ReplayGivesTheGame
<1> QED
  BY <1>1, AlwaysStored, PTL

-----------------------------------------------------------------------------
(* The atomic game *)

\* Game has its own copy of the rules; they are the same rules.
LEMMA SameRules ==
  /\ G!Players = Players
  /\ \A active, t : G!NextTurn(active, t) = NextTurn(active, t)
  /\ \A b, n : /\ G!DrawCount(b, n) = DrawCount(b, n)
               /\ G!TopTiles(b, n) = TopTiles(b, n)
               /\ G!WithoutTop(b, n) = WithoutTop(b, n)
  /\ \A T : G!Orders(T) = Orders(T)
  /\ \A s : G!Leaders(s) = Leaders(s)
  /\ \A s, r : G!PenalisedScores(s, r) = PenalisedScores(s, r)
  /\ \A s, r, p, n : G!RackOutScores(s, r, p, n) = RackOutScores(s, r, p, n)
  /\ \A active : G!RequiredPasses(active) = RequiredPasses(active)
  /\ \A s, p : G!DealtRack(s, p) = DealtRack(s, p)
<1>1. G!Players = Players
  BY DEF G!Players, Players
<1>2. \A t, k : G!SeatAfter(t, k) = SeatAfter(t, k)
  BY DEF G!SeatAfter, SeatAfter
<1>3. \A active, t : G!NextTurn(active, t) = NextTurn(active, t)
  BY <1>2 DEF G!NextTurn, NextTurn
<1>4. \A b, n : /\ G!DrawCount(b, n) = DrawCount(b, n)
                /\ G!TopTiles(b, n) = TopTiles(b, n)
                /\ G!WithoutTop(b, n) = WithoutTop(b, n)
  BY DEF G!DrawCount, DrawCount, G!TopTiles, TopTiles, G!WithoutTop, WithoutTop
<1>12. \A S : G!Cardinality(S) = Cardinality(S)
  BY DEF G!Cardinality, Cardinality
<1>5. \A T : G!Orders(T) = Orders(T)
  BY <1>12 DEF G!Orders, Orders, G!BagTiles, BagTiles
<1>6. \A s : G!Leaders(s) = Leaders(s)
  BY DEF G!Leaders, Leaders, G!Players, Players
<1>7. \A a, b : G!SaturatingSub(a, b) = SaturatingSub(a, b)
  BY DEF G!SaturatingSub, SaturatingSub
<1>8. \A s, r : G!PenalisedScores(s, r) = PenalisedScores(s, r)
  BY <1>1, <1>7 DEF G!PenalisedScores, PenalisedScores
<1>9. \A s, r, p, n : G!RackOutScores(s, r, p, n) = RackOutScores(s, r, p, n)
  BY <1>1, <1>7 DEF G!RackOutScores, RackOutScores
<1>10. \A active : G!RequiredPasses(active) = RequiredPasses(active)
  BY <1>12 DEF G!RequiredPasses, RequiredPasses
<1>11. \A s, p : G!DealtRack(s, p) = DealtRack(s, p)
  BY DEF G!DealtRack, DealtRack
<1> QED
  BY <1>1, <1>3, <1>4, <1>5, <1>6, <1>8, <1>9, <1>10, <1>11

-----------------------------------------------------------------------------
(* Sound games *)

\* What the rules need to hold of a game for their own decisions to apply: a
\* running game has a player to move, an opponent, no empty rack and no ending
\* of passes that was missed; no tile is at two places, and no rack is too large
\* for the bag an exchange draws from.
Playable(g) ==
  /\ g.active_player \in g.active_players
  /\ Cardinality(g.active_players) >= 2
  /\ \A q \in Players : g.racks[q] # {}
  /\ g.consecutive_passes = 0 \/ g.consecutive_passes < RequiredPasses(g.active_players)

Sound(g) ==
  /\ TilesUnique(g)
  /\ \A q \in Players : Cardinality(g.racks[q]) <= RackSize
  /\ g.status = "Active" => Playable(g)

\* What is sound of a game is sound of every state of the same game.
LEMMA SoundIsShared ==
  ASSUME NEW g, NEW h, SameGame(g, h)
  PROVE  Sound(g) <=> Sound(h)
BY DEF SameGame, Sound, Playable, TilesUnique

\* A game starts sound.
LEMMA StartIsSound ==
  ASSUME NEW s \in Shuffles, NEW first \in Players
  PROVE  Sound(StartState(Started(s, first)))
<1> DEFINE g == StartState(Started(s, first))
<1>1. /\ g.racks = [p \in Players |-> DealtRack(s, p)]
      /\ g.bag = WithoutTop(s, NumPlayers * RackSize)
      /\ g.active_player = first
  BY StartOfGame
<1>2. g.active_players = Players /\ g.board = {} /\ g.consecutive_passes = 0
  BY DEF StartState
<1> HIDE DEF g
<1>3. TilesUnique(g)
  BY <1>1, <1>2, DealSplitsShuffle DEF TilesUnique, Distinct
<1>4. \A q \in Players : Cardinality(g.racks[q]) = RackSize
  BY <1>1, DealSplitsShuffle
<1>5. RackSize \in Nat /\ RackSize # 0
  BY ProfileAssumption
<1>6. \A q \in Players : g.racks[q] # {}
  BY <1>4, <1>5, FS_EmptySet
<1>7. Cardinality(Players) >= 2
  BY PlayersAssumption, FS_Interval DEF Players
<1> QED
  BY <1>1, <1>2, <1>3, <1>4, <1>5, <1>6, <1>7 DEF Sound, Playable, g

\* Drawing for the tiles T of the rack of p.
Draws(g, p, T, k, left, D) ==
  /\ k \in 0..Len(g.bag) /\ k <= Cardinality(T)
  /\ k = Cardinality(T) \/ k = Len(g.bag)
  /\ left \in Seq(Tiles) /\ Len(left) = Len(g.bag) - k /\ Distinct(left)
  /\ BagTiles(left) \cap D = {}
  /\ BagTiles(left) \subseteq BagTiles(g.bag) /\ D \subseteq BagTiles(g.bag)
  /\ D \in SUBSET Tiles /\ IsFiniteSet(D) /\ Cardinality(D) = k
  /\ Cardinality((g.racks[p] \ T) \cup D) = Cardinality(g.racks[p]) - Cardinality(T) + k
  /\ Cardinality(T) <= Cardinality(g.racks[p])

\* A rack is refilled from the top of the bag.
LEMMA Refill ==
  ASSUME NEW g \in State, TilesUnique(g), NEW p \in Players, NEW T \in SUBSET g.racks[p]
  PROVE  LET k == DrawCount(g.bag, Cardinality(T))
         IN  Draws(g, p, T, k, WithoutTop(g.bag, k), TopTiles(g.bag, k))
<1> DEFINE k == DrawCount(g.bag, Cardinality(T))
           left == WithoutTop(g.bag, k)
           D == TopTiles(g.bag, k)
<1>1. /\ g.bag \in Seq(Tiles) /\ g.racks[p] \in SUBSET Tiles /\ T \in SUBSET Tiles
      /\ Cardinality(T) \in Nat /\ Distinct(g.bag)
  BY TilesAreFinite DEF State, TilesUnique, Distinct
<1>2. /\ k \in 0..Len(g.bag) /\ k <= Cardinality(T)
      /\ k = Cardinality(T) \/ k = Len(g.bag)
  BY <1>1, DrawCountBound
<1> HIDE DEF k
<1>3. /\ left \in Seq(Tiles) /\ Len(left) = Len(g.bag) - k /\ Distinct(left)
      /\ BagTiles(left) \cap D = {}
      /\ BagTiles(g.bag) = BagTiles(left) \cup D
      /\ D \in SUBSET Tiles /\ IsFiniteSet(D) /\ Cardinality(D) = k
  BY <1>1, <1>2, DrawSplitsBag
<1> HIDE DEF left, D
<1>4. g.racks[p] \cap D = {}
  BY <1>3 DEF TilesUnique
<1>5. /\ Cardinality((g.racks[p] \ T) \cup D) = Cardinality(g.racks[p]) - Cardinality(T) + k
      /\ Cardinality(T) <= Cardinality(g.racks[p])
  BY <1>1, <1>3, <1>4, RefilledRack
<1> QED
  BY <1>2, <1>3, <1>5 DEF Draws, k, left, D

\* A legal command's own event applies.
LEMMA MoveApplies ==
  ASSUME NEW g \in State, Sound(g), NEW p \in Players, NEW cmd \in GameCommands(g, p),
         Legal(g, p, cmd)
  PROVE  Fits(g, MoveEvent(g, p, cmd)) /\ TilesUnique(Stepped(g, MoveEvent(g, p, cmd)))
<1> DEFINE move  == MoveEvent(g, p, cmd)
           moved == Stepped(g, move)
           T == cmd.tiles
           k == DrawCount(g.bag, Cardinality(T))
           left == WithoutTop(g.bag, k)
           D == TopTiles(g.bag, k)
<1>1. /\ TilesUnique(g) /\ g.status = "Active" /\ IsTurnOf(g, p)
      /\ move \in Events /\ move.player = p /\ g.racks \in [Players -> SUBSET Tiles]
  BY Decided DEF Legal, IsTurnOf, Sound, LaterEvents, State
<1>2. ASSUME cmd.type \in {"Play", "Exchange"}
      PROVE  /\ T \in SUBSET g.racks[p] /\ T \in SUBSET Tiles
             /\ Draws(g, p, T, k, left, D)
             /\ Pops(g.bag, Drawn(g, Cardinality(T)))
             /\ ToSet(Drawn(g, Cardinality(T))) = D /\ Len(Drawn(g, Cardinality(T))) = k
  <2>1. T \in SUBSET g.racks[p] /\ T \in SUBSET Tiles /\ Cardinality(T) \in Nat
    BY <1>2, CommandTypes
  <2>2. Draws(g, p, T, k, left, D)
    BY <1>1, <2>1, Refill
  <2> HIDE DEF T
  <2> QED
    BY <2>1, <2>2, DrawnPops
<1> HIDE DEF k, left, D
<1>3. CASE cmd.type = "Play"
  <2>1. /\ move.type = "TilesPlayed" /\ move.placements = T
        /\ move.drawn = Drawn(g, Cardinality(T))
    BY <1>3 DEF MoveEvent
  <2> HIDE DEF move
  <2>2. Fits(g, move)
    BY <1>1, <1>2, <1>3, <2>1 DEF Fits
  <2>3. AfterPlay(g, move, moved)
    BY <1>1, <2>1, <2>2, PlayStep
  <2> HIDE DEF moved, T
  <2>4. /\ moved.board = g.board \cup T /\ moved.bag = left
        /\ moved.racks[p] = (g.racks[p] \ T) \cup D
        /\ \A q \in Players : q # p => moved.racks[q] = g.racks[q]
    BY <1>1, <1>2, <1>3, <2>1, <2>3 DEF AfterPlay, Refilled, left
  <2>5. /\ \A i, j \in 1..Len(left) : left[i] = left[j] => i = j
        /\ BagTiles(left) \cap D = {} /\ BagTiles(left) \subseteq BagTiles(g.bag)
        /\ D \subseteq BagTiles(g.bag) /\ T \subseteq g.racks[p]
    BY <1>2, <1>3 DEF Draws, Distinct
  <2>6. TilesUnique(moved)
    BY <1>1, <2>4, <2>5 DEF TilesUnique
  <2> QED
    BY <2>2, <2>6 DEF move, moved
<1>4. CASE cmd.type = "Exchange"
  <2>1. /\ move.type = "TilesExchanged" /\ move.returned = Ascending(T)
        /\ move.drawn = Drawn(g, Cardinality(T))
    BY <1>4 DEF MoveEvent
  <2>2. /\ Ascending(T) \in Seq(Tiles) /\ BagTiles(Ascending(T)) = T /\ Distinct(Ascending(T))
        /\ ToSet(Ascending(T)) = T
    <3>1. /\ Ascending(T) \in Seq(Tiles) /\ BagTiles(Ascending(T)) = T
          /\ Distinct(Ascending(T))
      BY <1>2, <1>4, AscendingExists, OrderListsTiles
    <3>2. DOMAIN Ascending(T) = 1..Len(Ascending(T))
      BY <3>1, LenProperties
    <3> QED
      BY <3>1, <3>2 DEF ToSet, BagTiles
  <2> HIDE DEF move
  <2>3. Fits(g, move)
    BY <1>1, <1>2, <1>4, <2>1, <2>2 DEF Fits
  <2>4. AfterExchange(g, move, moved)
    BY <1>1, <2>1, <2>3, ExchangeStep
  <2> HIDE DEF moved, T
  <2>5. /\ moved.board = g.board /\ moved.bag = left \o Ascending(T)
        /\ moved.racks[p] = (g.racks[p] \ T) \cup D
        /\ \A q \in Players : q # p => moved.racks[q] = g.racks[q]
    BY <1>1, <1>2, <1>4, <2>1, <2>2, <2>4 DEF AfterExchange, Refilled, ReturnedBag, left
  <2>6. /\ left \in Seq(Tiles) /\ Distinct(left)
        /\ BagTiles(left) \cap D = {} /\ BagTiles(left) \subseteq BagTiles(g.bag)
        /\ D \subseteq BagTiles(g.bag) /\ T \subseteq g.racks[p]
    BY <1>2, <1>4 DEF Draws
  <2>7. Distinct(moved.bag) /\ BagTiles(moved.bag) = BagTiles(left) \cup T
    <3>1. BagTiles(left) \cap T = {}
      BY <1>1, <2>6 DEF TilesUnique
    <3> QED
      BY <3>1, <2>2, <2>5, <2>6, PutBack
  <2>8. TilesUnique(moved)
    BY <1>1, <2>5, <2>6, <2>7 DEF TilesUnique, Distinct
  <2> QED
    BY <2>3, <2>8 DEF move, moved
<1>5. CASE cmd.type = "Pass"
  <2>1. move.type = "TurnPassed"
    BY <1>5 DEF MoveEvent
  <2> HIDE DEF move
  <2>2. Fits(g, move)
    BY <1>1, <2>1 DEF Fits
  <2>3. AfterPass(g, move, moved)
    BY <1>1, <2>1, <2>2, PassStep
  <2> HIDE DEF moved
  <2>4. TilesUnique(moved)
    BY <1>1, <2>3 DEF AfterPass, TilesUnique
  <2> QED
    BY <2>2, <2>4 DEF move, moved
<1>6. CASE cmd.type = "Resign"
  <2>1. move.type = "GameResigned"
    BY <1>6 DEF MoveEvent
  <2> HIDE DEF move
  <2>2. Fits(g, move)
    BY <1>1, <2>1 DEF Fits
  <2>3. AfterResignation(g, move, moved)
    BY <1>1, <2>1, <2>2, ResignStep
  <2> HIDE DEF moved
  <2>4. TilesUnique(moved)
    BY <1>1, <2>3 DEF AfterResignation, TilesUnique
  <2> QED
    BY <2>2, <2>4 DEF move, moved
<1> QED
  BY <1>3, <1>4, <1>5, <1>6, CommandTypes

\* And so does the one that ends the game.
LEMMA CommandApplies ==
  ASSUME NEW g \in State, Sound(g), NEW p \in Players, NEW cmd \in GameCommands(g, p),
         Legal(g, p, cmd)
  PROVE  ApplyAll(g, Decide(g, p, cmd)) # ReplayError
<1> DEFINE move  == MoveEvent(g, p, cmd)
           moved == Stepped(g, move)
           over  == Ending(g, p, cmd)
           after == Stepped(moved, over)
<1>1. /\ move \in LaterEvents /\ move \in Events
      /\ move.type \in {"TilesPlayed", "TilesExchanged", "TurnPassed", "GameResigned"}
      /\ Ends(g, p, cmd) => over \in LaterEvents /\ over \in Events /\ over.type = "GameCompleted"
      /\ Decide(g, p, cmd) = IF Ends(g, p, cmd) THEN <<move, over>> ELSE <<move>>
  <2>1. move.type \in {"TilesPlayed", "TilesExchanged", "TurnPassed", "GameResigned"}
    BY CommandTypes DEF MoveEvent
  <2>2. Ends(g, p, cmd) => over.type = "GameCompleted"
    BY DEF Ends, Ending, Completed
  <2> HIDE DEF move, over
  <2> QED
    BY <2>1, <2>2, Decided DEF LaterEvents, move, over
<1>2. Fits(g, move) /\ TilesUnique(moved) /\ g # ReplayError
  BY MoveApplies, ReplayErrorAssumption
<1> HIDE DEF move, over
<1>3. ApplyEvent(g, move) = moved
  BY <1>2 DEF ApplyEvent, Stepped
<1>4. moved \in State /\ GoesOn(g, moved) /\ moved # ReplayError
  BY <1>1, <1>2, ReplayErrorAssumption, PlayStep, ExchangeStep, PassStep, ResignStep
     DEF AfterPlay, AfterExchange, AfterPass, AfterResignation
<1> HIDE DEF moved
<1>5. CASE ~Ends(g, p, cmd)
  BY <1>1, <1>3, <1>4, <1>5, ApplyDecision
<1>6. CASE Ends(g, p, cmd)
  <2>1. over.leaders = Leaders(over.scores) /\ over.scores \in [Players -> Nat]
    BY <1>1, <1>6 DEF Ends, Ending, Completed, over, Events
  <2>2. Fits(moved, over)
    <3>1. moved.status = "Active"
      BY <1>4 DEF GoesOn, Legal
    <3> QED
      BY <3>1, <2>1, <1>1, <1>6 DEF Fits
  <2>3. after \in State /\ AfterCompletion(moved, over, after)
    BY <1>1, <1>4, <1>6, <2>2, CompletionStep
  <2>4. TilesUnique(after)
    <3> HIDE DEF after
    <3> QED
      BY <1>2, <2>3 DEF AfterCompletion, TilesUnique
  <2>5. ApplyEvent(moved, over) = after
    BY <1>4, <2>2, <2>4 DEF ApplyEvent, Stepped
  <2>6. ApplyAll(g, <<move, over>>) = after
    BY <1>1, <1>3, <1>6, <2>5, ApplyDecision
  <2> HIDE DEF after
  <2> QED
    BY <1>1, <1>6, <2>3, <2>6, ReplayErrorAssumption
<1> QED
  BY <1>5, <1>6

\* The state a command leads to is sound again.
LEMMA CommandKeepsSound ==
  ASSUME NEW g \in State, Sound(g), NEW p \in Players, NEW cmd \in GameCommands(g, p),
         Legal(g, p, cmd)
  PROVE  Sound(ApplyAll(g, Decide(g, p, cmd)))
<1> DEFINE move  == MoveEvent(g, p, cmd)
           moved == Stepped(g, move)
           over  == Ending(g, p, cmd)
           after == ApplyAll(g, Decide(g, p, cmd))
           T == cmd.tiles
           k == DrawCount(g.bag, Cardinality(T))
           left == WithoutTop(g.bag, k)
           D == TopTiles(g.bag, k)
<1>1. /\ Fits(g, move) /\ moved \in State /\ after \in State /\ TilesUnique(after)
      /\ move \in Events /\ move.player = p
      /\ Ends(g, p, cmd) => AfterCompletion(moved, over, after)
      /\ ~Ends(g, p, cmd) => after = moved
  BY CommandApplies, Submitted, Decided DEF LaterEvents
<1>2. /\ g.status = "Active" /\ p \in g.active_players /\ g.active_player = p
      /\ cmd.type \in {"Play", "Exchange"} => T # {}
      /\ cmd.type = "Exchange" => Len(g.bag) >= MinExchange
      /\ TilesUnique(g) /\ Cardinality(g.active_players) >= 2
      /\ \A q \in Players : g.racks[q] # {} /\ Cardinality(g.racks[q]) <= RackSize
      /\ g.consecutive_passes = 0 \/ g.consecutive_passes < RequiredPasses(g.active_players)
  BY DEF Legal, Sound, Playable
<1>3. /\ g.active_players \in SUBSET Players /\ g.racks \in [Players -> SUBSET Tiles]
      /\ NextTurn(g.active_players, p) \in g.active_players
      /\ g.bag \in Seq(Tiles) /\ Len(g.bag) \in Nat
      /\ \A q \in Players : IsFiniteSet(g.racks[q]) /\ Cardinality(g.racks[q]) \in Nat
  BY <1>2, NextTurnIsActive, LenProperties, TilesAreFinite DEF State
<1>4. ASSUME cmd.type \in {"Play", "Exchange"}
      PROVE  /\ T \in SUBSET g.racks[p] /\ T \in SUBSET Tiles /\ Cardinality(T) \in Nat
             /\ Draws(g, p, T, k, left, D)
             /\ move.drawn = Drawn(g, Cardinality(T))
             /\ ToSet(Drawn(g, Cardinality(T))) = D /\ Len(Drawn(g, Cardinality(T))) = k
             /\ Cardinality(T) \in Nat \ {0}
  <2>1. T \in SUBSET g.racks[p] /\ T \in SUBSET Tiles /\ Cardinality(T) \in Nat
    BY <1>4, CommandTypes
  <2>2. Draws(g, p, T, k, left, D)
    BY <1>2, <2>1, Refill
  <2>3. move.drawn = Drawn(g, Cardinality(T))
    BY <1>4 DEF MoveEvent
  <2>4. Cardinality(T) # 0
    BY <1>2, <1>4, <2>1, TilesAreFinite, FS_EmptySet
  <2> HIDE DEF T, move
  <2> QED
    BY <2>1, <2>2, <2>3, <2>4, DrawnPops
<1>5. cmd.type = "Play" => move.type = "TilesPlayed" /\ move.placements = T
  BY DEF MoveEvent
<1>6. cmd.type = "Exchange" => move.type = "TilesExchanged" /\ ToSet(move.returned) = T
  <2> SUFFICES ASSUME cmd.type = "Exchange"
               PROVE  move.type = "TilesExchanged" /\ ToSet(move.returned) = T
    OBVIOUS
  <2>1. move.type = "TilesExchanged" /\ move.returned = Ascending(T)
    BY DEF MoveEvent
  <2>2. Ascending(T) \in Seq(Tiles) /\ BagTiles(Ascending(T)) = T
    BY <1>4, AscendingExists, OrderListsTiles
  <2>3. DOMAIN Ascending(T) = 1..Len(Ascending(T))
    BY <2>2, LenProperties
  <2> QED
    BY <2>1, <2>2, <2>3 DEF ToSet, BagTiles
<1>7. /\ cmd.type = "Pass" => move.type = "TurnPassed"
      /\ cmd.type = "Resign" => move.type = "GameResigned"
  BY DEF MoveEvent
<1> HIDE DEF move, moved, over, after, T, k, left, D
\* The racks of a sound game fit, and are refilled from the same bag.
<1>8. /\ after.racks = moved.racks
      /\ ~Ends(g, p, cmd) => after = moved
      /\ Ends(g, p, cmd) => after.status = "Completed"
  BY <1>1 DEF AfterCompletion
<1>14. ASSUME \A q \in Players : Cardinality(moved.racks[q]) <= RackSize,
             ~Ends(g, p, cmd) => Playable(moved)
      PROVE  Sound(after)
  <2>1. after.status = "Active" => Playable(after)
    BY <1>8, <1>14
  <2> QED
    BY <1>1, <1>8, <1>14, <2>1 DEF Sound
<1>9. ASSUME cmd.type \in {"Play", "Exchange"},
             moved.racks = [g.racks EXCEPT ![p] = (@ \ T) \cup D]
      PROVE  \A q \in Players : /\ Cardinality(moved.racks[q]) <= RackSize
                                /\ q # p => moved.racks[q] # {}
  <2>1. moved.racks[p] = (g.racks[p] \ T) \cup D
    BY <1>3, <1>9
  <2>2. Cardinality(moved.racks[p]) <= RackSize
    BY <2>1, <1>2, <1>3, <1>4, <1>9, ProfileAssumption DEF Draws
  <2> QED
    BY <2>2, <1>2, <1>3, <1>9
<1>10. CASE cmd.type = "Play"
  <2>1. AfterPlay(g, move, moved)
    BY <1>1, <1>5, <1>10, PlayStep DEF moved
  <2>2. moved.racks = [g.racks EXCEPT ![p] = (@ \ T) \cup D]
    BY <1>1, <1>4, <1>5, <1>10, <2>1 DEF AfterPlay, Refilled
  <2>3. moved.racks[p] = {} => Ends(g, p, cmd)
    <3> SUFFICES ASSUME moved.racks[p] = {} PROVE Ends(g, p, cmd)
      OBVIOUS
    <3>1. (g.racks[p] \ T) \cup D = {}
      BY <1>3, <2>2
    <3>2. Cardinality(g.racks[p]) - Cardinality(T) + k = 0 /\ k = 0
      BY <3>1, <1>4, <1>10, FS_EmptySet DEF Draws
    <3>3. Len(g.bag) = 0
      BY <3>2, <1>3, <1>4, <1>10 DEF Draws
    <3>4. Len(g.bag) <= Cardinality(T)
      BY <3>3, <1>4, <1>10
    <3> QED
      BY <3>2, <3>4, <1>10 DEF Ends, EmptiesRack, k, T
  <2>4. ~Ends(g, p, cmd) => /\ moved.active_player \in moved.active_players
                            /\ moved.active_players = g.active_players
                            /\ moved.consecutive_passes = 0
    BY <1>2, <1>3, <2>1 DEF AfterPlay
  <2>5. \A q \in Players : Cardinality(moved.racks[q]) <= RackSize /\ (q # p => moved.racks[q] # {})
    BY <1>9, <1>10, <2>2
  <2>6. ~Ends(g, p, cmd) => Playable(moved)
    BY <1>2, <2>3, <2>4, <2>5 DEF Playable
  <2> QED
    BY <1>14, <2>5, <2>6 DEF after
<1>11. CASE cmd.type = "Exchange"
  <2>1. AfterExchange(g, move, moved)
    BY <1>1, <1>6, <1>11, ExchangeStep DEF moved
  <2>2. moved.racks = [g.racks EXCEPT ![p] = (@ \ T) \cup D]
    BY <1>1, <1>4, <1>6, <1>11, <2>1 DEF AfterExchange, Refilled
  <2>3. moved.racks[p] # {}
    <3>1. k # 0
      BY <1>2, <1>3, <1>4, <1>11, ProfileAssumption DEF Draws
    <3>2. D # {}
      BY <3>1, <1>4, <1>11, FS_EmptySet DEF Draws
    <3> QED
      BY <3>2, <1>3, <2>2
  <2>4. /\ moved.active_player \in moved.active_players
        /\ moved.active_players = g.active_players
        /\ moved.consecutive_passes = 0
    BY <1>2, <1>3, <2>1 DEF AfterExchange
  <2>5. \A q \in Players : Cardinality(moved.racks[q]) <= RackSize /\ (q # p => moved.racks[q] # {})
    BY <1>9, <1>11, <2>2
  <2>6. ~Ends(g, p, cmd) => Playable(moved)
    BY <1>2, <2>3, <2>4, <2>5 DEF Playable
  <2> QED
    BY <1>14, <2>5, <2>6 DEF after
<1>12. CASE cmd.type = "Pass"
  <2>1. AfterPass(g, move, moved)
    BY <1>1, <1>7, <1>12, PassStep DEF moved
  <2>2. ~Ends(g, p, cmd) => moved.consecutive_passes < RequiredPasses(moved.active_players)
    <3>1. RequiredPasses(g.active_players) \in Int /\ g.consecutive_passes \in Nat
      <4>1. IsFiniteSet(Players)
        BY PlayersAssumption, FS_Interval DEF Players
      <4>2. Cardinality(g.active_players) \in Nat
        BY <4>1, <1>3, FS_Subset, FS_CardinalityType
      <4> QED
        BY <4>2, ProfileAssumption DEF RequiredPasses, State
    <3> QED
      BY <3>1, <1>12, <2>1 DEF AfterPass, Ends
  <2>3. \A q \in Players : Cardinality(moved.racks[q]) <= RackSize
    BY <1>2, <2>1 DEF AfterPass
  <2>4. ~Ends(g, p, cmd) => Playable(moved)
    BY <1>2, <1>3, <2>1, <2>2 DEF Playable, AfterPass
  <2> QED
    BY <1>14, <2>3, <2>4 DEF after
<1>13. CASE cmd.type = "Resign"
  <2>1. AfterResignation(g, move, moved)
    BY <1>1, <1>7, <1>13, ResignStep DEF moved
  <2> DEFINE others == g.active_players \ {p}
  <2>2. ~Ends(g, p, cmd) => Cardinality(others) >= 2
    <3>1. IsFiniteSet(g.active_players) /\ Cardinality(g.active_players) \in Nat
      <4>1. IsFiniteSet(Players)
        BY PlayersAssumption, FS_Interval DEF Players
      <4> QED
        BY <4>1, <1>3, FS_Subset, FS_CardinalityType
    <3>2. Cardinality(others) = Cardinality(g.active_players) - 1
      BY <3>1, <1>2, FS_RemoveElement
    <3> QED
      BY <3>1, <3>2, <1>2, <1>13 DEF Ends
  <2>3. ~Ends(g, p, cmd) => moved.active_player \in others
    <3> SUFFICES ASSUME ~Ends(g, p, cmd) PROVE moved.active_player \in others
      OBVIOUS
    <3>1. others # {}
      BY <2>2, FS_EmptySet
    <3>2. NextTurn(others, p) \in others
      BY <3>1, <1>3, NextTurnIsActive
    <3> QED
      BY <3>2, <2>1, <2>2, <1>1, <1>2 DEF AfterResignation, TurnAfterLeaving
  <2>4. \A q \in Players : Cardinality(moved.racks[q]) <= RackSize
    BY <1>2, <2>1 DEF AfterResignation
  <2>5. ~Ends(g, p, cmd) => Playable(moved)
    <3>1. moved.active_players = others /\ moved.consecutive_passes = 0
          /\ moved.racks = g.racks
      BY <1>1, <2>1 DEF AfterResignation
    <3> HIDE DEF others
    <3> QED
      BY <1>2, <2>2, <2>3, <3>1 DEF Playable
  <2> QED
    BY <1>14, <2>4, <2>5 DEF after
<1> QED
  BY <1>10, <1>11, <1>12, <1>13, CommandTypes

\* The recovered game of the first state.
LEMMA InitIsStart ==
  ASSUME Init
  PROVE  \E s \in Shuffles, first \in Players :
           journal = <<Started(s, first)>> /\ Recovered = StartState(Started(s, first))
<1>1. PICK s \in Shuffles, first \in Players : journal = <<Started(s, first)>>
  BY DEF Init
<1> DEFINE e == Started(s, first)
<1>2. snapshot = NoSnapshot /\ Head(journal) = e /\ Tail(journal) = <<>>
  BY <1>1 DEF Init
<1> HIDE DEF e
<1>3. Recovered = StartState(e)
  BY <1>2, ReplayOfNothing DEF Recovered, Replay
<1> QED
  BY <1>1, <1>3 DEF e

\* RecoveredIsReplay, of the next state.
LEMMA NextRecoveredIsReplay ==
  Stored' => Recovered' \in State /\ SameGame(Recovered', Replay(journal'))
<1>1. (Stored => Recovered \in State /\ SameGame(Recovered, Replay(journal)))'
  BY RecoveredIsReplay, PTL
<1> QED
  BY <1>1

\* The game recovered after a command is the one the command led to.
LEMMA NextRecovered ==
  ASSUME Stored, NEW p \in Players, NEW cmd \in GameCommands(Recovered, p), Submit(p, cmd)
  PROVE  SameGame(ApplyAll(Recovered, Decide(Recovered, p, cmd)), Recovered')
<1>1. /\ Stored'
      /\ SameGame(ApplyAll(Recovered, Decide(Recovered, p, cmd)), Replay(journal'))
  BY SubmitKeepsStored
<1>2. SameGame(Recovered', Replay(journal'))
  BY <1>1, NextRecoveredIsReplay
<1> QED
  BY <1>1, <1>2 DEF SameGame

-----------------------------------------------------------------------------
(* The inductive invariant *)

RecoveredSound == Stored /\ Sound(Recovered)

\* The invariant holds at the start.
LEMMA InitSound == Init => RecoveredSound
<1> SUFFICES ASSUME Init PROVE RecoveredSound
  OBVIOUS
<1>1. PICK s \in Shuffles, first \in Players : Recovered = StartState(Started(s, first))
  BY InitIsStart
<1> QED
  BY <1>1, StartIsSound, InitStored DEF RecoveredSound

\* Every step keeps it.
LEMMA NextSound == RecoveredSound /\ [Next]_vars => RecoveredSound'
<1> SUFFICES ASSUME RecoveredSound, [Next]_vars PROVE RecoveredSound'
  OBVIOUS
<1>1. Stored'
  BY NextStored DEF RecoveredSound
<1>2. CASE Next
  <2>0. PICK p \in Players : \E cmd \in GameCommands(Recovered, p) : Submit(p, cmd)
    BY <1>2 DEF Next
  <2>1. PICK cmd \in GameCommands(Recovered, p) : Submit(p, cmd)
    BY <2>0
  <2>2. SameGame(ApplyAll(Recovered, Decide(Recovered, p, cmd)), Recovered')
    BY <2>1, NextRecovered DEF RecoveredSound
  <2>3. Recovered \in State /\ Legal(Recovered, p, cmd)
    BY <2>1, RecoveredIsReplay DEF RecoveredSound, Submit
  <2>4. Sound(ApplyAll(Recovered, Decide(Recovered, p, cmd)))
    BY <2>1, <2>3, CommandKeepsSound DEF RecoveredSound
  <2>5. Sound(Recovered')
    BY <2>2, <2>4, SoundIsShared
  <2>6. Sound(Recovered)'
    BY <2>5 DEF Sound, Playable, TilesUnique
  <2> QED
    BY <1>1, <2>6 DEF RecoveredSound
<1>3. CASE UNCHANGED vars
  <2>1. Recovered' = Recovered
    BY <1>3 DEF vars, Recovered, EventsAfter
  <2>2. Sound(Recovered')
    BY <2>1 DEF RecoveredSound
  <2>3. Sound(Recovered)'
    BY <2>2 DEF Sound, Playable, TilesUnique
  <2> QED
    BY <1>1, <2>3 DEF RecoveredSound
<1> QED
  BY <1>2, <1>3

\* It holds in every reachable state.
LEMMA AlwaysSound == Spec => []RecoveredSound
<1> QED
  BY InitSound, NextSound, PTL DEF Spec

\* The two halves of the aggregate agree (decide_command in gameplay.rs,
\* apply_event in engine.rs): in every reachable game, the events of a command
\* the rules accept apply, so that no legal move is refused for ever.
THEOREM DecisionsApply == Spec => []AcceptedCommandsApply
<1>1. RecoveredSound => AcceptedCommandsApply
  BY RecoveredIsReplay, CommandApplies DEF RecoveredSound, AcceptedCommandsApply
<1> QED
  BY <1>1, AlwaysSound, PTL

\* How many passes end a game is a number.
LEMMA RequiredIsNat ==
  ASSUME NEW g \in State
  PROVE  /\ IsFiniteSet(g.active_players) /\ Cardinality(g.active_players) \in Nat
         /\ RequiredPasses(g.active_players) \in Nat /\ g.consecutive_passes \in Nat
<1>1. IsFiniteSet(g.active_players) /\ Cardinality(g.active_players) \in Nat
  <2>1. IsFiniteSet(Players)
    BY PlayersAssumption, FS_Interval DEF Players
  <2> QED
    BY <2>1, FS_Subset, FS_CardinalityType DEF State
<1> QED
  BY <1>1, ProfileAssumption DEF RequiredPasses, State

\* The states before and after an accepted command, as Game sees them.
LEMMA CommandMaps ==
  ASSUME RecoveredSound, NEW p \in Players, NEW cmd \in GameCommands(Recovered, p), Submit(p, cmd)
  PROVE  G!Next
<1>1. PICK g : g = Recovered
  OBVIOUS
<1>2. PICK h : h = Recovered'
  OBVIOUS
<1> DEFINE move  == MoveEvent(g, p, cmd)
           moved == Stepped(g, move)
           over  == Ending(g, p, cmd)
           after == ApplyAll(g, Decide(g, p, cmd))
<1>3. /\ g \in State /\ cmd \in GameCommands(g, p) /\ Legal(g, p, cmd)
      /\ after # ReplayError /\ g.revision < MaxRevision /\ g.revision \in Nat
      /\ \A q \in Players : Cardinality(g.racks[q]) <= RackSize
  BY <1>1, RecoveredIsReplay DEF RecoveredSound, Sound, Submit, State
<1>4. SameGame(after, h)
  BY <1>1, <1>2, NextRecovered DEF RecoveredSound
<1>5. /\ move.player = p /\ move \in Events
      /\ Fits(g, move) /\ moved \in State /\ after \in State
      /\ Ends(g, p, cmd) => AfterCompletion(moved, over, after)
      /\ ~Ends(g, p, cmd) => after = moved
  BY <1>3, Decided, Submitted DEF LaterEvents
<1>6. /\ g.status = "Active" /\ p \in g.active_players /\ g.active_player = p
      /\ cmd.type \in {"Play", "Exchange"} => cmd.tiles # {} /\ cmd.tiles \subseteq g.racks[p]
      /\ cmd.type = "Exchange" => Len(g.bag) >= MinExchange
  BY <1>3 DEF Legal
<1>7. /\ G!MayAct(p) /\ p \in G!Players
      /\ g.scores \in [Players -> Nat] /\ g.racks \in [Players -> SUBSET Tiles]
  BY <1>1, <1>3, <1>6, SameRules DEF G!MayAct, State
<1> HIDE DEF move, moved, over, after
<1>8. CASE cmd.type = "Play"
  <2> DEFINE T == cmd.tiles
             n == DrawCount(g.bag, Cardinality(T))
  <2>1. /\ T \in SUBSET g.racks[p] /\ T # {} /\ cmd.score \in MoveScores
        /\ Cardinality(T) \in Nat
    BY <1>3, <1>6, <1>8, CommandTypes
  <2>2. /\ move.type = "TilesPlayed" /\ move.placements = T /\ move.score = cmd.score
        /\ move.drawn = Drawn(g, Cardinality(T))
    BY <1>8 DEF MoveEvent, move
  <2>3. ToSet(move.drawn) = TopTiles(g.bag, n) /\ Len(move.drawn) = n
    BY <1>3, <2>1, <2>2, DrawnPops
  <2>4. AfterPlay(g, move, moved)
    BY <1>3, <1>5, <2>2, PlayStep DEF moved
  <2>5. Ends(g, p, cmd) <=> G!IsRackOut(p, T)
    BY <1>1, <1>8, SameRules DEF Ends, EmptiesRack, G!IsRackOut, G!Cardinality, Cardinality
  <2>6. Ends(g, p, cmd) =>
          /\ over.scores = RackOutScores(g.scores, g.racks, p, cmd.score)
          /\ over.leaders = Leaders(over.scores) /\ over.reason = "RackOut"
    BY <1>8 DEF Ending, Completed, over
  <2> HIDE DEF T, n
  <2>7. /\ h.board = g.board \cup T
        /\ h.racks = [g.racks EXCEPT ![p] = (@ \ T) \cup TopTiles(g.bag, n)]
        /\ h.bag = WithoutTop(g.bag, n)
        /\ h.consecutive_passes = 0
        /\ h.active_player = NextTurn(g.active_players, p)
        /\ h.active_players = g.active_players
    BY <1>4, <1>5, <1>6, <2>2, <2>3, <2>4 DEF AfterPlay, AfterCompletion, SameGame, Refilled
  <2>8. CASE Ends(g, p, cmd)
    <3>1. /\ h.scores = RackOutScores(g.scores, g.racks, p, cmd.score)
          /\ h.leaders = Leaders(h.scores) /\ h.completion_reason = "RackOut"
          /\ h.status = "Completed"
      BY <1>4, <1>5, <2>6, <2>8 DEF AfterCompletion, SameGame
    <3>2. h.revision = g.revision + 2
      BY <1>3, <1>4, <1>5, <2>4, <2>8 DEF AfterCompletion, AfterPlay, GoesOn, SameGame, State
    <3>3. G!GameEnds(RackOutScores(g.scores, g.racks, p, cmd.score), "RackOut")
      BY <1>1, <1>2, <3>1, <3>2, SameRules DEF G!GameEnds
    <3>4. G!Play(p, T, cmd.score)
      BY <1>1, <1>2, <1>7, <2>1, <2>5, <2>7, <2>8, <3>3, SameRules DEF G!Play, n, G!Cardinality, Cardinality
    <3> QED
      BY <3>4, <1>1, <1>7, <2>1 DEF G!Next
  <2>9. CASE ~Ends(g, p, cmd)
    <3>1. /\ h.scores = [g.scores EXCEPT ![p] = @ + cmd.score]
          /\ h.revision = g.revision + 1 /\ h.status = g.status
          /\ h.leaders = g.leaders /\ h.completion_reason = g.completion_reason
      BY <1>4, <1>5, <2>2, <2>4, <2>9 DEF AfterPlay, GoesOn, SameGame
    <3>2. G!GameGoesOn
      BY <1>1, <1>2, <3>1 DEF G!GameGoesOn
    <3>3. G!Play(p, T, cmd.score)
      BY <1>1, <1>2, <1>7, <2>1, <2>5, <2>7, <2>9, <3>1, <3>2, SameRules DEF G!Play, n, G!Cardinality, Cardinality
    <3> QED
      BY <3>3, <1>1, <1>7, <2>1 DEF G!Next
  <2> QED
    BY <2>8, <2>9
<1>9. CASE cmd.type = "Exchange"
  <2> DEFINE T == cmd.tiles
             n == Cardinality(T)
  <2>1. /\ T \in SUBSET g.racks[p] /\ T # {} /\ n \in Nat /\ T \in SUBSET Tiles
    BY <1>3, <1>6, <1>9, CommandTypes
  <2> HIDE DEF T
  <2>2. /\ Ascending(T) \in Orders(T) /\ Ascending(T) \in Seq(Tiles)
        /\ BagTiles(Ascending(T)) = T
    BY <2>1, AscendingExists, OrderListsTiles
  <2>3. /\ move.type = "TilesExchanged" /\ move.returned = Ascending(T)
        /\ move.drawn = Drawn(g, n)
    BY <1>9 DEF MoveEvent, move, T
  <2>4. ToSet(move.returned) = T
    <3>1. DOMAIN Ascending(T) = 1..Len(Ascending(T))
      BY <2>2, LenProperties
    <3> QED
      BY <3>1, <2>2, <2>3 DEF ToSet, BagTiles
  <2>5. DrawCount(g.bag, n) = n
    <3>1. n <= Cardinality(g.racks[p]) /\ Cardinality(g.racks[p]) \in Nat
      BY <1>3, <2>1, TilesAreFinite, FS_Subset DEF State
    <3>2. MinExchange \in Nat /\ RackSize \in Nat /\ RackSize <= MinExchange
      BY ProfileAssumption
    <3>3. Len(g.bag) \in Nat
      BY <1>3, LenProperties DEF State
    <3> HIDE DEF n
    <3> QED
      BY <3>1, <3>2, <3>3, <1>3, <1>6, <1>9, <2>1 DEF DrawCount
  <2>6. ToSet(move.drawn) = TopTiles(g.bag, n) /\ Len(move.drawn) = n
    BY <1>3, <2>1, <2>3, <2>5, DrawnPops
  <2>7. AfterExchange(g, move, moved)
    BY <1>3, <1>5, <2>3, ExchangeStep DEF moved
  <2>8. ~Ends(g, p, cmd)
    BY <1>9 DEF Ends
  <2> HIDE DEF n
  <2>9. /\ h.board = g.board /\ h.scores = g.scores
        /\ h.racks = [g.racks EXCEPT ![p] = (@ \ T) \cup TopTiles(g.bag, n)]
        /\ h.bag = WithoutTop(g.bag, n) \o Ascending(T)
        /\ h.consecutive_passes = 0
        /\ h.active_player = NextTurn(g.active_players, p)
        /\ h.active_players = g.active_players
        /\ h.revision = g.revision + 1 /\ h.status = g.status
        /\ h.leaders = g.leaders /\ h.completion_reason = g.completion_reason
    BY <1>4, <1>5, <1>6, <2>3, <2>4, <2>6, <2>7, <2>8
       DEF AfterExchange, GoesOn, SameGame, Refilled, ReturnedBag
  <2>10. G!GameGoesOn
    BY <1>1, <1>2, <2>9 DEF G!GameGoesOn
  <2>11. G!Exchange(p, T)
    BY <1>1, <1>2, <1>6, <1>7, <1>9, <2>1, <2>2, <2>9, <2>10, SameRules
       DEF G!Exchange, n, T, G!Cardinality, Cardinality
  <2> QED
    BY <2>11, <1>1, <1>7, <2>1 DEF G!Next
<1>10. CASE cmd.type = "Pass"
  <2>1. move.type = "TurnPassed"
    BY <1>10 DEF MoveEvent, move
  <2>2. AfterPass(g, move, moved)
    BY <1>3, <1>5, <2>1, PassStep DEF moved
  <2>3. /\ h.board = g.board /\ h.racks = g.racks /\ h.bag = g.bag
        /\ h.consecutive_passes = g.consecutive_passes + 1
        /\ h.active_player = NextTurn(g.active_players, p)
        /\ h.active_players = g.active_players
    BY <1>4, <1>5, <1>6, <2>2 DEF AfterPass, AfterCompletion, SameGame
  <2>4. CASE Ends(g, p, cmd)
    <3>1. /\ over.scores = PenalisedScores(g.scores, g.racks)
          /\ over.leaders = Leaders(over.scores) /\ over.reason = "ConsecutivePassRounds"
      BY <1>10 DEF Ending, Completed, over
    <3>2. /\ h.scores = PenalisedScores(g.scores, g.racks)
          /\ h.leaders = Leaders(h.scores) /\ h.completion_reason = "ConsecutivePassRounds"
          /\ h.status = "Completed"
      BY <1>4, <1>5, <2>4, <3>1 DEF AfterCompletion, SameGame
    <3>3. h.revision = g.revision + 2
      BY <1>3, <1>4, <1>5, <2>2, <2>4 DEF AfterCompletion, AfterPass, GoesOn, SameGame
    <3>4. G!GameEnds(PenalisedScores(g.scores, g.racks), "ConsecutivePassRounds")
      BY <1>1, <1>2, <3>2, <3>3, SameRules DEF G!GameEnds
    <3>5. g.consecutive_passes + 1 >= RequiredPasses(g.active_players)
      BY <1>10, <2>4 DEF Ends
    <3> QED
      BY <1>1, <1>2, <1>7, <2>3, <3>4, <3>5, SameRules DEF G!Pass, G!Next
  <2>5. CASE ~Ends(g, p, cmd)
    <3>1. /\ h.scores = g.scores
          /\ h.revision = g.revision + 1 /\ h.status = g.status
          /\ h.leaders = g.leaders /\ h.completion_reason = g.completion_reason
      BY <1>4, <1>5, <2>2, <2>5 DEF AfterPass, GoesOn, SameGame
    <3>2. G!GameGoesOn
      BY <1>1, <1>2, <3>1 DEF G!GameGoesOn
    <3>3. g.consecutive_passes + 1 < RequiredPasses(g.active_players)
      <4>1. RequiredPasses(g.active_players) \in Int /\ g.consecutive_passes \in Nat
        BY <1>3, RequiredIsNat
      <4> QED
        BY <4>1, <1>10, <2>5 DEF Ends
    <3> QED
      BY <1>1, <1>2, <1>7, <2>3, <3>1, <3>2, <3>3, SameRules DEF G!Pass, G!Next
  <2> QED
    BY <2>4, <2>5
<1>11. CASE cmd.type = "Resign"
  <2> DEFINE left == g.active_players \ {p}
  <2>1. move.type = "GameResigned"
    BY <1>11 DEF MoveEvent, move
  <2>2. AfterResignation(g, move, moved)
    BY <1>3, <1>5, <2>1, ResignStep DEF moved
  <2>3. /\ h.board = g.board /\ h.racks = g.racks /\ h.bag = g.bag
        /\ h.consecutive_passes = 0
        /\ h.active_player = TurnAfterLeaving(g, p)
        /\ h.active_players = left
    BY <1>4, <1>5, <1>6, <2>2 DEF AfterResignation, AfterCompletion, SameGame
  <2>4. /\ Cardinality(g.active_players) \in Nat /\ Cardinality(g.active_players) >= 2
        /\ Cardinality(left) = Cardinality(g.active_players) - 1
    <3>1. IsFiniteSet(g.active_players) /\ Cardinality(g.active_players) \in Nat
      BY <1>3, RequiredIsNat
    <3>2. Cardinality(left) = Cardinality(g.active_players) - 1
      BY <3>1, <1>6, FS_RemoveElement
    <3> QED
      BY <3>1, <3>2, <1>1, <1>6 DEF RecoveredSound, Sound, Playable
  <2>5. CASE Ends(g, p, cmd)
    <3>1. /\ over.scores = PenalisedScores(g.scores, g.racks)
          /\ over.leaders = Leaders(over.scores) /\ over.reason = "InsufficientActivePlayers"
      BY <1>11 DEF Ending, Completed, over
    <3>2. /\ h.scores = PenalisedScores(g.scores, g.racks)
          /\ h.leaders = Leaders(h.scores) /\ h.completion_reason = "InsufficientActivePlayers"
          /\ h.status = "Completed"
      BY <1>4, <1>5, <2>5, <3>1 DEF AfterCompletion, SameGame
    <3>3. h.revision = g.revision + 2
      BY <1>3, <1>4, <1>5, <2>2, <2>5 DEF AfterCompletion, AfterResignation, GoesOn, SameGame
    <3>4. G!GameEnds(PenalisedScores(g.scores, g.racks), "InsufficientActivePlayers")
      BY <1>1, <1>2, <3>2, <3>3, SameRules DEF G!GameEnds
    <3>5. Cardinality(g.active_players) = 2
      BY <1>11, <2>5 DEF Ends
    <3>6. h.active_player = g.active_player
      <4> HIDE DEF left
      <4>1. ~(Cardinality(left) >= 2)
        BY <2>4, <3>5
      <4> QED
        BY <4>1, <2>3 DEF TurnAfterLeaving, left
    <3> QED
      BY <1>1, <1>2, <1>7, <2>3, <3>4, <3>5, <3>6, SameRules
         DEF G!Resign, G!Next, G!Cardinality, Cardinality
  <2>6. CASE ~Ends(g, p, cmd)
    <3>1. /\ h.scores = g.scores
          /\ h.revision = g.revision + 1 /\ h.status = g.status
          /\ h.leaders = g.leaders /\ h.completion_reason = g.completion_reason
      BY <1>4, <1>5, <2>2, <2>6 DEF AfterResignation, GoesOn, SameGame
    <3>2. G!GameGoesOn
      BY <1>1, <1>2, <3>1 DEF G!GameGoesOn
    <3>3. Cardinality(g.active_players) # 2
      BY <1>11, <2>6 DEF Ends
    <3>4. h.active_player = NextTurn(left, p)
      <4> HIDE DEF left
      <4>1. Cardinality(left) >= 2
        BY <2>4, <3>3
      <4> QED
        BY <4>1, <1>6, <2>3 DEF TurnAfterLeaving, left
    <3>5. G!Cardinality(g.active_players) # 2
      BY <3>3 DEF G!Cardinality, Cardinality
    <3>6. h.active_player = G!NextTurn(h.active_players, p)
      BY <2>3, <3>4, SameRules
    <3>7. G!Resign(p)
      BY <1>1, <1>2, <1>7, <2>3, <3>1, <3>2, <3>5, <3>6 DEF G!Resign
    <3> QED
      BY <3>7, <1>1, <1>7 DEF G!Next
  <2> QED
    BY <2>5, <2>6
<1> QED
  BY <1>3, <1>8, <1>9, <1>10, <1>11, CommandTypes

\* The initial journal maps to an initial state of the atomic game.
LEMMA InitMaps == Init => G!Init
<1> SUFFICES ASSUME Init PROVE G!Init
  OBVIOUS
<1>1. PICK s \in Shuffles, first \in Players : Recovered = StartState(Started(s, first))
  BY InitIsStart
<1> DEFINE g == StartState(Started(s, first))
<1>2. /\ g.racks = [p \in Players |-> DealtRack(s, p)]
      /\ g.bag = WithoutTop(s, NumPlayers * RackSize)
      /\ g.active_player = first
  BY StartOfGame
<1>3. /\ g.status = "Active" /\ g.active_players = Players /\ g.board = {}
      /\ g.scores = [p \in Players |-> 0] /\ g.consecutive_passes = 0 /\ g.leaders = {}
      /\ g.completion_reason = "None" /\ g.revision = 1
  BY DEF StartState
<1> HIDE DEF g
<1> QED
  BY <1>1, <1>2, <1>3, SameRules DEF G!Init, g

\* Every step of the journal maps to a step of the atomic game, or to none.
LEMMA NextMaps == RecoveredSound /\ [Next]_vars => [G!Next]_G!vars
<1> SUFFICES ASSUME RecoveredSound, [Next]_vars PROVE [G!Next]_G!vars
  OBVIOUS
<1>1. CASE Next
  BY <1>1, CommandMaps DEF Next
<1>2. CASE UNCHANGED vars
  <2>1. Recovered' = Recovered
    BY <1>2 DEF vars, Recovered, EventsAfter
  <2> QED
    BY <2>1 DEF G!vars
<1> QED
  BY <1>1, <1>2

\* The journal, the snapshot and their recovery together are one atomic game:
\* what decide_command, apply_event, replay and recover_game do to the stored
\* rows is what the rules of Game do to the state the rows stand for.
THEOREM JournalImplementsGame == Spec => ImplementsGame
<1> QED
  BY InitMaps, NextMaps, AlwaysSound, PTL DEF Spec, ImplementsGame, G!Spec

-----------------------------------------------------------------------------
(* What players have earned *)

\* f holds what p has earned after 0, 1, ..., Len(j) of the events.
SumAfterEach(f, p, j) ==
  f = [n \in 0..Len(j) |-> IF n = 0 THEN 0 ELSE f[n - 1] + PointsOf(j[n], p)]

EarnedIn(j, p) ==
  LET sum[n \in 0..Len(j)] == IF n = 0 THEN 0 ELSE sum[n - 1] + PointsOf(j[n], p)
  IN  sum[Len(j)]

\* There is a function from the numbers of events to what a player has earned.
LEMMA SumAfterEachExists ==
  ASSUME NEW E, NEW j \in Seq(E), NEW p
  PROVE  \E f : SumAfterEach(f, p, j)
<1> DEFINE Upto(f, m) == f = [n \in 0..m |-> IF n = 0 THEN 0 ELSE f[n - 1] + PointsOf(j[n], p)]
           Bad == {m \in 0..Len(j) : ~ \E f : Upto(f, m)}
<1>1. Len(j) \in Nat
  BY LenProperties
<1>2. \E f : Upto(f, 0)
  <2> WITNESS [n \in 0..0 |-> 0]
  <2> QED
    OBVIOUS
<1>3. ASSUME NEW m \in 1..Len(j), NEW f, Upto(f, m - 1)
      PROVE  \E h : Upto(h, m)
  <2> DEFINE h == [n \in 0..m |-> IF n = m THEN f[m - 1] + PointsOf(j[m], p) ELSE f[n]]
  <2>1. \A n \in 0..(m - 1) : f[n] = IF n = 0 THEN 0 ELSE f[n - 1] + PointsOf(j[n], p)
    <3> HIDE DEF h
    <3> QED
      BY <1>3
  <2>2. ASSUME NEW n \in 0..m
        PROVE  h[n] = IF n = 0 THEN 0 ELSE h[n - 1] + PointsOf(j[n], p)
    <3>1. CASE n = m
      <4>1. h[n] = f[m - 1] + PointsOf(j[m], p) /\ m - 1 \in 0..m /\ m - 1 # m
        BY <3>1, <1>1
      <4>2. h[m - 1] = f[m - 1]
        BY <4>1
      <4> QED
        BY <4>1, <4>2, <3>1
    <3>2. CASE n = 0
      BY <3>2, <2>1
    <3>3. CASE n # 0 /\ n # m
      <4>1. n \in 0..(m - 1) /\ n - 1 \in 0..m /\ n - 1 # m
        BY <3>3, <1>1
      <4>2. h[n] = f[n] /\ h[n - 1] = f[n - 1]
        BY <4>1, <3>3
      <4> HIDE DEF h
      <4> QED
        BY <4>1, <4>2, <3>3, <2>1
    <3> QED
      BY <3>1, <3>2, <3>3
  <2>3. h = [n \in 0..m |-> h[n]]
    OBVIOUS
  <2> HIDE DEF h
  <2>4. Upto(h, m)
    BY <2>2, <2>3
  <2> QED
    BY <2>4
<1>4. Bad = {}
  <2> SUFFICES ASSUME Bad # {} PROVE FALSE
    OBVIOUS
  <2> HIDE DEF Upto
  <2>1. PICK m \in Bad : \A k \in Bad : m <= k
    <3>1. Bad \in SUBSET Nat
      BY <1>1
    <3> HIDE DEF Bad
    <3> QED
      BY <3>1, LeastNatural
  <2>2. m \in 1..Len(j)
    BY <1>2, <1>1
  <2>3. m - 1 \in 0..Len(j) /\ ~(m <= m - 1)
    BY <2>2, <1>1
  <2>4. \E f : Upto(f, m - 1)
    BY <2>1, <2>3
  <2> QED
    BY <2>4, <2>2, <1>3
<1> HIDE DEF Upto
<1>5. \E f : Upto(f, Len(j))
  BY <1>4, <1>1
<1> QED
  BY <1>5 DEF SumAfterEach, Upto

\* EarnedIn gives the last of these sums.
LEMMA EarnedIsLast ==
  ASSUME NEW E, NEW j \in Seq(E), NEW p
  PROVE  \E f : SumAfterEach(f, p, j) /\ EarnedIn(j, p) = f[Len(j)]
<1> DEFINE f == CHOOSE f : SumAfterEach(f, p, j)
<1>1. SumAfterEach(f, p, j)
  BY SumAfterEachExists
<1>2. EarnedIn(j, p) = f[Len(j)]
  BY DEF EarnedIn, SumAfterEach
<1> QED
  BY <1>1, <1>2

\* One more event adds its points.
LEMMA EarnedOfOneMore ==
  ASSUME NEW E, NEW j \in Seq(E), NEW e \in E, NEW p
  PROVE  EarnedIn(Append(j, e), p) = EarnedIn(j, p) + PointsOf(e, p)
<1> DEFINE more == Append(j, e)
<1>1. /\ Len(j) \in Nat /\ more \in Seq(E) /\ Len(more) = Len(j) + 1
      /\ more[Len(j) + 1] = e /\ \A n \in 1..Len(j) : more[n] = j[n]
  BY LenProperties, AppendProperties
<1> HIDE DEF more
<1>2. PICK f : SumAfterEach(f, p, j) /\ EarnedIn(j, p) = f[Len(j)]
  BY EarnedIsLast
<1>3. PICK h : SumAfterEach(h, p, more) /\ EarnedIn(more, p) = h[Len(more)]
  BY <1>1, EarnedIsLast
<1>4. /\ \A n \in 0..Len(j) : f[n] = IF n = 0 THEN 0 ELSE f[n - 1] + PointsOf(j[n], p)
      /\ \A n \in 0..Len(more) : h[n] = IF n = 0 THEN 0 ELSE h[n - 1] + PointsOf(more[n], p)
  BY <1>2, <1>3 DEF SumAfterEach
<1> DEFINE Bad == {n \in 0..Len(j) : h[n] # f[n]}
<1>5. ASSUME Bad # {}
      PROVE  FALSE
  <2>1. PICK n \in Bad : \A k \in Bad : n <= k
    <3>1. Bad \in SUBSET Nat
      BY <1>1
    <3> HIDE DEF Bad
    <3> QED
      BY <3>1, <1>5, LeastNatural
  <2>2. n # 0
    BY <1>1, <1>4
  <2>3. n \in 1..Len(j) /\ n - 1 \in 0..Len(j) /\ n \in 0..Len(more) /\ ~(n <= n - 1)
    BY <2>2, <1>1
  <2>4. h[n - 1] = f[n - 1]
    BY <2>1, <2>3
  <2>5. h[n] = f[n]
    BY <2>3, <2>4, <1>1, <1>4
  <2> QED
    BY <2>5
<1>6. h[Len(j)] = f[Len(j)]
  BY <1>1, <1>5
<1>7. h[Len(more)] = h[Len(more) - 1] + PointsOf(more[Len(more)], p)
  BY <1>1, <1>4
<1>8. Len(more) - 1 = Len(j)
  BY <1>1
<1> QED
  BY <1>1, <1>2, <1>3, <1>6, <1>7, <1>8 DEF more

\* Nothing is earned by the start of a game.
LEMMA EarnedOfStart ==
  ASSUME NEW e \in Events, e.type = "GameStarted", NEW p
  PROVE  EarnedIn(<<e>>, p) = 0
<1>1. <<e>> \in Seq(Events) /\ Len(<<e>>) = 1 /\ (<<e>>)[1] = e
  OBVIOUS
<1>2. PICK f : SumAfterEach(f, p, <<e>>) /\ EarnedIn(<<e>>, p) = f[Len(<<e>>)]
  BY <1>1, EarnedIsLast
<1> DEFINE j == <<e>>
<1> HIDE DEF j
<1>3. f[1] = f[0] + PointsOf(j[1], p) /\ f[0] = 0
  BY <1>1, <1>2 DEF SumAfterEach, j
<1>4. PointsOf(e, p) = 0
  BY DEF PointsOf
<1> QED
  BY <1>1, <1>2, <1>3, <1>4 DEF j

-----------------------------------------------------------------------------
(* Scores settle what was earned *)

Settled(j, g) ==
  \A p \in Players :
    /\ EarnedIn(j, p) \in Nat
    /\ IF g.status = "Active" THEN g.scores[p] = EarnedIn(j, p)
       ELSE IF g.racks[p] = {}
       THEN g.scores[p] = EarnedIn(j, p) + RackPoints[UNION {g.racks[q] : q \in Players}]
       ELSE g.scores[p] = SaturatingSub(EarnedIn(j, p), RackPoints[g.racks[p]])

\* An accepted command settles the game it ends.
LEMMA CommandSettles ==
  ASSUME NEW j \in Seq(Events), NEW g \in State, Sound(g), Settled(j, g),
         NEW p \in Players, NEW cmd \in GameCommands(g, p), Legal(g, p, cmd)
  PROVE  Settled(j \o Decide(g, p, cmd), ApplyAll(g, Decide(g, p, cmd)))
<1> DEFINE move  == MoveEvent(g, p, cmd)
           moved == Stepped(g, move)
           over  == Ending(g, p, cmd)
           after == ApplyAll(g, Decide(g, p, cmd))
           more  == j \o Decide(g, p, cmd)
           gain  == IF cmd.type = "Play" THEN cmd.score ELSE 0
<1>1. /\ Fits(g, move) /\ moved \in State /\ after \in State
      /\ move \in Events /\ move.player = p
      /\ Ends(g, p, cmd) => AfterCompletion(moved, over, after)
      /\ ~Ends(g, p, cmd) => after = moved
  BY CommandApplies, Submitted, Decided DEF LaterEvents
<1>2. /\ g.status = "Active" /\ p \in g.active_players /\ g.active_player = p
      /\ \A q \in Players : g.racks[q] # {} /\ EarnedIn(j, q) \in Nat
      /\ \A q \in Players : g.scores[q] = EarnedIn(j, q)
      /\ g.racks \in [Players -> SUBSET Tiles] /\ g.scores \in [Players -> Nat]
  BY DEF Legal, Sound, Playable, Settled, State
<1>3. cmd.type \in {"Play", "Exchange", "Pass", "Resign"} /\ gain \in Nat
  BY CommandTypes
<1>4. ASSUME NEW q \in Players
      PROVE  EarnedIn(more, q) = EarnedIn(j, q) + (IF q = p THEN gain ELSE 0)
  <2>1. PointsOf(move, q) = IF q = p THEN gain ELSE 0
    BY <1>1, <1>3 DEF MoveEvent, PointsOf
  <2>2. Ends(g, p, cmd) => over \in Events /\ PointsOf(over, q) = 0
    BY Decided DEF LaterEvents, Ends, Ending, Completed, PointsOf
  <2> DEFINE one == Append(j, move)
  <2>3. EarnedIn(one, q) = EarnedIn(j, q) + (IF q = p THEN gain ELSE 0) /\ one \in Seq(Events)
    BY <1>1, <2>1, EarnedOfOneMore, AppendProperties
  <2>4. CASE ~Ends(g, p, cmd)
    <3>1. Decide(g, p, cmd) = <<move>>
      BY <2>4, Decided
    <3> HIDE DEF move
    <3>2. j \o <<move>> = one
      BY <1>1, AppendIsConcat
    <3> QED
      BY <2>3, <3>1, <3>2
  <2>5. CASE Ends(g, p, cmd)
    <3>1. Decide(g, p, cmd) = <<move, over>>
      BY <2>5, Decided
    <3> HIDE DEF move, over
    <3>2. j \o <<move, over>> = Append(one, over)
      BY <1>1, <2>2, <2>5, TwoMore
    <3>3. more = Append(one, over)
      BY <3>1, <3>2
    <3> HIDE DEF one, more
    <3>4. EarnedIn(Append(one, over), q) = EarnedIn(one, q) + 0
      BY <2>2, <2>3, <2>5, EarnedOfOneMore
    <3>5. EarnedIn(one, q) \in Nat
      BY <2>3, <1>2, <1>3
    <3> QED
      BY <2>3, <3>3, <3>4, <3>5
  <2> QED
    BY <2>4, <2>5
<1>5. /\ cmd.type = "Play" => move.type = "TilesPlayed" /\ move.score = cmd.score
                              /\ move.placements = cmd.tiles
      /\ cmd.type = "Exchange" => move.type = "TilesExchanged"
      /\ cmd.type = "Pass" => move.type = "TurnPassed"
      /\ cmd.type = "Resign" => move.type = "GameResigned"
  BY DEF MoveEvent
<1> HIDE DEF move, moved, over, after, more, gain
<1>6. \A q \in Players : EarnedIn(more, q) \in Nat
  BY <1>2, <1>3, <1>4
<1>7. CASE ~Ends(g, p, cmd)
  <2>1. /\ moved.status = "Active"
        /\ moved.scores = [g.scores EXCEPT ![p] = @ + gain]
    <3>1. CASE cmd.type = "Play"
      BY <3>1, <1>1, <1>2, <1>5, PlayStep DEF moved, AfterPlay, GoesOn, gain
    <3>2. CASE cmd.type # "Play"
      <4>1. moved.status = "Active" /\ moved.scores = g.scores
        BY <3>2, <1>1, <1>2, <1>3, <1>5, ExchangeStep, PassStep, ResignStep
           DEF moved, AfterExchange, AfterPass, AfterResignation, GoesOn
      <4>2. g.scores = [g.scores EXCEPT ![p] = @ + 0]
        BY <1>2
      <4> QED
        BY <3>2, <4>1, <4>2 DEF gain
    <3> QED
      BY <3>1, <3>2
  <2>2. after = moved
    BY <1>1, <1>7
  <2>3. \A q \in Players : moved.scores[q] = g.scores[q] + (IF q = p THEN gain ELSE 0)
    BY <2>1, <1>2
  <2> QED
    BY <2>1, <2>2, <2>3, <1>2, <1>4, <1>6 DEF Settled, after, more
<1>8. CASE Ends(g, p, cmd)
  <2>1. after.status = "Completed" /\ after.racks = moved.racks /\ after.scores = over.scores
    BY <1>1, <1>8 DEF AfterCompletion
  <2>2. CASE cmd.type = "Play"
    <3>1. over.scores = RackOutScores(g.scores, g.racks, p, cmd.score)
      BY <2>2 DEF over, Ending, Completed
    <3>2. /\ moved.racks[p] = {}
          /\ \A q \in Players : q # p => moved.racks[q] = g.racks[q]
      <4> DEFINE T == cmd.tiles
                 k == DrawCount(g.bag, Cardinality(T))
                 left == WithoutTop(g.bag, k)
                 D == TopTiles(g.bag, k)
      <4>1. T \in SUBSET g.racks[p] /\ T \in SUBSET Tiles /\ Cardinality(T) \in Nat
        BY <2>2, CommandTypes
      <4>2. Draws(g, p, T, k, left, D)
        BY <4>1, Refill DEF Sound
      <4>3. ToSet(move.drawn) = D
        BY <4>1, <2>2, DrawnPops DEF move, MoveEvent
      <4>4. moved.racks = Refilled(g, move, T)
        BY <1>1, <1>5, <2>2, PlayStep DEF moved, AfterPlay
      <4>5. EmptiesRack(g, p, T)
        BY <1>8, <2>2 DEF Ends
      <4>6. Cardinality(g.racks[p]) - Cardinality(T) + k = 0
        BY <4>5 DEF EmptiesRack
      <4> HIDE DEF T, k, left, D
      <4>7. (g.racks[p] \ T) \cup D = {}
        <5>1. Cardinality((g.racks[p] \ T) \cup D) = 0
          BY <4>2, <4>6 DEF Draws
        <5>2. IsFiniteSet((g.racks[p] \ T) \cup D)
          <6>1. g.racks[p] \ T \in SUBSET Tiles
            BY <1>2
          <6> QED
            BY <6>1, <4>2, TilesAreFinite, FS_Union DEF Draws
        <5> QED
          BY <5>1, <5>2, FS_EmptySet
      <4>8. moved.racks = [g.racks EXCEPT ![p] = (@ \ T) \cup D]
        BY <4>3, <4>4, <1>1 DEF Refilled
      <4> QED
        BY <4>7, <4>8, <1>2
    <3>3. UNION {moved.racks[q] : q \in Players} = UNION {g.racks[q] : q \in Players \ {p}}
      BY <3>2
    <3>4. after.scores[p] = EarnedIn(more, p) + RackPoints[UNION {moved.racks[r] : r \in Players}]
      <4>1. EarnedIn(more, p) = g.scores[p] + cmd.score
        BY <1>2, <1>4, <2>2 DEF gain
      <4>2. after.scores[p]
              = g.scores[p] + cmd.score + RackPoints[UNION {g.racks[q] : q \in Players \ {p}}]
        BY <2>1, <3>1 DEF RackOutScores
      <4> QED
        BY <3>3, <4>1, <4>2
    <3>5. ASSUME NEW q \in Players, q # p
          PROVE  after.scores[q] = SaturatingSub(EarnedIn(more, q), RackPoints[moved.racks[q]])
      <4>1. EarnedIn(more, q) = g.scores[q]
        BY <1>2, <1>4, <3>5
      <4>2. after.scores[q] = SaturatingSub(g.scores[q], RackPoints[g.racks[q]])
        BY <2>1, <3>1, <3>5 DEF RackOutScores
      <4> QED
        BY <3>2, <3>5, <4>1, <4>2
    <3>6. Settled(more, after)
      BY <1>2, <1>6, <2>1, <3>2, <3>4, <3>5 DEF Settled
    <3> QED
      BY <3>6 DEF after, more
  <2>3. CASE cmd.type \in {"Pass", "Resign"}
    <3>1. over.scores = PenalisedScores(g.scores, g.racks)
      BY <2>3 DEF over, Ending, Completed
    <3>2. moved.racks = g.racks
      BY <2>3, <1>1, <1>5, PassStep, ResignStep DEF moved, AfterPass, AfterResignation
    <3>3. \A q \in Players :
            after.scores[q] = SaturatingSub(EarnedIn(more, q), RackPoints[g.racks[q]])
      <4>1. gain = 0
        BY <2>3 DEF gain
      <4>2. \A q \in Players : EarnedIn(more, q) = EarnedIn(j, q)
        BY <4>1, <1>2, <1>4
      <4> QED
        BY <4>2, <1>2, <2>1, <3>1 DEF PenalisedScores
    <3>4. Settled(more, after)
      BY <1>2, <1>6, <2>1, <3>2, <3>3 DEF Settled
    <3> QED
      BY <3>4 DEF after, more
  <2> QED
    BY <1>3, <1>8, <2>2, <2>3 DEF Ends
<1> QED
  BY <1>7, <1>8

\* So is the settlement of its scores.
LEMMA SettledIsShared ==
  ASSUME NEW j, NEW g, NEW h, SameGame(g, h), Settled(j, g)
  PROVE  Settled(j, h)
BY DEF SameGame, Settled

ScoresSettled == RecoveredSound /\ Settled(journal, Recovered)

\* The invariant holds at the start.
LEMMA InitSettled == Init => ScoresSettled
<1> SUFFICES ASSUME Init PROVE ScoresSettled
  OBVIOUS
<1>1. PICK s \in Shuffles, first \in Players :
        journal = <<Started(s, first)>> /\ Recovered = StartState(Started(s, first))
  BY InitIsStart
<1>2. Started(s, first) \in Events /\ Started(s, first).type = "GameStarted"
  BY StartOfGame
<1>3. \A p \in Players : EarnedIn(journal, p) = 0
  BY <1>1, <1>2, EarnedOfStart
<1>4. Recovered.status = "Active" /\ \A p \in Players : Recovered.scores[p] = 0
  BY <1>1 DEF StartState
<1> QED
  BY <1>3, <1>4, InitSound DEF ScoresSettled, Settled

\* Every step keeps it.
LEMMA NextSettled == ScoresSettled /\ [Next]_vars => ScoresSettled'
<1> SUFFICES ASSUME ScoresSettled, [Next]_vars PROVE ScoresSettled'
  OBVIOUS
<1>1. RecoveredSound'
  BY NextSound DEF ScoresSettled
<1>2. Settled(journal', Recovered')
  <2>1. CASE Next
    <3>0. PICK p \in Players : \E cmd \in GameCommands(Recovered, p) : Submit(p, cmd)
      BY <2>1 DEF Next
    <3>1. PICK cmd \in GameCommands(Recovered, p) : Submit(p, cmd)
      BY <3>0
    <3>2. SameGame(ApplyAll(Recovered, Decide(Recovered, p, cmd)), Recovered')
      BY <3>1, NextRecovered DEF ScoresSettled, RecoveredSound
    <3>3. /\ Recovered \in State /\ Legal(Recovered, p, cmd) /\ journal \in Seq(Events)
          /\ journal' = journal \o Decide(Recovered, p, cmd)
      BY <3>1, RecoveredIsReplay DEF ScoresSettled, RecoveredSound, Stored, Replays, Submit
    <3>4. Settled(journal', ApplyAll(Recovered, Decide(Recovered, p, cmd)))
      BY <3>3, CommandSettles DEF ScoresSettled, RecoveredSound
    <3> QED
      BY <3>2, <3>4, SettledIsShared
  <2>2. CASE UNCHANGED vars
    <3>1. Recovered' = Recovered /\ journal' = journal
      BY <2>2 DEF vars, Recovered, EventsAfter
    <3> QED
      BY <3>1 DEF ScoresSettled
  <2> QED
    BY <2>1, <2>2
<1>3. Settled(journal, Recovered)'
  BY <1>2 DEF Settled, EarnedIn
<1> QED
  BY <1>1, <1>3 DEF ScoresSettled

\* Whatever order of plays, passes and resignations a game took
\* (completion_event_after_rack_out, completion_event_with_rack_penalties),
\* every final score is what the player earned, settled once.
THEOREM FinalScoresSettle == Spec => []FinalScoresSettleEarnings
<1>1. ScoresSettled => FinalScoresSettleEarnings
  BY DEF ScoresSettled, Settled, FinalScoresSettleEarnings, Earned, EarnedIn
<1> QED
  BY <1>1, InitSettled, NextSettled, PTL DEF Spec

-----------------------------------------------------------------------------
(* Who moves when *)

\* How many seats player q sits after player t.
Ahead(t, q) == IF q >= t THEN q - t ELSE q - t + NumPlayers

\* The turn goes to the first player after the one who moved, who is the last
\* to move again; the others stay in their order.
LEMMA TurnGoesRound ==
  ASSUME NEW active \in SUBSET Players, NEW t \in Players, active \ {t} # {}
  PROVE  LET a == NextTurn(active, t)
         IN  /\ a \in active \ {t}
             /\ \A q \in active \ {t} : Ahead(a, q) = Ahead(t, q) - Ahead(t, a)
             /\ \A q \in active \ {t} : Ahead(a, q) < Ahead(a, t)
             /\ \A q \in Players : Ahead(t, q) \in Nat /\ Ahead(a, q) \in Nat
<1> DEFINE First(k) == /\ SeatAfter(t, k) \in active
                       /\ \A j \in 1..(k - 1) : SeatAfter(t, j) \notin active
           first == CHOOSE k \in 1..NumPlayers : First(k)
           a == NextTurn(active, t)
           K == {k \in 1..NumPlayers : SeatAfter(t, k) \in active}
<1>1. NumPlayers \in Nat /\ NumPlayers >= 2 /\ Players = 1..NumPlayers
  BY PlayersAssumption DEF Players
<1>2. \A q \in Players \ {t} :
        Ahead(t, q) \in 1..(NumPlayers - 1) /\ SeatAfter(t, Ahead(t, q)) = q
  BY <1>1 DEF Ahead, SeatAfter
<1>3. \A k \in 1..(NumPlayers - 1) : SeatAfter(t, k) \in Players \ {t} /\ Ahead(t, SeatAfter(t, k)) = k
  BY <1>1 DEF Ahead, SeatAfter
<1>4. PICK o \in active \ {t} : TRUE
  OBVIOUS
<1>5. Ahead(t, o) \in K
  BY <1>1, <1>2, <1>4
<1>6. \E k \in 1..NumPlayers : First(k)
  <2>1. PICK k \in K : \A j \in K : k <= j
    <3>1. K \in SUBSET Nat
      BY <1>1
    <3> HIDE DEF K
    <3> QED
      BY <3>1, <1>5, LeastNatural
  <2>2. \A j \in 1..(k - 1) : j \in 1..NumPlayers /\ ~(k <= j)
    BY <1>1
  <2>3. \A j \in 1..(k - 1) : SeatAfter(t, j) \notin active
    BY <2>1, <2>2
  <2> QED
    BY <2>1, <2>3
<1>7. first \in 1..NumPlayers /\ First(first) /\ a = SeatAfter(t, first)
  BY <1>6 DEF NextTurn
<1> HIDE DEF first, a
<1>8. ASSUME NEW q \in active \ {t}
      PROVE  first <= Ahead(t, q)
  <2>1. Ahead(t, q) \in 1..(NumPlayers - 1) /\ SeatAfter(t, Ahead(t, q)) \in active
    BY <1>2
  <2>2. Ahead(t, q) \notin 1..(first - 1)
    BY <2>1, <1>7
  <2> QED
    BY <2>1, <2>2, <1>7, <1>1
<1>9. first \in 1..(NumPlayers - 1)
  BY <1>1, <1>2, <1>4, <1>7, <1>8
<1>10. a \in active \ {t} /\ Ahead(t, a) = first
  BY <1>3, <1>7, <1>9
<1>11. \A q \in active \ {t} : Ahead(t, a) <= Ahead(t, q) /\ q \in Players
  BY <1>8, <1>10
<1>12. a \in Players /\ a # t
  BY <1>10
<1>13. \A q \in active \ {t} : Ahead(a, q) = Ahead(t, q) - Ahead(t, a)
  BY <1>1, <1>11, <1>12 DEF Ahead
<1>14. \A q \in active \ {t} : Ahead(a, q) < Ahead(a, t)
  BY <1>1, <1>11, <1>12 DEF Ahead
<1>15. \A q \in Players : Ahead(t, q) \in Nat /\ Ahead(a, q) \in Nat
  BY <1>1, <1>12 DEF Ahead
<1> QED
  BY <1>10, <1>13, <1>14, <1>15 DEF a

\* MovesOf, ActiveAfter and RoundRobin of any journal.
Moves(j, p) == {i \in 2..Len(j) : j[i].type # "GameCompleted" /\ j[i].player = p}

ActiveIn(j, n) == Players \ {j[i].player : i \in {k \in 1..n : j[k].type = "GameResigned"}}

One(S) == \E l : S = {l}

\* Event i is the last move of p.
LastMove(j, p, i) == i \in Moves(j, p) /\ \A k \in Moves(j, p) : k <= i

\* The moves of q after the event i.
Since(j, q, i) == Moves(j, q) \cap (i + 1)..Len(j)

\* p moves by event i, and next by event k.
NextMove(j, p, i, k) ==
  /\ i \in Moves(j, p) /\ k \in Moves(j, p) /\ i < k
  /\ \A l \in Moves(j, p) : l <= i \/ l >= k

Between(j, q, i, k) == Moves(j, q) \cap (i + 1)..(k - 1)

Rounds(j) ==
  \A p \in Players : \A i, k : NextMove(j, p, i, k) =>
    \A q \in ActiveIn(j, k) : q # p => One(Between(j, q, i, k))

\* Since the last move of p, those who come before p have not moved, and those
\* who come after p have moved once.
MovedSince(j, a, p, q, i) ==
  IF Ahead(a, q) < Ahead(a, p) THEN Since(j, q, i) = {} ELSE One(Since(j, q, i))

InOrder(j, a, active) ==
  \A p, q \in active : p # q => \A i : LastMove(j, p, i) => MovedSince(j, a, p, q, i)

\* The moves and the active players once one more event is appended.
LEMMA MovesOfOneMore ==
  ASSUME NEW j \in Seq(Events), j # <<>>, NEW e \in Events
  PROVE  LET more == Append(j, e)
             n == Len(j) + 1
         IN  /\ Len(j) \in Nat /\ Len(j) >= 1 /\ Len(more) = n /\ more[n] = e
             /\ \A i \in 1..Len(j) : more[i] = j[i]
             /\ \A p : Moves(j, p) \subseteq 2..Len(j)
             /\ \A p : e.type = "GameCompleted" \/ e.player # p => Moves(more, p) = Moves(j, p)
             /\ e.type # "GameCompleted" =>
                  Moves(more, e.player) = Moves(j, e.player) \cup {n}
             /\ \A k \in 1..Len(j) : ActiveIn(more, k) = ActiveIn(j, k)
             /\ e.type # "GameResigned" => ActiveIn(more, n) = ActiveIn(j, Len(j))
             /\ e.type = "GameResigned" => ActiveIn(more, n) = ActiveIn(j, Len(j)) \ {e.player}
<1> DEFINE more == Append(j, e)
           n == Len(j) + 1
<1>1. /\ Len(j) \in Nat /\ Len(j) >= 1 /\ Len(more) = n /\ more[n] = e
      /\ \A i \in 1..Len(j) : more[i] = j[i]
  BY LenProperties, AppendProperties, EmptySeq
<1> HIDE DEF more
<1>2. \A p : Moves(j, p) \subseteq 2..Len(j)
  BY DEF Moves
<1>3. \A i : i \in 2..Len(more) <=> i \in 2..Len(j) \/ i = n
  BY <1>1
<1>4. ASSUME NEW p
      PROVE  /\ e.type = "GameCompleted" \/ e.player # p => Moves(more, p) = Moves(j, p)
             /\ e.type # "GameCompleted" /\ e.player = p => Moves(more, p) = Moves(j, p) \cup {n}
  <2>1. \A i \in 2..Len(j) : i \in Moves(more, p) <=> i \in Moves(j, p)
    BY <1>1, <1>3 DEF Moves
  <2>2. n \in Moves(more, p) <=> e.type # "GameCompleted" /\ e.player = p
    BY <1>1, <1>3 DEF Moves
  <2>3. \A i \in Moves(more, p) : i \in 2..Len(j) \/ i = n
    BY <1>3 DEF Moves
  <2>4. Moves(j, p) \subseteq 2..Len(j)
    BY <1>2
  <2> HIDE DEF n
  <2>5. CASE e.type = "GameCompleted" \/ e.player # p
    BY <2>1, <2>2, <2>3, <2>4, <2>5
  <2>6. CASE e.type # "GameCompleted" /\ e.player = p
    BY <2>1, <2>2, <2>3, <2>4, <2>6
  <2> QED
    BY <2>5, <2>6
<1>5. \A k \in 1..Len(j) : ActiveIn(more, k) = ActiveIn(j, k)
  <2>1. ASSUME NEW k \in 1..Len(j)
        PROVE  ActiveIn(more, k) = ActiveIn(j, k)
    <3>1. \A i \in 1..k : more[i] = j[i]
      BY <1>1
    <3> QED
      BY <3>1 DEF ActiveIn
  <2> QED
    BY <2>1
<1>6. ActiveIn(more, n) = IF e.type = "GameResigned"
                          THEN ActiveIn(j, Len(j)) \ {e.player} ELSE ActiveIn(j, Len(j))
  <2> DEFINE Gone(l, m) == {l[i].player : i \in {k \in 1..m : l[k].type = "GameResigned"}}
  <2>1. Gone(more, n) = IF e.type = "GameResigned" THEN Gone(j, Len(j)) \cup {e.player}
                        ELSE Gone(j, Len(j))
    <3>1. \A i : i \in 1..n <=> i \in 1..Len(j) \/ i = n
      BY <1>1
    <3> QED
      BY <3>1, <1>1
  <2> HIDE DEF Gone
  <2>2. ActiveIn(more, n) = Players \ Gone(more, n) /\ ActiveIn(j, Len(j)) = Players \ Gone(j, Len(j))
    BY DEF ActiveIn, Gone
  <2> QED
    BY <2>1, <2>2
<1> QED
  BY <1>1, <1>2, <1>4, <1>5, <1>6 DEF more

\* The event of a player's own command.
IsMove(e, a) ==
  e \in Events /\ e.type \notin {"GameStarted", "GameCompleted"} /\ e.player = a

\* A move of the player whose turn it is keeps the order.
LEMMA MoveKeepsOrder ==
  ASSUME NEW j \in Seq(Events), j # <<>>, NEW active \in SUBSET Players, NEW a \in active,
         InOrder(j, a, active), NEW e, IsMove(e, a),
         NEW left \in {active, active \ {a}}, left \ {a} # {}
  PROVE  InOrder(Append(j, e), NextTurn(left, a), left)
<1> DEFINE more == Append(j, e)
           n == Len(j) + 1
           b == NextTurn(left, a)
<1>1. /\ Len(j) \in Nat /\ Len(j) >= 1 /\ Len(more) = n
      /\ \A p : Moves(j, p) \subseteq 2..Len(j)
      /\ Moves(more, a) = Moves(j, a) \cup {n}
      /\ \A p : p # a => Moves(more, p) = Moves(j, p)
  BY MovesOfOneMore DEF IsMove
<1>2. /\ b \in left \ {a} /\ a \in Players /\ left \in SUBSET Players
      /\ \A q \in left \ {a} : Ahead(b, q) = Ahead(a, q) - Ahead(a, b)
      /\ \A q \in left \ {a} : Ahead(b, q) < Ahead(b, a)
      /\ \A q \in Players : Ahead(a, q) \in Nat /\ Ahead(b, q) \in Nat
  BY TurnGoesRound
<1>3. Ahead(a, a) = 0 /\ \A q \in Players \ {a} : Ahead(a, q) # 0
  BY <1>2, PlayersAssumption DEF Ahead, Players
<1> HIDE DEF more, b
<1>8. SUFFICES InOrder(more, b, left)
  BY DEF more, b
<1>9. SUFFICES ASSUME NEW p \in left, NEW q \in left, p # q, NEW i, LastMove(more, p, i)
               PROVE  MovedSince(more, b, p, q, i)
  BY DEF InOrder
<1>4. p # q /\ i \in Moves(more, p) /\ \A k \in Moves(more, p) : k <= i
  BY <1>9 DEF LastMove
<1>5. p \in Players /\ q \in Players /\ p \in active /\ q \in active
  BY <1>2
<1>6. CASE p = a
  <2>1. i = n
    <3>1. i \in Moves(j, a) \cup {n} /\ n <= i
      BY <1>1, <1>4, <1>6
    <3> QED
      BY <3>1, <1>1
  <2>2. Since(more, q, i) = {}
    BY <2>1, <1>1, <1>4, <1>6 DEF Since
  <2>3. Ahead(b, q) < Ahead(b, p)
    BY <1>2, <1>4, <1>6
  <2> QED
    BY <2>2, <2>3 DEF MovedSince
<1>7. CASE p # a
  <2>1. i \in Moves(j, p) /\ \A k \in Moves(j, p) : k <= i
    BY <1>1, <1>4, <1>7
  <2>2. i \in 2..Len(j)
    BY <2>1, <1>1
  <2>3. MovedSince(j, a, p, q, i)
    <3>1. LastMove(j, p, i)
      BY <2>1 DEF LastMove
    <3> QED
      BY <3>1, <1>4, <1>5 DEF InOrder
  <2>4. CASE q = a
    <3>1. Since(j, q, i) = {}
      <4>1. Ahead(a, q) < Ahead(a, p)
        BY <1>2, <1>3, <1>5, <1>7, <2>4
      <4> QED
        BY <4>1, <2>3 DEF MovedSince
    <3>2. Since(more, q, i) = {n}
      BY <3>1, <2>2, <2>4, <1>1 DEF Since
    <3>3. ~(Ahead(b, q) < Ahead(b, p))
      BY <1>2, <1>4, <1>5, <1>7, <2>4
    <3> QED
      BY <3>2, <3>3 DEF MovedSince, One
  <2>5. CASE q # a
    <3>1. Since(more, q, i) = Since(j, q, i)
      BY <1>1, <2>2, <2>5 DEF Since
    <3>2. Ahead(b, q) < Ahead(b, p) <=> Ahead(a, q) < Ahead(a, p)
      BY <1>2, <1>4, <1>5, <1>7, <2>5
    <3> QED
      BY <3>1, <3>2, <2>3 DEF MovedSince
  <2> QED
    BY <2>4, <2>5
<1> QED
  BY <1>6, <1>7

\* And it closes the round of that player.
LEMMA MoveKeepsRounds ==
  ASSUME NEW j \in Seq(Events), j # <<>>, Rounds(j),
         NEW a \in ActiveIn(j, Len(j)), InOrder(j, a, ActiveIn(j, Len(j))),
         NEW e, IsMove(e, a)
  PROVE  Rounds(Append(j, e))
<1> DEFINE more == Append(j, e)
           n == Len(j) + 1
<1>1. /\ Len(j) \in Nat /\ Len(j) >= 1 /\ Len(more) = n
      /\ \A p : Moves(j, p) \subseteq 2..Len(j)
      /\ Moves(more, a) = Moves(j, a) \cup {n}
      /\ \A p : p # a => Moves(more, p) = Moves(j, p)
      /\ \A k \in 1..Len(j) : ActiveIn(more, k) = ActiveIn(j, k)
      /\ ActiveIn(more, n) \subseteq ActiveIn(j, Len(j))
  BY MovesOfOneMore DEF IsMove
<1> HIDE DEF more
<1>6. SUFFICES Rounds(more)
  BY DEF more
<1>7. SUFFICES ASSUME NEW p \in Players, NEW i, NEW k, NextMove(more, p, i, k),
                      NEW q \in ActiveIn(more, k), q # p
               PROVE  One(Between(more, q, i, k))
  BY DEF Rounds
<1>2. /\ i \in Moves(more, p) /\ k \in Moves(more, p) /\ i < k /\ q # p
      /\ \A l \in Moves(more, p) : l <= i \/ l >= k
  BY <1>7 DEF NextMove
<1>3. a \in Players /\ q \in Players /\ ActiveIn(j, Len(j)) \subseteq Players
  BY DEF ActiveIn
<1>4. CASE k = n
  <2>1. p = a
    BY <1>1, <1>2, <1>4
  <2>2. i \in Moves(j, a) /\ \A l \in Moves(j, a) : l <= i
    <3>1. i \in 2..Len(j) /\ i \in Moves(j, a)
      BY <1>1, <1>2, <1>4, <2>1
    <3>2. ASSUME NEW l \in Moves(j, a)
          PROVE  l <= i
      <4>1. l \in 2..Len(j) /\ l \in Moves(more, p)
        BY <1>1, <2>1
      <4> QED
        BY <4>1, <1>1, <1>2, <1>4
    <3> QED
      BY <3>1, <3>2
  <2>3. q \in ActiveIn(j, Len(j)) /\ q # a
    BY <1>1, <1>2, <1>4, <2>1
  <2>4. ~(Ahead(a, q) < Ahead(a, a))
    BY <1>3, PlayersAssumption DEF Ahead, Players
  <2>5. One(Since(j, q, i))
    <3>1. LastMove(j, a, i)
      BY <2>2 DEF LastMove
    <3>2. MovedSince(j, a, a, q, i)
      BY <3>1, <2>3 DEF InOrder
    <3> QED
      BY <3>2, <2>4 DEF MovedSince
  <2>6. Between(more, q, i, k) = Since(j, q, i)
    BY <1>1, <1>4, <2>2, <2>3 DEF Since, Between
  <2> QED
    BY <2>5, <2>6
<1>5. CASE k # n
  <2>1. k \in Moves(j, p) /\ i \in Moves(j, p) /\ k \in 2..Len(j) /\ i \in 2..Len(j)
    BY <1>1, <1>2, <1>5
  <2>2. Moves(j, p) \subseteq Moves(more, p)
    BY <1>1
  <2>3. q \in ActiveIn(j, k)
    BY <2>1, <1>1, <1>7
  <2>4. NextMove(j, p, i, k)
    BY <2>1, <2>2, <1>2 DEF NextMove
  <2>5. One(Between(j, q, i, k))
    BY <2>3, <2>4, <1>2 DEF Rounds
  <2>6. Between(more, q, i, k) = Between(j, q, i, k)
    <3>1. n \notin (i + 1)..(k - 1)
      BY <2>1, <1>1
    <3> QED
      BY <3>1, <1>1 DEF Between
  <2> QED
    BY <2>5, <2>6
<1> QED
  BY <1>4, <1>5

\* The event that ends a game is nobody's move.
LEMMA CompletionKeepsRounds ==
  ASSUME NEW j \in Seq(Events), j # <<>>, Rounds(j),
         NEW e \in Events, e.type = "GameCompleted"
  PROVE  Rounds(Append(j, e))
<1> DEFINE more == Append(j, e)
<1>1. /\ Len(j) \in Nat /\ \A p : Moves(j, p) \subseteq 2..Len(j)
      /\ \A p : Moves(more, p) = Moves(j, p)
      /\ \A k \in 1..Len(j) : ActiveIn(more, k) = ActiveIn(j, k)
  BY MovesOfOneMore
<1> HIDE DEF more
<1>2. SUFFICES Rounds(more)
  BY DEF more
<1>3. SUFFICES ASSUME NEW p \in Players, NEW i, NEW k, NextMove(more, p, i, k),
                      NEW q \in ActiveIn(more, k), q # p
               PROVE  One(Between(more, q, i, k))
  BY DEF Rounds
<1>4. NextMove(j, p, i, k) /\ k \in 1..Len(j)
  <2>1. NextMove(j, p, i, k) /\ k \in 2..Len(j)
    BY <1>1, <1>3 DEF NextMove
  <2> QED
    BY <2>1, <1>1
<1>5. One(Between(j, q, i, k))
  BY <1>1, <1>3, <1>4 DEF Rounds
<1> QED
  BY <1>1, <1>5 DEF Between

-----------------------------------------------------------------------------
(* Rounds of passes *)

\* The last c events.
Window(j, c) == (Len(j) - c + 1)..Len(j)

\* The last c events are passes: X passed once more than the other players, who
\* passed b times each.  X are the players who moved last.
Passed(j, c, a, active, b, X) ==
  /\ X # active
  /\ c = Cardinality(active) * b + Cardinality(X)
  /\ \A q \in active : Cardinality(Moves(j, q) \cap Window(j, c)) = IF q \in X THEN b + 1 ELSE b
  /\ \A q \in X, r \in active : Ahead(a, q) < Ahead(a, r) => r \in X

PassRun(j, c, a, active) ==
  /\ c + 1 <= Len(j)
  /\ \A i \in Window(j, c) : j[i].type = "TurnPassed"
  /\ \E b \in Nat, X \in SUBSET active : Passed(j, c, a, active, b, X)

\* Every set of players is finite.
LEMMA PlayersAreFinite ==
  ASSUME NEW A \in SUBSET Players
  PROVE  IsFiniteSet(A) /\ Cardinality(A) \in Nat
<1>1. IsFiniteSet(Players)
  BY PlayersAssumption, FS_Interval DEF Players
<1>2. IsFiniteSet(A)
  BY <1>1, FS_Subset
<1> QED
  BY <1>2, FS_CardinalityType

\* No passes are a run of none.
LEMMA NoPassRun ==
  ASSUME NEW j \in Seq(Events), j # <<>>, NEW a, NEW active \in SUBSET Players, active # {}
  PROVE  PassRun(j, 0, a, active)
<1>1. Len(j) \in Nat /\ Len(j) >= 1
  BY LenProperties, EmptySeq
<1>2. Window(j, 0) = {}
  BY <1>1 DEF Window
<1>3. Cardinality({}) = 0
  BY FS_EmptySet
<1>4. Passed(j, 0, a, active, 0, {})
  <2>1. 0 = Cardinality(active) * 0 + Cardinality({})
    <3>1. Cardinality(active) * 0 = 0
      BY PlayersAreFinite
    <3> QED
      BY <1>3, <3>1
  <2>2. \A q \in active : Cardinality(Moves(j, q) \cap Window(j, 0)) = 0
    BY <1>2, <1>3
  <2> QED
    BY <2>1, <2>2 DEF Passed
<1> QED
  BY <1>1, <1>2, <1>4 DEF PassRun

\* One more pass.
LEMMA PassLengthensRun ==
  ASSUME NEW j \in Seq(Events), j # <<>>, NEW c \in Nat, NEW active \in SUBSET Players,
         NEW a \in active, active \ {a} # {}, PassRun(j, c, a, active),
         NEW e, IsMove(e, a), e.type = "TurnPassed"
  PROVE  PassRun(Append(j, e), c + 1, NextTurn(active, a), active)
<1> DEFINE more == Append(j, e)
           n == Len(j) + 1
           next == NextTurn(active, a)
           m == Cardinality(active)
<1>1. /\ Len(j) \in Nat /\ Len(j) >= 1 /\ Len(more) = n /\ more[n] = e
      /\ \A i \in 1..Len(j) : more[i] = j[i]
      /\ \A p : Moves(j, p) \subseteq 2..Len(j)
      /\ Moves(more, a) = Moves(j, a) \cup {n}
      /\ \A p : p # a => Moves(more, p) = Moves(j, p)
  BY MovesOfOneMore DEF IsMove
<1>2. /\ a \in Players
      /\ \A q \in active \ {a} : Ahead(next, q) = Ahead(a, q) - Ahead(a, next)
      /\ \A q \in active \ {a} : Ahead(next, q) < Ahead(next, a)
      /\ \A q \in Players : Ahead(a, q) \in Nat /\ Ahead(next, q) \in Nat
  BY TurnGoesRound
<1>3. Ahead(a, a) = 0 /\ \A q \in Players \ {a} : Ahead(a, q) # 0
  BY <1>2, PlayersAssumption DEF Ahead, Players
<1>4. IsFiniteSet(active) /\ m \in Nat
  BY PlayersAreFinite
<1> HIDE DEF more, next, m
<1>5. PICK b \in Nat, X \in SUBSET active : Passed(j, c, a, active, b, X)
  BY DEF PassRun
<1>6. c + 1 <= Len(j) /\ \A i \in Window(j, c) : j[i].type = "TurnPassed"
  BY DEF PassRun
<1>7. /\ X # active /\ c = m * b + Cardinality(X)
      /\ \A q \in active :
           Cardinality(Moves(j, q) \cap Window(j, c)) = IF q \in X THEN b + 1 ELSE b
      /\ \A q \in X, r \in active : Ahead(a, q) < Ahead(a, r) => r \in X
  BY <1>5 DEF Passed, m
<1>8. a \notin X
  <2> SUFFICES ASSUME a \in X PROVE FALSE
    OBVIOUS
  <2>1. \A r \in active \ {a} : Ahead(a, a) < Ahead(a, r)
    BY <1>2, <1>3
  <2> QED
    BY <1>7, <2>1
<1> DEFINE Y == X \cup {a}
<1>9. Cardinality(Y) = Cardinality(X) + 1 /\ Cardinality(X) \in Nat /\ Y \in SUBSET active
  <2>1. IsFiniteSet(X) /\ Cardinality(X) \in Nat
    BY <1>4, FS_Subset, FS_CardinalityType
  <2> QED
    BY <2>1, <1>8, FS_AddElement
<1>10. /\ Window(more, c + 1) = Window(j, c) \cup {n}
       /\ Window(j, c) \subseteq 2..Len(j) /\ IsFiniteSet(Window(j, c))
  <2>1. Window(more, c + 1) = Window(j, c) \cup {n}
    BY <1>1, <1>6 DEF Window
  <2>2. Window(j, c) \subseteq 2..Len(j)
    BY <1>1, <1>6 DEF Window
  <2>3. IsFiniteSet(2..Len(j))
    BY <1>1, FS_Interval
  <2> QED
    BY <2>1, <2>2, <2>3, FS_Subset
<1>11. \A i \in Window(more, c + 1) : more[i].type = "TurnPassed"
  <2>1. \A i \in 2..Len(j) : i \in 1..Len(j)
    BY <1>1
  <2> QED
    BY <2>1, <1>1, <1>6, <1>10
<1>12. ASSUME NEW q \in active
       PROVE  Cardinality(Moves(more, q) \cap Window(more, c + 1)) = IF q \in Y THEN b + 1 ELSE b
  <2> DEFINE old == Moves(j, q) \cap Window(j, c)
  <2>1. n \notin old /\ n \notin Window(j, c) /\ IsFiniteSet(old)
    BY <1>1, <1>10, FS_Subset
  <2>2. CASE q = a
    <3>1. Moves(more, q) \cap Window(more, c + 1) = old \cup {n}
      <4>1. n \notin Moves(j, q)
        BY <1>1
      <4> QED
        BY <4>1, <2>2, <1>1, <1>10
    <3>2. Cardinality(old \cup {n}) = Cardinality(old) + 1
      BY <2>1, FS_AddElement
    <3>3. Cardinality(old) = b
      BY <2>2, <1>7, <1>8
    <3> QED
      BY <2>2, <3>1, <3>2, <3>3
  <2>3. CASE q # a
    <3>1. Moves(more, q) \cap Window(more, c + 1) = old
      <4>1. n \notin Moves(j, q)
        BY <1>1
      <4> QED
        BY <4>1, <2>3, <1>1, <1>10
    <3> QED
      BY <2>3, <3>1, <1>7
  <2> QED
    BY <2>2, <2>3
<1>13. \E d \in Nat, Z \in SUBSET active : Passed(more, c + 1, next, active, d, Z)
  <2>1. CASE Y # active
    <3>1. c + 1 = m * b + Cardinality(Y)
      <4>1. m * b \in Nat
        BY <1>4
      <4> QED
        BY <4>1, <1>7, <1>9
    <3>2. ASSUME NEW q \in Y, NEW r \in active, Ahead(next, q) < Ahead(next, r)
          PROVE  r \in Y
      <4>1. CASE r = a
        BY <4>1
      <4>2. CASE r # a
        <5>1. q # a
          BY <1>2, <3>2, <4>2
        <5>2. q \in X /\ q \in active \ {a} /\ r \in active \ {a}
          BY <4>2, <5>1
        <5>3. Ahead(a, q) < Ahead(a, r)
          <6>1. /\ Ahead(a, q) \in Nat /\ Ahead(a, r) \in Nat /\ Ahead(a, next) \in Int
                /\ Ahead(next, q) = Ahead(a, q) - Ahead(a, next)
                /\ Ahead(next, r) = Ahead(a, r) - Ahead(a, next)
            <7>1. next \in Players
              BY TurnGoesRound DEF next
            <7> QED
              BY <5>2, <7>1, <1>2
          <6> QED
            BY <6>1, <3>2
        <5> QED
          BY <5>2, <5>3, <1>7
      <4> QED
        BY <4>1, <4>2
    <3>3. Passed(more, c + 1, next, active, b, Y)
      BY <2>1, <3>1, <3>2, <1>12 DEF Passed, m
    <3> QED
      BY <3>3, <1>9
  <2>2. CASE Y = active
    <3>1. c + 1 = m * (b + 1) + Cardinality({})
      <4>1. Cardinality({}) = 0
        BY FS_EmptySet
      <4>2. Cardinality(X) + 1 = m
        BY <1>9, <2>2 DEF m
      <4>3. m * (b + 1) = m * b + m /\ m * b \in Nat
        BY <1>4
      <4> QED
        BY <4>1, <4>2, <4>3, <1>4, <1>7, <1>9
    <3>2. Passed(more, c + 1, next, active, b + 1, {})
      <4>1. \A q \in active : Cardinality(Moves(more, q) \cap Window(more, c + 1)) = b + 1
        BY <1>12, <2>2
      <4>2. {} # active
        OBVIOUS
      <4> QED
        BY <3>1, <4>1, <4>2 DEF Passed, m
    <3> QED
      BY <3>2
  <2> QED
    BY <2>1, <2>2
<1>14. (c + 1) + 1 <= Len(more)
  BY <1>1, <1>6
<1> QED
  BY <1>11, <1>13, <1>14 DEF PassRun, more, next

\* A run as long as several rounds is that many rounds.
LEMMA RunOfRounds ==
  ASSUME NEW j, NEW a, NEW active \in SUBSET Players, NEW rounds \in Nat,
         PassRun(j, Cardinality(active) * rounds, a, active)
  PROVE  \A q \in active :
           Cardinality(Moves(j, q) \cap Window(j, Cardinality(active) * rounds)) = rounds
<1> DEFINE m == Cardinality(active)
<1>1. IsFiniteSet(active) /\ m \in Nat
  BY PlayersAreFinite
<1>2. PICK b \in Nat, X \in SUBSET active : Passed(j, m * rounds, a, active, b, X)
  BY DEF PassRun
<1>3. X # active /\ m * rounds = m * b + Cardinality(X)
  BY <1>2 DEF Passed
<1>4. Cardinality(X) \in Nat /\ Cardinality(X) < m /\ IsFiniteSet(X)
  BY <1>1, <1>3, FS_Subset, FS_CardinalityType
<1>5. \A q \in active :
        Cardinality(Moves(j, q) \cap Window(j, m * rounds)) = IF q \in X THEN b + 1 ELSE b
  BY <1>2 DEF Passed
<1>6. rounds = b /\ Cardinality(X) = 0
  <2> DEFINE x == Cardinality(X)
  <2> HIDE DEF m, x
  <2>1. x \in Nat /\ x < m /\ m * rounds = m * b + x
    BY <1>3, <1>4 DEF x, m
  <2>2. ~(rounds <= b - 1)
    <3> SUFFICES ASSUME rounds <= b - 1 PROVE FALSE
      OBVIOUS
    <3>1. PICK d \in Nat : b = rounds + 1 + d
      <4>1. b - rounds - 1 \in Nat /\ b = rounds + 1 + (b - rounds - 1)
        OBVIOUS
      <4> QED
        BY <4>1
    <3>2. m * b = m * rounds + m + m * d /\ m * d \in Nat /\ m * rounds \in Nat
      BY <3>1, <1>1
    <3> QED
      BY <3>2, <2>1, <1>1
  <2>3. ~(rounds >= b + 1)
    <3> SUFFICES ASSUME rounds >= b + 1 PROVE FALSE
      OBVIOUS
    <3>1. PICK d \in Nat : rounds = b + 1 + d
      <4>1. rounds - b - 1 \in Nat /\ rounds = b + 1 + (rounds - b - 1)
        OBVIOUS
      <4> QED
        BY <4>1
    <3>2. m * rounds = m * b + m + m * d /\ m * d \in Nat /\ m * b \in Nat
      BY <3>1, <1>1
    <3> QED
      BY <3>2, <2>1, <1>1
  <2>4. rounds = b
    BY <2>2, <2>3
  <2>5. m * b \in Nat
    BY <1>1
  <2> QED
    BY <2>1, <2>4, <2>5 DEF x
<1>7. X = {}
  BY <1>4, <1>6, FS_EmptySet
<1> QED
  BY <1>5, <1>6, <1>7

-----------------------------------------------------------------------------
(* The turns of a game *)

\* PassEndingIsComplete of any journal.
PassEndingIn(j) ==
  j[Len(j)].type = "GameCompleted" /\ j[Len(j)].reason = "ConsecutivePassRounds" =>
    LET active == ActiveIn(j, Len(j))
        span   == (Len(j) - Cardinality(active) * PassRounds)..(Len(j) - 1)
    IN  /\ \A i \in span : i >= 2 /\ j[i].type = "TurnPassed"
        /\ \A q \in active : Cardinality(Moves(j, q) \cap span) = PassRounds

\* The order in which the players of a game that goes on have moved.
TurnsInOrder(j, g) ==
  /\ InOrder(j, g.active_player, g.active_players)
  /\ PassRun(j, g.consecutive_passes, g.active_player, g.active_players)

TurnsTaken(j, g) ==
  /\ g.active_players = ActiveIn(j, Len(j))
  /\ Rounds(j)
  /\ PassEndingIn(j)
  /\ g.status = "Active" => TurnsInOrder(j, g)

\* The command itself keeps the order.
LEMMA MoveKeepsTurns ==
  ASSUME NEW j \in Seq(Events), j # <<>>, NEW g \in State, Sound(g), TurnsTaken(j, g),
         NEW p \in Players, NEW cmd \in GameCommands(g, p), Legal(g, p, cmd)
  PROVE  LET one   == Append(j, MoveEvent(g, p, cmd))
             moved == Stepped(g, MoveEvent(g, p, cmd))
         IN  /\ one \in Seq(Events) /\ one # <<>> /\ Len(one) \in Nat
             /\ one[Len(one)].type # "GameCompleted"
             /\ moved.active_players = ActiveIn(one, Len(one))
             /\ Rounds(one)
             /\ (cmd.type = "Resign" => ~Ends(g, p, cmd)) => TurnsInOrder(one, moved)
<1> DEFINE move  == MoveEvent(g, p, cmd)
           moved == Stepped(g, move)
           one   == Append(j, move)
           active == g.active_players
           left  == IF cmd.type = "Resign" THEN active \ {p} ELSE active
           c     == g.consecutive_passes
           next  == NextTurn(left, p)
<1>1. /\ Fits(g, move) /\ moved \in State
      /\ move \in Events /\ move.type # "GameStarted" /\ move.player = p
  BY CommandApplies, Submitted, Decided DEF LaterEvents
<1>2. /\ g.status = "Active" /\ p \in active /\ g.active_player = p
      /\ active \in SUBSET Players /\ Cardinality(active) >= 2 /\ c \in Nat
      /\ active = ActiveIn(j, Len(j)) /\ Rounds(j)
      /\ InOrder(j, p, active) /\ PassRun(j, c, p, active)
  BY DEF Legal, Sound, Playable, TurnsTaken, TurnsInOrder, State
<1>3. /\ cmd.type \in {"Play", "Exchange", "Pass", "Resign"}
      /\ cmd.type = "Play" <=> move.type = "TilesPlayed"
      /\ cmd.type = "Exchange" <=> move.type = "TilesExchanged"
      /\ cmd.type = "Pass" <=> move.type = "TurnPassed"
      /\ cmd.type = "Resign" <=> move.type = "GameResigned"
      /\ move.type # "GameCompleted"
  BY CommandTypes DEF MoveEvent
<1>4. IsMove(move, p)
  BY <1>1, <1>3 DEF IsMove
<1> HIDE DEF move
<1>5. /\ one \in Seq(Events) /\ one # <<>> /\ Len(one) \in Nat /\ one[Len(one)] = move
      /\ ActiveIn(one, Len(one)) = left
  <2>1. one \in Seq(Events) /\ one # <<>>
    BY <1>1, AppendProperties
  <2>2. /\ Len(j) \in Nat /\ Len(one) = Len(j) + 1 /\ one[Len(j) + 1] = move
        /\ move.type # "GameResigned" => ActiveIn(one, Len(j) + 1) = ActiveIn(j, Len(j))
        /\ move.type = "GameResigned" => ActiveIn(one, Len(j) + 1) = ActiveIn(j, Len(j)) \ {p}
    BY <1>1, MovesOfOneMore
  <2>3. ActiveIn(one, Len(j) + 1) = left
    BY <2>2, <1>2, <1>3
  <2> HIDE DEF one, left
  <2> QED
    BY <2>1, <2>2, <2>3
<1>6. active \ {p} # {} /\ Cardinality(active \ {p}) = Cardinality(active) - 1
      /\ Cardinality(active) \in Nat
  <2>1. IsFiniteSet(active) /\ Cardinality(active) \in Nat
    BY <1>2, PlayersAreFinite
  <2>2. Cardinality(active \ {p}) = Cardinality(active) - 1
    BY <2>1, <1>2, FS_RemoveElement
  <2>3. Cardinality(active \ {p}) # 0
    BY <2>1, <2>2, <1>2
  <2> QED
    BY <2>1, <2>2, <2>3, FS_EmptySet
<1>7. Rounds(one)
  BY <1>2, <1>4, MoveKeepsRounds
<1>8. left \in {active, active \ {p}} /\ left \ {p} # {} /\ left # {} /\ left \in SUBSET Players
  BY <1>2, <1>6
<1>9. InOrder(one, next, left)
  BY <1>2, <1>4, <1>8, MoveKeepsOrder
<1>10. moved.active_players = left
  BY <1>1, <1>3, PlayStep, ExchangeStep, PassStep, ResignStep
     DEF AfterPlay, AfterExchange, AfterPass, AfterResignation
<1>11. ASSUME cmd.type = "Resign" => ~Ends(g, p, cmd)
       PROVE  moved.active_player = next
  <2>1. CASE cmd.type = "Resign"
    <3>1. Cardinality(active \ {p}) >= 2
      BY <1>2, <1>6, <1>11, <2>1 DEF Ends
    <3> QED
      BY <2>1, <3>1, <1>1, <1>2, <1>3, ResignStep DEF AfterResignation, TurnAfterLeaving
  <2>2. CASE cmd.type # "Resign"
    BY <2>2, <1>1, <1>2, <1>3, PlayStep, ExchangeStep, PassStep
       DEF AfterPlay, AfterExchange, AfterPass
  <2> QED
    BY <2>1, <2>2
<1>12. moved.consecutive_passes = IF cmd.type = "Pass" THEN c + 1 ELSE 0
  BY <1>1, <1>3, PlayStep, ExchangeStep, PassStep, ResignStep
     DEF AfterPlay, AfterExchange, AfterPass, AfterResignation
<1> HIDE DEF moved, one, next, left
<1>13. PassRun(one, moved.consecutive_passes, next, left)
  <2>1. CASE cmd.type = "Pass"
    <3>1. PassRun(one, c + 1, next, left)
      BY <2>1, <1>2, <1>3, <1>4, <1>6, PassLengthensRun DEF one, next, left
    <3> QED
      BY <3>1, <2>1, <1>12
  <2>2. CASE cmd.type # "Pass"
    BY <2>2, <1>5, <1>8, <1>12, NoPassRun
  <2> QED
    BY <2>1, <2>2
<1>14. (cmd.type = "Resign" => ~Ends(g, p, cmd)) => TurnsInOrder(one, moved)
  BY <1>9, <1>10, <1>11, <1>13 DEF TurnsInOrder
<1> QED
  BY <1>3, <1>5, <1>7, <1>10, <1>14 DEF one, moved, move

\* An accepted command keeps the order, and ends the game by passes only after
\* PassRounds rounds of them.
LEMMA CommandKeepsTurns ==
  ASSUME NEW j \in Seq(Events), j # <<>>, NEW g \in State, Sound(g), TurnsTaken(j, g),
         NEW p \in Players, NEW cmd \in GameCommands(g, p), Legal(g, p, cmd)
  PROVE  TurnsTaken(j \o Decide(g, p, cmd), ApplyAll(g, Decide(g, p, cmd)))
<1> DEFINE move  == MoveEvent(g, p, cmd)
           moved == Stepped(g, move)
           over  == Ending(g, p, cmd)
           after == ApplyAll(g, Decide(g, p, cmd))
           more  == j \o Decide(g, p, cmd)
           one   == Append(j, move)
           k     == Len(one)
           active == ActiveIn(one, k)
           m     == Cardinality(active)
<1>1. /\ one \in Seq(Events) /\ one # <<>> /\ k \in Nat
      /\ one[k].type # "GameCompleted"
      /\ moved.active_players = active
      /\ Rounds(one)
      /\ (cmd.type = "Resign" => ~Ends(g, p, cmd)) => TurnsInOrder(one, moved)
  BY MoveKeepsTurns
<1>2. /\ Fits(g, move) /\ moved \in State /\ after \in State
      /\ move \in Events /\ move.player = p
      /\ Ends(g, p, cmd) => AfterCompletion(moved, over, after) /\ over \in Events
      /\ ~Ends(g, p, cmd) => after = moved
  BY CommandApplies, Submitted, Decided DEF LaterEvents
<1>3. /\ ~Ends(g, p, cmd) => more = one
      /\ Ends(g, p, cmd) => more = Append(one, over)
  <2>1. CASE ~Ends(g, p, cmd)
    <3>1. Decide(g, p, cmd) = <<move>>
      BY <2>1, Decided
    <3> HIDE DEF move
    <3>2. j \o <<move>> = one
      BY <1>2, AppendIsConcat
    <3> QED
      BY <3>1, <3>2, <2>1
  <2>2. CASE Ends(g, p, cmd)
    <3>1. Decide(g, p, cmd) = <<move, over>>
      BY <2>2, Decided
    <3> HIDE DEF move, over
    <3>2. j \o <<move, over>> = Append(one, over)
      BY <1>2, <2>2, TwoMore
    <3>3. more = Append(one, over)
      BY <3>1, <3>2
    <3> QED
      BY <3>3, <2>2
  <2> QED
    BY <2>1, <2>2
<1>4. /\ Ends(g, p, cmd) => over.type = "GameCompleted"
      /\ Ends(g, p, cmd) /\ over.reason = "ConsecutivePassRounds" => cmd.type = "Pass"
  BY DEF Ends, Ending, Completed
<1>5. cmd.type = "Pass" => /\ moved.consecutive_passes = g.consecutive_passes + 1
                           /\ moved.active_players = g.active_players
                           /\ Ends(g, p, cmd) => g.consecutive_passes + 1 >= RequiredPasses(g.active_players)
                           /\ move.type = "TurnPassed"
  <2>1. cmd.type = "Pass" => move.type = "TurnPassed"
    BY DEF MoveEvent
  <2> HIDE DEF move
  <2> QED
    BY <2>1, <1>2, PassStep DEF AfterPass, Ends
<1>6. /\ g.consecutive_passes \in Nat
      /\ Cardinality(g.active_players) >= 2 /\ g.active_players \in SUBSET Players
      /\ g.consecutive_passes = 0 \/ g.consecutive_passes < RequiredPasses(g.active_players)
  BY DEF Legal, Sound, Playable, State
<1> HIDE DEF move, moved, over, after, more, one
<1>7. CASE ~Ends(g, p, cmd)
  <2>1. PassEndingIn(one)
    BY <1>1 DEF PassEndingIn
  <2>2. TurnsTaken(one, moved)
    BY <1>1, <1>7, <2>1 DEF TurnsTaken
  <2> QED
    BY <2>2, <1>2, <1>3, <1>7 DEF after, more
<1>8. CASE Ends(g, p, cmd)
  <2> DEFINE ended == Append(one, over)
  <2>1. /\ Len(ended) = k + 1 /\ ended[k + 1] = over /\ \A i \in 1..k : ended[i] = one[i]
        /\ k >= 1
        /\ \A q : Moves(ended, q) = Moves(one, q)
        /\ ActiveIn(ended, k + 1) = active
    BY <1>1, <1>2, <1>4, <1>8, MovesOfOneMore
  <2>2. Rounds(ended)
    BY <1>1, <1>2, <1>4, <1>8, CompletionKeepsRounds
  <2>3. /\ after.status = "Completed" /\ after.active_players = active
    BY <1>1, <1>2, <1>8 DEF AfterCompletion
  <2> HIDE DEF ended
  <2>4. ASSUME cmd.type = "Pass"
        PROVE  /\ \A i \in (k + 1 - m * PassRounds)..k : i >= 2 /\ ended[i].type = "TurnPassed"
               /\ \A q \in active :
                    Cardinality(Moves(ended, q) \cap (k + 1 - m * PassRounds)..k) = PassRounds
    <3> DEFINE c == g.consecutive_passes + 1
    <3>1. m >= 2 /\ m \in Nat /\ active \in SUBSET Players
      BY <1>1, <1>5, <1>6, <2>4, PlayersAreFinite
    <3>2. /\ c >= m * PassRounds
          /\ g.consecutive_passes = 0 \/ g.consecutive_passes < m * PassRounds
      BY <1>1, <1>5, <1>6, <1>8, <2>4 DEF RequiredPasses
    <3>3. PassRun(one, c, moved.active_player, active)
      BY <1>1, <1>5, <2>4 DEF TurnsInOrder
    <3>4. CASE PassRounds = 0
      <4>1. m * PassRounds = 0
        BY <3>1, <3>4
      <4>2. (k + 1 - m * PassRounds)..k = {}
        BY <4>1, <1>1
      <4>3. Cardinality({}) = 0
        BY FS_EmptySet
      <4> HIDE DEF k, m
      <4> QED
        BY <3>4, <4>2, <4>3
    <3>5. CASE PassRounds # 0
      <4>1. m * PassRounds \in Nat /\ m * PassRounds >= 2
        <5>1. PICK d \in Nat : PassRounds = d + 1
          <6>1. PassRounds - 1 \in Nat /\ PassRounds = (PassRounds - 1) + 1
            BY <3>5, ProfileAssumption
          <6> QED
            BY <6>1
        <5>2. m * PassRounds = m * d + m /\ m * d \in Nat
          BY <5>1, <3>1
        <5> HIDE DEF m
        <5> QED
          BY <5>2, <3>1
      <4>2. c = m * PassRounds
        BY <4>1, <3>2, <1>6
      <4>3. PassRun(one, m * PassRounds, moved.active_player, active)
        BY <3>3, <4>2
      <4>4. \A q \in active : Cardinality(Moves(one, q) \cap Window(one, m * PassRounds)) = PassRounds
        BY <3>1, <4>3, ProfileAssumption, RunOfRounds
      <4>5. (k + 1 - m * PassRounds)..k = Window(one, m * PassRounds)
        <5> HIDE DEF m
        <5>1. k + 1 - m * PassRounds = k - m * PassRounds + 1
          BY <1>1, <4>1
        <5> QED
          BY <5>1 DEF Window
      <4>6. /\ m * PassRounds + 1 <= k
            /\ \A i \in Window(one, m * PassRounds) : one[i].type = "TurnPassed"
        BY <4>3 DEF PassRun
      <4>7. \A i \in (k + 1 - m * PassRounds)..k : i >= 2 /\ i \in 1..k
        BY <4>1, <4>6, <1>1
      <4> HIDE DEF m, k
      <4> QED
        BY <2>1, <4>4, <4>5, <4>6, <4>7
    <3> QED
      BY <3>4, <3>5
  <2>5. PassEndingIn(ended)
    <3> SUFFICES ASSUME cmd.type = "Pass" PROVE PassEndingIn(ended)
      BY <1>4, <1>8, <2>1 DEF PassEndingIn
    <3>1. Len(ended) - m * PassRounds = k + 1 - m * PassRounds /\ Len(ended) - 1 = k
      <4>1. active \in SUBSET Players
        BY DEF ActiveIn
      <4>2. m * PassRounds \in Nat
        BY <4>1, PlayersAreFinite, ProfileAssumption
      <4> HIDE DEF m, k
      <4> QED
        BY <4>2, <2>1, <1>1
    <3> HIDE DEF m, k
    <3> QED
      BY <2>1, <2>4, <3>1 DEF PassEndingIn, m
  <2>6. TurnsTaken(ended, after)
    BY <2>1, <2>2, <2>3, <2>5 DEF TurnsTaken
  <2> QED
    BY <2>6, <1>3, <1>8 DEF after, more, ended
<1> QED
  BY <1>7, <1>8

\* So is the order of its turns.
LEMMA TurnsTakenIsShared ==
  ASSUME NEW j, NEW g, NEW h, SameGame(g, h), TurnsTaken(j, g)
  PROVE  TurnsTaken(j, h)
BY DEF SameGame, TurnsTaken, TurnsInOrder

\* Nobody has moved when a game starts.
LEMMA StartOfTurns ==
  ASSUME NEW e \in Events, e.type = "GameStarted",
         NEW g, g.active_players = Players, g.consecutive_passes = 0
  PROVE  TurnsTaken(<<e>>, g)
<1> DEFINE j == <<e>>
<1>1. j \in Seq(Events) /\ Len(j) = 1 /\ j[1] = e /\ j # <<>>
  OBVIOUS
<1> HIDE DEF j
<1>2. \A p : Moves(j, p) = {}
  BY <1>1 DEF Moves
<1>3. ActiveIn(j, Len(j)) = Players
  BY <1>1 DEF ActiveIn
<1>4. Rounds(j)
  BY <1>2 DEF Rounds, NextMove
<1>5. PassEndingIn(j)
  BY <1>1 DEF PassEndingIn
<1>6. InOrder(j, g.active_player, Players)
  BY <1>2 DEF InOrder, LastMove
<1>7. PassRun(j, 0, g.active_player, Players)
  BY <1>1, NoPassRun, PlayersAssumption DEF Players
<1>8. TurnsTaken(j, g)
  BY <1>3, <1>4, <1>5, <1>6, <1>7 DEF TurnsTaken, TurnsInOrder
<1> QED
  BY <1>8 DEF j

InTurn == RecoveredSound /\ TurnsTaken(journal, Recovered)

\* The invariant holds at the start.
LEMMA InitInTurn == Init => InTurn
<1> SUFFICES ASSUME Init PROVE InTurn
  OBVIOUS
<1>1. PICK s \in Shuffles, first \in Players :
        journal = <<Started(s, first)>> /\ Recovered = StartState(Started(s, first))
  BY InitIsStart
<1>2. Started(s, first) \in Events /\ Started(s, first).type = "GameStarted"
  BY StartOfGame
<1>3. Recovered.active_players = Players /\ Recovered.consecutive_passes = 0
  BY <1>1 DEF StartState
<1>4. TurnsTaken(journal, Recovered)
  BY <1>1, <1>2, <1>3, StartOfTurns
<1> QED
  BY <1>4, InitSound DEF InTurn

\* Every step keeps it.
LEMMA NextInTurn == InTurn /\ [Next]_vars => InTurn'
<1> SUFFICES ASSUME InTurn, [Next]_vars PROVE InTurn'
  OBVIOUS
<1>1. RecoveredSound'
  BY NextSound DEF InTurn
<1>2. TurnsTaken(journal', Recovered')
  <2>1. CASE Next
    <3>0. PICK p \in Players : \E cmd \in GameCommands(Recovered, p) : Submit(p, cmd)
      BY <2>1 DEF Next
    <3>1. PICK cmd \in GameCommands(Recovered, p) : Submit(p, cmd)
      BY <3>0
    <3>2. SameGame(ApplyAll(Recovered, Decide(Recovered, p, cmd)), Recovered')
      BY <3>1, NextRecovered DEF InTurn, RecoveredSound
    <3>3. /\ Recovered \in State /\ Legal(Recovered, p, cmd)
          /\ journal \in Seq(Events) /\ journal # <<>>
          /\ journal' = journal \o Decide(Recovered, p, cmd)
      BY <3>1, RecoveredIsReplay DEF InTurn, RecoveredSound, Stored, Replays, Submit
    <3>4. TurnsTaken(journal', ApplyAll(Recovered, Decide(Recovered, p, cmd)))
      BY <3>3, CommandKeepsTurns DEF InTurn, RecoveredSound
    <3> QED
      BY <3>2, <3>4, TurnsTakenIsShared
  <2>2. CASE UNCHANGED vars
    <3>1. Recovered' = Recovered /\ journal' = journal
      BY <2>2 DEF vars, Recovered, EventsAfter
    <3> QED
      BY <3>1 DEF InTurn
  <2> QED
    BY <2>1, <2>2
<1>3. TurnsTaken(journal, Recovered)'
  BY <1>2 DEF TurnsTaken, TurnsInOrder, Rounds, InOrder, PassRun, Passed, PassEndingIn, NextMove,
              Between, MovedSince, LastMove, Since, Moves, ActiveIn, Window
<1> QED
  BY <1>1, <1>3 DEF InTurn

\* It holds in every reachable state.
LEMMA AlwaysInTurn == Spec => []InTurn
<1> QED
  BY InitInTurn, NextInTurn, PTL DEF Spec

\* However a game was played, its journal shows complete rounds (advance_turn
\* in engine.rs, with the players who resigned skipped): nobody moves twice
\* before everybody else who is still in the game has moved once.
THEOREM GameIsRoundRobin == Spec => []RoundRobin
<1>1. InTurn => RoundRobin
  <2> SUFFICES ASSUME InTurn, NEW p \in Players, NEW i \in MovesOf(p), NEW k \in MovesOf(p),
                      i < k, \A l \in MovesOf(p) : l <= i \/ l >= k,
                      NEW q \in ActiveAfter(k) \ {p}
               PROVE  Cardinality(MovesOf(q) \cap (i + 1)..(k - 1)) = 1
    BY DEF RoundRobin
  <2>1. \A r : MovesOf(r) = Moves(journal, r)
    BY DEF MovesOf, Moves
  <2>2. q \in ActiveIn(journal, k) /\ q # p
    BY DEF ActiveAfter, ActiveIn
  <2>3. NextMove(journal, p, i, k)
    BY <2>1 DEF NextMove
  <2>4. One(Between(journal, q, i, k))
    BY <2>2, <2>3 DEF InTurn, TurnsTaken, Rounds
  <2> QED
    BY <2>1, <2>4, FS_Singleton DEF One, Between
<1> QED
  BY <1>1, AlwaysInTurn, PTL

\* A game that decide_pass ends saw PassRounds rounds of passes, nothing else
\* in between, and the same number by each of the players still in the game.
THEOREM PassEndingsAreComplete == Spec => []PassEndingIsComplete
<1>1. InTurn => PassEndingIsComplete
  <2> SUFFICES ASSUME InTurn PROVE PassEndingIsComplete
    OBVIOUS
  <2>1. /\ \A r : MovesOf(r) = Moves(journal, r)
        /\ \A n : ActiveAfter(n) = ActiveIn(journal, n)
        /\ Last(journal) = journal[Len(journal)]
    BY DEF MovesOf, Moves, ActiveAfter, ActiveIn, Last
  <2>2. PassEndingIn(journal)
    BY DEF InTurn, TurnsTaken
  <2> QED
    BY <2>1, <2>2 DEF PassEndingIn, PassEndingIsComplete
<1> QED
  BY <1>1, AlwaysInTurn, PTL

-----------------------------------------------------------------------------
(* Rows of several versions (Payloads) *)

\* A decoded row d says what the event e says: they agree on every field that
\* applying an event reads.
Alike(d, e) ==
  /\ d.type = e.type
  /\ e.type = "GameStarted" =>
       d.first_player = e.first_player /\ d.racks = e.racks /\ d.bag = e.bag
  /\ e.type = "TilesPlayed" =>
       d.player = e.player /\ d.placements = e.placements /\ d.score = e.score /\ d.drawn = e.drawn
  /\ e.type = "TilesExchanged" =>
       d.player = e.player /\ d.returned = e.returned /\ d.drawn = e.drawn
  /\ e.type \in {"TurnPassed", "GameResigned"} => d.player = e.player
  /\ e.type = "GameCompleted" =>
       d.scores = e.scores /\ d.leaders = e.leaders /\ d.reason = e.reason

\* The types of the events behind the start.
LEMMA LaterTypes ==
  ASSUME NEW e \in LaterEvents
  PROVE  /\ e.type \in {"TilesPlayed", "TilesExchanged", "TurnPassed", "GameResigned",
                         "GameCompleted"}
         /\ e \in Events
BY DEF LaterEvents, Events

\* Such a row applies as the event does.
LEMMA AlikeApply ==
  ASSUME NEW g, NEW e \in LaterEvents, NEW d, Alike(d, e)
  PROVE  ApplyEvent(g, d) = ApplyEvent(g, e)
<1>1. e.type \in {"TilesPlayed", "TilesExchanged", "TurnPassed", "GameResigned", "GameCompleted"}
  BY LaterTypes
<1>2. d.type = e.type
  BY DEF Alike
<1>3. CASE e.type = "TilesPlayed"
  <2>1. d.player = e.player /\ d.placements = e.placements /\ d.score = e.score /\ d.drawn = e.drawn
    BY <1>3 DEF Alike
  <2>2. Refilled(g, d, d.placements) = Refilled(g, e, e.placements)
    BY <2>1 DEF Refilled
  <2>3. Fits(g, d) = Fits(g, e) /\ Applied(g, d) = Applied(g, e)
    BY <1>2, <1>3, <2>1, <2>2 DEF Fits, Applied
  <2> QED
    BY <2>3 DEF ApplyEvent
<1>4. CASE e.type = "TilesExchanged"
  <2>1. d.player = e.player /\ d.returned = e.returned /\ d.drawn = e.drawn
    BY <1>4 DEF Alike
  <2>2. Refilled(g, d, ToSet(d.returned)) = Refilled(g, e, ToSet(e.returned))
    BY <2>1 DEF Refilled
  <2>3. Fits(g, d) = Fits(g, e) /\ Applied(g, d) = Applied(g, e)
    BY <1>2, <1>4, <2>1, <2>2 DEF Fits, Applied
  <2> QED
    BY <2>3 DEF ApplyEvent
<1>5. CASE e.type = "TurnPassed"
  <2>1. Fits(g, d) = Fits(g, e) /\ Applied(g, d) = Applied(g, e)
    BY <1>2, <1>5 DEF Fits, Applied, Alike
  <2> QED
    BY <2>1 DEF ApplyEvent
<1>6. CASE e.type = "GameResigned"
  <2>1. Fits(g, d) = Fits(g, e) /\ Applied(g, d) = Applied(g, e)
    BY <1>2, <1>6 DEF Fits, Applied, Alike
  <2> QED
    BY <2>1 DEF ApplyEvent
<1>7. CASE e.type = "GameCompleted"
  <2>1. Fits(g, d) = Fits(g, e) /\ Applied(g, d) = Applied(g, e)
    BY <1>2, <1>7 DEF Fits, Applied, Alike
  <2> QED
    BY <2>1 DEF ApplyEvent
<1> QED
  BY <1>1, <1>3, <1>4, <1>5, <1>6, <1>7

\* And a start starts the same game.
LEMMA AlikeStart ==
  ASSUME NEW e, NEW d, e.type = "GameStarted", Alike(d, e)
  PROVE  StartState(d) = StartState(e)
BY DEF Alike, StartState

\* Rows that say what a journal says replay as the journal does.
LEMMA AlikeReplay ==
  ASSUME NEW j, Replays(j), NEW D, NEW ds \in Seq(D), Len(ds) = Len(j),
         \A i \in 1..Len(j) : Alike(ds[i], j[i])
  PROVE  Replay(ds) = Replay(j)
<1>1. j \in Seq(Events) /\ j # <<>> /\ Len(j) \in Nat \ {0} /\ j[1].type = "GameStarted"
  BY EmptySeq DEF Replays
<1>2. ds # <<>>
  <2> SUFFICES ASSUME ds = <<>> PROVE FALSE
    OBVIOUS
  <2>1. Len(ds) = 0
    BY EmptySeq
  <2> QED
    BY <2>1, <1>1
<1> DEFINE es == Tail(j)
           rs == Tail(ds)
           g == StartState(Head(j))
<1>3. /\ es \in Seq(Events) /\ Len(es) = Len(j) - 1
      /\ \A i \in 1..Len(es) : es[i] = j[i + 1]
  BY <1>1, HeadTailProperties
<1>4. /\ rs \in Seq(D) /\ Len(rs) = Len(j) - 1
      /\ \A i \in 1..Len(rs) : rs[i] = ds[i + 1]
  BY <1>2, HeadTailProperties
<1>5. Head(j) = j[1] /\ Head(ds) = ds[1]
  OBVIOUS
<1>6. StartState(Head(ds)) = g
  BY <1>1, <1>5, AlikeStart
<1> HIDE DEF es, rs, g
<1>7. \A i \in 1..Len(es) : es[i] \in LaterEvents /\ Alike(rs[i], es[i])
  <2> TAKE i \in 1..Len(es)
  <2>1. i + 1 \in 1..Len(j) /\ i + 1 # 1 /\ i \in 1..Len(rs)
    BY <1>1, <1>3, <1>4
  <2>2. es[i] = j[i + 1] /\ rs[i] = ds[i + 1]
    BY <2>1, <1>3, <1>4
  <2>3. j[i + 1] \in Events /\ j[i + 1].type # "GameStarted"
    BY <2>1, <1>1, ElementOfSeq DEF Replays
  <2> QED
    BY <2>1, <2>2, <2>3 DEF LaterEvents
<1>8. ApplyAll(g, rs) = ApplyAll(g, es)
  <2>1. PICK f : AfterEach(f, g, es) /\ ApplyAll(g, es) = f[Len(es)]
    BY <1>3, ApplyAllIsLast
  <2>2. PICK h : AfterEach(h, g, rs) /\ ApplyAll(g, rs) = h[Len(rs)]
    BY <1>4, ApplyAllIsLast
  <2>3. AfterEach(f, g, rs)
    <3>1. Len(rs) = Len(es) /\ Len(es) \in Nat
      BY <1>1, <1>3, <1>4
    <3>2. \A n \in 0..Len(es) : n # 0 => ApplyEvent(f[n - 1], rs[n]) = ApplyEvent(f[n - 1], es[n])
      <4> TAKE n \in 0..Len(es)
      <4> HAVE n # 0
      <4>1. n \in 1..Len(es)
        BY <3>1
      <4>2. es[n] \in LaterEvents /\ Alike(rs[n], es[n])
        BY <4>1, <1>7
      <4> QED
        BY <4>2, AlikeApply
    <3>3. f = [n \in 0..Len(es) |-> IF n = 0 THEN g ELSE ApplyEvent(f[n - 1], es[n])]
      BY <2>1 DEF AfterEach
    <3>4. f = [n \in 0..Len(es) |-> IF n = 0 THEN g ELSE ApplyEvent(f[n - 1], rs[n])]
      BY <3>2, <3>3
    <3> QED
      BY <3>1, <3>4 DEF AfterEach
  <2> HIDE DEF AfterEach
  <2>4. f[Len(es)] = h[Len(es)]
    <3>1. PICK d \in D : TRUE
      BY <1>1, ElementOfSeq
    <3>2. Append(rs, d) \in Seq(D)
      BY <1>4, AppendProperties
    <3>3. PICK k : AfterEach(k, g, Append(rs, d))
      BY <3>2, AfterEachExists
    <3>4. \A m \in 0..Len(rs) : k[m] = f[m]
      BY <2>3, <3>3, <1>4, AfterEachAgrees
    <3>5. \A m \in 0..Len(rs) : k[m] = h[m]
      BY <2>2, <3>3, <1>4, AfterEachAgrees
    <3> QED
      BY <3>4, <3>5, <1>1, <1>3, <1>4
  <2> QED
    BY <2>1, <2>2, <2>4, <1>3, <1>4
<1> QED
  BY <1>6, <1>8 DEF Replay, es, rs, g

\* A single leader is who version 2 calls the winner.
LEMMA OutrightIsLeader ==
  ASSUME NEW L \in SUBSET Players
  PROVE  /\ Outright(L) = NoPlayer <=> Cardinality(L) # 1
         /\ Cardinality(L) = 1 => {Outright(L)} = L
<1>1. IsFiniteSet(L) /\ 0 \notin L
  BY PlayersAreFinite, FS_Subset DEF Players
<1>2. CASE Cardinality(L) = 1
  <2>1. PICK p : L = {p}
    BY <1>1, <1>2, FS_Singleton
  <2>2. Outright(L) = p /\ p # 0
    BY <1>1, <1>2, <2>1 DEF Outright
  <2> QED
    BY <2>1, <2>2, <1>2 DEF NoPlayer
<1>3. CASE Cardinality(L) # 1
  BY <1>3 DEF Outright, NoPlayer
<1> QED
  BY <1>2, <1>3

\* The row a release of payload version v writes for an event.
RowFor(v, e) == Row(v, IF v = 2 THEN EventV2(e) ELSE EventV3(e))

\* What version v can hold of an event: version 2 has no reasons.
Holds(v, e) ==
  e.type = "GameCompleted" => e.leaders = Leaders(e.scores) /\ (v = 2 => e.reason = "Legacy")

\* The row of an event of version 2 says what the event says.
LEMMA EventV2Decodes ==
  ASSUME NEW e \in LaterEvents, Holds(2, e)
  PROVE  Alike(EventFromV2(EventV2(e)), e) /\ EventV2(e).type # "GameStarted"
<1>1. /\ e.type \in {"TilesPlayed", "TilesExchanged", "TurnPassed", "GameResigned", "GameCompleted"}
      /\ e \in Events
  BY LaterTypes
<1>2. CASE e.type \in {"TilesPlayed", "TilesExchanged", "TurnPassed"}
  <2>1. EventV2(e) = e
    BY <1>2 DEF EventV2
  <2>2. EventFromV2(e) = e
    BY <1>2 DEF EventFromV2
  <2> QED
    BY <2>1, <2>2, <1>2 DEF Alike
<1>3. CASE e.type = "GameResigned"
  <2> DEFINE row == With(e, [winner |-> Opponent(e.player)])
  <2>1. DOMAIN e = {"type", "player"}
    BY <1>1, <1>3 DEF Events
  <2>2. row["type"] = e["type"] /\ row["player"] = e["player"]
    BY <2>1 DEF With
  <2> HIDE DEF row
  <2>3. row.type = e.type /\ row.player = e.player
    BY <2>2
  <2>4. EventV2(e) = row
    BY <1>3 DEF EventV2, row
  <2>5. EventFromV2(row) = row
    BY <2>3, <1>3 DEF EventFromV2
  <2> QED
    BY <2>3, <2>4, <2>5, <1>3 DEF Alike
<1>4. CASE e.type = "GameCompleted"
  <2> DEFINE row == [type |-> e.type, scores |-> e.scores, winner |-> Outright(e.leaders)]
             more == [leaders |-> IF row.winner = NoPlayer THEN LegacyLeaders(row.scores)
                                  ELSE {row.winner},
                      reason |-> "Legacy"]
             d == With(row, more)
  <2>1. EventV2(e) = row
    BY <1>4 DEF EventV2
  <2>2. row.type = "GameCompleted" /\ row.scores = e.scores /\ row.winner = Outright(e.leaders)
    BY <1>4
  <2>3. EventFromV2(row) = d
    <3> HIDE DEF row
    <3> QED
      BY <2>2 DEF EventFromV2
  <2>4. /\ e.scores \in [Players -> Nat] /\ e.leaders \in SUBSET Players
        /\ e.leaders = Leaders(e.scores) /\ e.reason = "Legacy"
    BY <1>1, <1>4 DEF Events, Holds
  <2>5. LegacyLeaders(e.scores) = e.leaders
    <3>1. DOMAIN e.scores = Players
      BY <2>4
    <3> QED
      BY <3>1, <2>4 DEF LegacyLeaders, Leaders
  <2>6. more.leaders = e.leaders /\ more.reason = e.reason
    BY <2>2, <2>4, <2>5, OutrightIsLeader
  <2>7. DOMAIN row = {"type", "scores", "winner"} /\ DOMAIN more = {"leaders", "reason"}
    OBVIOUS
  <2> HIDE DEF row, more
  <2>8. /\ d["type"] = row["type"] /\ d["scores"] = row["scores"]
        /\ d["leaders"] = more["leaders"] /\ d["reason"] = more["reason"]
    BY <2>7 DEF With
  <2> HIDE DEF d
  <2>9. d.type = e.type /\ d.scores = e.scores /\ d.leaders = e.leaders /\ d.reason = e.reason
    BY <2>2, <2>6, <2>8, <1>4
  <2>10. Alike(d, e)
    BY <2>9, <1>4 DEF Alike
  <2> QED
    BY <2>1, <2>2, <2>3, <2>10
<1> QED
  BY <1>1, <1>2, <1>3, <1>4

\* So does the row of either version.
LEMMA RowDecodes ==
  ASSUME NEW v \in {2, 3}, NEW e \in LaterEvents, Holds(v, e)
  PROVE  Readable(RowFor(v, e)) /\ Alike(DecodedEvent(RowFor(v, e)), e)
<1> DEFINE row == RowFor(v, e)
<1>0. e.type # "GameStarted"
  BY DEF LaterEvents
<1>1. CASE v = 2
  <2>1. row.version = 2 /\ row.payload = EventV2(e)
    BY <1>1 DEF RowFor, Row
  <2> HIDE DEF row
  <2>2. Readable(row) /\ DecodedEvent(row) = EventFromV2(EventV2(e))
    BY <2>1 DEF Readable, DecodedEvent
  <2> QED
    BY <2>2, <1>1, EventV2Decodes DEF row
<1>2. CASE v = 3
  <2>1. EventV3(e) = e
    BY <1>0 DEF EventV3
  <2>2. row.version = 3 /\ row.payload = e
    BY <1>2, <2>1 DEF RowFor, Row
  <2> HIDE DEF row
  <2>3. Readable(row) /\ DecodedEvent(row) = e
    BY <2>2, <1>0 DEF Readable, DecodedEvent, EventFromV3
  <2>4. Alike(e, e)
    BY DEF Alike
  <2> QED
    BY <2>3, <2>4 DEF row
<1> QED
  BY <1>1, <1>2

\* What a start row of a known version, with the rules its release plays by, says.
KnownStart(row, s) ==
  /\ row.version \in 1..3 /\ Readable(row)
  /\ Alike(DecodedEvent(row), Started(s, 1))
  /\ row.version = 3 => row.payload.rules = StoredRules(Generated)
  /\ DecodedEvent(row).rules = IF row.version = 3 THEN Generated ELSE Classic

\* What is refused: a version, a generator or a checksum this release does not know.
UnknownStart(row) ==
  /\ ~Readable(row) /\ row.version \in {3, 4}
  /\ row.version = 4 \/ (row.version = 3 /\ row.payload.rules # StoredRules(Generated))

\* A start event with rules.
LEMMA StartWithRules ==
  ASSUME NEW s \in Shuffles, 1 \in Players, NEW r
  PROVE  LET e == With(Started(s, 1), [rules |-> r])
         IN  /\ DOMAIN e = {"type", "first_player", "racks", "bag", "rules"}
             /\ e.type = "GameStarted" /\ e.rules = r
             /\ Alike(e, Started(s, 1))
<1> DEFINE a == Started(s, 1)
           b == [rules |-> r]
           e == With(a, b)
<1>1. DOMAIN a = {"type", "first_player", "racks", "bag"} /\ a.type = "GameStarted"
  BY DEF Started
<1>2. DOMAIN b = {"rules"} /\ b.rules = r
  OBVIOUS
<1> HIDE DEF a, b
<1>3. /\ DOMAIN e = {"type", "first_player", "racks", "bag", "rules"}
      /\ e["type"] = a["type"] /\ e["first_player"] = a["first_player"]
      /\ e["racks"] = a["racks"] /\ e["bag"] = a["bag"] /\ e["rules"] = b["rules"]
  BY <1>1, <1>2 DEF With
<1> HIDE DEF e
<1>4. Alike(e, a)
  BY <1>3, <1>1 DEF Alike
<1> QED
  BY <1>1, <1>2, <1>3, <1>4 DEF a, b, e

\* Version 3 of a start, and what is read of it.
LEMMA StartV3 ==
  ASSUME NEW e, DOMAIN e = {"type", "first_player", "racks", "bag", "rules"},
         e = [f \in DOMAIN e |-> e[f]], e.type = "GameStarted", NEW a, Alike(e, a)
  PROVE  LET w == EventV3(e)
             d == EventFromV3(w)
         IN  /\ w = [e EXCEPT !.rules = StoredRules(e.rules)]
             /\ w.type = "GameStarted" /\ w.rules = StoredRules(e.rules)
             /\ Alike(d, a) /\ d.rules = e.rules
<1> DEFINE w == [e EXCEPT !.rules = StoredRules(e.rules)]
<1>1. EventV3(e) = w
  BY DEF EventV3
<1>2. /\ w.type = e.type /\ w.first_player = e.first_player /\ w.racks = e.racks
      /\ w.bag = e.bag /\ w.rules = StoredRules(e.rules)
      /\ DOMAIN w = DOMAIN e
  OBVIOUS
<1> HIDE DEF w
<1> DEFINE d == [w EXCEPT !.rules = w.rules.profile]
<1>3. EventFromV3(w) = d
  BY <1>2 DEF EventFromV3
<1>4. /\ d.type = w.type /\ d.first_player = w.first_player /\ d.racks = w.racks
      /\ d.bag = w.bag /\ d.rules = w.rules.profile
  BY <1>2
<1>5. w.rules.profile = e.rules
  BY <1>2 DEF StoredRules
<1> HIDE DEF d
<1>6. Alike(d, a)
  BY <1>2, <1>4 DEF Alike
<1> QED
  BY <1>1, <1>2, <1>3, <1>4, <1>5, <1>6 DEF w

\* Version 2 of a start, and what is read of it.
LEMMA StartV2 ==
  ASSUME NEW e, DOMAIN e = {"type", "first_player", "racks", "bag", "rules"},
         e.type = "GameStarted", NEW a, Alike(e, a)
  PROVE  Alike(EventFromV2(EventV2(e)), a) /\ EventFromV2(EventV2(e)).rules = Classic
<1> DEFINE w == Without(e, {"rules"})
           b == [rules |-> Classic]
           d == With(w, b)
<1>1. EventV2(e) = w
  BY DEF EventV2
<1>2. /\ DOMAIN w = {"type", "first_player", "racks", "bag"}
      /\ w["type"] = e["type"] /\ w["first_player"] = e["first_player"]
      /\ w["racks"] = e["racks"] /\ w["bag"] = e["bag"]
  BY DEF Without
<1> HIDE DEF w
<1>3. EventFromV2(w) = d
  BY <1>2 DEF EventFromV2
<1>4. DOMAIN b = {"rules"} /\ b.rules = Classic
  OBVIOUS
<1> HIDE DEF b
<1>5. /\ d["type"] = w["type"] /\ d["first_player"] = w["first_player"]
      /\ d["racks"] = w["racks"] /\ d["bag"] = w["bag"] /\ d["rules"] = b["rules"]
  BY <1>2, <1>4 DEF With
<1> HIDE DEF d
<1>6. Alike(d, a)
  BY <1>2, <1>5 DEF Alike
<1> QED
  BY <1>1, <1>3, <1>4, <1>5, <1>6

\* Every start row is known or refused.
LEMMA StartRowsRead ==
  ASSUME VersionsAssumption, NEW s \in Shuffles, NEW row \in StartRows(s)
  PROVE  KnownStart(row, s) \/ UnknownStart(row)
<1> DEFINE e == With(Started(s, 1), [rules |-> Classic])
           g == With(Started(s, 1), [rules |-> Generated])
           w == EventV3(g)
           a == Started(s, 1)
<1>1. 1 \in Players
  BY PlayersAssumption DEF Players
<1>2. /\ DOMAIN e = {"type", "first_player", "racks", "bag", "rules"}
      /\ e.type = "GameStarted" /\ e.rules = Classic /\ Alike(e, a)
      /\ DOMAIN g = {"type", "first_player", "racks", "bag", "rules"}
      /\ g.type = "GameStarted" /\ g.rules = Generated /\ Alike(g, a)
      /\ g = [f \in DOMAIN g |-> g[f]]
  <2>1. g = [f \in DOMAIN g |-> g[f]]
    BY DEF With
  <2> HIDE DEF e, g
  <2> QED
    BY <1>1, <2>1, StartWithRules DEF e, g
<1>3. row \in {Row(1, e), Row(2, EventV2(e)), Row(3, w),
               Row(3, [w EXCEPT !.rules.generator = GeneratorVersion + 1]),
               Row(3, [w EXCEPT !.rules.profile = Classic]), Row(4, e)}
  BY DEF StartRows
<1> HIDE DEF e, g, a
<1>4. /\ w = [g EXCEPT !.rules = StoredRules(Generated)]
      /\ w.type = "GameStarted" /\ w.rules = StoredRules(Generated)
      /\ Alike(EventFromV3(w), a) /\ EventFromV3(w).rules = Generated
  BY <1>2, StartV3
<1>5. DOMAIN w = {"type", "first_player", "racks", "bag", "rules"}
  BY <1>2, <1>4
<1> HIDE DEF w
<1>6. CASE row = Row(1, e)
  <2>1. row.version = 1 /\ row.payload = e
    BY <1>6 DEF Row
  <2>2. Readable(row) /\ DecodedEvent(row) = e
    BY <2>1 DEF Readable, DecodedEvent
  <2> QED
    BY <2>1, <2>2, <1>2 DEF KnownStart, a
<1>7. CASE row = Row(2, EventV2(e))
  <2>1. row.version = 2 /\ row.payload = EventV2(e)
    BY <1>7 DEF Row
  <2>2. Readable(row) /\ DecodedEvent(row) = EventFromV2(EventV2(e))
    BY <2>1 DEF Readable, DecodedEvent
  <2>3. Alike(EventFromV2(EventV2(e)), a) /\ EventFromV2(EventV2(e)).rules = Classic
    BY <1>2, StartV2
  <2> QED
    BY <2>1, <2>2, <2>3 DEF KnownStart, a
<1>8. CASE row = Row(3, w)
  <2>1. row.version = 3 /\ row.payload = w
    BY <1>8 DEF Row
  <2>2. ReadableRules(StoredRules(Generated))
    BY DEF ReadableRules, StoredRules
  <2>3. Readable(row) /\ DecodedEvent(row) = EventFromV3(w)
    BY <2>1, <2>2, <1>4 DEF Readable, DecodedEvent
  <2> QED
    BY <2>1, <2>3, <1>4 DEF KnownStart, a
<1>9. CASE row = Row(3, [w EXCEPT !.rules.generator = GeneratorVersion + 1])
  <2> DEFINE k == [w EXCEPT !.rules.generator = GeneratorVersion + 1]
  <2>1. k.type = "GameStarted" /\ k.rules = [w.rules EXCEPT !.generator = GeneratorVersion + 1]
    BY <1>4, <1>5
  <2>2. row.version = 3 /\ row.payload = k
    BY <1>9 DEF Row
  <2> HIDE DEF k
  <2>3. k.rules.generator = GeneratorVersion + 1
    BY <2>1, <1>4 DEF StoredRules
  <2>4. GeneratorVersion + 1 # GeneratorVersion
    BY DEF GeneratorVersion
  <2>5. ~ReadableRules(k.rules) /\ k.rules # StoredRules(Generated)
    BY <2>3, <2>4 DEF ReadableRules, StoredRules
  <2> QED
    BY <2>1, <2>2, <2>5 DEF UnknownStart, Readable
<1>10. CASE row = Row(3, [w EXCEPT !.rules.profile = Classic])
  <2> DEFINE k == [w EXCEPT !.rules.profile = Classic]
  <2>1. k.type = "GameStarted" /\ k.rules = [w.rules EXCEPT !.profile = Classic]
    BY <1>4, <1>5
  <2>2. row.version = 3 /\ row.payload = k
    BY <1>10 DEF Row
  <2> HIDE DEF k
  <2>3. k.rules.profile = Classic /\ k.rules.checksum = Checksum(Generated)
    BY <2>1, <1>4 DEF StoredRules
  <2>4. Checksum(Generated) # Checksum(Classic)
    BY DEF VersionsAssumption, Checksum
  <2>5. ~ReadableRules(k.rules) /\ k.rules # StoredRules(Generated)
    <3>1. StoredRules(Generated).profile = Generated
      BY DEF StoredRules
    <3> QED
      BY <2>3, <2>4, <3>1 DEF ReadableRules, VersionsAssumption
  <2> QED
    BY <2>1, <2>2, <2>5 DEF UnknownStart, Readable
<1>11. CASE row = Row(4, e)
  BY <1>11 DEF Row, UnknownStart, Readable
<1> QED
  BY <1>3, <1>6, <1>7, <1>8, <1>9, <1>10, <1>11

-----------------------------------------------------------------------------
(* Snapshots of several versions *)

\* A running game of version 2: both players play, and its legacy field counts
\* the passes.
Even(g) ==
  /\ g.status = "Active"
  /\ g.active_players = Players /\ g.scoreless_turns = g.consecutive_passes
  /\ g.leaders = {} /\ g.completion_reason = "None"

\* A completed game of version 2.
EndedLegacy(g) == g.status = "Completed" /\ g.completion_reason = "Legacy"

\* Two completed games that agree on all that a version 2 snapshot keeps of it.
SameResult(g, h) ==
  /\ h.status = g.status /\ h.active_player = g.active_player /\ h.board = g.board
  /\ h.racks = g.racks /\ h.bag = g.bag /\ h.scores = g.scores
  /\ (Cardinality(g.leaders) <= 1 => h.leaders = g.leaders)
  /\ h.completion_reason = g.completion_reason /\ h.revision = g.revision

\* A version 2 snapshot of a running game, or of a completed one.
LEMMA StateV2Decodes ==
  ASSUME NEW g \in State, Even(g) \/ EndedLegacy(g)
  PROVE  LET h == StateFromV2(StateV2(g))
         IN  /\ h \in State /\ h.revision = g.revision
             /\ Even(g) => SameGame(g, h) /\ Even(h)
             /\ EndedLegacy(g) => SameResult(g, h)
<1> DEFINE kept == {"status", "active_player", "board", "racks", "bag", "scores",
                    "scoreless_turns", "revision"}
           cut == Without(g, {"active_players", "consecutive_passes", "leaders",
                              "completion_reason"})
           won == [winner |-> Outright(g.leaders)]
           row == With(cut, won)
           back == Without(row, {"winner"})
           more == [active_players |-> Players, consecutive_passes |-> row.scoreless_turns,
                    leaders |-> IF row.winner = NoPlayer THEN {} ELSE {row.winner},
                    completion_reason |-> IF row.status = "Completed" THEN "Legacy" ELSE "None"]
           h == With(back, more)
<1>1. StateFromV2(StateV2(g)) = h
  BY DEF StateFromV2, StateV2
<1>2. DOMAIN cut = kept /\ \A f \in kept : cut[f] = g[f]
  <2>1. kept = StateFields \ {"active_players", "consecutive_passes", "leaders",
                              "completion_reason"}
    BY DEF StateFields
  <2> HIDE DEF kept
  <2> QED
    BY <2>1, StateDomain DEF Without
<1>3. DOMAIN won = {"winner"} /\ won["winner"] = Outright(g.leaders)
  OBVIOUS
<1> HIDE DEF cut, won
<1>4. /\ DOMAIN row = kept \cup {"winner"} /\ row["winner"] = Outright(g.leaders)
      /\ \A f \in kept : row[f] = g[f]
  <2>1. "winner" \notin kept
    OBVIOUS
  <2> HIDE DEF kept
  <2> QED
    BY <2>1, <1>2, <1>3 DEF With
<1> HIDE DEF row
<1>5. DOMAIN back = kept /\ \A f \in kept : back[f] = g[f]
  <2>1. "winner" \notin kept
    OBVIOUS
  <2> HIDE DEF kept
  <2> QED
    BY <2>1, <1>4 DEF Without
<1> DEFINE added == {"active_players", "consecutive_passes", "leaders", "completion_reason"}
<1>6. DOMAIN more = added
  OBVIOUS
<1>7. /\ row.winner = Outright(g.leaders) /\ row.status = g.status
      /\ row.scoreless_turns = g.scoreless_turns
  BY <1>4
<1>8. /\ more["active_players"] = Players /\ more["consecutive_passes"] = g.scoreless_turns
      /\ more["leaders"] = IF Outright(g.leaders) = NoPlayer THEN {} ELSE {Outright(g.leaders)}
      /\ more["completion_reason"] = IF g.status = "Completed" THEN "Legacy" ELSE "None"
  BY <1>7
<1> HIDE DEF back, more
<1>9. /\ h = [f \in StateFields |-> IF f \in added THEN more[f] ELSE g[f]]
  <2>1. kept \cup added = StateFields
    BY DEF StateFields
  <2>2. \A f \in StateFields : f \notin added => f \in kept
    BY <2>1
  <2> HIDE DEF kept, added
  <2> QED
    BY <2>1, <2>2, <1>5, <1>6 DEF With
<1>10. h = [status |-> g.status, active_players |-> more["active_players"],
            active_player |-> g.active_player, board |-> g.board, racks |-> g.racks,
            bag |-> g.bag, scores |-> g.scores, scoreless_turns |-> g.scoreless_turns,
            consecutive_passes |-> more["consecutive_passes"],
            leaders |-> more["leaders"], completion_reason |-> more["completion_reason"],
            revision |-> g.revision]
  <2> HIDE DEF h
  <2> QED
    BY <1>9 DEF StateFields
<1> HIDE DEF h
<1>11. /\ g.leaders \in SUBSET Players /\ g.scoreless_turns \in Nat
       /\ IsFiniteSet(g.leaders) /\ Cardinality(g.leaders) \in Nat
  BY PlayersAreFinite, FS_Subset, FS_CardinalityType DEF State
<1>12. more["leaders"] \in SUBSET Players
  <2>1. CASE Cardinality(g.leaders) = 1
    BY <2>1, <1>8, <1>11, OutrightIsLeader
  <2>2. CASE Cardinality(g.leaders) # 1
    BY <2>2, <1>8, <1>11, OutrightIsLeader
  <2> QED
    BY <2>1, <2>2
<1>13. h \in State
  <2>1. more["completion_reason"] \in CompletionReasons \cup {"None"}
    BY <1>8 DEF CompletionReasons
  <2> QED
    BY <1>8, <1>10, <1>11, <1>12, <2>1 DEF State
<1>14. ASSUME Even(g) PROVE SameGame(g, h) /\ Even(h)
  <2>1. g.leaders = {} /\ Cardinality(g.leaders) # 1
    BY <1>14, FS_EmptySet DEF Even
  <2>2. more["leaders"] = {}
    BY <2>1, <1>8, <1>11, OutrightIsLeader
  <2> QED
    BY <2>2, <1>8, <1>10, <1>14 DEF Even, SameGame
<1>15. ASSUME EndedLegacy(g) PROVE SameResult(g, h)
  <2>1. Cardinality(g.leaders) <= 1 => more["leaders"] = g.leaders
    <3>1. CASE Cardinality(g.leaders) = 1
      BY <3>1, <1>8, <1>11, OutrightIsLeader
    <3>2. CASE Cardinality(g.leaders) = 0
      BY <3>2, <1>8, <1>11, OutrightIsLeader, FS_EmptySet
    <3> QED
      BY <3>1, <3>2, <1>11
  <2> QED
    BY <2>1, <1>8, <1>10, <1>15 DEF EndedLegacy, SameResult
<1>16. h.revision = g.revision
  BY <1>10
<1> QED
  BY <1>1, <1>13, <1>14, <1>15, <1>16

-----------------------------------------------------------------------------
(* Recovering from longer journals *)

\* Loaded, FullReplay and RecoveredGame of any rows and any snapshot.
LoadsFrom(q, n) == \A i \in (n + 1)..Len(q) : Readable(q[i])
LoadedFrom(q, n) == [i \in 1..(Len(q) - n) |-> DecodedEvent(q[n + i])]
FullOf(q) == Recovery(LoadedFrom(q, 0)[1].rules, Replay(LoadedFrom(q, 0)))
RecoveredFrom(q, snap) ==
  IF snap = NoSnapshot THEN IF LoadsFrom(q, 0) THEN FullOf(q) ELSE Unsupported
  ELSE LET stored == DecodedSnapshot(snap)
           after  == stored.state.revision
       IN  IF SnapshotReadable(snap) /\ LoadsFrom(q, after)
           THEN [stored EXCEPT !.state = ApplyAll(@, LoadedFrom(q, after))]
           ELSE Unsupported

\* They are the ones of the model.
LEMMA RecoveredGameIs ==
  /\ Loads(0) = LoadsFrom(journal, 0) /\ FullReplay = FullOf(journal)
  /\ RecoveredGame = RecoveredFrom(journal, snapshot)
<1>1. \A n : LoadsFrom(journal, n) = Loads(n) /\ LoadedFrom(journal, n) = Loaded(n)
  BY DEF LoadsFrom, Loads, LoadedFrom, Loaded
<1> QED
  BY <1>1 DEF RecoveredGame, RecoveredFrom, FullReplay, FullOf

\* The rows after revision n, with one more.
LEMMA LoadedGrows ==
  ASSUME NEW S, NEW q \in Seq(S), NEW row \in S, NEW n \in 0..Len(q),
         NEW D, D = {DecodedEvent(x) : x \in S}
  PROVE  /\ LoadedFrom(q, n) \in Seq(D) /\ DecodedEvent(row) \in D
         /\ Len(LoadedFrom(q, n)) = Len(q) - n
         /\ LoadedFrom(Append(q, row), n) = Append(LoadedFrom(q, n), DecodedEvent(row))
         /\ Readable(row) /\ LoadsFrom(q, n) => LoadsFrom(Append(q, row), n)
<1> DEFINE more == Append(q, row)
           es == LoadedFrom(q, n)
           fs == LoadedFrom(more, n)
           k == Len(q) - n
<1>1. /\ Len(q) \in Nat /\ k \in Nat /\ Len(more) = Len(q) + 1
      /\ \A i \in 1..Len(q) : more[i] = q[i] /\ q[i] \in S
      /\ more[Len(q) + 1] = row
  BY LenProperties, AppendProperties, ElementOfSeq
<1> HIDE DEF more
<1>2. \A i \in 1..k : n + i \in 1..Len(q)
  BY <1>1
<1>3. es = [i \in 1..k |-> DecodedEvent(q[n + i])]
  BY DEF LoadedFrom
<1>4. \A i \in 1..k : DecodedEvent(q[n + i]) \in D
  BY <1>1, <1>2
<1>5. es \in Seq(D) /\ Len(es) = k
  <2>1. es \in [1..k -> D]
    BY <1>3, <1>4
  <2> QED
    BY <2>1, <1>1
<1>6. Len(more) - n = k + 1 /\ n + (k + 1) = Len(q) + 1
  BY <1>1
<1>7. fs = [i \in 1..(k + 1) |-> DecodedEvent(more[n + i])]
  BY <1>6 DEF LoadedFrom
<1>8. \A i \in 1..(k + 1) :
        DecodedEvent(more[n + i]) = IF i = k + 1 THEN DecodedEvent(row) ELSE es[i]
  <2> TAKE i \in 1..(k + 1)
  <2>1. CASE i = k + 1
    BY <2>1, <1>1, <1>6
  <2>2. CASE i # k + 1
    <3>1. i \in 1..k
      BY <2>2, <1>1
    <3>2. n + i \in 1..Len(q)
      BY <3>1, <1>2
    <3>3. more[n + i] = q[n + i]
      BY <3>2, <1>1
    <3>4. es[i] = DecodedEvent(q[n + i])
      BY <3>1, <1>3
    <3> QED
      BY <3>3, <3>4, <2>2
  <2> QED
    BY <2>1, <2>2
<1>9. DecodedEvent(row) \in D
  OBVIOUS
<1> HIDE DEF es, fs, k
<1>10. fs = Append(es, DecodedEvent(row))
  <2> DEFINE d == DecodedEvent(row)
  <2>1. /\ Append(es, d) \in Seq(D) /\ Len(Append(es, d)) = k + 1
        /\ \A i \in 1..k : Append(es, d)[i] = es[i]
        /\ Append(es, d)[k + 1] = d
    BY <1>5, <1>9, AppendProperties
  <2>2. Append(es, d) = [i \in 1..(k + 1) |-> Append(es, d)[i]]
    BY <2>1, LenProperties
  <2> HIDE DEF d
  <2>3. k \in Nat
    BY <1>1 DEF k
  <2>4. \A i \in 1..(k + 1) : Append(es, d)[i] = IF i = k + 1 THEN d ELSE es[i]
    BY <2>1, <2>3
  <2>5. \A i \in 1..(k + 1) : DecodedEvent(more[n + i]) = Append(es, d)[i]
    BY <2>4, <1>8 DEF d
  <2> QED
    BY <2>2, <2>5, <1>7 DEF d
<1>11. ASSUME Readable(row), LoadsFrom(q, n)
       PROVE  LoadsFrom(more, n)
  <2> SUFFICES ASSUME NEW i \in (n + 1)..Len(more) PROVE Readable(more[i])
    BY DEF LoadsFrom
  <2>1. CASE i = Len(q) + 1
    BY <2>1, <1>1, <1>11
  <2>2. CASE i # Len(q) + 1
    <3>1. i \in (n + 1)..Len(q) /\ i \in 1..Len(q)
      BY <2>2, <1>1
    <3> QED
      BY <3>1, <1>1, <1>11 DEF LoadsFrom
  <2> QED
    BY <2>1, <2>2
<1> QED
  BY <1>5, <1>9, <1>10, <1>11 DEF es, fs, more, k

\* A supported game is no error.
LEMMA RecoveryIsSupported ==
  ASSUME VersionsAssumption, NEW r \in {Classic, Generated}, NEW g \in State
  PROVE  Recovery(r, g) # Unsupported /\ Recovery(r, g).rules = r /\ Recovery(r, g).state = g
BY DEF VersionsAssumption, Recovery

\* One more readable row is applied to the recovered game.
LEMMA RecoveryGrows ==
  ASSUME VersionsAssumption, NEW S, NEW q \in Seq(S), q # <<>>, NEW row \in S, Readable(row),
         NEW snap, snap # NoSnapshot => DecodedSnapshot(snap).state.revision \in 0..Len(q),
         NEW r \in {Classic, Generated}, NEW g \in State,
         RecoveredFrom(q, snap) = Recovery(r, g)
  PROVE  RecoveredFrom(Append(q, row), snap) = Recovery(r, ApplyEvent(g, DecodedEvent(row)))
<1> DEFINE D == {DecodedEvent(x) : x \in S}
           d == DecodedEvent(row)
<1>1. Recovery(r, g) # Unsupported /\ Recovery(r, g).rules = r /\ Recovery(r, g).state = g
  BY RecoveryIsSupported
<1>2. Len(q) \in Nat /\ Len(q) >= 1 /\ 0 \in 0..Len(q)
  BY EmptySeq
<1>3. CASE snap = NoSnapshot
  <2> DEFINE L == LoadedFrom(q, 0)
  <2>1. LoadsFrom(q, 0) /\ FullOf(q) = Recovery(r, g)
    BY <1>1, <1>3 DEF RecoveredFrom
  <2>2. /\ L \in Seq(D) /\ d \in D /\ Len(L) = Len(q)
        /\ LoadedFrom(Append(q, row), 0) = Append(L, d)
        /\ LoadsFrom(Append(q, row), 0)
    <3>1. D = {DecodedEvent(x) : x \in S}
      OBVIOUS
    <3> HIDE DEF D
    <3>2. /\ L \in Seq(D) /\ d \in D /\ Len(L) = Len(q) - 0
          /\ LoadedFrom(Append(q, row), 0) = Append(L, d)
          /\ Readable(row) /\ LoadsFrom(q, 0) => LoadsFrom(Append(q, row), 0)
      BY <3>1, <1>2, LoadedGrows
    <3> QED
      BY <3>2, <2>1, <1>2
  <2>3. r = L[1].rules /\ g = Replay(L)
    BY <1>1, <2>1 DEF FullOf, Recovery
  <2> HIDE DEF L, D, d
  <2>4. L # <<>> /\ 1 \in 1..Len(L)
    BY <2>2, <1>2
  <2>5. Replay(Append(L, d)) = ApplyEvent(Replay(L), d) /\ Append(L, d)[1] = L[1]
    BY <2>2, <2>4, ReplayExtends, AppendProperties
  <2> QED
    BY <2>2, <2>3, <2>5, <1>3 DEF RecoveredFrom, FullOf, d
<1>4. CASE snap # NoSnapshot
  <2> DEFINE stored == DecodedSnapshot(snap)
             n == stored.state.revision
             L == LoadedFrom(q, n)
  <2>1. /\ SnapshotReadable(snap) /\ LoadsFrom(q, n)
        /\ [stored EXCEPT !.state = ApplyAll(@, L)] = Recovery(r, g)
    BY <1>1, <1>4 DEF RecoveredFrom
  <2>2. /\ L \in Seq(D) /\ d \in D
        /\ LoadedFrom(Append(q, row), n) = Append(L, d)
        /\ LoadsFrom(Append(q, row), n)
    <3>1. D = {DecodedEvent(x) : x \in S} /\ n \in 0..Len(q)
      BY <1>4
    <3> HIDE DEF D, n
    <3>2. /\ L \in Seq(D) /\ d \in D
          /\ LoadedFrom(Append(q, row), n) = Append(L, d)
          /\ Readable(row) /\ LoadsFrom(q, n) => LoadsFrom(Append(q, row), n)
      BY <3>1, LoadedGrows
    <3> QED
      BY <3>2, <2>1
  <2>3. stored = Recovery(stored.rules, stored.state)
    BY DEF DecodedSnapshot, Recovery
  <2>4. ApplyAll(stored.state, Append(L, d)) = ApplyEvent(ApplyAll(stored.state, L), d)
    <3> HIDE DEF L, D, d, stored
    <3> QED
      BY <2>2, ReplayOfOneMore
  <2>5. RecoveredFrom(Append(q, row), snap)
          = [stored EXCEPT !.state = ApplyAll(@, LoadedFrom(Append(q, row), n))]
    BY <2>1, <2>2, <1>4 DEF RecoveredFrom
  <2> HIDE DEF stored, L, d
  <2>6. \A x : [stored EXCEPT !.state = x] = Recovery(stored.rules, x)
    BY <2>3 DEF Recovery
  <2>7. r = stored.rules /\ g = ApplyAll(stored.state, L)
    <3>1. [stored EXCEPT !.state = ApplyAll(stored.state, L)]
            = Recovery(stored.rules, ApplyAll(stored.state, L))
      BY <2>6
    <3>2. Recovery(stored.rules, ApplyAll(stored.state, L)) = Recovery(r, g)
      BY <2>1, <3>1
    <3> QED
      BY <3>2 DEF Recovery
  <2>8. RecoveredFrom(Append(q, row), snap)
          = Recovery(stored.rules, ApplyAll(stored.state, Append(L, d)))
    BY <2>2, <2>5, <2>6
  <2> QED
    BY <2>4, <2>7, <2>8 DEF d
<1> QED
  BY <1>3, <1>4

-----------------------------------------------------------------------------
(* Rows, snapshot and journal of one game *)

\* The rows q say, one by one, what the journal j says.
RowsOfGame(q, j) ==
  /\ \E S : q \in Seq(S)
  /\ Len(q) = Len(j)
  /\ \A i \in 1..Len(j) : Readable(q[i]) /\ Alike(DecodedEvent(q[i]), j[i])

\* The rows and the snapshot recover as the game g under the rules r, and the
\* rows replay as the journal j.
Told(q, snap, j, r, g) ==
  /\ RowsOfGame(q, j) /\ Replays(j)
  /\ snap # NoSnapshot => DecodedSnapshot(snap).state.revision \in 0..Len(q)
  /\ r \in {Classic, Generated} /\ g \in State
  /\ RecoveredFrom(q, snap) = Recovery(r, g)

\* Such rows are read, and replay as the journal does.
LEMMA RowsReplay ==
  ASSUME NEW j, Replays(j), NEW q, RowsOfGame(q, j)
  PROVE  /\ \A n \in Nat : LoadsFrom(q, n)
         /\ Replay(LoadedFrom(q, 0)) = Replay(j)
         /\ LoadedFrom(q, 0)[1] = DecodedEvent(q[1])
         /\ Len(q) = Len(j) /\ Len(q) \in Nat /\ Len(q) >= 1
<1> DEFINE ds == LoadedFrom(q, 0)
           D == {DecodedEvent(q[i]) : i \in 1..Len(j)}
<1>1. Len(q) = Len(j) /\ Len(j) \in Nat /\ Len(j) >= 1
  BY EmptySeq DEF RowsOfGame, Replays
<1>2. \A n \in Nat : LoadsFrom(q, n)
  <2> SUFFICES ASSUME NEW n \in Nat, NEW i \in (n + 1)..Len(q) PROVE Readable(q[i])
    BY DEF LoadsFrom
  <2>1. i \in 1..Len(j)
    BY <1>1
  <2> QED
    BY <2>1 DEF RowsOfGame
<1>3. Len(q) - 0 = Len(j) /\ \A i \in 1..Len(j) : 0 + i = i
  BY <1>1
<1>4. ds = [i \in 1..Len(j) |-> DecodedEvent(q[i])]
  BY <1>3 DEF LoadedFrom
<1>5. ds \in Seq(D) /\ Len(ds) = Len(j)
  <2>1. ds \in [1..Len(j) -> D]
    BY <1>4
  <2> HIDE DEF D, ds
  <2> QED
    BY <2>1, <1>1
<1>6. \A i \in 1..Len(j) : Alike(ds[i], j[i])
  BY <1>4 DEF RowsOfGame
<1>7. ds[1] = DecodedEvent(q[1])
  BY <1>4, <1>1
<1> HIDE DEF ds, D
<1>8. Replay(ds) = Replay(j)
  BY <1>5, <1>6, AlikeReplay
<1> QED
  BY <1>1, <1>2, <1>7, <1>8 DEF ds

\* One more row, of either version, whose event applies.
LEMMA ToldGrows ==
  ASSUME VersionsAssumption, NEW q, NEW snap, NEW j, NEW r, NEW g, Told(q, snap, j, r, g),
         NEW v \in {2, 3}, NEW e \in LaterEvents, Holds(v, e),
         ApplyEvent(Replay(j), e) # ReplayError, ApplyEvent(g, e) # ReplayError
  PROVE  /\ Told(Append(q, RowFor(v, e)), snap, Append(j, e), r, ApplyEvent(g, e))
         /\ Replay(Append(j, e)) = ApplyEvent(Replay(j), e)
         /\ Append(q, RowFor(v, e))[1] = q[1]
<1> DEFINE row  == RowFor(v, e)
           rows == Append(q, row)
           more == Append(j, e)
<1>1. Readable(row) /\ Alike(DecodedEvent(row), e)
  BY RowDecodes
<1> HIDE DEF row
<1>2. PICK S : q \in Seq(S)
  BY DEF Told, RowsOfGame
<1>3. /\ Replays(more) /\ Replay(more) = ApplyEvent(Replay(j), e)
      /\ Len(more) = Len(j) + 1
  BY OneMoreReplays DEF Told
<1>4. Len(q) = Len(j) /\ Len(j) \in Nat /\ Len(j) >= 1
  BY RowsReplay DEF Told
<1> DEFINE T == S \cup {row}
<1>5. q \in Seq(T) /\ row \in T /\ q # <<>>
  <2>1. q = [i \in 1..Len(q) |-> q[i]] /\ \A i \in 1..Len(q) : q[i] \in S
    BY <1>2, ElementOfSeq, LenProperties
  <2>2. q \in [1..Len(q) -> T]
    BY <2>1
  <2> HIDE DEF T
  <2>3. q \in Seq(T)
    BY <2>2, <1>4
  <2>4. q # <<>>
    BY <1>4
  <2> QED
    BY <2>3, <2>4 DEF T
<1> HIDE DEF T
<1>6. /\ rows \in Seq(T) /\ Len(rows) = Len(q) + 1
      /\ \A i \in 1..Len(q) : rows[i] = q[i]
      /\ rows[Len(q) + 1] = row
  BY <1>5, AppendProperties
<1>7. /\ \A i \in 1..Len(j) : more[i] = j[i]
      /\ more[Len(j) + 1] = e
  <2>1. j \in Seq(Events) /\ e \in Events
    BY DEF Told, Replays, LaterEvents
  <2> QED
    BY <2>1, AppendProperties
<1> HIDE DEF rows, more
<1>8. RowsOfGame(rows, more)
  <2>1. ASSUME NEW i \in 1..Len(more)
        PROVE  Readable(rows[i]) /\ Alike(DecodedEvent(rows[i]), more[i])
    <3>1. CASE i = Len(j) + 1
      BY <3>1, <1>1, <1>4, <1>6, <1>7
    <3>2. CASE i # Len(j) + 1
      <4>1. i \in 1..Len(j)
        BY <3>2, <1>3, <1>4
      <4>2. Readable(q[i]) /\ Alike(DecodedEvent(q[i]), j[i])
        BY <4>1 DEF Told, RowsOfGame
      <4>3. rows[i] = q[i] /\ more[i] = j[i]
        BY <4>1, <1>4, <1>6, <1>7
      <4> QED
        BY <4>2, <4>3
    <3> QED
      BY <3>1, <3>2
  <2> QED
    BY <2>1, <1>3, <1>4, <1>6 DEF RowsOfGame
<1>9. ApplyEvent(g, DecodedEvent(row)) = ApplyEvent(g, e)
  BY <1>1, AlikeApply
<1>10. RecoveredFrom(rows, snap) = Recovery(r, ApplyEvent(g, e))
  <2>1. RecoveredFrom(Append(q, row), snap) = Recovery(r, ApplyEvent(g, DecodedEvent(row)))
    BY <1>1, <1>5, RecoveryGrows DEF Told
  <2> QED
    BY <2>1, <1>9 DEF rows
<1>11. ApplyEvent(g, e) \in State
  BY AppliedEvent DEF Told
<1>12. snap # NoSnapshot => DecodedSnapshot(snap).state.revision \in 0..Len(rows)
  <2>1. \A n \in 0..Len(q) : n \in 0..Len(rows)
    BY <1>4, <1>6
  <2> QED
    BY <2>1 DEF Told
<1>13. Told(rows, snap, more, r, ApplyEvent(g, e))
  BY <1>3, <1>8, <1>10, <1>11, <1>12 DEF Told
<1>14. rows[1] = q[1]
  BY <1>4, <1>6
<1> QED
  BY <1>3, <1>13, <1>14 DEF rows, more, row

\* Two running games of version 2 that are the same are equal.
LEMMA EvenIsSame ==
  ASSUME NEW g \in State, NEW h \in State, SameGame(g, h), Even(g), Even(h)
  PROVE  h = g
<1>1. /\ g = [f \in StateFields |-> g[f]] /\ h = [f \in StateFields |-> h[f]]
  BY DEF State, StateFields
<1>2. \A f \in StateFields : h[f] = g[f]
  BY DEF SameGame, Even, StateFields
<1> QED
  BY <1>1, <1>2

\* The game h is what version v keeps of the game g.
KeptAs(v, g, h) ==
  /\ h.revision = g.revision
  /\ Even(g) => h = g
  /\ SameGame(g, h) \/ (v = 2 /\ SameResult(g, h))

\* The snapshot row is read, as the game h with the rules r.
ReadAs(snap, r, h) ==
  /\ snap # NoSnapshot /\ SnapshotReadable(snap)
  /\ DecodedSnapshot(snap) = Recovery(r, h)

\* A snapshot of the last revision is decoded as the game it was taken of, but
\* for what its version does not keep.
LEMMA SnapshotDecodes ==
  ASSUME NEW v \in {2, 3}, NEW r \in {Classic, Generated}, NEW g \in State,
         v = 2 => r = Classic /\ (Even(g) \/ EndedLegacy(g))
  PROVE  /\ \E h \in State : ReadAs(SnapshotOf(v, r, g), r, h) /\ KeptAs(v, g, h)
         /\ SnapshotOf(v, r, g).version = v
<1> DEFINE snap == SnapshotOf(v, r, g)
<1>1. snap.version = v /\ snap.payload = IF v = 2 THEN StateV2(g) ELSE StateV3(r, g)
  BY DEF SnapshotOf, Row
<1>2. snap # NoSnapshot
  <2>1. DOMAIN snap = {"version", "payload"}
    BY DEF SnapshotOf, Row
  <2>2. DOMAIN NoSnapshot = {"revision"}
    BY DEF NoSnapshot
  <2> QED
    BY <2>1, <2>2
<1>3. CASE v = 2
  <2> DEFINE h == StateFromV2(StateV2(g))
  <2>1. /\ h \in State /\ h.revision = g.revision
        /\ Even(g) => SameGame(g, h) /\ Even(h)
        /\ EndedLegacy(g) => SameResult(g, h)
    BY <1>3, StateV2Decodes
  <2>2. DecodedSnapshot(snap) = Recovery(r, h) /\ SnapshotReadable(snap)
    BY <1>1, <1>3 DEF DecodedSnapshot, SnapshotReadable
  <2> HIDE DEF h
  <2>3. Even(g) => h = g
    BY <2>1, EvenIsSame
  <2>4. KeptAs(v, g, h) /\ ReadAs(snap, r, h)
    BY <1>2, <1>3, <2>1, <2>2, <2>3 DEF KeptAs, ReadAs
  <2> HIDE DEF snap
  <2> QED
    BY <1>1, <2>1, <2>4 DEF snap
<1>4. CASE v = 3
  <2> DEFINE h == Restored(g)
             stored == StateV3(r, g)
  <2>1. h \in State /\ SameGame(g, h) /\ DecodedState(EncodedState(g)) = h
    BY RestoredIsSame
  <2>2. stored.rules = StoredRules(r) /\ stored.state = EncodedState(g)
    BY DEF StateV3
  <2>3. ReadableRules(StoredRules(r)) /\ StoredRules(r).profile = r
    BY DEF ReadableRules, StoredRules
  <2>4. Even(g) => Even(h)
    <3>1. h.scoreless_turns = g.consecutive_passes
      BY DEF Restored, State
    <3> QED
      BY <3>1, <2>1 DEF Even, SameGame
  <2> HIDE DEF h, stored
  <2>5. snap.payload = stored
    BY <1>1, <1>4 DEF stored
  <2>6. DecodedSnapshot(snap) = Recovery(r, h) /\ SnapshotReadable(snap)
    BY <1>1, <1>4, <2>1, <2>2, <2>3, <2>5 DEF DecodedSnapshot, SnapshotReadable
  <2>7. Even(g) => h = g
    BY <2>1, <2>4, EvenIsSame
  <2>8. h.revision = g.revision
    BY <2>1 DEF SameGame
  <2>9. KeptAs(v, g, h) /\ ReadAs(snap, r, h)
    BY <1>2, <2>1, <2>6, <2>7, <2>8 DEF KeptAs, ReadAs
  <2> HIDE DEF snap
  <2> QED
    BY <1>1, <2>1, <2>9 DEF snap
<1> QED
  BY <1>3, <1>4

\* Storing a snapshot of the last revision.
LEMMA SnapshotTold ==
  ASSUME NEW q, NEW old, NEW j, NEW r, NEW g, Told(q, old, j, r, g), g.revision = Len(j),
         NEW v \in {2, 3}, v = 2 => r = Classic /\ (Even(g) \/ EndedLegacy(g))
  PROVE  /\ \E h \in State : Told(q, SnapshotOf(v, r, g), j, r, h) /\ KeptAs(v, g, h)
         /\ SnapshotOf(v, r, g) # NoSnapshot /\ SnapshotOf(v, r, g).version = v
<1> DEFINE snap == SnapshotOf(v, r, g)
<1>1. r \in {Classic, Generated} /\ g \in State
  BY DEF Told
<1>2. /\ \E h \in State : ReadAs(snap, r, h) /\ KeptAs(v, g, h)
      /\ snap.version = v
  BY <1>1, SnapshotDecodes
<1> HIDE DEF snap
<1>3. PICK h \in State : ReadAs(snap, r, h) /\ KeptAs(v, g, h)
  BY <1>2
<1>4. /\ snap # NoSnapshot /\ SnapshotReadable(snap)
      /\ DecodedSnapshot(snap) = Recovery(r, h) /\ h.revision = g.revision
  BY <1>3 DEF ReadAs, KeptAs
<1>5. /\ \A n \in Nat : LoadsFrom(q, n)
      /\ Len(q) = Len(j) /\ Len(q) \in Nat
  BY RowsReplay DEF Told
<1>6. LoadedFrom(q, Len(q)) = <<>>
  <2>1. Len(q) - Len(q) = 0
    BY <1>5
  <2>2. LoadedFrom(q, Len(q)) = [i \in 1..0 |-> DecodedEvent(q[Len(q) + i])]
    BY <2>1 DEF LoadedFrom
  <2>3. DOMAIN LoadedFrom(q, Len(q)) = {}
    BY <2>2
  <2> QED
    BY <2>2, <2>3
<1> DEFINE stored == DecodedSnapshot(snap)
<1>7. stored = Recovery(r, h) /\ stored.state = h /\ stored.state.revision = Len(q)
  BY <1>4, <1>5 DEF Recovery
<1>8. RecoveredFrom(q, snap) = [stored EXCEPT !.state = ApplyAll(@, LoadedFrom(q, Len(q)))]
  <2>1. LoadsFrom(q, stored.state.revision)
    BY <1>5, <1>7
  <2> HIDE DEF stored
  <2> QED
    BY <1>4, <1>7, <2>1 DEF RecoveredFrom, stored
<1>9. ApplyAll(h, <<>>) = h
  BY ReplayOfNothing
<1> HIDE DEF stored
<1>10. RecoveredFrom(q, snap) = Recovery(r, h)
  <2>1. RecoveredFrom(q, snap) = [stored EXCEPT !.state = h]
    BY <1>6, <1>7, <1>8, <1>9
  <2> QED
    BY <2>1, <1>7 DEF Recovery
<1>11. DecodedSnapshot(snap).state.revision \in 0..Len(q)
  BY <1>5, <1>7 DEF stored
<1>12. Told(q, snap, j, r, h)
  BY <1>10, <1>11 DEF Told
<1> QED
  BY <1>2, <1>3, <1>4, <1>12 DEF snap

-----------------------------------------------------------------------------
(* What a release decides *)

\* The ending a release of payload version v stores.
EndingOf(v, over) == IF v = 2 THEN [over EXCEPT !.reason = "Legacy"] ELSE over

\* The events a release of payload version v decides for a command.
DecidedBy(v, g, p, cmd) == IF v = 2 THEN LegacyEvents(Decide(g, p, cmd)) ELSE Decide(g, p, cmd)

\* The game they lead to, and the rows they are stored as behind the rows q.
GameAfterCommand(v, g, p, cmd) == ApplyAll(g, DecidedBy(v, g, p, cmd))
RowsAfterCommand(q, v, g, p, cmd) == q \o RowsOf(v, DecidedBy(v, g, p, cmd))

\* They are the ones of the rules, but for the reason of an ending.
LEMMA DecidedByRelease ==
  ASSUME NEW v \in {2, 3}, NEW g \in State, NEW p \in Players, NEW cmd \in GameCommands(g, p)
  PROVE  LET move == MoveEvent(g, p, cmd)
             over == EndingOf(v, Ending(g, p, cmd))
         IN  /\ move \in LaterEvents /\ move.player = p /\ Holds(v, move)
             /\ Ends(g, p, cmd) =>
                  /\ over \in LaterEvents /\ Holds(v, over) /\ over.type = "GameCompleted"
                  /\ v = 2 => over.reason = "Legacy"
                  /\ DecidedBy(v, g, p, cmd) = <<move, over>>
                  /\ RowsOf(v, DecidedBy(v, g, p, cmd)) = <<RowFor(v, move), RowFor(v, over)>>
             /\ ~Ends(g, p, cmd) =>
                  /\ DecidedBy(v, g, p, cmd) = <<move>>
                  /\ RowsOf(v, DecidedBy(v, g, p, cmd)) = <<RowFor(v, move)>>
<1> DEFINE move == MoveEvent(g, p, cmd)
           last == Ending(g, p, cmd)
           over == EndingOf(v, last)
           ds   == DecidedBy(v, g, p, cmd)
<1>1. /\ move \in LaterEvents /\ move.player = p
      /\ Ends(g, p, cmd) => last \in LaterEvents
      /\ Decide(g, p, cmd) = IF Ends(g, p, cmd) THEN <<move, last>> ELSE <<move>>
  BY Decided
<1>2. move.type # "GameCompleted"
  BY CommandTypes DEF MoveEvent
<1>3. Ends(g, p, cmd) => last.type = "GameCompleted" /\ last.leaders = Leaders(last.scores)
  BY DEF Ends, Ending, Completed
<1> HIDE DEF move, last
<1>4. Holds(v, move)
  BY <1>2 DEF Holds
<1>5. ASSUME Ends(g, p, cmd)
      PROVE  /\ over \in LaterEvents /\ Holds(v, over) /\ over.type = "GameCompleted"
             /\ v = 2 => over.reason = "Legacy"
  <2>1. /\ last = [type |-> last.type, scores |-> last.scores, leaders |-> last.leaders,
                   reason |-> last.reason]
        /\ last.scores \in [Players -> Nat] /\ last.leaders \in SUBSET Players
    BY <1>1, <1>3, <1>5 DEF LaterEvents, Events
  <2>2. CASE v = 2
    <3>1. over = [type |-> last.type, scores |-> last.scores, leaders |-> last.leaders,
                  reason |-> "Legacy"]
      BY <2>1, <2>2 DEF EndingOf
    <3>2. over \in LaterEvents
      BY <2>1, <3>1, <1>3, <1>5 DEF LaterEvents, Events, CompletionReasons
    <3> QED
      BY <3>1, <3>2, <1>3, <1>5 DEF Holds
  <2>3. CASE v = 3
    BY <2>3, <1>1, <1>3, <1>5 DEF EndingOf, Holds
  <2> QED
    BY <2>2, <2>3
<1> DEFINE Faced(e) == IF e.type = "GameCompleted" THEN [e EXCEPT !.reason = "Legacy"] ELSE e
<1>6. CASE Ends(g, p, cmd)
  <2>1. ds = <<move, over>>
    <3>1. CASE v = 2
      <4> DEFINE s == <<move, last>>
      <4>1. Len(s) = 2 /\ DOMAIN s = 1..2 /\ s[1] = move /\ s[2] = last
        OBVIOUS
      <4>2. LegacyEvents(s) = [i \in 1..2 |-> Faced(s[i])]
        BY <4>1 DEF LegacyEvents
      <4>3. Faced(s[1]) = move /\ Faced(s[2]) = over
        BY <4>1, <1>2, <1>3, <1>6, <3>1 DEF EndingOf
      <4>4. [i \in 1..2 |-> Faced(s[i])] = <<move, over>>
        <5> HIDE DEF Faced, s, over
        <5> QED
          BY <4>3
      <4> HIDE DEF s
      <4> QED
        BY <4>2, <4>4, <1>1, <1>6, <3>1 DEF DecidedBy, s
    <3>2. CASE v = 3
      BY <3>2, <1>1, <1>6 DEF DecidedBy, EndingOf
    <3> QED
      BY <3>1, <3>2
  <2> HIDE DEF ds, over
  <2>2. RowsOf(v, ds) = <<RowFor(v, move), RowFor(v, over)>>
    <3>1. DOMAIN ds = 1..2 /\ ds[1] = move /\ ds[2] = over
      BY <2>1
    <3>2. RowsOf(v, ds) = [i \in 1..2 |-> RowFor(v, ds[i])]
      BY <3>1 DEF RowsOf, RowFor
    <3>3. [i \in 1..2 |-> RowFor(v, ds[i])] = <<RowFor(v, move), RowFor(v, over)>>
      BY <3>1
    <3> QED
      BY <3>2, <3>3
  <2> QED
    BY <2>1, <2>2, <1>1, <1>4, <1>5, <1>6 DEF ds, over, move, last
<1>7. CASE ~Ends(g, p, cmd)
  <2>1. ds = <<move>>
    <3>1. CASE v = 2
      <4> DEFINE s == <<move>>
      <4>1. Len(s) = 1 /\ DOMAIN s = 1..1 /\ s[1] = move
        OBVIOUS
      <4>2. LegacyEvents(s) = [i \in 1..1 |-> Faced(s[i])]
        BY <4>1 DEF LegacyEvents
      <4>3. Faced(s[1]) = move
        BY <4>1, <1>2
      <4>4. [i \in 1..1 |-> Faced(s[i])] = <<move>>
        <5> HIDE DEF Faced, s
        <5> QED
          BY <4>3
      <4> HIDE DEF s
      <4> QED
        BY <4>2, <4>4, <1>1, <1>7, <3>1 DEF DecidedBy, s
    <3>2. CASE v = 3
      BY <3>2, <1>1, <1>7 DEF DecidedBy
    <3> QED
      BY <3>1, <3>2
  <2> HIDE DEF ds
  <2>2. RowsOf(v, ds) = <<RowFor(v, move)>>
    <3>1. DOMAIN ds = 1..1 /\ ds[1] = move
      BY <2>1
    <3>2. RowsOf(v, ds) = [i \in 1..1 |-> RowFor(v, ds[i])]
      BY <3>1 DEF RowsOf, RowFor
    <3>3. [i \in 1..1 |-> RowFor(v, ds[i])] = <<RowFor(v, move)>>
      BY <3>1
    <3> QED
      BY <3>2, <3>3
  <2> QED
    BY <2>1, <2>2, <1>1, <1>4, <1>7 DEF ds, move
<1> QED
  BY <1>6, <1>7

\* Rows are appended one after the other.
LEMMA RowsAppended ==
  ASSUME NEW q, NEW S, q \in Seq(S), NEW a, NEW b
  PROVE  /\ q \o <<a>> = Append(q, a)
         /\ q \o <<a, b>> = Append(Append(q, a), b)
<1> DEFINE T == (S \cup {a}) \cup {b}
<1>1. Len(q) \in Nat /\ q = [i \in 1..Len(q) |-> q[i]] /\ \A i \in 1..Len(q) : q[i] \in S
  BY ElementOfSeq, LenProperties
<1>2. q \in Seq(T) /\ a \in T /\ b \in T
  <2>1. q \in [1..Len(q) -> T]
    BY <1>1
  <2>2. a \in T /\ b \in T
    OBVIOUS
  <2> HIDE DEF T
  <2> QED
    BY <2>1, <2>2, <1>1
<1> HIDE DEF T
<1> QED
  BY <1>2, AppendIsConcat, TwoMore

\* A game of two goes on as one of version 2 does, unless it ends.
LEMMA MoveKeepsEven ==
  ASSUME VersionsAssumption, NEW g \in State, Even(g),
         NEW p \in Players, NEW cmd \in GameCommands(g, p), ~Ends(g, p, cmd),
         ApplyEvent(g, MoveEvent(g, p, cmd)) # ReplayError
  PROVE  Even(ApplyEvent(g, MoveEvent(g, p, cmd)))
<1> DEFINE move == MoveEvent(g, p, cmd)
           h == Stepped(g, move)
<1>1. move \in LaterEvents
  BY Decided
<1>2. Fits(g, move) /\ ApplyEvent(g, move) = h /\ h \in State
  BY <1>1, AppliedEvent
<1>3. Cardinality(Players) = 2
  <2>1. Players = 1..2
    BY DEF VersionsAssumption, Players
  <2>2. 1 \in Int /\ 2 \in Int /\ ~(1 > 2) /\ 2 - 1 + 1 = 2
    OBVIOUS
  <2>3. Cardinality(1..2) = 2
    BY <2>2, FS_Interval
  <2> QED
    BY <2>1, <2>3
<1>4. cmd.type # "Resign"
  BY <1>3 DEF Ends, Even
<1>5. move.type \in {"TilesPlayed", "TilesExchanged", "TurnPassed"} /\ move \in Events
  BY <1>1, <1>4, CommandTypes DEF MoveEvent, LaterEvents
<1> HIDE DEF move, h
<1>6. /\ GoesOn(g, h) /\ h.active_players = g.active_players
      /\ h.scoreless_turns = h.consecutive_passes
  <2>1. CASE move.type = "TilesPlayed"
    BY <2>1, <1>2, <1>5, PlayStep DEF AfterPlay, h
  <2>2. CASE move.type = "TilesExchanged"
    BY <2>2, <1>2, <1>5, ExchangeStep DEF AfterExchange, h
  <2>3. CASE move.type = "TurnPassed"
    BY <2>3, <1>2, <1>5, PassStep DEF AfterPass, Even, h
  <2> QED
    BY <2>1, <2>2, <2>3, <1>5
<1>7. Even(h)
  BY <1>6 DEF Even, GoesOn
<1> QED
  BY <1>2, <1>7 DEF move, h

\* The rows and the snapshot recover as the game the whole journal gives.
ToldInFull(q, snap, r, g) == \E j : Told(q, snap, j, r, g) /\ g = Replay(j)

\* What version v can hold in full: a running game, or one that ended for the
\* reason Legacy; version 3 holds every game.
KeptOrEnded(v, g) == Even(g) \/ (g.status = "Completed" /\ (v = 2 => EndedLegacy(g)))

\* What a release recovers in full, it recovers in full after its next command.
LEMMA CommandTold ==
  ASSUME VersionsAssumption, NEW q, NEW snap, NEW r, NEW g, ToldInFull(q, snap, r, g),
         Even(g), NEW v \in {2, 3},
         NEW p \in Players, NEW cmd \in GameCommands(g, p),
         GameAfterCommand(v, g, p, cmd) # ReplayError
  PROVE  /\ ToldInFull(RowsAfterCommand(q, v, g, p, cmd), snap, r, GameAfterCommand(v, g, p, cmd))
         /\ RowsAfterCommand(q, v, g, p, cmd)[1] = q[1]
         /\ KeptOrEnded(v, GameAfterCommand(v, g, p, cmd))
<1> DEFINE move == MoveEvent(g, p, cmd)
           over == EndingOf(v, Ending(g, p, cmd))
           ds   == DecidedBy(v, g, p, cmd)
           rows == q \o RowsOf(v, ds)
           after == ApplyAll(g, ds)
           one  == ApplyEvent(g, move)
           a    == RowFor(v, move)
           b    == RowFor(v, over)
<1>1. PICK j : Told(q, snap, j, r, g) /\ g = Replay(j)
  BY DEF ToldInFull
<1>2. g \in State /\ \E S : q \in Seq(S)
  BY <1>1 DEF Told, RowsOfGame
<1>3. /\ move \in LaterEvents /\ Holds(v, move)
      /\ Ends(g, p, cmd) =>
           /\ over \in LaterEvents /\ Holds(v, over) /\ over.type = "GameCompleted"
           /\ v = 2 => over.reason = "Legacy"
           /\ ds = <<move, over>> /\ RowsOf(v, ds) = <<a, b>>
      /\ ~Ends(g, p, cmd) => ds = <<move>> /\ RowsOf(v, ds) = <<a>>
  BY <1>2, DecidedByRelease
<1>4. move \in Events /\ (Ends(g, p, cmd) => over \in Events)
  BY <1>3 DEF LaterEvents
<1>5. after = ApplyAll(g, ds) /\ after # ReplayError /\ rows = q \o RowsOf(v, ds)
  BY DEF GameAfterCommand
<1>6. rows = RowsAfterCommand(q, v, g, p, cmd) /\ after = GameAfterCommand(v, g, p, cmd)
  BY DEF RowsAfterCommand, GameAfterCommand
<1> HIDE DEF move, over, ds, rows, after
<1>7. /\ Ends(g, p, cmd) => after = ApplyEvent(one, over)
      /\ ~Ends(g, p, cmd) => after = one
  <2>1. ApplyAll(g, <<move>>) = one
    BY <1>4, ApplyDecision
  <2>2. Ends(g, p, cmd) => ApplyAll(g, <<move, over>>) = ApplyEvent(one, over)
    BY <1>4, ApplyDecision
  <2> QED
    BY <2>1, <2>2, <1>3, <1>5
<1>8. one # ReplayError
  BY <1>5, <1>7 DEF ApplyEvent
<1>9. /\ Told(Append(q, a), snap, Append(j, move), r, one)
      /\ Replay(Append(j, move)) = one
      /\ Append(q, a)[1] = q[1]
  BY <1>1, <1>3, <1>8, ToldGrows
<1>10. one \in State
  BY <1>9 DEF Told
<1> HIDE DEF one, a, b
<1>11. CASE ~Ends(g, p, cmd)
  <2>1. q \o <<a>> = Append(q, a)
    BY <1>2, RowsAppended
  <2>2. Even(after)
    BY <1>1, <1>2, <1>7, <1>8, <1>11, MoveKeepsEven DEF one, move
  <2> QED
    BY <2>1, <2>2, <1>3, <1>5, <1>7, <1>9, <1>11, <1>6 DEF ToldInFull, KeptOrEnded
<1>12. CASE Ends(g, p, cmd)
  <2>1. q \o <<a, b>> = Append(Append(q, a), b)
    BY <1>2, RowsAppended
  <2>2. /\ over \in LaterEvents /\ Holds(v, over) /\ over.type = "GameCompleted"
        /\ v = 2 => over.reason = "Legacy"
        /\ after = ApplyEvent(one, over)
    BY <1>3, <1>7, <1>12
  <2> DEFINE q1 == Append(q, a)
             j1 == Append(j, move)
  <2>3. Told(q1, snap, j1, r, one) /\ Replay(j1) = one /\ q1[1] = q[1]
    BY <1>9
  <2> HIDE DEF q1, j1
  <2>4. /\ Told(Append(q1, b), snap, Append(j1, over), r, after)
        /\ Replay(Append(j1, over)) = after
        /\ Append(q1, b)[1] = q1[1]
    BY <1>5, <2>2, <2>3, ToldGrows DEF b
  <2>5. Fits(one, over) /\ after = Stepped(one, over)
    BY <1>5, <2>2, <1>10, AppliedEvent
  <2>6. AfterCompletion(one, over, after)
    BY <2>2, <2>5, <1>4, <1>10, <1>12, CompletionStep
  <2>7. after.status = "Completed" /\ (v = 2 => EndedLegacy(after))
    BY <2>2, <2>6 DEF AfterCompletion, EndedLegacy
  <2> QED
    BY <2>1, <2>3, <2>4, <2>7, <1>3, <1>5, <1>12, <1>6 DEF q1, ToldInFull, KeptOrEnded
<1> QED
  BY <1>11, <1>12

-----------------------------------------------------------------------------
(* Games of every version *)

\* A start row this release reads, and the rules it holds.
KnownRow(row, r) ==
  /\ row.version \in 1..3
  /\ row.version = 3 => row.payload.rules = StoredRules(Generated)
  /\ r = IF row.version = 3 THEN Generated ELSE Classic
  /\ DecodedEvent(row).rules = r

\* What is recovered, g, is what the whole journal gives, f, but for what a
\* snapshot of a completed game does not keep.
Agree(f, g, snap) ==
  /\ f.status = "Active" => Even(f) /\ g = f
  /\ f.status = "Completed" =>
       SameGame(f, g) \/ (snap # NoSnapshot /\ snap.version = 2 /\ SameResult(f, g))

\* A game that is read, under a release of payload version v.
ReadGame(q, snap, v) ==
  /\ v \in {2, 3} /\ (v = 2 => q[1].version <= 2)
  /\ \E j, r, g : Told(q, snap, j, r, g) /\ KnownRow(q[1], r) /\ Agree(Replay(j), g, snap)

\* A game that is refused.
RefusedGame(q, snap, v) ==
  /\ \E row : UnknownStart(row) /\ q = <<row>>
  /\ snap = NoSnapshot /\ v = 3

\* A game starts as one that is read or as one that is refused.
LEMMA StartIsReadOrRefused ==
  ASSUME VersionsAssumption, NEW s \in Shuffles, NEW row \in StartRows(s),
         NEW v \in {2, 3}, v = 2 => row.version <= 2
  PROVE  ReadGame(<<row>>, NoSnapshot, v) \/ RefusedGame(<<row>>, NoSnapshot, v)
<1> DEFINE q == <<row>>
           e == Started(s, 1)
           j == <<e>>
           g == StartState(e)
           d == DecodedEvent(row)
           r == d.rules
<1>1. CASE UnknownStart(row)
  <2>1. ~(row.version <= 2)
    BY <1>1 DEF UnknownStart
  <2>2. v = 3
    BY <2>1
  <2> QED
    BY <1>1, <2>2 DEF RefusedGame
<1>2. CASE KnownStart(row, s)
  <2>1. /\ row.version \in 1..3 /\ Readable(row) /\ Alike(d, e)
        /\ row.version = 3 => row.payload.rules = StoredRules(Generated)
        /\ r = IF row.version = 3 THEN Generated ELSE Classic
    BY <1>2 DEF KnownStart
  <2>2. e \in Events /\ e.type = "GameStarted" /\ g \in State /\ g.revision = 1
    <3>1. 1 \in Players
      BY PlayersAssumption DEF Players
    <3> QED
      BY <3>1, StartOfGame
  <2>3. Even(g) /\ g.status = "Active"
    BY DEF Even, StartState
  <2> HIDE DEF e, g, d
  <2>4. /\ j \in Seq(Events) /\ j # <<>> /\ Len(j) = 1 /\ j[1] = e
        /\ Head(j) = e /\ Tail(j) = <<>>
    BY <2>2
  <2>5. Replay(j) = g
    BY <2>4, ReplayOfNothing DEF Replay, g
  <2>6. Replays(j)
    BY <2>2, <2>4, <2>5 DEF Replays
  <2>7. q \in Seq({row}) /\ Len(q) = 1 /\ q[1] = row
    OBVIOUS
  <2> HIDE DEF q, j
  <2>8. RowsOfGame(q, j)
    BY <2>1, <2>4, <2>7 DEF RowsOfGame, d
  <2>9. /\ LoadsFrom(q, 0) /\ Replay(LoadedFrom(q, 0)) = g /\ LoadedFrom(q, 0)[1] = d
    BY <2>5, <2>6, <2>7, <2>8, RowsReplay DEF d
  <2>10. RecoveredFrom(q, NoSnapshot) = Recovery(r, g)
    BY <2>9 DEF RecoveredFrom, FullOf
  <2>11. r \in {Classic, Generated}
    BY <2>1
  <2> HIDE DEF r
  <2>12. Told(q, NoSnapshot, j, r, g)
    BY <2>2, <2>6, <2>8, <2>10, <2>11 DEF Told
  <2>13. KnownRow(q[1], r)
    BY <2>1, <2>7 DEF KnownRow, r, d
  <2>14. Agree(Replay(j), g, NoSnapshot)
    BY <2>3, <2>5 DEF Agree
  <2>15. ReadGame(q, NoSnapshot, v)
    BY <2>7, <2>12, <2>13, <2>14 DEF ReadGame
  <2> QED
    BY <2>15 DEF q
<1> QED
  BY <1>1, <1>2, StartRowsRead

\* A game that is refused is recovered as the error.
LEMMA RefusedIsUnsupported ==
  ASSUME NEW q, NEW snap, NEW v, RefusedGame(q, snap, v)
  PROVE  ~LoadsFrom(q, 0) /\ RecoveredFrom(q, snap) = Unsupported /\ Len(q) = 1
<1>1. PICK row : UnknownStart(row) /\ q = <<row>>
  BY DEF RefusedGame
<1>2. Len(q) = 1 /\ q[1] = row /\ 1 \in (0 + 1)..Len(q)
  BY <1>1
<1>3. ~LoadsFrom(q, 0)
  BY <1>1, <1>2 DEF LoadsFrom, UnknownStart
<1> QED
  BY <1>2, <1>3 DEF RecoveredFrom, RefusedGame

\* A command of the recovered game leaves it read, with the snapshot stored or
\* the older one kept.
LEMMA CommandKeepsRead ==
  ASSUME VersionsAssumption, NEW q, NEW snap, NEW v, ReadGame(q, snap, v),
         NEW g, g = RecoveredFrom(q, snap).state,
         NEW r, r = RecoveredFrom(q, snap).rules,
         NEW p \in Players, NEW cmd \in GameCommands(g, p), Legal(g, p, cmd),
         GameAfterCommand(v, g, p, cmd) # ReplayError
  PROVE  /\ ReadGame(RowsAfterCommand(q, v, g, p, cmd),
                     SnapshotOf(v, r, GameAfterCommand(v, g, p, cmd)), v)
         /\ v = 2 => ReadGame(RowsAfterCommand(q, v, g, p, cmd), snap, v)
<1> DEFINE rows == RowsAfterCommand(q, v, g, p, cmd)
           after == GameAfterCommand(v, g, p, cmd)
           new  == SnapshotOf(v, r, after)
<1>1. PICK j, r0, g0 : /\ Told(q, snap, j, r0, g0) /\ KnownRow(q[1], r0)
                       /\ Agree(Replay(j), g0, snap)
  BY DEF ReadGame
<1>2. r0 = r /\ g0 = g /\ r \in {Classic, Generated} /\ g \in State
  BY <1>1 DEF Told, Recovery
<1>3. v \in {2, 3} /\ (v = 2 => q[1].version <= 2)
  BY DEF ReadGame
<1>4. Even(g) /\ g = Replay(j)
  <2>1. g.status = "Active"
    BY DEF Legal
  <2>2. Replay(j) \in State
    BY <1>1 DEF Told, Replays
  <2>3. Replay(j).status # "Completed"
    BY <2>1, <1>1, <1>2 DEF Agree, SameGame, SameResult
  <2>4. Replay(j).status = "Active"
    BY <2>2, <2>3 DEF State
  <2> QED
    BY <2>4, <1>1, <1>2 DEF Agree
<1>5. ToldInFull(q, snap, r, g)
  BY <1>1, <1>2, <1>4 DEF ToldInFull
<1>6. /\ ToldInFull(rows, snap, r, after)
      /\ rows[1] = q[1]
      /\ KeptOrEnded(v, after)
  BY <1>3, <1>4, <1>5, CommandTold
<1> HIDE DEF rows, after
<1>7. PICK more : Told(rows, snap, more, r, after) /\ after = Replay(more)
  BY <1>6 DEF ToldInFull
<1>8. KnownRow(rows[1], r)
  BY <1>1, <1>2, <1>6
<1>9. Agree(after, after, snap)
  BY <1>6 DEF Agree, SameGame, KeptOrEnded
<1>10. ReadGame(rows, snap, v)
  BY <1>3, <1>6, <1>7, <1>8, <1>9 DEF ReadGame
<1>11. v = 2 => r = Classic
  <2>1. q[1].version <= 2 => q[1].version # 3
    OBVIOUS
  <2> QED
    BY <2>1, <1>1, <1>2, <1>3 DEF KnownRow
<1>12. after.revision = Len(more)
  BY <1>7 DEF Told, Replays
<1>13. v = 2 => r = Classic /\ (Even(after) \/ EndedLegacy(after))
  BY <1>6, <1>11 DEF KeptOrEnded
<1>14. /\ \E h \in State : Told(rows, new, more, r, h) /\ KeptAs(v, after, h)
       /\ new # NoSnapshot /\ new.version = v
  BY <1>3, <1>7, <1>12, <1>13, SnapshotTold
<1> HIDE DEF new
<1>15. PICK h \in State : Told(rows, new, more, r, h) /\ KeptAs(v, after, h)
  BY <1>14
<1>16. Agree(after, h, new)
  <2>1. ASSUME after.status = "Active"
        PROVE  Even(after) /\ h = after
    BY <2>1, <1>6, <1>15 DEF KeptAs, KeptOrEnded
  <2>2. SameGame(after, h) \/ (new.version = 2 /\ SameResult(after, h))
    BY <1>14, <1>15 DEF KeptAs
  <2> QED
    BY <2>1, <2>2, <1>14 DEF Agree
<1>17. ReadGame(rows, new, v)
  BY <1>3, <1>6, <1>7, <1>8, <1>15, <1>16 DEF ReadGame
<1> QED
  BY <1>10, <1>17 DEF rows, after, new

\* States that agree on the fields that are left are equal without the others.
LEMMA WithoutAgrees ==
  ASSUME NEW f \in State, NEW g \in State, NEW X, \A k \in StateFields : k \in X \/ f[k] = g[k]
  PROVE  Without(f, X) = Without(g, X)
<1>1. DOMAIN f = StateFields /\ DOMAIN g = StateFields
  BY StateDomain
<1> QED
  BY <1>1 DEF Without

\* What is read is what the journal gives.
LEMMA ReadGameIsRecovered ==
  ASSUME VersionsAssumption, ReadGame(journal, snapshot, release)
  PROVE  OldGamesRecover
<1>1. PICK j, r, g : /\ Told(journal, snapshot, j, r, g) /\ KnownRow(journal[1], r)
                     /\ Agree(Replay(j), g, snapshot)
  BY DEF ReadGame
<1> DEFINE f == Replay(j)
           lost == IF snapshot # NoSnapshot /\ snapshot.version = 2 /\ f.status = "Completed"
                   THEN LostWhenCompleted(f) ELSE {}
<1>2. /\ f \in State /\ f.revision = Len(j) /\ g \in State /\ r \in {Classic, Generated}
      /\ RecoveredFrom(journal, snapshot) = Recovery(r, g)
  BY <1>1 DEF Told, Replays
<1>3. /\ LoadsFrom(journal, 0) /\ Replay(LoadedFrom(journal, 0)) = f
      /\ LoadedFrom(journal, 0)[1] = DecodedEvent(journal[1])
      /\ Len(journal) = Len(j)
  BY <1>1, RowsReplay DEF Told
<1> HIDE DEF f
<1>4. Loads(0) /\ FullReplay = Recovery(r, f) /\ RecoveredGame = Recovery(r, g)
  <2>1. Loads(0) /\ FullReplay = FullOf(journal) /\ RecoveredGame = RecoveredFrom(journal, snapshot)
    BY <1>3, RecoveredGameIs
  <2>2. FullOf(journal) = Recovery(r, f)
    BY <1>1, <1>3 DEF FullOf, KnownRow
  <2> QED
    BY <2>1, <2>2, <1>2
<1>5. /\ FullReplay.rules = r /\ FullReplay.state = f
      /\ RecoveredGame.rules = r /\ RecoveredGame.state = g
  BY <1>4 DEF Recovery
<1>6. /\ journal[1].version \in 1..3
      /\ journal[1].version = 3 => journal[1].payload.rules = StoredRules(Generated)
      /\ r = IF journal[1].version = 3 THEN Generated ELSE Classic
  BY <1>1 DEF KnownRow
<1>7. f # ReplayError /\ g # ReplayError
  BY <1>2, ReplayErrorAssumption
<1>8. Without(f, lost \cup {"scoreless_turns"}) = Without(g, lost \cup {"scoreless_turns"})
  <2>1. Agree(f, g, snapshot)
    BY <1>1 DEF f
  <2>2. CASE f.status = "Active"
    BY <2>1, <2>2 DEF Agree
  <2>3. CASE f.status = "Completed" /\ SameGame(f, g)
    <3>1. \A k \in StateFields : k = "scoreless_turns" \/ f[k] = g[k]
      BY <2>3 DEF SameGame, StateFields
    <3> HIDE DEF lost
    <3> QED
      BY <3>1, <1>2, WithoutAgrees
  <2>4. CASE f.status = "Completed" /\ snapshot # NoSnapshot /\ snapshot.version = 2
             /\ SameResult(f, g)
    <3>1. lost = LostWhenCompleted(f)
      BY <2>4
    <3>2. /\ "active_players" \in lost /\ "consecutive_passes" \in lost
          /\ Cardinality(f.leaders) > 1 => "leaders" \in lost
      BY <3>1 DEF LostWhenCompleted
    <3>3. f.leaders = g.leaders \/ "leaders" \in lost
      <4>1. Cardinality(f.leaders) \in Nat
        <5>1. f.leaders \in SUBSET Players
          BY <1>2 DEF State
        <5> QED
          BY <5>1, PlayersAreFinite
      <4> QED
        BY <3>2, <4>1, <2>4 DEF SameResult
    <3> HIDE DEF lost
    <3>4. \A k \in StateFields : k \in lost \cup {"scoreless_turns"} \/ f[k] = g[k]
      BY <3>2, <3>3, <2>4 DEF SameResult, StateFields
    <3> QED
      BY <3>4, <1>2, WithoutAgrees
  <2> QED
    BY <2>1, <2>2, <2>3, <2>4, <1>2 DEF Agree, State
<1>9. ~(journal[1].version > 3)
  BY <1>6
<1> QED
  BY <1>2, <1>3, <1>4, <1>5, <1>6, <1>7, <1>8, <1>9 DEF OldGamesRecover

\* What is refused stays the one row it is.
LEMMA RefusedGameIsRefused ==
  ASSUME RefusedGame(journal, snapshot, release)
  PROVE  OldGamesRecover
<1>1. PICK row : UnknownStart(row) /\ journal = <<row>>
  BY DEF RefusedGame
<1>2. journal[1] = row
  BY <1>1
<1>3. \/ journal[1].version > 3
      \/ journal[1].version = 3 /\ journal[1].payload.rules # StoredRules(Generated)
  BY <1>1, <1>2 DEF UnknownStart
<1>4. ~Loads(0) /\ RecoveredGame = Unsupported /\ Len(journal) = 1
  BY RefusedIsUnsupported, RecoveredGameIs
<1> QED
  BY <1>3, <1>4 DEF OldGamesRecover

OldGames ==
  /\ VersionsAssumption
  /\ ReadGame(journal, snapshot, release) \/ RefusedGame(journal, snapshot, release)

\* The invariant holds at the start.
LEMMA InitOldGames == VersionsAssumption /\ PayloadsInit => OldGames
<1> SUFFICES ASSUME VersionsAssumption, PayloadsInit PROVE OldGames
  OBVIOUS
<1>1. PICK s \in Shuffles : \E row \in StartRows(s) : journal = <<row>>
  BY DEF PayloadsInit
<1>2. PICK row \in StartRows(s) : journal = <<row>>
  BY <1>1
<1>3. release \in {2, 3} /\ (release = 2 => row.version <= 2) /\ snapshot = NoSnapshot
  BY <1>2 DEF PayloadsInit
<1> QED
  BY <1>2, <1>3, StartIsReadOrRefused DEF OldGames

\* Every step keeps it.
LEMMA NextOldGames == OldGames /\ [PayloadsNext]_payload_vars => OldGames'
<1> SUFFICES ASSUME OldGames, [PayloadsNext]_payload_vars PROVE OldGames'
  OBVIOUS
<1>1. ReadGame(journal', snapshot', release') \/ RefusedGame(journal', snapshot', release')
  <2>1. CASE Upgrade
    <3>1. release = 2 /\ release' = 3 /\ journal' = journal /\ snapshot' = snapshot
      BY <2>1 DEF Upgrade
    <3>2. ReadGame(journal, snapshot, 2)
      BY <3>1 DEF OldGames, RefusedGame
    <3>3. ReadGame(journal, snapshot, 3)
      BY <3>2 DEF ReadGame
    <3> QED
      BY <3>1, <3>3
  <2>2. CASE /\ RecoveredGame # Unsupported
             /\ \E p \in Players : \E cmd \in GameCommands(RecoveredGame.state, p) :
                  SubmitCommand(p, cmd)
    <3>1. PICK p \in Players : \E cmd \in GameCommands(RecoveredGame.state, p) :
            SubmitCommand(p, cmd)
      BY <2>2
    <3>2. PICK cmd \in GameCommands(RecoveredGame.state, p) : SubmitCommand(p, cmd)
      BY <3>1
    <3>3. PICK g, r : g = RecoveredGame.state /\ r = RecoveredGame.rules
      OBVIOUS
    <3>4. /\ g = RecoveredFrom(journal, snapshot).state
          /\ r = RecoveredFrom(journal, snapshot).rules
          /\ RecoveredFrom(journal, snapshot) # Unsupported
      BY <3>3, <2>2, RecoveredGameIs
    <3>5. ReadGame(journal, snapshot, release)
      BY <3>4, RefusedIsUnsupported DEF OldGames
    <3>6. /\ Legal(g, p, cmd) /\ cmd \in GameCommands(g, p)
          /\ GameAfterCommand(release, g, p, cmd) # ReplayError
          /\ journal' = RowsAfterCommand(journal, release, g, p, cmd)
          /\ \/ snapshot' = SnapshotOf(release, r, GameAfterCommand(release, g, p, cmd))
             \/ release = 2 /\ snapshot' = snapshot
          /\ release' = release
      BY <3>2, <3>3 DEF SubmitCommand, GameAfterCommand, RowsAfterCommand, DecidedBy
    <3>7. /\ ReadGame(RowsAfterCommand(journal, release, g, p, cmd),
                      SnapshotOf(release, r, GameAfterCommand(release, g, p, cmd)), release)
          /\ release = 2 =>
               ReadGame(RowsAfterCommand(journal, release, g, p, cmd), snapshot, release)
      BY <3>4, <3>5, <3>6, CommandKeepsRead DEF OldGames
    <3> QED
      BY <3>6, <3>7
  <2>3. CASE UNCHANGED payload_vars
    BY <2>3 DEF OldGames, payload_vars
  <2> QED
    BY <2>1, <2>2, <2>3 DEF PayloadsNext
<1> QED
  BY <1>1 DEF OldGames

\* Whatever releases a game of two was played under, this release reads it as
\* the game it was (decode_game_event, load_latest_snapshot and recover_game in
\* journal.rs): the snapshot and its tail give what the whole journal gives,
\* and a game with rules or of a version it does not know is refused as a whole.
THEOREM OldGamesAreRecovered == VersionsAssumption /\ PayloadsSpec => []OldGamesRecover
<1>1. OldGames => OldGamesRecover
  BY ReadGameIsRecovered, RefusedGameIsRefused DEF OldGames
<1> QED
  BY <1>1, InitOldGames, NextOldGames, PTL DEF PayloadsSpec
=============================================================================
