-------------------------- MODULE EngineProperties --------------------------
(* What the journal of a game may hold, and what it may be trusted for.     *)
EXTENDS Engine

Events ==
  [type : {"GameStarted"}, first_player : Players, racks : [Players -> SUBSET Tiles], bag : Seq(Tiles)]
  \cup [type : {"TilesPlayed"}, player : Players, placements : SUBSET Tiles, score : Nat, drawn : Seq(Tiles)]
  \cup [type : {"TilesExchanged"}, player : Players, returned : Seq(Tiles), drawn : Seq(Tiles)]
  \cup [type : {"TurnPassed", "GameResigned"}, player : Players]
  \cup [type : {"GameCompleted"}, scores : [Players -> Nat], leaders : SUBSET Players,
         reason : CompletionReasons]

\* Types of the stored rows: the journal starts with GameStarted, no later
\* event is one (DuplicateStart), and no stored score is negative.
TypeOK ==
  /\ Len(journal) >= 1
  /\ \A i \in 1..Len(journal) :
       journal[i] \in Events /\ (journal[i].type = "GameStarted" <=> i = 1)
  /\ snapshot.revision \in Nat

\* decide_command and apply_event agree: whatever command the rules accept in
\* a reachable state, its events apply without a ReplayError.  Otherwise a
\* legal move would be refused for ever.
AcceptedCommandsApply ==
  \A p \in Players : \A cmd \in GameCommands(Recovered, p) :
    Legal(Recovered, p, cmd) =>
      ApplyAll(Recovered, Decide(Recovered, p, cmd)) # ReplayError

\* The journal alone is enough: replaying it from the start gives the same
\* game as the snapshot and its tail, in every field the rules read
\* (scoreless_turns is the legacy field they do not read).
ReplayGivesTheGame ==
  TypeOK /\
  LET full == Replay(journal)
  IN  /\ full # ReplayError
      /\ EncodedState(full) = EncodedState(Recovered)
      /\ full.revision = Len(journal)

-----------------------------------------------------------------------------
\* The players still in the game once the first n events are applied.
ActiveAfter(n) ==
  Players \ {journal[i].player : i \in {j \in 1..n : journal[j].type = "GameResigned"}}

\* Positions of the events that are a command of player p.
MovesOf(p) == {i \in 2..Len(journal) : journal[i].type # "GameCompleted" /\ journal[i].player = p}

\* The game is played in rounds: between two moves of one player, every
\* player who is in the game throughout has moved exactly once.
RoundRobin ==
  \A p \in Players : \A i, j \in MovesOf(p) :
    (i < j /\ \A k \in MovesOf(p) : k <= i \/ k >= j) =>
      \A q \in ActiveAfter(j) \ {p} : Cardinality(MovesOf(q) \cap (i + 1)..(j - 1)) = 1

\* A game that ends by passes saw PassRounds complete rounds of them: its
\* last events before GameCompleted are passes only, PassRounds by every
\* player still in the game (what the rules shown to players promise).
PassEndingIsComplete ==
  Last(journal).type = "GameCompleted" /\ Last(journal).reason = "ConsecutivePassRounds" =>
    LET active == ActiveAfter(Len(journal))
        span   == (Len(journal) - Cardinality(active) * PassRounds)..(Len(journal) - 1)
    IN  /\ \A i \in span : i >= 2 /\ journal[i].type = "TurnPassed"
        /\ \A p \in active : Cardinality(MovesOf(p) \cap span) = PassRounds

\* What an event adds to what player p has earned.
PointsOf(e, p) == IF e.type = "TilesPlayed" /\ e.player = p THEN e.score ELSE 0

\* Points of all the accepted plays of player p.
Earned(p) ==
  LET sum[n \in 0..Len(journal)] ==
        IF n = 0 THEN 0 ELSE sum[n - 1] + PointsOf(journal[n], p)
  IN  sum[Len(journal)]

\* Final scores settle what was earned exactly once: no player ends above
\* what they earned except the one who emptied their rack, who gains exactly
\* the points left on all the other racks, and nobody ends below zero.
FinalScoresSettleEarnings ==
  LET g == Recovered
      Left(p) == RackPoints[g.racks[p]]
  IN  \A p \in Players :
        IF g.status = "Active" THEN g.scores[p] = Earned(p)
        ELSE IF g.racks[p] = {}
        THEN g.scores[p] = Earned(p) + RackPoints[UNION {g.racks[q] : q \in Players}]
        ELSE g.scores[p] = SaturatingSub(Earned(p), Left(p))

-----------------------------------------------------------------------------
(* Refinement: what is stored implements the atomic game. *)

G == INSTANCE Game WITH
  status <- Recovered.status, active_players <- Recovered.active_players,
  active_player <- Recovered.active_player, board <- Recovered.board,
  racks <- Recovered.racks, bag <- Recovered.bag, scores <- Recovered.scores,
  consecutive_passes <- Recovered.consecutive_passes, leaders <- Recovered.leaders,
  completion_reason <- Recovered.completion_reason, revision <- Recovered.revision

ImplementsGame == G!Spec
=============================================================================
