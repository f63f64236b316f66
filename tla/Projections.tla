----------------------------- MODULE Projections -----------------------------
(***************************************************************************)
(* The derived rows of packages/app/src/projections.rs: game summary and   *)
(* checkpoint, move history, per-game scores and score totals.  A command  *)
(* rebuilds the rows of its game inside its own transaction.  A dashboard  *)
(* that finds the participant rows of an older game missing repairs them:  *)
(* it reads the state, then reads the events, and then writes, and only    *)
(* the writes are in a transaction.                                        *)
(*                                                                         *)
(* Transactions that write are serialised (SQLite has a single writer);    *)
(* reads outside a transaction see the latest commit.                      *)
(***************************************************************************)
EXTENDS Integers, FiniteSets

CONSTANTS
  RowGames,     \* games with derived rows
  Viewers,      \* dashboard requests that may be in flight
  NoRepair,     \* a viewer that repairs nothing
  RowRevision   \* bound: no command is submitted from this revision on

VARIABLES
  canonical,     \* canonical[g]: revision of the journal, and whether it is completed
  summary,       \* game_summaries and projection_checkpoints: the same of the projection
  history,       \* revisions in move_history
  participants,  \* games with their game_participant_summaries
  scored,        \* games with rows in game_scores
  totals,        \* games counted in user_score_totals
  repairs        \* what each repair in flight has read

rows == <<summary, history, participants, scored, totals>>
rowVars == <<canonical, rows, repairs>>

Unread == [read |-> "nothing"]

\* Games that were started, or completed, before migration 049 made the
\* participant table have no rows in it.
RowsInit ==
  \E old, finished \in SUBSET RowGames :
    /\ canonical = [g \in RowGames |->
         IF g \in finished THEN [revision |-> 3, completed |-> TRUE]
                           ELSE [revision |-> 1, completed |-> FALSE]]
    /\ summary = canonical
    /\ history = [g \in RowGames |-> 1..canonical[g].revision]
    /\ participants = RowGames \ old
    /\ scored = finished /\ totals = finished
    /\ repairs = [v \in Viewers |-> NoRepair]

-----------------------------------------------------------------------------
\* Faulty: the prior rows of the history are not deleted.
RebuildAppending(g, state, events) ==
  /\ summary' = [summary EXCEPT ![g] = state]
  /\ history' = [history EXCEPT ![g] = @ \cup (state.revision - events + 1)..state.revision]
  /\ participants' = participants \cup {g}
  /\ scored' = IF state.completed THEN scored \cup {g} ELSE scored \ {g}
  /\ totals' = scored'

\* rebuild_game_projections from a state and `events` events: the last of
\* them is taken to be the one that led to the state.  It ends with
\* rebuild_score_projections and rebuild_all_user_score_totals.
Rebuild(g, state, events) ==
  /\ summary' = [summary EXCEPT ![g] = state]
  /\ history' = [history EXCEPT ![g] = (state.revision - events + 1)..state.revision]
  /\ participants' = participants \cup {g}
  /\ scored' = IF state.completed THEN scored \cup {g} ELSE scored \ {g}
  /\ totals' = scored'

\* submit_in_transaction: one event, or two when the command ends the game.
Submit(g, ends) ==
  /\ ~canonical[g].completed /\ canonical[g].revision < RowRevision
  /\ LET state == [revision |-> canonical[g].revision + (IF ends THEN 2 ELSE 1),
                   completed |-> ends]
     IN  /\ canonical' = [canonical EXCEPT ![g] = state]
         /\ Rebuild(g, state, state.revision)
  /\ UNCHANGED repairs

-----------------------------------------------------------------------------
(* rebuild_missing_participant_summaries, one step for each await *)

\* game_participant_summaries misses the rows.
BeginRepair(v, g) ==
  /\ repairs[v] = NoRepair /\ g \notin participants
  /\ repairs' = [repairs EXCEPT ![v] = [game |-> g, state |-> Unread, events |-> 0]]
  /\ UNCHANGED <<canonical, rows>>

\* recover_game
ReadState(v) ==
  /\ repairs[v] # NoRepair /\ repairs[v].state = Unread
  /\ repairs' = [repairs EXCEPT ![v].state = canonical[repairs[v].game]]
  /\ UNCHANGED <<canonical, rows>>

\* load_events from revision 0
ReadEvents(v) ==
  /\ repairs[v] # NoRepair /\ repairs[v].state # Unread /\ repairs[v].events = 0
  /\ repairs' = [repairs EXCEPT ![v].events = canonical[repairs[v].game].revision]
  /\ UNCHANGED <<canonical, rows>>

\* Faulty: the subtraction of the two revisions is not checked.
AlwaysCovers(r) == TRUE

\* checked_sub: no more events than the state has revisions.
Covers(r) == r.events <= r.state.revision

\* The transaction of the repair.
Write(v) ==
  /\ repairs[v] # NoRepair /\ repairs[v].events # 0
  /\ Covers(repairs[v])
  /\ Rebuild(repairs[v].game, repairs[v].state, repairs[v].events)
  /\ repairs' = [repairs EXCEPT ![v] = NoRepair]
  /\ UNCHANGED canonical

\* The repair ends with an error (of the check or the database) or a crash.
Abandon(v) ==
  /\ repairs[v] # NoRepair
  /\ repairs' = [repairs EXCEPT ![v] = NoRepair]
  /\ UNCHANGED <<canonical, rows>>

RowsNext ==
  \/ \E g \in RowGames, ends \in BOOLEAN : Submit(g, ends)
  \/ \E v \in Viewers, g \in RowGames : BeginRepair(v, g)
  \/ \E v \in Viewers : ReadState(v) \/ ReadEvents(v) \/ Write(v) \/ Abandon(v)

RowsSpec == RowsInit /\ [][RowsNext]_rowVars

-----------------------------------------------------------------------------
(* Properties *)

States == [revision : Nat \ {0}, completed : BOOLEAN]

\* Types of the canonical and the derived rows; no row has a revision below 1.
RowsTyped ==
  /\ canonical \in [RowGames -> States] /\ summary \in [RowGames -> States]
  /\ \A g \in RowGames : IsFiniteSet(history[g]) /\ history[g] \subseteq Nat \ {0}
  /\ participants \subseteq RowGames /\ scored \subseteq RowGames /\ totals \subseteq RowGames
  /\ \A v \in Viewers :
       repairs[v] = NoRepair \/ repairs[v] \in [game : RowGames, state : States \cup {Unread}, events : Nat]

\* The derived rows of a game describe one revision, and one the game has
\* had, whatever repairs and commands overlap: the history is complete up to
\* the revision of the summary, and the game has scores, counted once, exactly
\* when the summary calls it completed, which a running game never is.
RowsDescribeOneRevision ==
  /\ RowsTyped
  /\ \A g \in RowGames :
       /\ history[g] = 1..summary[g].revision
       /\ summary[g].revision <= canonical[g].revision
       /\ summary[g].completed => summary[g] = canonical[g]
  /\ scored = {g \in RowGames : summary[g].completed}
  /\ totals = scored

\* PERSISTENCE.md: "Rebuilding one game replaces that game's derived rows from
\* canonical state/events"; the comment of rebuild_game_projections: "then the
\* checkpoint advances to the canonical revision".  With no repair in flight
\* every rebuilt game is shown as it is.
RebuiltGamesAreCurrent ==
  (\A v \in Viewers : repairs[v] = NoRepair) =>
    \A g \in participants : summary[g] = canonical[g]
=============================================================================
