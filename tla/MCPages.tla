------------------------------- MODULE MCPages -------------------------------
(***************************************************************************)
(* What pages are built from: the events sent to those that are open, by   *)
(* MCLiveUpdates, and the rows read for those that open, with two games    *)
(* and two dashboards that may repair the same one.  The two share no      *)
(* state: part, chosen at the start, says which of them a behaviour is     *)
(* about.                                                                  *)
(***************************************************************************)
EXTENDS MCLiveUpdates, Projections

VARIABLE part

\* The component a behaviour is not about stays in one state.
NoRows ==
  /\ canonical = [g \in RowGames |-> [revision |-> 1, completed |-> FALSE]]
  /\ participants = RowGames /\ scored = {}

PagesInit ==
  /\ Init /\ RowsInit
  /\ \/ part = "events" /\ NoRows
     \/ part = "rows"

PagesNext ==
  /\ UNCHANGED part
  /\ \/ part = "events" /\ Next /\ UNCHANGED rowVars
     \/ part = "rows" /\ RowsNext /\ UNCHANGED vars

PagesSpec ==
  /\ PagesInit /\ [][PagesNext]_<<part, vars, rowVars>>
  /\ part = "events" => Fairness
=============================================================================
