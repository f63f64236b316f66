----------------------------- MODULE MCCommands -----------------------------
(***************************************************************************)
(* Three commands; the first two are one intention sent under two ids.     *)
(* And a game between two players whose stored rows are of several         *)
(* versions (Payloads).  The two share no state: part, chosen at the       *)
(* start, says which of them a behaviour is about.                         *)
(***************************************************************************)
EXTENDS Commands, Payloads, TLC

CONSTANTS c1, c2, c3, again, once

VARIABLE part

MCKey == (c1 :> again) @@ (c2 :> again) @@ (c3 :> once)

Symmetry == Permutations(Requests)

\* Five tiles, racks of one: the points of tile t are t % 3.
MCTiles == 1..5
MCRackPoints == [S \in SUBSET MCTiles |->
                   Cardinality(S \cap {1, 4}) + 2 * Cardinality(S \cap {2, 5})]
MCShuffles == {<<4, 2, 5, 1, 3>>}

ASSUME TwoPlayersAssumption == VersionsAssumption

-----------------------------------------------------------------------------
\* The component a behaviour is not about stays in one state.
PartsInit ==
  /\ CommandsInit /\ PayloadsInit
  /\ \/ part = "commands" /\ journal[1].version = 1 /\ release = 3
     \/ part = "versions"

PartsNext ==
  /\ UNCHANGED part
  /\ \/ part = "commands" /\ CommandsNext /\ UNCHANGED payload_vars
     \/ part = "versions" /\ PayloadsNext /\ UNCHANGED commands_vars

PartsSpec == PartsInit /\ [][PartsNext]_<<part, commands_vars, payload_vars>>
=============================================================================
