------------------------------ MODULE MCOffers ------------------------------
(***************************************************************************)
(* How two users come to a game, what rules a game may be given, and what  *)
(* one play of it is: two challenges and an invitation among three users   *)
(* with two requests; the rule profiles of small lobbies; and a board of   *)
(* three by three squares, four tiles and a dictionary of four words.  The *)
(* three share no state: part, chosen at the start, says which of them a   *)
(* behaviour is about.                                                     *)
(***************************************************************************)
EXTENDS Offers, Placement, RuleProfiles

VARIABLE part

Symmetry == Permutations(Users) \cup Permutations(Requests) \cup Permutations(Challenges)

MCStart == <<1, 1>>
MCPremiums ==
  (<<1, 1>> :> [kind |-> "Word", by |-> 2]) @@ (<<0, 2>> :> [kind |-> "Letter", by |-> 3])
MCWords == {<<"A", "B">>, <<"B", "A">>, <<"A", "B", "A">>, <<"A", "A">>}
MCFace == [a1 |-> "A", a2 |-> "A", b1 |-> "B", blank |-> "blank"]
MCPoints == [a1 |-> 1, a2 |-> 1, b1 |-> 3, blank |-> 0]

\* Every size the default policy accepts, and the ones next to them.
MCBoardSizes == 0..65

PartsInit ==
  /\ Init /\ ProfileInit
  /\ \/ part = "board" /\ BoardInit
     \/ part \in {"offers", "profile"} /\ board = <<>> /\ rack = {}

PartsNext ==
  /\ UNCHANGED part
  /\ \/ part = "offers" /\ Next /\ UNCHANGED <<boardVars, profileVars>>
     \/ part = "board" /\ BoardNext /\ UNCHANGED <<vars, profileVars>>
     \/ part = "profile" /\ ProfileNext /\ UNCHANGED <<vars, boardVars>>

PartsSpec == PartsInit /\ [][PartsNext]_<<part, vars, boardVars, profileVars>>
=============================================================================
