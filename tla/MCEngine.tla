------------------------------ MODULE MCEngine ------------------------------
(* Three players, racks of one tile: rack-outs, exchanges, resignations and *)
(* pass endings all happen within a few commands.                           *)
EXTENDS EngineProperties

MCTiles == 1..5
MCPoints == [t \in MCTiles |-> t % 3]
MCRackPoints == [S \in SUBSET MCTiles |-> MapThenSumSet(LAMBDA t : MCPoints[t], S)]
MCShuffles == {<<4, 2, 5, 1, 3>>}
=============================================================================
