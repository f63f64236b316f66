---------------------------- MODULE MCLiveUpdates ----------------------------
(* One player with a page of a game and a dashboard open, while two         *)
(* handlers are in flight.                                                  *)
EXTENDS LiveUpdates, TLC

CONSTANTS bob, g1, page, board
MCOwner == page :> bob @@ board :> bob
MCTopic == page :> g1 @@ board :> Dashboard

\* One dashboard of two games, for DashboardsConverge.
BoardOwner == board :> bob
BoardTopic == board :> Dashboard
=============================================================================
