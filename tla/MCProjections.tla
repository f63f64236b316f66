---------------------------- MODULE MCProjections ----------------------------
(* One game and two dashboards that may repair its rows.                    *)
EXTENDS Projections
=============================================================================
