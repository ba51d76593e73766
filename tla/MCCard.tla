------------------------------- MODULE MCCard -------------------------------
(* The two directions between a collateral chain and the hub, where the    *)
(* asset is synthetic.                                                     *)
EXTENDS Card

CONSTANTS ethereum, ark

BothWays == {[source |-> ethereum, destination |-> ark], [source |-> ark, destination |-> ethereum]}
============================================================================
