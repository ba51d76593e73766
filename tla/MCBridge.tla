------------------------------ MODULE MCBridge ------------------------------
(* Two transfers leave the collateral chain, one returns; every gate is    *)
(* open or closed, and one in each position may be bound late or unbound.  *)
EXTENDS Bridge

MCMaxTransfers == [c \in Chains |-> IF c = Collateral THEN 2 ELSE 1]

MCBindable == {OutboundGate(Collateral), [chain |-> Synthetic, origin |-> Collateral]}
============================================================================
