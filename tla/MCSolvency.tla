----------------------------- MODULE MCSolvency -----------------------------
(* Two transfers in, one out, gates always bound; the recovery module may  *)
(* be installed on the synthetic chain and its clearances given.           *)
EXTENDS SolvencyCheck

MCMaxTransfers == [c \in Chains |-> IF c = Collateral THEN 2 ELSE 1]
=============================================================================
