------------------------------ MODULE MCGuard ------------------------------
(* One chain's guard with both directions of one asset.  Routes and        *)
(* domains are interchangeable: each choice of route records contains both *)
(* directions, and no definition tells two routes or two domains apart.    *)
EXTENDS Guard, TLC

CONSTANTS r1, r2, d1, d2, t1

MCLimitChoices == {[maxPerTransaction |-> 1, maxHourly |-> 1, maxDaily |-> 2]}

MCRouteChoices ==
    {[originDomain |-> d1, destinationDomain |-> d2, tokenId |-> t1],
     [originDomain |-> d2, destinationDomain |-> d1, tokenId |-> t1]}

Interchangeable == Permutations({r1, r2}) \cup Permutations({d1, d2})
============================================================================
