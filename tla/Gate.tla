-------------------------------- MODULE Gate --------------------------------
(***************************************************************************)
(* What a chain's safety layer promises the rest of the bridge: value      *)
(* moves on a route only out of what is allowed on it, and moving it       *)
(* allows no more, on that route or on any other.  A route that is not     *)
(* usable (unregistered, unlimited, paused) has no allowance.  The         *)
(* detailed Guard implements this; Bridge relies on nothing else.          *)
(***************************************************************************)
EXTENDS Integers

CONSTANT GateRoutes  \* the routes a gate controls

VARIABLES
    allowance,  \* allowance[r]: the largest amount r would let through now
    moved       \* moved[r]: what r has let through since it was last observed

gateVars == <<allowance, moved>>

\* One transfer of the amount passes the gate, and uses up at most its amount:
\* less when another cap than the one it drew on was the binding one.
Pass(r, amount) ==
    /\ amount <= allowance[r]
    /\ moved' = [moved EXCEPT ![r] = @ + amount]
    /\ allowance'[r] \in (allowance[r] - amount)..allowance[r]
    /\ \A q \in GateRoutes \ {r} : allowance'[q] = allowance[q]

\* Operators open, close and limit routes, and time refills them.
Operate == UNCHANGED moved

\* An observer starts counting again.
Recount(r) ==
    /\ moved' = [moved EXCEPT ![r] = 0]
    /\ UNCHANGED allowance

GateInit ==
    /\ allowance = [r \in GateRoutes |-> 0]
    /\ moved = [r \in GateRoutes |-> 0]

GateNext ==
    \/ \E r \in GateRoutes : \E amount \in 1..allowance[r] : Pass(r, amount)
    \/ Operate
    \/ \E r \in GateRoutes : Recount(r)

GateSpec == GateInit /\ [][GateNext]_gateVars
=============================================================================
