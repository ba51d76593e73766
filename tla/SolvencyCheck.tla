--------------------------- MODULE SolvencyCheck ---------------------------
(***************************************************************************)
(* scripts/operations/check-solvency.mjs, run beside the bridge: it reads  *)
(* the locked collateral on one chain, then the synthetic supply on the    *)
(* other, and the bridge goes on in between.                               *)
(***************************************************************************)
EXTENDS Bridge

VARIABLES
    lockedRead,  \* the collateral read, or Unread before the first read
    verdict,     \* what the last check reported
    arrived      \* observer: something was minted since the collateral was read

checkVars == <<lockedRead, verdict, arrived>>
solvencyVars == <<bridgeVars, checkVars>>

Unread == -1

CheckInit ==
    /\ lockedRead = Unread
    /\ verdict = "none"
    /\ arrived = FALSE

ReadLocked ==
    /\ lockedRead = Unread
    /\ lockedRead' = locked
    /\ verdict' = "none"
    /\ arrived' = FALSE
    /\ UNCHANGED bridgeVars

\* Mutant of Difference: its sign is swapped.
DifferenceSwapped(collateral, claims) == claims - collateral

Difference(collateral, claims) == collateral - claims

\* Reads the claims and reports, then the next check may begin.
ReadClaimsAndReport ==
    /\ lockedRead # Unread
    /\ verdict' = IF Difference(lockedRead, supply) >= 0 THEN "HEALTHY" ELSE "INVESTIGATE"
    /\ lockedRead' = Unread
    /\ UNCHANGED <<bridgeVars, arrived>>

\* The bridge's own steps; a report is about the moment it was made.
BridgeStep ==
    /\ BridgeNext
    /\ arrived' = (lockedRead # Unread /\ (arrived \/ supply' > supply))
    /\ verdict' = "none"
    /\ UNCHANGED lockedRead

SolvencyInit == BridgeInit /\ CheckInit
SolvencyNext == ReadLocked \/ ReadClaimsAndReport \/ BridgeStep
SolvencySpec == SolvencyInit /\ [][SolvencyNext]_solvencyVars

\* The check owes the bridge nothing, and nobody owes it a start.
FairSolvencySpec == SolvencySpec /\ BridgeFairness
----------------------------------------------------------------------------
\* The check raises no alarm about value in transit in either direction, nor
\* about a stranded message: the one false alarm left is an inbound transfer
\* that arrived between its two reads.
AlarmOnlyAfterArrival == verdict = "INVESTIGATE" => arrived
=============================================================================
