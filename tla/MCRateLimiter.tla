-------------------------- MODULE MCRateLimiter --------------------------
(* RateLimiter on one route, with limits chosen so that each of the three  *)
(* caps binds somewhere, refills round down, and one triple overflows.     *)
EXTENDS RateLimiter

Triple(t, h, d) == [maxPerTransaction |-> t, maxHourly |-> h, maxDaily |-> d]

\* Small, middling, oversized (6 * 3 > MaxUint), and two that are rejected.
MCLimitChoices ==
    {Triple(1, 1, 2), Triple(2, 3, 4), Triple(2, 4, 6), Triple(3, 2, 4), Triple(0, 1, 2)}
===========================================================================
