-------------------------- MODULE PauseController --------------------------
(***************************************************************************)
(* ArkBridgePauseController: four scopes can be paused independently, the  *)
(* whole bridge, a chain, a token or a directed route.  A transfer is      *)
(* stopped when any of the scopes that cover it is paused.                 *)
(***************************************************************************)
EXTENDS Integers

CONSTANTS
    PausableDomains,  \* the domains that may be paused
    PausableTokens,   \* the token identifiers that may be paused
    PausableRoutes    \* the route identifiers that may be paused

VARIABLE paused  \* the set of scopes paused now

GlobalScope == [kind |-> "Global"]
ChainScope(d) == [kind |-> "Chain", domain |-> d]
TokenScope(t) == [kind |-> "Token", token |-> t]
RouteScope(r) == [kind |-> "Route", route |-> r]

Scopes ==
    {GlobalScope}
      \cup {ChainScope(d) : d \in PausableDomains}
      \cup {TokenScope(t) : t \in PausableTokens}
      \cup {RouteScope(r) : r \in PausableRoutes}

PauseInit == paused = {}

\* pauseGlobal, pauseChain, pauseToken, pauseRoute.
Pause(s) ==
    /\ s \notin paused
    /\ paused' = paused \cup {s}

\* unpauseGlobal, unpauseChain, unpauseToken, unpauseRoute.
Unpause(s) ==
    /\ s \in paused
    /\ paused' = paused \ {s}

\* Mutant of IsPaused: the far end of the route is forgotten.
IsPausedAtOrigin(r, t, origin, destination) ==
    {GlobalScope, ChainScope(origin), TokenScope(t), RouteScope(r)} \cap paused # {}

\* isPaused(): both ends of the route are checked.
IsPaused(r, t, origin, destination) ==
    \/ GlobalScope \in paused
    \/ ChainScope(origin) \in paused
    \/ ChainScope(destination) \in paused
    \/ TokenScope(t) \in paused
    \/ RouteScope(r) \in paused

\* assertNotPaused(): the scopes it looks at, in order.  The widest is first,
\* and it is the first one paused that the revert reports.
CheckOrder(r, t, origin, destination) ==
    <<GlobalScope, RouteScope(r), TokenScope(t), ChainScope(origin), ChainScope(destination)>>

AssertNotPaused(r, t, origin, destination) ==
    \A i \in 1..5 : CheckOrder(r, t, origin, destination)[i] \notin paused
============================================================================
