------------------------------- MODULE Guard -------------------------------
(***************************************************************************)
(* ArkBridgeGuard: the single authorization every transfer of a chain goes *)
(* through.  It keeps the registered routes, tokens and callers, asks the  *)
(* pause controller, and consumes the route's capacity in the rate limiter *)
(* whose only consumer it is.                                              *)
(***************************************************************************)
EXTENDS RateLimiter

CONSTANTS
    Tokens,        \* token identifiers
    Domains,       \* Hyperlane domain identifiers
    Callers,       \* addresses that may call authorizeTransfer
    RouteChoices,  \* the route records an operator may register
    Unregistered   \* the route record of a route that is not registered

RouteRecords == [originDomain: Domains, destinationDomain: Domains, tokenId: Tokens]

ASSUME GuardAssumption ==
    /\ RouteChoices \subseteq RouteRecords
    /\ Unregistered \notin RouteRecords

VARIABLES
    routes,             \* routes[r]: the Route of r, or Unregistered
    tokens,             \* the registered tokens
    authorizedCallers,  \* the addresses authorizeTransfer listens to
    paused              \* the scopes paused now

INSTANCE PauseController WITH
    PausableDomains <- Domains, PausableTokens <- Tokens, PausableRoutes <- Routes

configVars == <<routes, tokens, authorizedCallers>>
guardVars == <<limiterVars, configVars, paused>>
----------------------------------------------------------------------------
Registered(r) == routes[r] # Unregistered

GuardInit ==
    /\ LimiterInit
    /\ PauseInit
    /\ routes = [r \in Routes |-> Unregistered]
    /\ tokens = {}
    /\ authorizedCallers = {}

RegisterToken(t) ==
    /\ tokens' = tokens \cup {t}
    /\ UNCHANGED <<limiterVars, routes, authorizedCallers, paused>>

DeregisterToken(t) ==
    /\ tokens' = tokens \ {t}
    /\ UNCHANGED <<limiterVars, routes, authorizedCallers, paused>>

\* Not idempotent: a live route is never overwritten.
CanRegister(r) == ~Registered(r)

RegisterRoute(r, route) ==
    /\ CanRegister(r)
    /\ routes' = [routes EXCEPT ![r] = route]
    /\ UNCHANGED <<limiterVars, tokens, authorizedCallers, paused>>

\* Mutant of DeregisterRoute: its limits and buckets go with it.
DeregisterAndReset(r) ==
    /\ routes' = [routes EXCEPT ![r] = Unregistered]
    /\ limits' = [limits EXCEPT ![r] = NoLimits]
    /\ hourly' = [hourly EXCEPT ![r] = EmptyBucket]
    /\ daily' = [daily EXCEPT ![r] = EmptyBucket]
    /\ UNCHANGED <<now, window, tokens, authorizedCallers, paused>>

DeregisterRoute(r) ==
    /\ routes' = [routes EXCEPT ![r] = Unregistered]
    /\ UNCHANGED <<limiterVars, tokens, authorizedCallers, paused>>

SetAuthorizedCaller(caller, authorized) ==
    /\ authorizedCallers' = IF authorized THEN authorizedCallers \cup {caller}
                                          ELSE authorizedCallers \ {caller}
    /\ UNCHANGED <<limiterVars, routes, tokens, paused>>

PauseScope(s) == Pause(s) /\ UNCHANGED <<limiterVars, configVars>>
UnpauseScope(s) == Unpause(s) /\ UNCHANGED <<limiterVars, configVars>>
----------------------------------------------------------------------------

\* Mutant of Permits: the token need not be registered any more.
PermitsAnyToken(caller, r, t, claimedOrigin) ==
    /\ caller \in authorizedCallers
    /\ Registered(r)
    /\ routes[r].tokenId = t
    /\ routes[r].originDomain = claimedOrigin
    /\ AssertNotPaused(r, t, routes[r].originDomain, routes[r].destinationDomain)

\* The checks of authorizeTransfer before capacity is consumed.
Permits(caller, r, t, claimedOrigin) ==
    /\ caller \in authorizedCallers
    /\ Registered(r)
    /\ t \in tokens
    /\ routes[r].tokenId = t
    /\ routes[r].originDomain = claimedOrigin
    /\ AssertNotPaused(r, t, routes[r].originDomain, routes[r].destinationDomain)

AuthorizeTransfer(caller, r, t, claimedOrigin, amount) ==
    /\ Permits(caller, r, t, claimedOrigin)
    /\ Consume(r, amount)
    /\ UNCHANGED <<configVars, paused>>

\* The limiter's own entry points.  consume is not among them: only the guard
\* holds the role it needs.
LimiterStep ==
    /\ \/ \E r \in Routes, l \in LimitChoices : FirstLimits(r, l) \/ Reconfigure(r, l)
       \/ \E r \in Routes : OpenWindow(r)
       \/ Tick
    /\ UNCHANGED <<configVars, paused>>

Authorizing ==
    \E caller \in Callers, r \in Routes, t \in Tokens, o \in Domains, a \in Amounts :
        AuthorizeTransfer(caller, r, t, o, a)

ConfigStep ==
    \/ \E t \in Tokens : RegisterToken(t)
    \/ \E t \in Tokens : DeregisterToken(t)
    \/ \E r \in Routes, route \in RouteChoices : RegisterRoute(r, route)
    \/ \E r \in Routes : DeregisterRoute(r)
    \/ \E c \in Callers, b \in BOOLEAN : SetAuthorizedCaller(c, b)
    \/ \E s \in Scopes : PauseScope(s)
    \/ \E s \in Scopes : UnpauseScope(s)

GuardNext == Authorizing \/ LimiterStep \/ ConfigStep

GuardSpec == GuardInit /\ [][GuardNext]_guardVars
----------------------------------------------------------------------------
\* availableCapacity(): 0 when the route cannot be used at all.
RoutePaused(r) ==
    IsPaused(r, routes[r].tokenId, routes[r].originDomain, routes[r].destinationDomain)

Usable(r) == Registered(r) /\ routes[r].tokenId \in tokens /\ ~RoutePaused(r)

AvailableCapacity(r) == IF Usable(r) THEN Available(r) ELSE 0
CapacityReverts(r) == Usable(r) /\ AvailableReverts(r)
----------------------------------------------------------------------------
GuardTypeOK ==
    /\ LimiterTypeOK
    /\ routes \in [Routes -> RouteRecords \cup {Unregistered}]
    /\ tokens \subseteq Tokens
    /\ authorizedCallers \subseteq Callers
    /\ paused \subseteq Scopes

\* The remaining capacity shown to users is exact through every layer: for a
\* route's own token and origin, an authorized caller gets an amount through
\* if and only if availableCapacity covers it.  The view asks isPaused, the
\* gate asks assertNotPaused, and the two must never disagree.
CapacityIsHonest ==
    \A caller \in authorizedCallers, r \in Routes, a \in Amounts \ {0} :
        LET accepted == \E t \in Tokens, o \in Domains :
                            Permits(caller, r, t, o) /\ ConsumeAccepts(r, a)
        IN  accepted <=> ~CapacityReverts(r) /\ a <= AvailableCapacity(r)

\* INV-01, INV-02, INV-03, INV-12, INV-15 in one: whatever was registered,
\* paused or limited before, value moves only on a registered route, for its
\* registered token, with no scope that covers it paused at either end.
MovesOnlyWhenUsable ==
    [][\A r \in Routes : window'[r].moved > window[r].moved => Usable(r)]_guardVars

\* The guard never touches the limiter except through it: each of its steps is
\* one of the limiter's own, so re-registering a route, toggling a token or
\* pausing cannot give capacity back.
ImplementsLimiter == LimiterSpec

\* The abstract gate, allowing what the guard shows as available.
AbstractGate == INSTANCE Gate WITH
    GateRoutes <- Routes,
    allowance <- [r \in Routes |-> AvailableCapacity(r)],
    moved <- [r \in Routes |-> window[r].moved]

\* The guard keeps the promise Bridge relies on.
ImplementsGate == AbstractGate!GateSpec
============================================================================
