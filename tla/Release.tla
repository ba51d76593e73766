------------------------------ MODULE Release ------------------------------
(***************************************************************************)
(* The life of a registry, one commit or one deployment at a time: chains  *)
(* are enabled, warp routes deployed and redeployed, entries edited by     *)
(* hand, in any order.  The site is whatever loadRegistries() makes of it  *)
(* (packages/config/src/node.ts), and it is released if CI's validation of *)
(* that passes (packages/config/src/cli/validate.ts).                      *)
(***************************************************************************)
EXTENDS Catalog

CONSTANTS
    EnabledSymbols,    \* the assets that have been exercised
    Environments,      \* those a registry is written for
    MaxVersions,       \* bound: deployments of one asset on one chain
    MaxEdits           \* bound: entries that differ from what the builder makes

TokenIds == {TokenId(c, s) : c \in ExternalChains, s \in Symbols}

\* What the v-th deployment of an asset on a chain has created.
TokenAddress(t, c, v) == <<"token", t, c, v>>

RouterAddress(t, c, v) == <<"router", t, c, v>>

ASSUME ReleaseAssumption ==
    /\ EnabledSymbols \subseteq Symbols
    /\ MaxVersions \in Nat
    /\ MaxEdits \in Nat
    /\ \A t \in TokenIds, c \in Chains, v \in 1..MaxVersions + 1 :
          Zero \notin {TokenAddress(t, c, v), RouterAddress(t, c, v)}

VARIABLES
    environment,
    enabled,      \* the chains enabled in the chain registry
    recorded,     \* the chains whose deployment artifact has been written
    versions,     \* versions[t, c]: deployments of asset t on chain c so far
    edits         \* what has been changed by hand

releaseVars == <<environment, enabled, recorded, versions, edits>>
----------------------------------------------------------------------------
RouteIds == UNION {{RouteId(t[1], Hub, t), RouteId(Hub, t[1], t)} : t \in TokenIds}

Ends == {e \in TokenIds \X Chains : e[2] \in {e[1][1], Hub}}

\* One change of one entry each: a switch, a value, a file.
Edits ==
    [kind : {"routeOn", "routeOff", "routeRemoved", "routeUncapped", "routeMisfiled", "routerNamed"},
     at : RouteIds]
    \cup [kind : {"tokenOn", "tokenOff", "backedOnHub", "canonicalWritten"}, at : TokenIds]
    \cup [kind : {"tokenWritten", "routerWritten", "malformed"}, at : Ends]
    \cup [kind : {"sharesIds", "noRpc", "unconfigured", "wrongNetwork", "wrongEnvironment", "copied"},
          at : Chains]

Edited(kind, at) == [kind |-> kind, at |-> at] \in edits

Switched(value, on, off, at) == (value \/ Edited(on, at)) /\ ~Edited(off, at)

\* Some other chain than c.
Another(c) == IF c = Hub THEN CHOOSE e \in ExternalChains : TRUE ELSE Hub
----------------------------------------------------------------------------
(* What is written in the repository now.                                  *)

WrittenChain(c) ==
    [ChainEntry(c, environment, c \in enabled) EXCEPT
        !.chainId = IF Edited("unconfigured", c) THEN Unconfigured ELSE @,
        !.domain = IF Edited("unconfigured", c) THEN Unconfigured
                   ELSE IF Edited("sharesIds", c) THEN Another(c) ELSE @,
        !.rpcUrls = IF Edited("noRpc", c) THEN {} ELSE @]

Built == BuildMockRegistry(environment, [c \in Chains |-> WrittenChain(c)], EnabledSymbols)

WrittenRepresentation(representation, t, c) ==
    [representation EXCEPT
        !.address = IF Edited("tokenWritten", <<t, c>>) THEN TokenAddress(t, c, 1) ELSE @,
        !.router = IF Edited("routerWritten", <<t, c>>) THEN RouterAddress(t, c, 1) ELSE @,
        !.type = IF c = Hub /\ Edited("backedOnHub", t) THEN "collateral" ELSE @]

\* A production registry lists no mocks.
WrittenToken(token, t) ==
    [token EXCEPT
        !.isMock = ~IsProduction(environment),
        !.enabled = Switched(@, "tokenOn", "tokenOff", t),
        !.canonicalAddress = IF Edited("canonicalWritten", t) THEN TokenAddress(t, t[1], 1) ELSE @,
        !.representations = [c \in DOMAIN @ |-> WrittenRepresentation(@[c], t, c)]]

\* The two directions of a pair may be filed under each other's id.
WrittenRoute(id, built) ==
    LET reverse == RouteId(id[2], id[1], id[3])
        misfiled == Edited("routeMisfiled", id) \/ Edited("routeMisfiled", reverse)
        r == built[IF misfiled THEN reverse ELSE id]
    IN  [r EXCEPT !.enabled = Switched(@, "routeOn", "routeOff", id),
                  !.limits = IF Edited("routeUncapped", id) THEN Undefined ELSE @,
                  !.sourceRouter = IF Edited("routerNamed", id) THEN RouterAddress(id[3], id[1], 1) ELSE @]

Written ==
    LET built == Built
    IN  [built EXCEPT
            !.tokens = [t \in DOMAIN @ |-> WrittenToken(@[t], t)],
            !.routes = [id \in {i \in DOMAIN @ : ~Edited("routeRemoved", i)} |-> WrittenRoute(id, @)]]

\* The artifact of a chain: Hyperlane's core is deployed on it first, and then
\* its assets one by one.
Artifact(c) ==
    LET network == IF Edited("wrongNetwork", c) THEN Another(c) ELSE c
        deployed == {t \in TokenIds : <<t, c>> \in Ends /\ versions[<<t, c>>] > 0}
        entry(t) == [token |-> TokenAddress(t, c, versions[<<t, c>>]),
                     router |-> IF Edited("malformed", <<t, c>>) THEN Malformed
                                ELSE RouterAddress(t, c, versions[<<t, c>>])]
    IN  [name |-> c, chain |-> IF Edited("copied", c) THEN Another(c) ELSE c,
         environment |-> IF Edited("wrongEnvironment", c) THEN "elsewhere" ELSE environment,
         chainId |-> network, domain |-> network, tokens |-> [t \in deployed |-> entry(t)]]

\* loadDeploymentArtifacts(): the files of the environment's directory.
Artifacts == {Artifact(c) : c \in recorded}

\* loadRegistries() throws on a malformed file or a disagreement.
Loads ==
    /\ \A f \in Artifacts : ParseDeploymentArtifact(f)
    /\ ~Refuses(Written, Artifacts)

Site == Hydrate(Written, Artifacts)

\* CI passes: arkbridge-validate-config exits with 0.
Passes == Loads /\ ValidateRegistries(Site)
----------------------------------------------------------------------------
ReleaseInit ==
    /\ environment \in Environments
    /\ enabled = {}
    /\ recorded = {}
    /\ versions = [e \in Ends |-> 0]
    /\ edits = {}

EnableChain(c) ==
    /\ c \notin enabled
    /\ enabled' = enabled \cup {c}
    /\ UNCHANGED <<environment, recorded, versions, edits>>

\* The core is deployed, and no asset yet.
Record(c) ==
    /\ c \notin recorded
    /\ recorded' = recorded \cup {c}
    /\ UNCHANGED <<environment, enabled, versions, edits>>

\* A warp route's router and token are deployed, or deployed again.
Deploy(e) ==
    /\ e[2] \in recorded
    /\ versions[e] < MaxVersions
    /\ versions' = [versions EXCEPT ![e] = @ + 1]
    /\ UNCHANGED <<environment, enabled, recorded, edits>>

Edit(e) ==
    /\ Cardinality(edits) < MaxEdits
    /\ e \notin edits
    /\ edits' = edits \cup {e}
    /\ UNCHANGED <<environment, enabled, recorded, versions>>

ReleaseNext ==
    \/ \E c \in Chains : EnableChain(c)
    \/ \E c \in Chains : Record(c)
    \/ \E e \in Ends : Deploy(e)
    \/ \E e \in Edits : Edit(e)

ReleaseSpec == ReleaseInit /\ [][ReleaseNext]_releaseVars
----------------------------------------------------------------------------
\* "An unsupported pair is never offered and then rejected" (routing.ts): every
\* source, destination and asset the selectors offer, one after the other,
\* resolves to a usable route, and to that one.
OffersResolve ==
    Loads => LET site == Site
             IN  \A s \in SelectableSourceChains(site) :
                    \A d \in SelectableDestinationChains(site, s) :
                       \A t \in SelectableTokens(site, s, d) :
                          LET selection == [source |-> s, destination |-> d, token |-> t]
                              route == site.routes[RouteIdOf(selection)]
                          IN  /\ ResolveRoute(site, selection) = "ok"
                              /\ <<route.source, route.destination, route.token>> = <<s, d, t>>

\* "The gate has to be removed on purpose" (testnet.ts): whatever is enabled and
\* deployed, and whichever single entry is edited besides, no route of a gated
\* chain is usable.
GatedNeverOffered ==
    Loads /\ Cardinality(edits) <= 1 =>
        LET site == Site
        IN  \A r \in UsableRoutes(site) : {r.source, r.destination} \cap Gated = {}

\* "A user is never able to move an asset onto a chain it cannot leave"
\* (validate.ts), as far as it is checked: of a released site, the way back of
\* a usable route is in the table, and it is usable too unless its own switch
\* is off.
WayBack ==
    Passes => LET site == Site
              IN  \A r \in UsableRoutes(site) :
                     LET back == RouteId(r.destination, r.source, r.token)
                     IN  /\ back \in DOMAIN site.routes
                         /\ site.routes[back].enabled => IsRouteUsable(site, site.routes[back])

\* "Origin domains must resolve to exactly one chain" (validate.ts), those that
\* were adopted from artifacts included.
OriginsAreUnambiguous ==
    Passes => LET site == Site
              IN  \A n \in Chains : /\ Cardinality(ChainsByDomainId(site, n)) <= 1
                                    /\ Cardinality(ChainsByEvmChainId(site, n)) <= 1

\* The address and the router of a representation, once written, are the ones
\* the site uses, however often the asset is deployed again: hydrateRegistries()
\* refuses to load what would replace them.  It covers representations only;
\* WrittenAddressesAreKept is what the comment says of every written address.
RepresentationsAreKept ==
    Loads => LET written == Written
                 site == Site
             IN  \A e \in Ends :
                    LET before == written.tokens[e[1]].representations[e[2]]
                        after == site.tokens[e[1]].representations[e[2]]
                    IN  /\ before.address # Zero => after.address = before.address
                        /\ before.router # Undefined => after.router = before.router

\* "A token or router address already set to something other than the zero
\* sentinel and disagreeing with the artifact is likewise a hard error:
\* canonical mappings are never silently replaced" (hydrate.ts, INV-14).  False
\* of the asset's own canonical address and of the routers a route names: both
\* are overwritten from the representation without a comparison.
WrittenAddressesAreKept ==
    Loads => LET written == Written
                 site == Site
             IN  /\ \A t \in TokenIds :
                       written.tokens[t].canonicalAddress \in {Zero, site.tokens[t].canonicalAddress}
                 /\ \A id \in DOMAIN site.routes :
                       written.routes[id].sourceRouter \in {Zero, site.routes[id].sourceRouter}

\* A usable route sends through the routers that its own asset is deployed
\* with, at both ends: the SDK approves and bridges with the route's, and reads
\* balances and supplies at the asset's.
RoutersMatchTheAsset ==
    Loads => LET site == Site
             IN  \A r \in UsableRoutes(site) :
                    LET representations == site.tokens[r.token].representations
                    IN  /\ r.sourceRouter = representations[r.source].router
                        /\ r.destinationRouter = representations[r.destination].router

\* In production "not selectable until deployed" is an error, not a warning
\* (validate.ts): every enabled route of a released site is usable.
ProductionIsUsable ==
    Passes /\ IsProduction(environment) =>
        LET site == Site
        IN  \A id \in DOMAIN site.routes :
               site.routes[id].enabled => IsRouteUsable(site, site.routes[id])
=============================================================================
