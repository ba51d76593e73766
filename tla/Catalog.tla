------------------------------ MODULE Catalog ------------------------------
(***************************************************************************)
(* Configuration as data: the registries of chains, assets and routes      *)
(* (packages/chain-registry, packages/token-registry), the deployment      *)
(* artifacts folded into them and the validation that CI runs on the       *)
(* result (packages/config), and what the site and the SDK offer of it     *)
(* (packages/bridge-core/src/routing.ts).  Operators only: Release is the  *)
(* life of a registry, Page a page that was built from one.                *)
(*                                                                         *)
(* Ids are tuples where the code joins the same parts into a string, with  *)
(* separators that no chain key and no symbol contains.  The chain id and  *)
(* the domain id of a network are that network.                            *)
(***************************************************************************)
EXTENDS Integers, FiniteSets

CONSTANTS
    Hub,               \* the Ark network
    ExternalChains,
    Gated,             \* external chains whose inbound security is not accepted
    Symbols,
    Zero,              \* the zero address, "not yet deployed"
    Undefined,         \* an absent optional field
    Malformed,         \* a value that has not the shape its field must have
    Unconfigured       \* an id that is not confirmed yet

ASSUME CatalogAssumption ==
    /\ Hub \notin ExternalChains
    /\ Gated \subseteq ExternalChains
    /\ Zero # Undefined /\ Zero # Malformed /\ Undefined # Malformed
    /\ Unconfigured \notin ExternalChains \cup {Hub}

Chains == ExternalChains \cup {Hub}

TokenId(canonicalChain, symbol) == <<canonicalChain, symbol>>

RouteId(source, destination, token) == <<source, destination, token>>

IsProduction(environment) == environment = "mainnet"
----------------------------------------------------------------------------
(* The registries as they are written: nothing is deployed in them.        *)

\* The entry of a chain.  The ids of the production hub are not confirmed yet.
ChainEntry(c, environment, enabled) ==
    LET network == IF IsProduction(environment) /\ c = Hub THEN Unconfigured ELSE c
    IN  [key |-> c, chainId |-> network, domain |-> network, rpcUrls |-> {"https"},
         explorerUrl |-> "https", testnet |-> ~IsProduction(environment),
         isHub |-> c = Hub, enabled |-> enabled]

IsChainConfigured(chain) ==
    /\ chain.chainId # Unconfigured
    /\ chain.domain # Unconfigured
    /\ chain.rpcUrls # {}
    /\ "" \notin chain.rpcUrls

\* The canonical asset locked on its origin, and its synthetic on the hub.
DefineMockToken(symbol, canonicalChain, enabled) ==
    [id |-> TokenId(canonicalChain, symbol), symbol |-> symbol, canonicalChain |-> canonicalChain,
     canonicalAddress |-> Zero, isMock |-> TRUE, enabled |-> enabled, decimals |-> 6,
     representations |-> [c \in {canonicalChain, Hub} |->
        [address |-> Zero, router |-> Undefined, decimals |-> 6,
         type |-> IF c = Hub THEN "synthetic" ELSE "collateral"]]]

\* In units of 100 000 tokens.
TestLimits == [maxPerTransaction |-> 1, maxHourly |-> 5, maxDaily |-> 20]

DefineHubRoutePair(token, externalChain, enabled) ==
    {[id |-> RouteId(ends[1], ends[2], token.id), source |-> ends[1], destination |-> ends[2],
      token |-> token.id, sourceRouter |-> Zero, destinationRouter |-> Zero,
      enabled |-> enabled, limits |-> TestLimits] :
        ends \in {<<externalChain, Hub>>, <<Hub, externalChain>>}}

\* A table of entries by their ids.
Index(entries) ==
    [id \in {e.id : e \in entries} |-> CHOOSE e \in entries : e.id = id]

\* Mutant of EnabledSymbolsOn: the gate is left to the routes.
AllSymbolsOn(c, symbols) == symbols

\* A gated chain's assets stay disabled, and not only its routes.
EnabledSymbolsOn(c, symbols) == IF c \in Gated THEN {} ELSE symbols

ChainsEnabled(c, chains) == chains[Hub].enabled /\ chains[c].enabled /\ c \notin Gated

\* The assets and the routes of every external chain, eligible if both of its
\* ends are enabled and no gate is recorded for it.
BuildMockRegistry(environment, chains, symbols) ==
    LET asset(c, s) == DefineMockToken(s, c, s \in EnabledSymbolsOn(c, symbols))
        pair(c, s) == DefineHubRoutePair(asset(c, s), c, asset(c, s).enabled /\ ChainsEnabled(c, chains))
    IN  [environment |-> environment, chains |-> chains,
         tokens |-> Index({asset(c, s) : c \in ExternalChains, s \in Symbols}),
         routes |-> Index(UNION {pair(c, s) : c \in ExternalChains, s \in Symbols})]
----------------------------------------------------------------------------
(* Deployment artifacts, one file for each chain deployed on, and their    *)
(* folding into the registries.                                            *)

\* The shape of a file: every id a positive number, every address an address.
ParseDeploymentArtifact(file) ==
    /\ Malformed \notin {file.environment, file.chain, file.chainId, file.domain}
    /\ \A t \in DOMAIN file.tokens :
          Malformed \notin {file.tokens[t].token, file.tokens[t].router}

\* What the artifacts say of an asset on a chain: nothing, or one entry.
DeployedAs(files, t, c) ==
    {f.tokens[t] : f \in {g \in files : g.chain = c /\ t \in DOMAIN g.tokens}}

\* Mutant of Replaces: the router is taken as it was deployed.
ReplacesAddress(representation, entry) == representation.address \notin {Zero, entry.token}

\* A canonical mapping is not replaced silently (INV-14).
Replaces(representation, entry) ==
    \/ representation.address \notin {Zero, entry.token}
    \/ representation.router \notin {Undefined, Zero, entry.router}

\* Mutant of MisfiledRoute: ids are not checked.
NeverMisfiled(registry) == FALSE

MisfiledRoute(registry) ==
    \E id \in DOMAIN registry.routes :
        LET r == registry.routes[id] IN id # RouteId(r.source, r.destination, r.token)

\* hydrateRegistries() throws.
Refuses(registry, files) ==
    \/ \E f \in files : f.environment # registry.environment
    \/ \E f, g \in files : f # g /\ f.chain = g.chain
    \/ \E f \in files : /\ f.chain \in DOMAIN registry.chains
                        /\ \/ registry.chains[f.chain].chainId \notin {Unconfigured, f.chainId}
                           \/ registry.chains[f.chain].domain \notin {Unconfigured, f.domain}
    \/ \E t \in DOMAIN registry.tokens :
          \E c \in DOMAIN registry.tokens[t].representations :
             \E entry \in DeployedAs(files, t, c) :
                Replaces(registry.tokens[t].representations[c], entry)
    \/ MisfiledRoute(registry)

HydrateChain(chain, c, files) ==
    LET own == {f \in files : f.chain = c}
        file == CHOOSE f \in own : TRUE
    IN  IF own = {} THEN chain
        ELSE [chain EXCEPT !.chainId = file.chainId, !.domain = file.domain]

HydrateRepresentation(representation, t, c, files) ==
    LET entry == CHOOSE e \in DeployedAs(files, t, c) : TRUE
    IN  IF DeployedAs(files, t, c) = {} THEN representation
        ELSE [representation EXCEPT !.address = entry.token, !.router = entry.router]

HydrateToken(token, t, files) ==
    LET filled == [c \in DOMAIN token.representations |->
                      HydrateRepresentation(token.representations[c], t, c, files)]
    IN  [token EXCEPT !.representations = filled,
                      !.canonicalAddress = IF token.canonicalChain \in DOMAIN filled
                                           THEN filled[token.canonicalChain].address ELSE @]

\* The router of an asset on a chain, or else the one the route names itself.
RouterOf(tokens, t, c, named) ==
    IF /\ t \in DOMAIN tokens
       /\ c \in DOMAIN tokens[t].representations
       /\ tokens[t].representations[c].router # Undefined
    THEN tokens[t].representations[c].router ELSE named

\* Mutant of HydrateRoute: the router a route names itself wins.
HydrateRouteNamed(route, tokens) ==
    [route EXCEPT
        !.sourceRouter = IF @ # Zero THEN @ ELSE RouterOf(tokens, route.token, route.source, @),
        !.destinationRouter = IF @ # Zero THEN @ ELSE RouterOf(tokens, route.token, route.destination, @)]

HydrateRoute(route, tokens) ==
    [route EXCEPT !.sourceRouter = RouterOf(tokens, route.token, route.source, @),
                  !.destinationRouter = RouterOf(tokens, route.token, route.destination, @)]

\* hydrateRegistries(), where it does not throw.  It enables nothing.
Hydrate(registry, files) ==
    LET tokens == [t \in DOMAIN registry.tokens |-> HydrateToken(registry.tokens[t], t, files)]
    IN  [environment |-> registry.environment,
         chains |-> [c \in DOMAIN registry.chains |-> HydrateChain(registry.chains[c], c, files)],
         tokens |-> tokens,
         routes |-> [id \in DOMAIN registry.routes |-> HydrateRoute(registry.routes[id], tokens)]]
----------------------------------------------------------------------------
IsRepresentationDeployed(representation) ==
    /\ representation.address # Zero
    /\ representation.router \notin {Undefined, Zero}

IsTokenDeployed(token) ==
    /\ token.canonicalAddress # Zero
    /\ DOMAIN token.representations # {}
    /\ \A c \in DOMAIN token.representations : IsRepresentationDeployed(token.representations[c])

IsRouteDeployed(route) == Zero \notin {route.sourceRouter, route.destinationRouter}
----------------------------------------------------------------------------
(* validateRegistries(): the errors, each of which fails the build.  The   *)
(* warnings, which do not, are left out.                                   *)

\* Origin domains, and chain ids, resolve to exactly one chain.
UniqueIds(chains) ==
    \A c, d \in DOMAIN chains :
        c # d => /\ chains[c].chainId = Unconfigured \/ chains[c].chainId # chains[d].chainId
                 /\ chains[c].domain = Unconfigured \/ chains[c].domain # chains[d].domain

ValidateChains(registry) ==
    LET chains == registry.chains
    IN  /\ {c \in DOMAIN chains : chains[c].isHub} = {Hub}
        /\ UniqueIds(chains)
        /\ \A c \in DOMAIN chains :
              LET chain == chains[c]
              IN  /\ chain.key = c
                  /\ chain.enabled => IsChainConfigured(chain)
                  /\ IsProduction(registry.environment) =>
                        /\ ~chain.testnet
                        /\ chain.enabled => /\ chain.explorerUrl # Undefined
                                            /\ "http" \notin chain.rpcUrls

ProductionToken(token) == ~token.isMock /\ (token.enabled => IsTokenDeployed(token))

ValidateTokens(registry) ==
    \A t \in DOMAIN registry.tokens :
        LET token == registry.tokens[t]
            representations == token.representations
        IN  /\ token.id = t
            /\ t = TokenId(token.canonicalChain, token.symbol)
            /\ token.canonicalChain \in DOMAIN registry.chains
            /\ {c \in DOMAIN representations : representations[c].type # "synthetic"}
                  = {token.canonicalChain}
            /\ \A c \in DOMAIN representations : /\ c \in DOMAIN registry.chains
                                                 /\ representations[c].decimals \in 0..36
            /\ IsProduction(registry.environment) => ProductionToken(token)

CarriesItsAsset(registry, route) ==
    /\ route.token \in DOMAIN registry.tokens
    /\ {route.source, route.destination} \subseteq DOMAIN registry.tokens[route.token].representations
    /\ route.enabled => registry.tokens[route.token].enabled

\* Mutant of MayBeEnabled: no way back is asked for.
MayBeEnabledOneWay(registry, route) ==
    \A c \in {route.source, route.destination} : registry.chains[c].enabled

\* Enabled chains at both ends, and a route back: that it exists, not that it
\* is enabled.
MayBeEnabled(registry, route) ==
    /\ \A c \in {route.source, route.destination} : registry.chains[c].enabled
    /\ RouteId(route.destination, route.source, route.token) \in DOMAIN registry.routes

LimitsInOrder(limits) ==
    /\ limits.maxPerTransaction > 0
    /\ limits.maxPerTransaction <= limits.maxHourly
    /\ limits.maxHourly <= limits.maxDaily

ProductionRoute(route) ==
    /\ route.limits # Undefined
    /\ route.enabled => IsRouteDeployed(route)
    /\ route.sourceRouter # Zero => route.sourceRouter # route.destinationRouter

ValidateRoutes(registry) ==
    \A id \in DOMAIN registry.routes :
        LET route == registry.routes[id]
        IN  /\ route.id = id
            /\ id = RouteId(route.source, route.destination, route.token)
            /\ route.source # route.destination
            /\ Hub \in {route.source, route.destination}
            /\ {route.source, route.destination} \subseteq DOMAIN registry.chains
            /\ CarriesItsAsset(registry, route)
            /\ route.enabled => MayBeEnabled(registry, route)
            /\ route.limits # Undefined => LimitsInOrder(route.limits)
            /\ IsProduction(registry.environment) => ProductionRoute(route)

ValidateRegistries(registry) ==
    /\ Hub \in DOMAIN registry.chains
    /\ ValidateChains(registry)
    /\ ValidateTokens(registry)
    /\ ValidateRoutes(registry)
----------------------------------------------------------------------------
(* What is offered of a catalog.                                           *)

RepresentationDeployed(token, c) ==
    c \in DOMAIN token.representations /\ IsRepresentationDeployed(token.representations[c])

IsRouteUsable(catalog, route) ==
    /\ route.enabled
    /\ IsRouteDeployed(route)
    /\ route.token \in DOMAIN catalog.tokens
    /\ catalog.tokens[route.token].enabled
    /\ \A c \in {route.source, route.destination} :
          /\ RepresentationDeployed(catalog.tokens[route.token], c)
          /\ c \in DOMAIN catalog.chains /\ catalog.chains[c].enabled

UsableRoutes(catalog) ==
    {r \in {catalog.routes[id] : id \in DOMAIN catalog.routes} : IsRouteUsable(catalog, r)}

SelectableSourceChains(catalog) == {r.source : r \in UsableRoutes(catalog)}

SelectableDestinationChains(catalog, source) ==
    {r.destination : r \in {q \in UsableRoutes(catalog) : q.source = source}}

SelectableTokens(catalog, source, destination) ==
    {r.token : r \in {q \in UsableRoutes(catalog) : q.source = source /\ q.destination = destination}}

Selections == [source : Chains, destination : Chains, token : Chains \X Symbols]

\* The configured chains a network resolves to: the origin of a message, or the
\* network a wallet is connected to.
ChainsByDomainId(catalog, network) ==
    {c \in DOMAIN catalog.chains :
        IsChainConfigured(catalog.chains[c]) /\ catalog.chains[c].domain = network}

ChainsByEvmChainId(catalog, network) ==
    {c \in DOMAIN catalog.chains :
        IsChainConfigured(catalog.chains[c]) /\ catalog.chains[c].chainId = network}

RouteIdOf(selection) == RouteId(selection.source, selection.destination, selection.token)

\* Why a selection is not a usable route, in the order in which the reasons
\* mask each other, or "ok".
ResolveRoute(catalog, selection) ==
    IF \E c \in {selection.source, selection.destination} :
          c \notin DOMAIN catalog.chains \/ ~catalog.chains[c].enabled THEN "UNSUPPORTED_CHAIN"
    ELSE IF selection.token \notin DOMAIN catalog.tokens \/ ~catalog.tokens[selection.token].enabled
         THEN "UNSUPPORTED_TOKEN"
    ELSE IF RouteIdOf(selection) \notin DOMAIN catalog.routes THEN "UNSUPPORTED_ROUTE"
    ELSE IF ~IsRouteUsable(catalog, catalog.routes[RouteIdOf(selection)]) THEN "ROUTE_PAUSED"
    ELSE "ok"

Reversed(selection) ==
    [source |-> selection.destination, destination |-> selection.source, token |-> selection.token]

\* Both directions are looked up, and neither is asked whether it is usable.
CanFlip(catalog, selection) ==
    {RouteIdOf(selection), RouteIdOf(Reversed(selection))} \subseteq DOMAIN catalog.routes
=============================================================================
