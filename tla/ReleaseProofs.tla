---------------------------- MODULE ReleaseProofs ----------------------------
(***************************************************************************)
(* What hydration and validation make of a registry, for any chains,       *)
(* assets, deployments and edits: what the theorems say holds of every     *)
(* state, and so needs no invariant but the shape of what is written.      *)
(***************************************************************************)
EXTENDS Release, FiniteSetTheorems, TLAPS

RouteFields ==
    {"id", "source", "destination", "token", "sourceRouter", "destinationRouter", "enabled", "limits"}

\* An entry of a table is one of those it was built from, under its own id.
LEMMA IndexEntry ==
    ASSUME NEW entries, NEW id \in DOMAIN Index(entries)
    PROVE  Index(entries)[id] \in entries /\ Index(entries)[id].id = id
<1>1. PICK e \in entries : e.id = id
  BY DEF Index
<1>2. Index(entries)[id] = CHOOSE f \in entries : f.id = id
  BY DEF Index
<1> QED BY <1>1, <1>2

LEMMA IndexDomain ==
    ASSUME NEW entries PROVE DOMAIN Index(entries) = {e.id : e \in entries}
BY DEF Index

\* A route of a pair has all fields, and is filed under the ends of the pair.
LEMMA PairRoute ==
    ASSUME NEW token, NEW c, NEW enabledPair, NEW r \in DefineHubRoutePair(token, c, enabledPair)
    PROVE  /\ DOMAIN r = RouteFields
           /\ r.id \in {RouteId(c, Hub, token.id), RouteId(Hub, c, token.id)}
BY DEF DefineHubRoutePair, RouteFields

LEMMA PairIds ==
    ASSUME NEW token, NEW c, NEW enabledPair
    PROVE  {RouteId(c, Hub, token.id), RouteId(Hub, c, token.id)}
              \subseteq {r.id : r \in DefineHubRoutePair(token, c, enabledPair)}
<1> DEFINE direction(a, b) ==
             [id |-> RouteId(a, b, token.id), source |-> a, destination |-> b, token |-> token.id,
              sourceRouter |-> Zero, destinationRouter |-> Zero, enabled |-> enabledPair,
              limits |-> TestLimits]
<1>1. DefineHubRoutePair(token, c, enabledPair) = {direction(c, Hub), direction(Hub, c)}
  BY DEF DefineHubRoutePair
<1> QED BY <1>1

LEMMA BuiltRoutes ==
    /\ DOMAIN Built.routes = RouteIds
    /\ \A id \in RouteIds : DOMAIN Built.routes[id] = RouteFields
<1> DEFINE chains == [c \in Chains |-> WrittenChain(c)]
           asset(c, s) == DefineMockToken(s, c, s \in EnabledSymbolsOn(c, EnabledSymbols))
           pair(c, s) == DefineHubRoutePair(asset(c, s), c, asset(c, s).enabled /\ ChainsEnabled(c, chains))
           all == UNION {pair(c, s) : c \in ExternalChains, s \in Symbols}
<1>1. Built.routes = Index(all)
  BY DEF Built, BuildMockRegistry
<1>2. \A c, s : asset(c, s).id = <<c, s>>
  BY DEF DefineMockToken, TokenId
<1> HIDE DEF asset
<1>3. ASSUME NEW r \in all PROVE DOMAIN r = RouteFields /\ r.id \in RouteIds
  <2>1. PICK c \in ExternalChains, s \in Symbols : r \in pair(c, s)
    OBVIOUS
  <2>2. asset(c, s).id \in TokenIds /\ asset(c, s).id[1] = c
    BY <1>2 DEF TokenIds, TokenId
  <2> QED BY <2>1, <2>2, PairRoute DEF RouteIds
<1>4. ASSUME NEW id \in RouteIds PROVE \E r \in all : r.id = id
  <2>1. PICK t \in TokenIds : id \in {RouteId(t[1], Hub, t), RouteId(Hub, t[1], t)}
    BY DEF RouteIds
  <2>2. PICK c \in ExternalChains, s \in Symbols : t = <<c, s>>
    BY DEF TokenIds, TokenId
  <2>3. \E r \in pair(c, s) : r.id = id
    BY <1>2, <2>1, <2>2, PairIds
  <2> QED BY <2>3
<1> HIDE DEF all
<1>5. {e.id : e \in all} = RouteIds
  BY <1>3, <1>4
<1> QED BY <1>1, <1>3, <1>5, IndexEntry, IndexDomain

TokenFields ==
    {"id", "symbol", "canonicalChain", "canonicalAddress", "isMock", "enabled", "decimals",
     "representations"}

RepresentationFields == {"address", "router", "decimals", "type"}

\* An asset on its origin and on the hub, with all fields.
TokenShape(token, t) ==
    /\ DOMAIN token = TokenFields
    /\ DOMAIN token.representations = {t[1], Hub}
    /\ \A c \in {t[1], Hub} : DOMAIN token.representations[c] = RepresentationFields

LEMMA BuiltTokens ==
    /\ DOMAIN Built.tokens = TokenIds
    /\ \A t \in TokenIds : TokenShape(Built.tokens[t], t)
<1> DEFINE asset(c, s) == DefineMockToken(s, c, s \in EnabledSymbolsOn(c, EnabledSymbols))
           all == {asset(c, s) : c \in ExternalChains, s \in Symbols}
<1>1. Built.tokens = Index(all)
  BY DEF Built, BuildMockRegistry
<1>2. ASSUME NEW c, NEW s PROVE asset(c, s).id = <<c, s>> /\ TokenShape(asset(c, s), <<c, s>>)
  BY DEF DefineMockToken, TokenId, TokenShape, TokenFields, RepresentationFields
<1> HIDE DEF asset
<1>3. ASSUME NEW token \in all PROVE TokenShape(token, token.id) /\ token.id \in TokenIds
  <2>1. PICK c \in ExternalChains, s \in Symbols : token = asset(c, s)
    OBVIOUS
  <2>2. token.id = <<c, s>> /\ TokenShape(token, <<c, s>>)
    BY <1>2, <2>1
  <2> QED BY <2>2 DEF TokenIds, TokenId
<1>4. ASSUME NEW t \in TokenIds PROVE \E token \in all : token.id = t
  <2>1. PICK c \in ExternalChains, s \in Symbols : t = <<c, s>>
    BY DEF TokenIds, TokenId
  <2>2. asset(c, s) \in all /\ asset(c, s).id = t
    BY <1>2, <2>1
  <2> QED BY <2>2
<1> HIDE DEF all
<1>5. {token.id : token \in all} = TokenIds
  BY <1>3, <1>4
<1> QED BY <1>1, <1>3, <1>5, IndexEntry, IndexDomain

LEMMA BuiltTokenRouters ==
    \A t \in TokenIds : \A c \in {t[1], Hub} : Built.tokens[t].representations[c].router = Undefined
<1> DEFINE asset(c, s) == DefineMockToken(s, c, s \in EnabledSymbolsOn(c, EnabledSymbols))
           all == {asset(c, s) : c \in ExternalChains, s \in Symbols}
<1>1. Built.tokens = Index(all)
  BY DEF Built, BuildMockRegistry
<1>2. ASSUME NEW c, NEW s
      PROVE  /\ asset(c, s).id = <<c, s>>
             /\ \A d \in {c, Hub} : asset(c, s).representations[d].router = Undefined
  BY DEF DefineMockToken, TokenId
<1> HIDE DEF asset
<1>3. ASSUME NEW token \in all
      PROVE  \A c \in {token.id[1], Hub} : token.representations[c].router = Undefined
  BY <1>2
<1> HIDE DEF all
<1>4. ASSUME NEW t \in TokenIds PROVE Index(all)[t] \in all /\ Index(all)[t].id = t
  BY <1>1, BuiltTokens, IndexEntry
<1> QED BY <1>1, <1>3, <1>4

\* Nothing of a gated chain is enabled in what the builder makes.
LEMMA GatedIsBuiltDisabled ==
    ASSUME NEW t \in TokenIds, t[1] \in Gated
    PROVE  /\ ~Built.tokens[t].enabled
           /\ \A id \in {RouteId(t[1], Hub, t), RouteId(Hub, t[1], t)} : ~Built.routes[id].enabled
<1> DEFINE chains == [c \in Chains |-> WrittenChain(c)]
           asset(c, s) == DefineMockToken(s, c, s \in EnabledSymbolsOn(c, EnabledSymbols))
           on(c, s) == asset(c, s).enabled /\ ChainsEnabled(c, chains)
           pair(c, s) == DefineHubRoutePair(asset(c, s), c, on(c, s))
           assets == {asset(c, s) : c \in ExternalChains, s \in Symbols}
           all == UNION {pair(c, s) : c \in ExternalChains, s \in Symbols}
<1>1. Built.tokens = Index(assets) /\ Built.routes = Index(all)
  BY DEF Built, BuildMockRegistry
<1>2. ASSUME NEW c, NEW s
      PROVE  asset(c, s).id = <<c, s>> /\ (c \in Gated => ~asset(c, s).enabled)
  <2>1. asset(c, s).id = <<c, s>> /\ asset(c, s).enabled = (s \in EnabledSymbolsOn(c, EnabledSymbols))
    BY DEF DefineMockToken, TokenId
  <2>2. c \in Gated => s \notin EnabledSymbolsOn(c, EnabledSymbols)
    BY DEF EnabledSymbolsOn
  <2> QED BY <2>1, <2>2
<1> HIDE DEF asset
<1>3. ASSUME NEW c, NEW s PROVE on(c, s) => asset(c, s).enabled
  OBVIOUS
<1> HIDE DEF on
<1>4. ASSUME NEW token \in assets, token.id[1] \in Gated PROVE ~token.enabled
  <2>1. PICK c \in ExternalChains, s \in Symbols : token = asset(c, s)
    OBVIOUS
  <2> QED BY <1>2, <1>4, <2>1
<1>5. ASSUME NEW r \in all
      PROVE  r.id[3] = r.token /\ (r.token[1] \in Gated => ~r.enabled)
  <2>1. PICK c \in ExternalChains, s \in Symbols : r \in pair(c, s)
    OBVIOUS
  <2>2. r.token = asset(c, s).id
    BY <2>1 DEF DefineHubRoutePair
  <2>3. r.id[3] = r.token
    BY <2>1 DEF DefineHubRoutePair, RouteId
  <2>4. asset(c, s).id[1] = c /\ (c \in Gated => ~asset(c, s).enabled)
    BY <1>2
  <2>5. r.token[1] = c
    BY <2>2, <2>4
  <2>6. r.enabled => asset(c, s).enabled
    <3>1. CASE on(c, s)
      BY <1>3, <3>1
    <3>2. CASE ~on(c, s)
      <4>1. ~r.enabled
        BY <2>1, <3>2 DEF DefineHubRoutePair
      <4> QED BY <4>1
    <3> QED BY <3>1, <3>2
  <2> QED BY <2>3, <2>4, <2>5, <2>6
<1> HIDE DEF assets, all
<1>6. Index(assets)[t] \in assets /\ Index(assets)[t].id = t
  BY <1>1, BuiltTokens, IndexEntry
<1>7. ASSUME NEW id \in {RouteId(t[1], Hub, t), RouteId(Hub, t[1], t)} PROVE ~Built.routes[id].enabled
  <2>1. id \in RouteIds /\ id[3] = t
    BY DEF RouteIds, RouteId
  <2>2. Index(all)[id] \in all /\ Index(all)[id].id = id
    BY <1>1, <2>1, BuiltRoutes, IndexEntry
  <2>3. Index(all)[id].token = t
    BY <1>5, <2>1, <2>2
  <2> QED BY <1>1, <1>5, <2>2, <2>3
<1> QED BY <1>1, <1>4, <1>6, <1>7

LEMMA BuiltFields ==
    DOMAIN Built = {"environment", "chains", "tokens", "routes"}
BY DEF Built, BuildMockRegistry

\* The reverse of a route is one too.
LEMMA ReverseIds ==
    ASSUME NEW id \in RouteIds
    PROVE  RouteId(id[2], id[1], id[3]) \in RouteIds
BY DEF RouteIds, RouteId

LEMMA WrittenRoutes ==
    /\ DOMAIN Written.routes \subseteq RouteIds
    /\ \A id \in DOMAIN Written.routes : DOMAIN Written.routes[id] = RouteFields
<1>1. Written.routes = [id \in {i \in RouteIds : ~Edited("routeRemoved", i)} |-> WrittenRoute(id, Built.routes)]
  BY BuiltFields, BuiltRoutes DEF Written
<1>2. ASSUME NEW id \in RouteIds PROVE DOMAIN WrittenRoute(id, Built.routes) = RouteFields
  BY BuiltRoutes, ReverseIds DEF WrittenRoute
<1> QED BY <1>1, <1>2

LEMMA WrittenTokens ==
    /\ DOMAIN Written.tokens = TokenIds
    /\ \A t \in TokenIds : TokenShape(Written.tokens[t], t)
<1>1. Written.tokens = [t \in TokenIds |-> WrittenToken(Built.tokens[t], t)]
  BY BuiltFields, BuiltTokens DEF Written
<1>2. ASSUME NEW t \in TokenIds PROVE TokenShape(WrittenToken(Built.tokens[t], t), t)
  <2> DEFINE b == Built.tokens[t]
             ends == b.representations
             w == WrittenToken(b, t)
  <2>1. TokenShape(b, t)
    BY BuiltTokens
  <2> HIDE DEF b
  <2>2. \A c \in {t[1], Hub} : DOMAIN WrittenRepresentation(ends[c], t, c) = RepresentationFields
    BY <2>1 DEF WrittenRepresentation, TokenShape
  <2>3. DOMAIN w = TokenFields
    BY <2>1 DEF WrittenToken, TokenShape
  <2>4. w.representations = [c \in DOMAIN ends |-> WrittenRepresentation(ends[c], t, c)]
    BY <2>1 DEF WrittenToken, TokenShape, TokenFields
  <2>5. DOMAIN ends = {t[1], Hub}
    BY <2>1, Zenon DEF TokenShape
  <2> HIDE DEF w, ends
  <2>6. TokenShape(w, t)
    BY <2>2, <2>3, <2>4, <2>5 DEF TokenShape
  <2> QED BY <2>6, Zenon DEF w, b
<1> QED BY <1>1, <1>2

\* A site is what is written with the artifacts folded in, entry by entry.
LEMMA SiteRoutes ==
    /\ DOMAIN Site.routes = DOMAIN Written.routes
    /\ \A id \in DOMAIN Site.routes : Site.routes[id] = HydrateRoute(Written.routes[id], Site.tokens)
BY DEF Site, Hydrate

LEMMA SiteTokens ==
    /\ DOMAIN Site.tokens = TokenIds
    /\ \A t \in TokenIds : Site.tokens[t] = HydrateToken(Written.tokens[t], t, Artifacts)
BY WrittenTokens DEF Site, Hydrate

\* Hydration changes the routers of a route and nothing else.
LEMMA HydratedRoute ==
    ASSUME NEW route, DOMAIN route = RouteFields, NEW tokens
    PROVE  LET hydrated == HydrateRoute(route, tokens)
           IN  /\ hydrated.id = route.id /\ hydrated.enabled = route.enabled
               /\ hydrated.source = route.source /\ hydrated.destination = route.destination
               /\ hydrated.token = route.token /\ hydrated.limits = route.limits
               /\ hydrated.sourceRouter =
                     RouterOf(tokens, route.token, route.source, route.sourceRouter)
               /\ hydrated.destinationRouter =
                     RouterOf(tokens, route.token, route.destination, route.destinationRouter)
BY DEF HydrateRoute, RouteFields

LEMMA RouterWhereDeployed ==
    ASSUME NEW tokens, NEW t \in DOMAIN tokens, NEW c, RepresentationDeployed(tokens[t], c), NEW named
    PROVE  RouterOf(tokens, t, c, named) = tokens[t].representations[c].router
BY DEF RepresentationDeployed, IsRepresentationDeployed, RouterOf

\* The routers of a route of a site whose asset is deployed at both ends.
LEMMA SiteRouters ==
    ASSUME NEW id \in DOMAIN Site.routes,
           Site.routes[id].token \in DOMAIN Site.tokens,
           RepresentationDeployed(Site.tokens[Site.routes[id].token], Site.routes[id].source),
           RepresentationDeployed(Site.tokens[Site.routes[id].token], Site.routes[id].destination)
    PROVE  LET r == Site.routes[id]
               representations == Site.tokens[r.token].representations
           IN  /\ r.sourceRouter = representations[r.source].router
               /\ r.destinationRouter = representations[r.destination].router
               /\ IsRouteDeployed(r)
<1> DEFINE w == Written.routes[id]
           r == Site.routes[id]
           representations == Site.tokens[r.token].representations
<1>1. DOMAIN w = RouteFields /\ r = HydrateRoute(w, Site.tokens)
  BY SiteRoutes, WrittenRoutes
<1> HIDE DEF w
<1>2. /\ w.source = r.source /\ w.destination = r.destination /\ w.token = r.token
      /\ r.sourceRouter = RouterOf(Site.tokens, w.token, w.source, w.sourceRouter)
      /\ r.destinationRouter = RouterOf(Site.tokens, w.token, w.destination, w.destinationRouter)
  BY <1>1, HydratedRoute
<1>3. /\ r.token \in DOMAIN Site.tokens
      /\ RepresentationDeployed(Site.tokens[r.token], r.source)
      /\ RepresentationDeployed(Site.tokens[r.token], r.destination)
  OBVIOUS
<1> HIDE DEF r
<1>4. RouterOf(Site.tokens, r.token, r.source, w.sourceRouter) = representations[r.source].router
  BY <1>3, RouterWhereDeployed
<1>5. RouterOf(Site.tokens, r.token, r.destination, w.destinationRouter)
         = representations[r.destination].router
  BY <1>3, RouterWhereDeployed
<1>6. Zero \notin {representations[r.source].router, representations[r.destination].router}
  BY <1>3 DEF RepresentationDeployed, IsRepresentationDeployed
<1> QED BY <1>2, <1>4, <1>5, <1>6 DEF r, IsRouteDeployed
----------------------------------------------------------------------------
\* The routers a transfer goes through are those of its asset, at both ends, in
\* whatever way the registry was written and deployed.
THEOREM RoutersTheorem == ReleaseSpec => []RoutersMatchTheAsset
<1>1. RoutersMatchTheAsset
  BY SiteRouters DEF RoutersMatchTheAsset, UsableRoutes, IsRouteUsable
<1> QED BY <1>1, PTL

LEMMA UsableRouteIsFiled ==
    ASSUME Loads, NEW r \in UsableRoutes(Site)
    PROVE  /\ RouteId(r.source, r.destination, r.token) \in DOMAIN Site.routes
           /\ r = Site.routes[RouteId(r.source, r.destination, r.token)]
<1>1. PICK id \in DOMAIN Site.routes : r = Site.routes[id]
  BY DEF UsableRoutes
<1>2. id = RouteId(Written.routes[id].source, Written.routes[id].destination, Written.routes[id].token)
  BY <1>1, SiteRoutes DEF Loads, Refuses, MisfiledRoute
<1> QED BY <1>1, <1>2, SiteRoutes, WrittenRoutes, HydratedRoute

\* Whatever the selectors offer, one after the other, is a usable route.
THEOREM OffersTheorem == ReleaseSpec => []OffersResolve
<1>1. OffersResolve
  <2>1. SUFFICES ASSUME Loads, NEW r \in UsableRoutes(Site)
                 PROVE  LET selection == [source |-> r.source, destination |-> r.destination, token |-> r.token]
                            route == Site.routes[RouteIdOf(selection)]
                        IN  /\ ResolveRoute(Site, selection) = "ok"
                            /\ <<route.source, route.destination, route.token>>
                                  = <<r.source, r.destination, r.token>>
    BY DEF OffersResolve, SelectableSourceChains, SelectableDestinationChains, SelectableTokens
  <2> QED BY <2>1, UsableRouteIsFiled DEF RouteIdOf, ResolveRoute, UsableRoutes, IsRouteUsable
<1> QED BY <1>1, PTL

\* Of a released site, the way back of a usable route exists, and if it is
\* enabled nothing else keeps it from being usable.
THEOREM WayBackTheorem == ReleaseSpec => []WayBack
<1>1. WayBack
  <2>1. SUFFICES ASSUME Passes, NEW r \in UsableRoutes(Site)
                 PROVE  LET back == RouteId(r.destination, r.source, r.token)
                        IN  /\ back \in DOMAIN Site.routes
                            /\ Site.routes[back].enabled => IsRouteUsable(Site, Site.routes[back])
    BY DEF WayBack
  <2> DEFINE id == RouteId(r.source, r.destination, r.token)
             back == RouteId(r.destination, r.source, r.token)
             b == Site.routes[back]
  <2>2. id \in DOMAIN Site.routes /\ r = Site.routes[id] /\ r.enabled
    BY <2>1, UsableRouteIsFiled DEF Passes, UsableRoutes, IsRouteUsable
  <2>3. ValidateRoutes(Site)
    BY <2>1 DEF Passes, ValidateRegistries
  <2>4. back \in DOMAIN Site.routes
    BY <2>2, <2>3 DEF ValidateRoutes, MayBeEnabled
  <2>5. b.source = r.destination /\ b.destination = r.source /\ b.token = r.token
    BY <2>3, <2>4 DEF ValidateRoutes, RouteId
  <2>6. /\ r.token \in DOMAIN Site.tokens /\ Site.tokens[r.token].enabled
        /\ \A c \in {r.source, r.destination} :
              /\ RepresentationDeployed(Site.tokens[r.token], c)
              /\ c \in DOMAIN Site.chains /\ Site.chains[c].enabled
    BY <2>1 DEF UsableRoutes, IsRouteUsable
  <2> HIDE DEF back
  <2>7. IsRouteDeployed(b)
    BY <2>4, <2>5, <2>6, SiteRouters
  <2> HIDE DEF b
  <2>8. b.enabled => IsRouteUsable(Site, b)
    BY <2>5, <2>6, <2>7 DEF IsRouteUsable
  <2> QED BY <2>4, <2>8 DEF b, back
<1> QED BY <1>1, PTL

\* In production an enabled route of a released site can be used.
THEOREM ProductionTheorem == ReleaseSpec => []ProductionIsUsable
<1>1. ProductionIsUsable
  <2>1. SUFFICES ASSUME Passes, IsProduction(environment), NEW id \in DOMAIN Site.routes,
                        Site.routes[id].enabled
                 PROVE  IsRouteUsable(Site, Site.routes[id])
    BY DEF ProductionIsUsable
  <2> DEFINE r == Site.routes[id]
             token == Site.tokens[r.token]
  <2>2. ValidateRoutes(Site) /\ ValidateTokens(Site) /\ IsProduction(Site.environment)
    <3>1. Built.environment = environment
      BY DEF Built, BuildMockRegistry
    <3>2. Written.environment = Built.environment
      BY BuiltFields DEF Written
    <3>3. Site.environment = Written.environment
      BY DEF Site, Hydrate
    <3> QED BY <2>1, <3>1, <3>2, <3>3 DEF Passes, ValidateRegistries
  <2>3. CarriesItsAsset(Site, r) /\ MayBeEnabled(Site, r) /\ ProductionRoute(r)
        /\ {r.source, r.destination} \subseteq DOMAIN Site.chains
    BY <2>1, <2>2 DEF ValidateRoutes
  <2>4. r.token \in DOMAIN Site.tokens /\ token.enabled
        /\ {r.source, r.destination} \subseteq DOMAIN token.representations
    BY <2>1, <2>3 DEF CarriesItsAsset
  <2>5. IsTokenDeployed(token)
    BY <2>2, <2>4 DEF ValidateTokens, ProductionToken
  <2> QED BY <2>1, <2>3, <2>4, <2>5 DEF IsRouteUsable, MayBeEnabled, ProductionRoute,
             RepresentationDeployed, IsTokenDeployed
<1> QED BY <1>1, PTL

\* Of a released site, a domain id and a chain id name at most one chain.
THEOREM OriginsTheorem == ReleaseSpec => []OriginsAreUnambiguous
<1>1. ASSUME NEW S, \A c, d \in S : c = d PROVE Cardinality(S) <= 1
  <2>1. CASE S = {}
    BY <2>1, FS_EmptySet
  <2>2. CASE S # {}
    <3>1. PICK c : S = {c}
      BY <1>1, <2>2
    <3>2. Cardinality({c}) = 1
      BY FS_Singleton, Zenon
    <3> QED BY <3>1, <3>2
  <2> QED BY <2>1, <2>2
<1>2. OriginsAreUnambiguous
  <2>1. SUFFICES ASSUME Passes, NEW n \in Chains
                 PROVE  /\ Cardinality(ChainsByDomainId(Site, n)) <= 1
                        /\ Cardinality(ChainsByEvmChainId(Site, n)) <= 1
    BY DEF OriginsAreUnambiguous
  <2>2. UniqueIds(Site.chains)
    BY <2>1 DEF Passes, ValidateRegistries, ValidateChains
  <2>3. \A c, d \in ChainsByDomainId(Site, n) : c = d
    BY <2>2 DEF UniqueIds, ChainsByDomainId, IsChainConfigured
  <2>4. \A c, d \in ChainsByEvmChainId(Site, n) : c = d
    BY <2>2 DEF UniqueIds, ChainsByEvmChainId, IsChainConfigured
  <2> QED BY <1>1, <2>3, <2>4
<1> QED BY <1>2, PTL

\* A router written by hand is the address of a deployment, never zero.
LEMMA WrittenRouter ==
    ASSUME NEW e \in Ends
    PROVE  LET written == Written.tokens[e[1]].representations[e[2]]
           IN  written.router \in {Undefined, RouterAddress(e[1], e[2], 1)}
<1> DEFINE t == e[1]
           c == e[2]
           built == Built.tokens[t].representations
<1>1. t \in TokenIds /\ c \in {t[1], Hub}
  BY DEF Ends
<1>2. built[c].router = Undefined /\ DOMAIN built[c] = RepresentationFields
  BY <1>1, BuiltTokenRouters, BuiltTokens DEF TokenShape
<1>3. Written.tokens[t] = WrittenToken(Built.tokens[t], t)
  BY <1>1, BuiltFields, BuiltTokens DEF Written
<1>4. Written.tokens[t].representations[c] = WrittenRepresentation(built[c], t, c)
  BY <1>1, <1>3, BuiltTokens DEF WrittenToken, TokenShape, TokenFields
<1> HIDE DEF built, t, c
<1>5. WrittenRepresentation(built[c], t, c).router \in {Undefined, RouterAddress(t, c, 1)}
  BY <1>2 DEF WrittenRepresentation, RepresentationFields
<1> QED BY <1>4, <1>5 DEF t, c

\* The address and the router of a representation that were written are those
\* the site uses, if it loads at all.  Nothing is claimed of the canonical
\* address beside the representations, nor of the routers that routes name.
THEOREM RepresentationsTheorem == ReleaseSpec => []RepresentationsAreKept
<1>1. RepresentationsAreKept
  <2>1. SUFFICES ASSUME Loads, NEW e \in Ends
                 PROVE  LET before == Written.tokens[e[1]].representations[e[2]]
                            after == Site.tokens[e[1]].representations[e[2]]
                        IN  /\ before.address # Zero => after.address = before.address
                            /\ before.router # Undefined => after.router = before.router
    BY DEF RepresentationsAreKept
  <2> DEFINE t == e[1]
             c == e[2]
             before == Written.tokens[t].representations[c]
             after == Site.tokens[t].representations[c]
             deployed == DeployedAs(Artifacts, t, c)
  <2>2. t \in TokenIds /\ c \in {t[1], Hub} /\ c \in Chains
    BY DEF Ends
  <2>3. after = HydrateRepresentation(before, t, c, Artifacts)
    <3>1. Site.tokens[t] = HydrateToken(Written.tokens[t], t, Artifacts)
      BY <2>2, SiteTokens
    <3>2. DOMAIN Written.tokens[t] = TokenFields /\ DOMAIN Written.tokens[t].representations = {t[1], Hub}
      BY <2>2, WrittenTokens DEF TokenShape
    <3> HIDE DEF t, c
    <3>3. HydrateToken(Written.tokens[t], t, Artifacts).representations
             = [d \in {t[1], Hub} |->
                   HydrateRepresentation(Written.tokens[t].representations[d], t, d, Artifacts)]
      BY <3>2 DEF HydrateToken, TokenFields
    <3> QED BY <2>2, <3>1, <3>3
  <2>4. DOMAIN before = RepresentationFields
    BY <2>2, WrittenTokens DEF TokenShape
  <2>5. before.router # Undefined => before.router # Zero
    BY <2>2, WrittenRouter, ReleaseAssumption
  <2>6. \A entry \in deployed : ~Replaces(before, entry)
    BY <2>1, <2>2, WrittenTokens DEF Loads, Refuses, TokenShape
  <2> HIDE DEF before, after
  <2>7. CASE deployed = {}
    BY <2>3, <2>7 DEF HydrateRepresentation, before, after
  <2>8. CASE deployed # {}
    <3>1. PICK entry \in deployed : after = [before EXCEPT !.address = entry.token, !.router = entry.router]
      BY <2>3, <2>8 DEF HydrateRepresentation
    <3>2. after.address = entry.token /\ after.router = entry.router
      BY <2>4, <3>1 DEF RepresentationFields
    <3> QED BY <2>5, <2>6, <3>2 DEF Replaces, before, after
  <2> QED BY <2>7, <2>8 DEF before, after
<1> QED BY <1>1, PTL
----------------------------------------------------------------------------
(* The gate.                                                               *)

\* A usable route of a gated chain has had its asset and itself switched on.
LEMMA GatedNeedsTwoEdits ==
    ASSUME Loads, NEW r \in UsableRoutes(Site), {r.source, r.destination} \cap Gated # {}
    PROVE  \E id, t : Edited("routeOn", id) /\ Edited("tokenOn", t)
<1> DEFINE id == RouteId(r.source, r.destination, r.token)
           t == r.token
           reverse == RouteId(id[2], id[1], id[3])
<1>1. id \in DOMAIN Site.routes /\ r = Site.routes[id] /\ r.enabled
      /\ t \in DOMAIN Site.tokens /\ Site.tokens[t].enabled
  BY UsableRouteIsFiled DEF UsableRoutes, IsRouteUsable
<1>2. id \in RouteIds /\ t \in TokenIds
  BY <1>1, SiteRoutes, SiteTokens, WrittenRoutes
<1>3. {r.source, r.destination} = {t[1], Hub} /\ {id, reverse} = {RouteId(t[1], Hub, t), RouteId(Hub, t[1], t)}
  BY <1>2 DEF RouteIds, RouteId
<1>4. t[1] \in Gated
  BY <1>3, CatalogAssumption
<1>5. ~Built.tokens[t].enabled /\ ~Built.routes[id].enabled /\ ~Built.routes[reverse].enabled
  BY <1>2, <1>3, <1>4, GatedIsBuiltDisabled
<1> HIDE DEF id, t, reverse
<1>6. Written.routes[id].enabled /\ Written.routes[id] = WrittenRoute(id, Built.routes)
  <2>1. Written.routes[id].enabled
    BY <1>1, SiteRoutes, WrittenRoutes, HydratedRoute
  <2>2. Written.routes = [i \in {j \in RouteIds : ~Edited("routeRemoved", j)} |-> WrittenRoute(i, Built.routes)]
    BY BuiltFields, BuiltRoutes DEF Written
  <2> QED BY <1>1, <2>1, <2>2, SiteRoutes
<1>7. Written.tokens[t].enabled /\ Written.tokens[t] = WrittenToken(Built.tokens[t], t)
  <2>1. Written.tokens[t] = WrittenToken(Built.tokens[t], t)
    BY <1>2, BuiltFields, BuiltTokens DEF Written
  <2>2. Site.tokens[t] = HydrateToken(Written.tokens[t], t, Artifacts) /\ DOMAIN Written.tokens[t] = TokenFields
    BY <1>2, SiteTokens, WrittenTokens DEF TokenShape
  <2>3. HydrateToken(Written.tokens[t], t, Artifacts).enabled = Written.tokens[t].enabled
    BY <2>2 DEF HydrateToken, TokenFields
  <2> QED BY <1>1, <2>1, <2>2, <2>3
<1>8. Edited("routeOn", id)
  <2>1. WrittenRoute(id, Built.routes).enabled \in
           {Switched(Built.routes[i].enabled, "routeOn", "routeOff", id) : i \in {id, reverse}}
    BY <1>2, BuiltRoutes, ReverseIds DEF WrittenRoute, RouteFields, reverse
  <2> QED BY <1>5, <1>6, <2>1 DEF Switched
<1>9. Edited("tokenOn", t)
  <2>1. DOMAIN Built.tokens[t] = TokenFields
    BY <1>2, BuiltTokens DEF TokenShape
  <2>2. WrittenToken(Built.tokens[t], t).enabled = Switched(Built.tokens[t].enabled, "tokenOn", "tokenOff", t)
    BY <2>1 DEF WrittenToken, TokenFields
  <2> QED BY <1>5, <1>7, <2>2 DEF Switched
<1> QED BY <1>8, <1>9

\* Finitely many entries are edited.
LEMMA EditsAreFinite == ReleaseSpec => []IsFiniteSet(edits)
<1>1. ReleaseInit => IsFiniteSet(edits)
  BY FS_EmptySet DEF ReleaseInit
<1>2. IsFiniteSet(edits) /\ [ReleaseNext]_releaseVars => IsFiniteSet(edits)'
  BY FS_AddElement DEF ReleaseNext, releaseVars, EnableChain, Record, Deploy, Edit
<1> QED BY <1>1, <1>2, PTL DEF ReleaseSpec

\* No single edit removes a gate: it takes the asset's switch and the route's.
THEOREM GatedTheorem == ReleaseSpec => []GatedNeverOffered
<1>1. IsFiniteSet(edits) => GatedNeverOffered
  <2>1. SUFFICES ASSUME IsFiniteSet(edits), Loads, Cardinality(edits) <= 1, NEW r \in UsableRoutes(Site),
                        {r.source, r.destination} \cap Gated # {}
                 PROVE  FALSE
    BY DEF GatedNeverOffered
  <2>2. PICK id, t : Edited("routeOn", id) /\ Edited("tokenOn", t)
    BY <2>1, GatedNeedsTwoEdits
  <2> DEFINE two == {[kind |-> "routeOn", at |-> id], [kind |-> "tokenOn", at |-> t]}
  <2>3. two \subseteq edits
    BY <2>2 DEF Edited
  <2>4. [kind |-> "routeOn", at |-> id] # [kind |-> "tokenOn", at |-> t]
    OBVIOUS
  <2>5. Cardinality(two) = 2
    <3>1. IsFiniteSet({[kind |-> "routeOn", at |-> id]}) /\ Cardinality({[kind |-> "routeOn", at |-> id]}) = 1
      BY FS_Singleton, Zenon
    <3>2. two = {[kind |-> "routeOn", at |-> id]} \cup {[kind |-> "tokenOn", at |-> t]}
      OBVIOUS
    <3> HIDE DEF two
    <3> QED BY <2>4, <3>1, <3>2, FS_AddElement
  <2> HIDE DEF two
  <2>6. Cardinality(two) <= Cardinality(edits)
    BY <2>1, <2>3, FS_Subset
  <2>7. Cardinality(edits) \in Nat
    BY <2>1, FS_CardinalityType
  <2> QED BY <2>1, <2>5, <2>6, <2>7
<1> QED BY <1>1, EditsAreFinite, PTL
=============================================================================
