------------------------------- MODULE MCPage -------------------------------
(***************************************************************************)
(* Two external chains with one asset each, both deployed with the hub:    *)
(* a site on which every route is usable, and one on which the way back of *)
(* one asset is switched off.                                              *)
(***************************************************************************)
EXTENDS Page

CONSTANTS ark, sepolia, base, usdc, friend, watch1, watch2

MCExternalChains == {sepolia, base}
MCSymbols == {usdc}
MCAddresses == {friend}
MCLimitIds == {watch1, watch2}

Deployed(c) ==
    LET tokens == {TokenId(e, usdc) : e \in IF c = ark THEN MCExternalChains ELSE {c}}
    IN  [chain |-> c, environment |-> "testnet", chainId |-> c, domain |-> c,
         tokens |-> [t \in tokens |-> [token |-> <<"token", t, c>>, router |-> <<"router", t, c>>]]]

Open ==
    Hydrate(BuildMockRegistry("testnet", [c \in Chains |-> ChainEntry(c, "testnet", TRUE)], MCSymbols),
            {Deployed(c) : c \in Chains})

WayBack == RouteId(ark, base, TokenId(base, usdc))

MCSites == {Open, [Open EXCEPT !.routes[WayBack].enabled = FALSE]}
=============================================================================
