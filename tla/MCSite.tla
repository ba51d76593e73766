------------------------------- MODULE MCSite -------------------------------
(* The parts of the site around a transfer, and the two scripts that ask   *)
(* the networks.  They share no state: a behaviour is one of one of them,  *)
(* while the others stay as they are.                                      *)
EXTENDS Header, Picker, Watch, LiveCheck, AmountField

CONSTANTS ark, base, sepolia, usd, eth, out, back,
          collateral, synthetic, indivisible, Letter, devnet, testnet, first, second, third, relayer, validator

VARIABLE part

siteVars == <<part, headerVars, pickerVars, watchVars, registryVars, monitorVars, amountVars>>
----------------------------------------------------------------------------
Offer(s, d, t) == [source |-> s, destination |-> d, asset |-> t]

\* Both assets between the first two, one of them only there and back, and an
\* asset that cannot come back.
MCOffered == {Offer(ark, base, usd), Offer(base, ark, usd), Offer(ark, sepolia, usd),
              Offer(ark, sepolia, eth), Offer(sepolia, ark, eth)}
MCAssets == <<usd, eth>>
MCMatching == [e |-> {eth, base}]

MCSource == [r \in Routes |-> IF r = back THEN base ELSE ark]
MCDestination == [r \in Routes |-> IF r = back THEN ark ELSE base]

\* Of the testnet, one chain with two endpoints, the first one of another
\* chain; the devnet agrees.
MCChecked == <<testnet, devnet>>
MCChainsOf == testnet :> {sepolia, base} @@ devnet :> {ark}
MCEndpoints == sepolia :> <<first, second>> @@ base :> <<>> @@ ark :> <<third>>
MCRegistered == sepolia :> [id |-> 1, domain |-> 1] @@ base :> [id |-> Unconfigured, domain |-> Unconfigured]
                @@ ark :> [id |-> 3, domain |-> 3]
MCReported == first :> [id |-> 2, domain |-> 1] @@ second :> [id |-> 1, domain |-> 1]
              @@ third :> [id |-> 3, domain |-> 3]

MCMonitored == <<ark, base>>
MCAgents == <<relayer, validator>>
\* The asset has more decimals on the chain where it is synthetic; of another
\* one there are only whole units, and the account has none.
MCDecimals == collateral :> 1 @@ synthetic :> 3 @@ indivisible :> 0
MCBalance == collateral :> 1234567 @@ synthetic :> 1000050 @@ indivisible :> 0
MCKeys == {0, 1, 9, Point, Comma, Letter}

MCLimits == relayer :> [warning |-> 4, critical |-> 2] @@ validator :> [warning |-> 2, critical |-> 1]
----------------------------------------------------------------------------
SiteInit ==
    /\ part \in {"header", "picker", "watch", "registry", "monitor", "amount"}
    /\ HeaderInit /\ PickerInit /\ WatchInit /\ RegistryInit /\ MonitorInit /\ AmountInit
    /\ part # "header" => path = "/"
    /\ part # "amount" => held = indivisible
    /\ part # "picker" => selection = Offer(ark, base, usd)
    /\ IF part = "watch"
         THEN /\ view # "another" /\ pace[ark] = "fast"
              /\ \/ pace[base] = "fast" /\ fee[base] = 1 /\ fee[ark] # NoAnswer
                 \/ pace[base] # "slow" /\ fee = [c \in Chains |-> NoAnswer]
         ELSE /\ view = "another" /\ route = out
              /\ \A c \in Chains : pace[c] = "fast" /\ fee[c] = 1

HeaderMoves ==
    /\ part = "header" /\ HeaderNext
    /\ UNCHANGED <<part, pickerVars, watchVars, registryVars, monitorVars, amountVars>>

PickerMoves ==
    /\ part = "picker" /\ PickerNext
    /\ UNCHANGED <<part, headerVars, watchVars, registryVars, monitorVars, amountVars>>

WatchMoves ==
    /\ part = "watch" /\ WatchNext
    /\ UNCHANGED <<part, headerVars, pickerVars, registryVars, monitorVars, amountVars>>

RegistryMoves ==
    /\ part = "registry" /\ RegistryNext
    /\ UNCHANGED <<part, headerVars, pickerVars, watchVars, monitorVars, amountVars>>

MonitorMoves ==
    /\ part = "monitor" /\ MonitorNext
    /\ UNCHANGED <<part, headerVars, pickerVars, watchVars, registryVars, amountVars>>

AmountMoves ==
    /\ part = "amount" /\ AmountNext
    /\ UNCHANGED <<part, headerVars, pickerVars, watchVars, registryVars, monitorVars>>

SiteNext == HeaderMoves \/ PickerMoves \/ WatchMoves \/ RegistryMoves \/ MonitorMoves \/ AmountMoves

SiteSpec == SiteInit /\ [][SiteNext]_siteVars /\ PickerFairness /\ WatchFairness
=============================================================================
