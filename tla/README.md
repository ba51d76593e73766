# ArkBridge in TLA+

A verification development of ArkBridge: models of the contracts that gate a
bridge transfer, of the two chains they sit between, of the off-chain programs
that watch them, of the registries the site is built from, of the SDK client
and the web pages in front of it all; TLC runs on small instances, and TLAPS
proofs for every value of the constants. Paths are relative to the repository.

## 1. The system

ArkBridge moves assets between chains over Hyperlane warp routes. An asset's
collateral is locked by a router on one chain and a synthetic is minted by a
router on another. ArkBridge does not fork the routers: it attaches a guard to
Hyperlane's extension points.

    user --transferRemote--> router --dispatch--> Mailbox --postDispatch--> ArkBridgeGuardHook
                                                               |  authorizeTransfer -> ArkBridgeGuard
                                                               |                         |- ArkBridgePauseController.assertNotPaused
                                                               |                         '- ArkBridgeRateLimiter.consume
                                                               '- inner hook: insert into the Merkle tree
    validators sign the tree; a relayer calls Mailbox.process on the other chain
    Mailbox --verify--> [ArkBridgeRecoveryIsm -->] ArkBridgeGuardIsm --> multisig, then ArkBridgeGuard
            --handle--> router: mint or release

    chain-registry, token-registry + deployments/*.json --hydrate, validate--> the site's catalog
    page (apps/web) --> SDK client --> wallet, RPC;   status, activity <-- polls of the chains

| Component | State | Operations | Hard behaviour |
|---|---|---|---|
| `ArkBridgeRateLimiter` | limits and two buckets per route | setLimits, consume, available | rounding, overflow, settle order, splitting |
| `ArkBridgePauseController` | paused scopes | pause*, unpause*, isPaused, assertNotPaused | several scopes at once, both ends of a route |
| `ArkBridgeGuard` | routes, tokens, callers | register*, deregister*, authorizeTransfer, availableCapacity | two code paths (view, gate) that must agree; configuration between transfers |
| `ArkBridgeGuardHook`, `ArkBridgeGuardIsm` | route bindings | bindRoute, postDispatch, verify | forwarding, order of authentication and accounting, retries, late bindings |
| `ArkBridgeRecoveryIsm` | cleared messages | allow, revoke, verify | single use, installed on a live route |
| Hyperlane (external) | tree, signatures, delivered | dispatch, process | lost, repeated, late delivery |
| `scripts/operations/check-solvency.mjs` | none | two reads and a verdict | reads of two chains are not atomic |
| `packages/indexer` | records by transfer | pending, track, trackPending | late and failing reads, overlapping passes |
| `chain-registry`, `token-registry`, `config` | registries, artifacts | build, hydrate, validate, select, resolve | edits and redeployments of one end, gates, ids that collide |
| `packages/sdk`, bridge card | the call under way, the form, the receipt | select, type, approve, bridge, reload | check-then-act over several awaits, stale caches, fields that come and go |
| activity, transaction and receipt pages | stored records, cached answers | list, follow, poll | account and page change while a call runs, two tabs, lost answers |
| route health, fees, status page | cached answers | ask, answer, gate | answers that are late or for another route |
| header, pickers, dialogs | what is open, searched, highlighted | open, close, search, pick | timers that race the user |
| `config/cli/check-chains.ts`, `check-agent-balances.mjs` | lines, worst level | read, judge, exit | requests that fail between two that answer |

What makes each correct:

- limiter: no split, delay or limit change moves more than the caps and their
  refill allow (INV-11); what it advertises is what it accepts;
- pause, guard: value moves only on registered, unpaused routes for the
  registered token (INV-01, 02, 03, 12, 15);
- hook, modules: a credit has a cause (INV-09), happens once (INV-06), and is
  counted by its gate (INV-12, INV-13), where nothing else counts but a second
  call of the hook for the last dispatch; what is dispatched is delivered (SEC-03);
- the asset: collateral = synthetic + value in transit (INV-07, INV-08);
- indexer: the status shown is earned, regresses only where overlapping passes
  write over each other, and ends;
- registries: what is offered resolves, to the asset's own routers; a gated
  chain is never offered; what can be entered can be left; the written address
  and router of a representation are never silently replaced;
- client and card: nobody is asked to sign what reverts unless something changed
  in between; a transfer goes where the form says, in the amount it says; the
  button is freed;
- activity: what is shown as arrived has arrived, an error that says nothing
  moved is right, no account sees or loses another's history, and a page that
  stays open comes to show the delivery;
- watch: an outage closes the button and shows on the status page; its end opens
  the button again;
- pickers and header: a page is never left inert, a menu not taken away from
  under the pointer, and a pick resolves to a route;
- scripts: a verdict says what was heard, no more and no less.

## 2. The modules

| Module | Models | State, and the code it stands for |
|---|---|---|
| `RateLimiter` | `ArkBridgeRateLimiter.sol` | `limits`, `hourly`, `daily` are the three mappings, `now` is `block.timestamp`. `FirstLimits` and `Reconfigure` are the two branches of setLimits, `Consume` is consume; `Projected`, `Settled`, `Available` are `_projected`, `_settle`, `available`. `window` is an observer: it counts what a route moved since an arbitrary moment (`OpenWindow`) and the largest caps since. |
| `PauseController` | `ArkBridgePauseController.sol` | `paused`, the set of scopes whose flag is set; `IsPaused` and `AssertNotPaused` are the two readers |
| `Guard` | `ArkBridgeGuard.sol`, composing the two above | one action per entry point; `AuthorizeTransfer` is the checks, then `Consume`; `AvailableCapacity` is the view |
| `Gate` | abstract | what a guard promises the bridge: an allowance per route, used up by what is authorized there and by nothing else |
| `Bridge` | hook, both security modules, Hyperlane, one asset on two chains | `Transfer` is a whole transferRemote transaction (debit, dispatch, hook), `Process` a whole Mailbox.process (verify, handle); a revert is a transaction that is not a step. `PostDispatchAgain` is the hook called by anyone else: ArkBridgeGuardHook.sol:67 does not ask who calls it, so a message just dispatched can be counted again, without moving anything. `allowance` and `moved` are four gates, one per chain and direction |
| `Ledger` | abstract | what the bridge promises users: one debit, one credit, the same amount |
| `SolvencyCheck` | `check-solvency.mjs`, beside `Bridge` | `ReadLocked`, then `ReadClaimsAndReport`, with any bridge step in between |
| `Indexer` | `packages/indexer` | `facts` is what happened on the chains, `store` the records, `snapshot` and `todo` a running trackPending (the records it took, the places in line it has yet to observe); `PassStep` is one iteration: observe some part of the facts, derive, advance, write, or throw. `overtaken` observes: what another pass has written since a pass took its records |
| `Catalog` | `chain-registry`, `token-registry`, `config/src/{artifacts,hydrate,validate}.ts`, `bridge-core/src/routing.ts` | operators only: the builder, the parsing and folding of artifacts with every refusal, every error of the validation, the selectors, the flip and the resolution |
| `Release` | the life of a registry, over `Catalog` | `enabled`, `recorded` (the chains whose artifact is written, with or without assets), `versions` (deployments of an asset on a chain) and `edits` (entries changed by hand); `Site` is what `loadRegistries()` makes of them, `Loads` and `Passes` are the build and CI |
| `Client` | `packages/sdk/src/client.ts` as one page of `apps/web` uses it | `balance`, `allowance`, `capacity` and `txs` are the chains as one account sees them; `call` is the promise `approve()` or `bridge()` is executing, one action per await; `selected`, `submission`, `records` are the page's form, receipt and stored activity. `lost` and `steady` observe: signed without the page being told, nothing read has changed |
| `Card` | `useBridgeState.ts` and `ctaState`, beside `Client` | the query cache, with the failures that the button tells apart, and the state of the button computed from it; a click does what the button says |
| `Page` | `BridgeShell.tsx` with its modes, `CounterpartyField`, `RecipientField`, `limitOrders.ts`, `counterparties.ts`, `deepLink.ts` | the route selected among those a `Catalog` offers, what each address field shows and what BridgeShell was told, the book and the armed limits, shared with other tabs |
| `Activity` | `activityStore.ts`, `useTransferStatus.ts`, the three pages that show a transfer, `normalizeError` | `stored` is the browser's list, `listed` and `found` what a page read of it, `answers` the query cache, `calls` the calls under way with the account they were started with |
| `Watch` | `useRouteHealth.ts`, `useBaseFee.ts`, the gates of the card, `StatusBoard.tsx` | `pace`, `capacity`, `fee` are the world; `asked` the requests under way; `health`, `baseFee`, `board` the last answers. A chain that is down stands for one without an endpoint too, and an answer without a base fee is `NoAnswer` |
| `Picker` | `Dialog.tsx`, `SearchList.tsx`, `TokenSelector.tsx`, `ChainSelector.tsx`, `PanelSearch.tsx` | `opened` is React's state, `modal` the element's, `closing` its mark, `timers` the animations; `query` and `active` the search and its highlight; `Remount` is the form giving way to a receipt and coming back |
| `Filters` | `Array.filter`, as `activityStore.ts` and `SearchList.tsx` use it | operators only: what is left of a list, by the places kept |
| `Header` | `SiteHeader.tsx`, `navigation.ts` | the open menu, the drawer, the closing timer and the pointer |
| `LiveCheck` | `cli/check-chains.ts`, `rpc.ts`, `check-agent-balances.mjs` | per chain the endpoint tried, the request awaited and the lines written; the monitor's place and worst level |
| `AmountField` | `amounts.ts` and the amount of the card | `text` and the representation `held`; the conversions are operators on texts of symbols |
| `GuardProofs`, `BridgeProofs`, `ClientProofs`, `ReleaseProofs`, `PageProofs`, `ReaderProofs`, `ActivityProofs`, `SiteProofs` | proofs | see section 5; `GuardProofs` has the limiter's too, `BridgeProofs` the solvency check's, `ClientProofs` the card's, `ActivityProofs` the pickers', `ReaderProofs` those of the programs that only read: the indexer and the two scripts of `LiveCheck`; `SiteProofs` those of the amount and the header |
| `MC*` | instances | constants for TLC; `MCSite` puts `Header`, `Picker`, `Watch`, `LiveCheck` and `AmountField` side by side, `MCClient` the two programs that follow a transfer, `Client` and `Indexer` |

`Guard` implements `RateLimiter` (the same variables) and `Gate`; `Bridge` is
built on `Gate`'s `Pass` alone, so what holds of it needs of a guard only what
the run `guard` shows it keeps. `Bridge` implements `Ledger`. `SolvencyCheck`
and `Card` are compositions with what they watch; `Release` and `Page` are built
on `Catalog`.

The five parts of `MCSite` share no state with each other. A behaviour of its
specification is one of one part (`part`, chosen at the start; `LiveCheck` has
two) while the others stay as they are, so the run checks each part as a run of
its own would. `MCClient` does the same with its two.

Operators whose comment begins "Mutant of" are deliberately broken variants of
the definition that follows: the dropped check, the missing reset, the swapped
order a change to the code could introduce. No specification uses them. Putting
one in the place of its original makes a property fail, which shows that the
property can fail; `PROJECT.json` pairs each property with one.

Conventions. `uint256` amounts are naturals; a result above `MaxUint` reverts
where the contract's checked arithmetic does. Reverts leave no trace and are
absent steps. Roles: an entry point that needs a role is called by its holder;
`authorizeTransfer` alone is called by anyone, and the guard's own caller list
decides. `consume` is called by the guard only, the one consumer the deployment
grants the role to (`script/DeployGuard.s.sol:38-49`). Ids, addresses and
texts are model values or tuples of them, except in `AmountField`, whose
subject is a text.

## 3. The runs

| Run | States | What it shows |
|---|---|---|
| `limiter` | 42,576 | one route; amounts 0..3; five limit triples, of which two invalid and one overflowing (`MaxUint` 20); HOUR 2, DAY 5, time to 7, so both windows elapse and refills round |
| `guard` | 131,488 | two opposite routes, one token, two domains, one caller, up to symmetry: every order of configuration, pausing and transfers over a drain and a refill |
| `bridge` | 403,840 | two transfers out, one back, every gate open or closed, the hook called again by others, an outbound and an inbound gate bound late, recovery installed at any time, possibly a transfer stranded from the start |
| `operations` | 121,440 | two transfers out, one back, gates bound, recovery on one chain, with fairness, and the solvency check running again and again beside it |
| `client` | 103,035 | client 86,506: an account that approves and bridges between a collateral chain and the hub, both ways: every interleaving of the awaits of a call with the chains, the user, a reload and one change by others. Indexer 16,529: two passes that overlap, over a transfer with every history and every subset of its facts observed, behind one that is never mined |
| `release` | 161,280 | the hub and two external chains, one gated, with one asset each, on testnet and mainnet: every order of enabling, of writing the artifacts and of two deployments of each end, with one edit by hand of any kind |
| `page` | 237,696 | two sites, one of them with a route that has no way back; one address to name, two limits, a stored list of one; another tab and a release at any time |
| `activity` | 64,254 | two accounts, two transfers, room for one record each, errors that mention up to two things |
| `site` | 160,802 | header 240, pickers 20,736, watch 134,784, registry check 122, monitor 81, amounts 4,839 |
| `card_next_action` | - | violated: header of ctaState |
| `page_recipient` | - | violated: hint of RecipientField |
| `release_mapping` | - | violated: header of hydrateRegistries |

Bounds. The limiter's arithmetic is per route and scale-free except for
rounding and overflow; the periods are small enough for elapsed times below, at
and beyond each, and coprime so that they do not align. The guard's routes do
not interact except through shared tokens, domains and scopes, so two suffice.
In the bridge, two transfers in one direction and one in the other let any two
messages overlap, be reordered, retried and recovered; amounts matter only by
their sum, so a single amount is used there and the proofs are for any set. `MaxMoved` bounds
what the hook, called again, may let a gate count beside the transfers.
The indexer's run lets nothing be mined of the transfer in front (`Sent`), which
is enough to stall a pass, and its observer states the number of confirmations
(`Stated`); the theorems are for any sets of both. The client's account holds up to two units and signs up to two transactions, an
approval and the transfer it is for, or two transfers: two units tell a
sufficient balance, allowance or capacity from one that is short and one that is
spent. A registry's routes interact through their asset, its two ends and the
chains they share: two assets that meet at the hub have all three, and two
versions tell a first deployment from a later one. One edit is what `GatedNeverOffered` is
about; the other theorems of section 5 hold for any number. The page's two limits and its
list of one make another tab's write push an armed one out. In `activity` the
list of one record makes every second transfer displace one, and two accounts
are enough to mistake one for the other. What is kept of a
longer list, and in which order, is `HistoryTheorem`'s (section 5). In `site`, one chain is unsteady and
the other is not, and both routes between them are usable, so each route has a
weaker end at its source or at its destination; balances of seven digits have
two groups, the asset has one decimal at one end and three at the other, and
another asset has none at all, as validation allows (validate.ts:218), and an
empty balance.

Deadlock is checked except where a program may have nothing left to do: `client`,
as the indexer's passes stop once every transfer is terminal; `release`, where the
deployments and edits are bounded; `activity`, whose transfers are; and `site`,
whose scripts exit.

### Where a comment and the code differ

Three are runs that check what a text says and find it violated.

1. `card_next_action`: "The CTA must always name the next action"
   (ctaState.ts:17). The card takes an asset whose router may take 1 unit for a
   synthetic (useBridgeState.ts:77-81); with an allowance of that and below the
   amount it offers Bridge, which the SDK refuses for want of an approval. The
   SDK's own check is what keeps the wallet from being asked
   (`SignsOnlyWhatPasses`).
2. `page_recipient`: "Leave empty to receive at your connected wallet"
   (RecipientField.tsx:80). The recipient that BridgeShell knows outlives the
   field that showed it: after a visit to direct mode the field is mounted anew,
   empty, and the transfer still goes to the address of before.
3. `release_mapping`: "A token or router address already set to something other
   than the zero sentinel and disagreeing with the artifact is likewise a hard
   error: canonical mappings are never silently replaced (INV-14)"
   (hydrate.ts:25-27). That is so of representations (`RepresentationsAreKept`).
   A token's own `canonicalAddress` (:119) and a route's `sourceRouter` and
   `destinationRouter` (:130-131) are overwritten without a comparison.

The others were met while modelling. The models follow the code; no run is
spent on these.

Contracts:
"across any rolling window of `period` seconds a route can move at most `max`"
(ArkBridgeRateLimiter.sol:20-21), but a full bucket refills while it drains; the
true bound, which the repository's own fuzz test states
(RateLimitInvariant.t.sol:144-159), is the capacity plus the refill, and is
proved here as `AggregateLimitHolds`. The comment in setLimits says both buckets
are settled "at the OLD rate first" (ArkBridgeRateLimiter.sol:80), and the new
limits are stored at :74, before `_settle` reads them, so the time since the last
settlement is credited at the new rate (`ReconfiguringDoesNotRefill` bounds what
that gives); the same order is what makes an oversized limit repairable
(`SmallLimitsAlwaysSettable`). The module asks who calls it
(ArkBridgeGuardIsm.sol:59), the hook does not (ArkBridgeGuardHook.sol:67): what is
bound is counted in full (INV-12), and a rejected message uses no inbound
allowance (INV-13), but the outbound allowance is not used up by transfers alone
(`TrafficIsGated`). "The narrowest scope that is actually paused"
(ArkBridgePauseController.sol:115) is the first in the order global, chain, token,
route. "Normal traffic keeps its full multisig
verification the entire time this is installed" (ArkBridgeRecoveryIsm.sol:33-34),
but the guard's module answers its Mailbox only (ArkBridgeGuardIsm.sol:59);
wrapped as it was on the devnet (ark-devnet.json:400) it refuses the recovery
module, and ordinary messages wait until that is removed.

Scripts and indexer:
A solvency alarm "is expected ONLY while outbound transfers are mid-flight"
(check-solvency.mjs:138-143), but a burn makes claims smaller; the false alarm
there is comes from a transfer locked and minted between the two reads
(`AlarmOnlyAfterArrival`). "Statuses never move backwards" (status.ts:84) holds
of the record a pass took, not of the stored one: a pass writes back what it took
before its await (tracker.ts:27-49), so that passes that overlap, which nothing
prevents, can undo each other, and a DELIVERED written meanwhile can become
FAILED for good (`OnlyOvertakenRegress` says that it takes exactly this). `check-chains` ends "OK" when nothing answered; a chain id
that was heard is dropped if the block read then fails, and no other endpoint is
tried (check-chains.ts:65-75). `check-agent-balances` ends "All agents funded."
when every chain is unreachable.

Registries:
`ROUTE_NO_REVERSE` (validate.ts:349-356) asks that the reverse exists, not that
it is usable; a reverse that is switched off passes. Warnings "are promoted to
errors in production" (validate.ts:428-429), but not those of decimals.
`catalogFor` does not validate, only CI does.

Client and pages:
"Poll a submitted transfer through to delivery" (useTransferStatus.ts:15), but
the message id is looked up once, right after the wallet returned the hash
(client.ts:355); a transfer not yet mined has none, and without one the query is
disabled (useTransferStatus.ts:37); and the receipt asks the chains that are
selected when it appears (BridgeShell.tsx:356-357), so one whose route is no
longer selected never leaves its first stage. `FollowedToDelivery` is about the
receipts that have an id and show their own route. The status is advanced against the initial
one only (useTransferStatus.ts:65-68), so a shown one may move back. "Status is read
from chain" (TransactionDetail.tsx:20-22), but without a record in this browser
it stays at the first stage. The activity list does not refresh while it is
open, and its "completed" filter matches nothing, as a stored status is never
updated. "Your assets are locked" (TransferReceipt.tsx:39) is said of a
transaction that may not be mined yet, or revert. An answer lost after the
wallet has sent is told as an RPC failure (`SaysNothingMoved` checks that it does
not claim that nothing moved). Choosing another destination keeps the asset
although the new pair may not have it (`PickedResolves` allows for it). Armed
limits "survive a reload" (limitOrders.ts:19) in storage but are never restored.
"The app watches the source chain's base fee" (limitOrders.ts:9-10), but a limit
armed for one chain is compared with the fee of the source selected now
(BridgeShell.tsx:206, 214): it may count as met too early or too late, and
`NoDeadEnd` is about the fee that is compared. Text that is no amount is told as "Enter Amount"
(ctaState.ts:62), as an empty field is.

Site:
The highlight is reset "whenever the result set changes" (SearchList.tsx:41), in
fact when the query does. A press on a link in the drawer closes the drawer
before the click arrives, for the drawer is outside the header's element
(SiteHeader.tsx:89-93, 191). A timer that is running closes a menu opened by the
keyboard meanwhile. A dialog dismissed, escaped and opened again within 140 ms
is shown with the mark of one that is closing. The status page shows routes as
operational while their chains are still being checked, and knows of no pause
(StatusBoard.tsx:114-125).

## 4. Fairness

`operations`: `WF(\E m : Attest(m))`, because validators sign the tree as it
grows; `SF(\E m : Process(m))`, because the relayer retries whatever it cannot
yet deliver, and a gate that opens again and again is met again and again. Users
and operators owe nothing. `EventuallyDelivered` therefore has two premises about
operators: the recovery module is removed for good, and every gate again and
again allows the largest amount. The second is not idle: an amount the
origin accepted may exceed the destination's per-transaction cap, and then only
an operator can get it through. The solvency check owes nothing either.

`client`, the indexer: passes are started (a timer) and go on (`WF`); a reachable
transfer is again and again observed by nodes that have caught up (`SF`). The
chains owe nothing, nor do the nodes of the other transfers. What
`DeliveriesAreShown` promises is a terminal status that stays terminal, DELIVERED
or FAILED, for a failed attempt may be observed before the delivery.

`client`, the page: a read that was started is answered or fails, and the wait for an
approval's receipt ends in the receipt or a timeout (`WF` on the steps of a
call); the poll goes on at its interval and at last asks a node that has caught
up (`WF(Poll(TRUE))`). Nobody has to sign, and no transaction has to be mined or
delivered: `CallsEnd` lets a call wait for the user's signature.

`activity`: `WF(Poll(f, TRUE))` for each status a page follows: the query library
asks again at its interval as long as the page is open and the status is not
terminal, and the nodes it asks keep up at last.

`site`: the page that is open keeps asking (`WF` of each kind of request, whose
interval the query library keeps) and each request ends (`WF(HealthRead(r))`):
the transports have timeouts. In `OutageIsShown` and `NoDeadEnd` everything else
may go on changing; what they assume of the world is in their premises. In the
pickers, a timer that is left alone goes off.

## 5. The proofs

All theorems assume only the modules' named assumptions: `LimiterAssumption`
(amounts and limits are naturals, periods positive), `GuardAssumption`
(registered records are route records, and `Unregistered` is not one),
`BridgeAssumption` (two different chains, positive amounts),
`ClientAssumption` (routes are between the chains, bounds are naturals),
`IndexerAssumption` (the store's order lists no transfer twice, and its other sets are of transfers),
`LiveCheckAssumption` (a critical limit is no higher than its warning, balances
and prices are naturals, the environments checked exist), `PickerAssumption` (routes are
records of their three parts, the assets are a list), `ActivityAssumption`
(each transfer has a destination, `None` is nobody, a page that shows a transfer
is none of the others, the list has room for one record),
`CatalogAssumption` and `ReleaseAssumption` (the hub is no external chain, the
markers of absent, malformed and zero values differ from each other and from
what a deployment creates), `AmountFieldAssumption` (decimals and balances are
naturals, point and comma are two symbols and no digits, and `Malformed` is no
amount), `HeaderAssumption` (`Hovers` is a boolean), and `PageAssumption` (what the sites offer is among the
selections, and `None` is nobody).

*Rate limiter.* `LimiterTypeCorrect` is inductive: a settled bucket lies between
0 and its capacity. The aggregate bound is not inductive, because it does not
say what the buckets hold. `LimiterInvariant` proves the strengthening: for each
window and period, as of the bucket's last settlement,

    period * (moved + available) <= peak * (period + (updatedAt - since))

or, if the bucket was last settled before the window opened, nothing moved in
it; and the capacity is at most the peak. Settling adds the refill, rounded
down, on the left and the elapsed time on the right; consuming shifts an amount
from `available` to `moved`; a raised limit raises `peak`. With `available` at
least 0 and `updatedAt` at most `now` the invariant implies the bound.
`AggregateLimitTheorem` follows. `SettableTheorem` is about the way out of an
oversized limit: the settlement multiplies the new capacity, not the old one,
with the time since the last, at most one period, so with limits whose daily
product fits neither product nor sum overflows, whatever is stored
(`SmallCapacitySettles`). `AdvertisedTheorem` (consume accepts an amount
exactly when `available` covers it) follows from the type invariant and the definitions of
the two code paths. `ReconfigureTheorem` is about a limit change at any moment:
what a bucket offers grows with its cap (`ProjectedGrows`, as division rounds
monotonically, `FloorMonotone`), so settling under a cap that is not raised yields
no more than was on offer, and settling under any cap adds at most the rounded
refill of the time elapsed (`SettlingEarnsNoMore`).

*Guard.* `GuardImplementsLimiter` maps every guard step to a limiter step or a
stutter, so `GuardAggregateLimit` is inherited. `MovesTheorem` shows that the
gate's ordered checks imply the view's `Usable`, so value moves only where it
may; `CapacityTheorem` the converse as well, for any configuration.
`GuardImplementsGate` is the refinement of the abstract gate: a transfer that
passes was available, and what is available afterwards is less by at most its
amount on its route and no less on any other; every other entry point may change
what is available but moves nothing. The proof compares the projection of a
bucket before and after it is spent. `Bridge` is built on that gate alone, so
the proofs about the bridge hold of one between two guards.

*Bridge.* `BridgeTypeCorrect` (signed implies in the tree implies dispatched,
delivered and cleared messages dispatched, supply never negative) is inductive.
`CauseTheorem` is a property of one `Process` step. `LedgerTheorem` is the
refinement: a transfer is a lock or a burn, a delivery a mint or a release of a
transfer that exists and is not yet settled, everything else invisible; it needs
the type invariant, for what is delivered must have been requested.

`BackedTheorem` (collateral = synthetic + value in transit) needs sums over a set
of messages. The model sums with the community modules' fold, whose definition is
a recursive function on sets. That this function exists, that its sums do not
depend on the order, are naturals, and lose exactly the amount of a message
taken out is shown each time by a smallest subset for which it fails
(`SmallestSubset`: strict inclusion is well-founded on the subsets of a finite
set), so that no induction theorem with an operator as its parameter is needed. Then each step is arithmetic: a transfer
adds to the locked collateral, or takes from the supply, what it adds to what is
in transit, a delivery the reverse, and a new message id is in no sum before
(`NewMessage`). The same lemmas count the deliveries for `GatedTheorem`: what a
gate has counted grows by what a step dispatches and delivers through it, or, in
a step that moves nothing, an outbound gate counts its last dispatch again.

*Solvency check.* `AlarmTheorem` adds `ReadCovers` to the bridge's invariants:
between the two reads, as long as nothing has arrived, the supply is at most the
collateral that was read. A mint is the only step that raises the supply, and it
is an arrival; when the second read is made, less collateral than claims can then
only mean that something arrived.

*Client.* `ClientTypeCorrect` is inductive with one addition over plain typing:
only a call that has signed refers to a transaction, and no call is under way
behind a receipt. `SignsOnlyWhatPasses` speaks of the last stage of a call alone.
Its strengthening, `SignsInv`, says of every stage that the checks made so far
still stand: after the balance read, that the balance is no less; after
validation, that the amount is within balance and capacity; after the allowance
read, that no approval is missing. A delivery, which may come at any time, only
adds to a balance; whatever lowers a value clears `steady`. `SignsTheorem`
follows. `ActivityTheorem` needs to know of the call as well as of the records
(`FaithInv`): the transaction a call waits for is a transfer of the call's route
and amount and has no record yet, the stages of `approve()` and of `bridge()` are
apart, and every transfer is recorded, waited for or lost; a transaction is told
once because the call that sent it ends when it records it.

*Card.* `CardImplementsClient` maps every step of the card to a step of the
client or a stutter, with one fact about the form: the amount typed is one that
can be typed, and a button that approves or bridges has one. The card decides by
reads that may be old or of another amount, which is how it comes to offer the
wrong action (`card_next_action`); the two corollaries say that it cannot be worse
than that, because the SDK reads again.

*Indexer.* `StatusIsEarned` is not inductive: a pass derives from a record it read
before. `EarnedInv` says of the records in the store and of those taken by every
pass that their status is earned, and of the facts that each comes after those it
presupposes, so that a node that lags can only lead to a lower status. Facts are
never taken back, so what was earned stays earned, for any number of passes that
overlap. `OvertakenTheorem` is about overlapping passes too. `FreshInv` says that what a pass
has yet to observe is stored as the pass took it, unless another pass has
overtaken it there; an update is never a step back from the record it starts from
(`UpdatingIsForward`), so one from a record that is still the stored one never
regresses.

*Scripts.* `VerdictTheorem`: `RegistryInv` says which lines a chain has at each
stage of its requests, that every chain of an environment passed is done, and
that the failure flag is up exactly if one of those disagrees; `MonitorInv` that
the worst level is critical exactly if a critical balance was read.

*Activity.* All four theorems come from `ActivityInv`: a transfer has at most one
call, of the account that started it; whatever is stored or listed for an account
was sent by it; a record, a receipt or a page that knows a message id is of a
transfer that was dispatched; a cached answer that says delivered is right; and
the call behind an error is over, so what it says of the funds stays true.
`HistoryTheorem` needs to know what is left of a filtered list and in which order:
`Ranks` shows that the places kept are counted without a gap, so that each is the
k-th for exactly one k: ranks are different and no larger than their number, and an
injection of a finite set into one as large is onto.

*Pickers.* `PickedTheorem`: what is left of the list of assets is on offer from
where the card stands, by `Ranks` again, so whatever place is highlighted, and
however stale, Enter picks a route or nothing; the selection stays a record, so a
destination picked alone changes the destination alone. `TimedTheorem` is the
safety half of `PageIsFreed`: a panel that is shown though React has it closed has
a timer running, and the timer's step takes it away.

*Release.* The state of a registry is arbitrary there: a site is a function of
what is enabled, deployed and edited, and the theorems are about that function,
for any chains, assets, versions and edits. Lemmas say what the builder writes
(`BuiltRoutes`, `BuiltTokens`), what an edit can leave of it (`WrittenRoutes`,
`WrittenTokens`) and what hydration makes of that (`HydratedRoute`,
`SiteRouters`). From these: a usable route sends through the routers of its own
asset's ends (`RoutersTheorem`); whatever the three selectors let a user choose
resolves, to that route (`OffersTheorem`); what validation passes has a way back,
usable unless its own switch is off (`WayBackTheorem`), production routes that can be used (`ProductionTheorem`) and
ids that name one chain (`OriginsTheorem`); what is written for a representation
is kept (`RepresentationsTheorem`, which is not true of what a route or a token
repeats of it: `release_mapping`). `GatedTheorem` alone counts edits: the builder disables both
the asset and the route of a gated chain (`GatedIsBuiltDisabled`), and no single
edit touches both.

*Page.* `PageTypeCorrect` is inductive with the fact that a call or a receipt
stands on a selection. `NoStrayWatchTheorem` is inductive as it stands.
`SendsWhereItSays` is not: what a field shows says nothing of a field that is not
on the page. `SendsInv` adds that the recipient is shown whenever its field is
mounted, in whatever mode, and that a counterparty was named for the destination
selected now; changing the destination clears both text and address together.

*Amounts.* `AmountsTheorem` is about every text, any number of decimals and any
balance, and what the conversions compute is defined by recursion over digits.
No induction theorem with an operator as its parameter is needed: the least
number outside a set of numbers (`LeastExists`, as < is well-founded) has its
predecessor inside, so a set that holds 0 and with each number the next holds
them all (`Induction`). From that, a recursive definition has a function
(`Iteration`) and only one (`Agreement`). On these rest, in order:
what a text of digits says, and that of two texts joined (`ValueOfBoth`); that a
number is written with the digits that say it (`DigitsAre`); that shortening
drops only zeros unless it is told to drop more (`ShortenedSplits`); that taking
out the commas undoes the grouping (`StrippedIs`, `GroupedStrips`, by counting
the digits up to each place); that a text is split at its point (`PartsOfBoth`).
`ParseIsExact` (no text that parses says anything but its amount),
`FormatParses` (a formatted amount parses to itself, and shortened to no more) and
`ConversionsReturn` (converting there and back, with the remainder, is the
amount again) are the three parts of the property. The inductive invariant,
`AmountTypeOK`, says that the text is one of symbols: Max writes what
`FormatAmount` returned, which is a text by `FormatStrips`.

*Header.* `HoverTheorem`: while the closing timer runs the pointer is over no
menu (`TimedIsLeft`); entering one stops the timer, and nothing but leaving
starts it.

Proved but in no run, as each follows from the conjuncts of a definition once
the invariants hold: the type invariants of limiter, guard, client and page,
`AdvertisedIsAccepted`, `MovesOnlyWhenUsable`, `ClosingIsTimed`, `ProductionIsUsable` and
`OriginsAreUnambiguous`.

Only model-checked: all liveness (`EventuallyDelivered`, `ClearedIsRecovered`, `DeliveriesAreShown`,
`CallsEnd`, `FollowedToDelivery`, `DeliveryIsShown`, `OutageIsShown`, `NoDeadEnd`,
`PageIsFreed`), as the proof system does not treat fairness. Every safety property
and every action property that a passing run checks is stated by a theorem.

## 6. Not modelled

- Role administration (`ArkBridgeRoles.sol`) and a deployment that stops half
  way; calls by holders of a role outside the flows above (a consume that does
  not come from the guard).
- `postDispatch` called for a message that is not the last one dispatched: the
  wrapped Merkle tree hook, which is external, refuses it.
- A route bound to the wrong route id, and several assets sharing a router.
- Reorganisations, gas payment, changes of the validator set.
- Byte offsets in `ArkMessage.sol`; the statistic `recoveredCount`; views.
- In `Client`, the wallet changing its account (`Activity` has it), and the
  refetch on reconnection. A transaction signed on the wrong chain is an action
  of `Client`, but nothing is said of it beyond the record.
- A value that changes between a client's read and the wallet's signature: the
  model has it happen, but `SignsOnlyWhatPasses` is limited to calls that it does
  not happen to (`steady`). The contracts refuse what no longer passes.
- Another tab that writes the list of transfers between the read and the write of
  `recordTransfer()`, which is one task of the page and one action of the model.
- What a wallet says after it has sent a transaction, beyond a transport error:
  `SaysNothingMoved` takes for granted (`AnswerLost`) that a lost answer mentions
  none of the words by which a refusal is told.
- The moments within one request for a route's health: `HealthRead` reads both
  chains and the guard at once, though the code asks them one by one. An answer
  combined from several moments is replaced by the next, and the properties are
  about what is shown once the chains stay as they are.
- Blanks around a typed amount (`input.trim()`, amounts.ts:17).
- A menu opened by keyboard while the timer of another runs is closed by it; a
  press does not stop the timer. `HoverHolds` is about the pointer alone.
- The indexer's lookups by wallet and message id, and the delay flag.
- The fee history and its chart (`useFeeSeries.ts`, `FeeChart.tsx`), measured
  times (`useChainTiming.ts`), the details of a route, and the lists of tokens:
  they show what was read and decide nothing.
- The selectors of `packages/token-registry/src/index.ts`, which only tests call,
  on registries that are not hydrated; the site's are in `routing.ts`.
- The tables of names, endpoints, colours and links of the many external
  networks; where a list of endpoints comes from.
- Landing pages, layout, styles, mocks and tests.
- One-shot scripts that only read and report (`audit-wiring`,
  `generate-agent-config`, `transfer`).

## 7. Plan

Done, in order of weight: limiter, pause, guard, their proofs; the bridge, its
ledger and proofs; the solvency check; the indexer; the SDK client, the bridge
card around it, and the client's proofs; the registries, their release and
proofs; the page, its address fields and limits and proofs; activity; route
health and fees; pickers and header; the live checks; amounts; then the proofs of
the gate, the backing, the traffic and the alarm, of the indexer and the scripts,
of the activity records and pages, and of the card; those of the amounts and the
header.

Next:

1. Proofs: that `Client` and `Card` ask the contracts only what `Bridge`'s
   `Transfer` allows, for which both must name transfers alike.
2. `Roles`: grants, the deployment script's steps, and what a half-finished
   deployment may leave.
3. `Card`: a passing run of its own (what is offered on stale data is caught by
   the SDK), joined with `Activity`'s other tab.
