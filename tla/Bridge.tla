------------------------------- MODULE Bridge -------------------------------
(***************************************************************************)
(* One asset bridged between two chains: its collateral is locked on one,  *)
(* a synthetic is minted on the other.  A transfer debits its origin,      *)
(* dispatches a message through ArkBridgeGuardHook into the Merkle tree    *)
(* that validators sign, and is delivered by a relayer to the destination  *)
(* Mailbox, which asks the router's security module: ArkBridgeGuardIsm     *)
(* or, while an operator recovers stranded messages, ArkBridgeRecoveryIsm  *)
(* wrapped around it.  Each chain's guard is a Gate on both directions.    *)
(*                                                                         *)
(* Mailbox, routers, Merkle tree, validators and relayer are Hyperlane's:  *)
(* modelled from how the hook, the modules and the SDK use them.           *)
(***************************************************************************)
EXTENDS Integers, Sequences, FiniteSetsExt

CONSTANTS
    Collateral,    \* the chain where the asset is backed
    Synthetic,     \* the chain where it is minted
    Amounts,       \* the transfer amounts tried
    MaxTransfers,  \* bound on the transfers leaving each chain, by chain
    MaxAllowance,  \* bound on what a gate allows
    MaxMoved,      \* bound on what a gate has let through, beside the transfers
    Bindable,      \* the gates operators bind and unbind; the others stay bound
    Recoverers     \* the chains where a recovery module is deployed

Chains == {Collateral, Synthetic}

\* The directed route leaving "origin", as the guard of "chain" knows it.
Gates == [chain: Chains, origin: Chains]

ASSUME BridgeAssumption ==
    /\ Collateral # Synthetic
    /\ Amounts \subseteq Nat \ {0}
    /\ MaxTransfers \in [Chains -> Nat \ {0}]
    /\ MaxAllowance \in Nat
    /\ MaxMoved \in Nat
    /\ Bindable \subseteq Gates
    /\ Recoverers \subseteq Chains

VARIABLES
    sent,         \* sent[c]: the amounts c's router dispatched, by nonce
    inTree,       \* the messages in their origin's Merkle tree
    attested,     \* the messages a quorum of validators signed
    delivered,    \* the messages the destination Mailbox has processed
    locked,       \* the collateral router's balance
    supply,       \* the synthetic's total supply
    bound,        \* the gates some router is bound to (bindRoute)
    installed,    \* the chains whose router uses the recovery module
    recoverable,  \* the messages the recovery module is cleared to pass
    allowance,    \* what each gate allows now
    moved         \* what each gate has counted as let through

messageVars == <<sent, inTree, attested, delivered>>
valueVars == <<locked, supply>>
recoveryVars == <<installed, recoverable>>
bridgeGateVars == <<allowance, moved>>
bridgeVars == <<messageVars, valueVars, bound, recoveryVars, bridgeGateVars>>

AtGate == INSTANCE Gate WITH GateRoutes <- Gates
----------------------------------------------------------------------------
Other(c) == IF c = Collateral THEN Synthetic ELSE Collateral

MessageIds == UNION {[origin: {c}, nonce: 1..MaxTransfers[c]] : c \in Chains}
Messages == {m \in MessageIds : m.nonce <= Len(sent[m.origin])}

\* Mutant of Destination: the origin field is read in its place.
DestinationMisread(m) == m.origin

Destination(m) == Other(m.origin)
Amount(m) == sent[m.origin][m.nonce]

OutboundGate(c) == [chain |-> c, origin |-> c]
InboundGate(m) == [chain |-> Destination(m), origin |-> m.origin]

\* The bridge as deployed: possibly with a transfer the first version of the
\* hook dispatched without inserting it into the tree.
BridgeInit ==
    /\ \E stranded \in {<<>>} \cup {<<a>> : a \in Amounts} :
          /\ sent = [c \in Chains |-> IF c = Collateral THEN stranded ELSE <<>>]
          /\ locked = IF stranded = <<>> THEN 0 ELSE stranded[1]
    /\ supply = 0
    /\ inTree = {}
    /\ attested = {}
    /\ delivered = {}
    /\ bound = Gates \ Bindable
    /\ installed = {}
    /\ recoverable = {}
    /\ AtGate!GateInit
----------------------------------------------------------------------------
\* The guard is asked about a bound route only; other traffic passes through.
Authorized(g, a) ==
    IF g \in bound
      THEN \E left \in 0..MaxAllowance :
              /\ allowance' = [allowance EXCEPT ![g] = left]
              /\ AtGate!Pass(g, a)
      ELSE UNCHANGED bridgeGateVars

\* The router takes the sender's value.
LockOrBurn(c, a) ==
    IF c = Collateral
      THEN locked' = locked + a /\ UNCHANGED supply
      ELSE a <= supply /\ supply' = supply - a /\ UNCHANGED locked

\* The destination router gives the recipient what the message carries.
MintOrRelease(m) ==
    IF Destination(m) = Synthetic
      THEN supply' = supply + Amount(m) /\ UNCHANGED locked
      ELSE locked' = locked - Amount(m) /\ UNCHANGED supply

\* Mutant of PostDispatch: the first hook, which did not forward.
PostDispatchWithoutInner(m, a) ==
    /\ Authorized(OutboundGate(m.origin), a)
    /\ UNCHANGED inTree

\* Mutant of PostDispatch: the message it forwards has the next nonce.
PostDispatchNextNonce(m, a) ==
    /\ Authorized(OutboundGate(m.origin), a)
    /\ inTree' = inTree \cup {[m EXCEPT !.nonce = @ + 1]}

\* Mutant of PostDispatch: forwards without asking the guard.
PostDispatchUngated(m, a) ==
    /\ inTree' = inTree \cup {m}
    /\ UNCHANGED bridgeGateVars

\* The hook: authorize, then always forward to the hook it wraps, which
\* inserts the message into the tree.
PostDispatch(m, a) ==
    /\ Authorized(OutboundGate(m.origin), a)
    /\ inTree' = inTree \cup {m}

\* A user's transferRemote, one transaction on the origin.
Transfer(c, a) ==
    LET m == [origin |-> c, nonce |-> Len(sent[c]) + 1]
    IN  /\ Len(sent[c]) < MaxTransfers[c]
        /\ LockOrBurn(c, a)
        /\ sent' = [sent EXCEPT ![c] = Append(@, a)]
        /\ PostDispatch(m, a)
        /\ UNCHANGED <<attested, delivered, bound, recoveryVars>>

\* The hook, unlike the module, does not ask who calls it: a second call for a
\* message already dispatched counts it again and moves nothing.  The tree it
\* forwards to accepts only the message the Mailbox dispatched last.
PostDispatchAgain(m) ==
    /\ m.nonce = Len(sent[m.origin])
    /\ moved[OutboundGate(m.origin)] + Amount(m) <= MaxMoved
    /\ PostDispatch(m, Amount(m))
    /\ UNCHANGED <<sent, attested, delivered, valueVars, bound, recoveryVars>>

\* A quorum of validators has signed a checkpoint that covers m.
Attest(m) ==
    /\ m \in inTree \ attested
    /\ attested' = attested \cup {m}
    /\ UNCHANGED <<sent, inTree, delivered, valueVars, bound, recoveryVars, bridgeGateVars>>
----------------------------------------------------------------------------
\* ArkBridgeGuardIsm.verify: answers the Mailbox only, authenticates with the
\* multisig it wraps, then consumes inbound capacity.
GuardAuthenticates(m, caller) == caller = "Mailbox" /\ m \in attested

GuardVerify(m, caller) ==
    /\ GuardAuthenticates(m, caller)
    /\ Authorized(InboundGate(m), Amount(m))

\* Mutant of RecoveryVerify: a clearance is not used up.
RecoveryVerifyReusable(m) ==
    \/ m \in recoverable /\ UNCHANGED <<recoverable, bridgeGateVars>>
    \/ m \notin recoverable /\ GuardVerify(m, "RecoveryIsm") /\ UNCHANGED recoverable

\* Mutant of RecoveryVerify: the multisig is asked first even so.
RecoveryVerifyInnerFirst(m) ==
    /\ m \in attested \cap recoverable
    /\ recoverable' = recoverable \ {m}
    /\ UNCHANGED bridgeGateVars

\* ArkBridgeRecoveryIsm.verify: a cleared message passes once; any other is
\* handed to the module it wraps, which then sees the recovery module calling.
RecoveryVerify(m) ==
    \/ /\ m \in recoverable
       /\ recoverable' = recoverable \ {m}
       /\ UNCHANGED bridgeGateVars
    \/ /\ m \notin recoverable
       /\ GuardVerify(m, "RecoveryIsm")
       /\ UNCHANGED recoverable

Verify(m) ==
    IF Destination(m) \in installed
      THEN RecoveryVerify(m)
      ELSE GuardVerify(m, "Mailbox") /\ UNCHANGED recoverable

\* Mutant of NotYetDelivered: a message may be processed again.
AlwaysProcessable(m) == TRUE

NotYetDelivered(m) == m \notin delivered

\* Mailbox.process, one transaction on the destination: a relayer may submit
\* any message, any number of times; a revert leaves no trace.
Process(m) ==
    /\ NotYetDelivered(m)
    /\ Verify(m)
    /\ delivered' = delivered \cup {m}
    /\ MintOrRelease(m)
    /\ UNCHANGED <<sent, inTree, attested, bound, installed>>
----------------------------------------------------------------------------
\* Operators.  A message id is known once dispatched, and nothing stops an
\* operator from clearing one that is attested or already delivered.
Allow(m) ==
    /\ Destination(m) \in Recoverers
    /\ recoverable' = recoverable \cup {m}
    /\ UNCHANGED <<messageVars, valueVars, bound, installed, bridgeGateVars>>

Revoke(m) ==
    /\ recoverable' = recoverable \ {m}
    /\ UNCHANGED <<messageVars, valueVars, bound, installed, bridgeGateVars>>

SetIsm(c) ==
    /\ installed' = IF c \in installed THEN installed \ {c} ELSE installed \cup {c}
    /\ UNCHANGED <<messageVars, valueVars, bound, recoverable, bridgeGateVars>>

BindRoute(g, b) ==
    /\ bound' = IF b THEN bound \cup {g} ELSE bound \ {g}
    /\ UNCHANGED <<messageVars, valueVars, recoveryVars, bridgeGateVars>>

\* Pausing, limits, registration and time, as far as a gate shows them.
OperateGate(g, n) ==
    /\ allowance' = [allowance EXCEPT ![g] = n]
    /\ AtGate!Operate
    /\ UNCHANGED <<messageVars, valueVars, bound, recoveryVars>>

BridgeNext ==
    \/ \E c \in Chains, a \in Amounts : Transfer(c, a)
    \/ \E m \in Messages : PostDispatchAgain(m)
    \/ \E m \in Messages : Attest(m)
    \/ \E m \in Messages : Process(m)
    \/ \E m \in Messages : Allow(m)
    \/ \E m \in Messages : Revoke(m)
    \/ \E c \in Recoverers : SetIsm(c)
    \/ \E g \in Bindable, b \in BOOLEAN : BindRoute(g, b)
    \/ \E g \in Gates, n \in 0..MaxAllowance : OperateGate(g, n)

BridgeSpec == BridgeInit /\ [][BridgeNext]_bridgeVars

\* Validators sign what is in the tree, and the relayer retries a message
\* until it is delivered; users and operators owe nothing.
BridgeFairness ==
    /\ WF_bridgeVars(\E m \in Messages : Attest(m))
    /\ SF_bridgeVars(\E m \in Messages : Process(m))

FairBridgeSpec == BridgeSpec /\ BridgeFairness
----------------------------------------------------------------------------
BridgeTypeOK ==
    /\ sent \in [Chains -> Seq(Amounts)]
    /\ \A c \in Chains : Len(sent[c]) <= MaxTransfers[c]
    /\ inTree \subseteq Messages
    /\ attested \subseteq inTree
    /\ delivered \subseteq Messages
    /\ locked \in Int
    /\ supply \in Nat
    /\ bound \subseteq Gates
    /\ installed \subseteq Recoverers
    /\ recoverable \subseteq Messages
    /\ allowance \in [Gates -> 0..MaxAllowance]
    /\ moved \in [Gates -> Nat]

InTransit(c) ==
    MapThenSumSet(Amount, {m \in Messages \ delivered : m.origin = c})

\* INV-06, INV-07, INV-08: the collateral covers the synthetic and everything
\* on its way, in both directions and to the last unit, whatever was retried,
\* recovered, ungated or stranded in between.
Backed == locked = supply + InTransit(Collateral) + InTransit(Synthetic)

\* INV-09: value is credited for a message only if a quorum attested it, while
\* no recovery module is installed, or if the one installed was cleared for it;
\* a clearance is used up by the delivery it allows.  So the module's ordinary
\* traffic stands still while it wraps the guard's (GuardIsm accepts only the
\* Mailbox), and no relayer's choice of a moment gets around either.
DeliveredWithCause ==
    [][\A m \in delivered' \ delivered :
         IF Destination(m) \in installed
           THEN m \in recoverable /\ m \notin recoverable'
           ELSE m \in attested]_bridgeVars

Recovering(m) == Destination(m) \in installed /\ m \in recoverable

Used(g) == moved'[g] - moved[g]

\* The hook called again for the last dispatch: the gate counts that amount,
\* and nothing is dispatched, delivered or paid for it.
CountedAgain(g) ==
    /\ g.origin = g.chain /\ g \in bound
    /\ sent[g.chain] # <<>> /\ Used(g) = sent[g.chain][Len(sent[g.chain])]
    /\ UNCHANGED <<sent, delivered, valueVars>>

\* INV-12, INV-13: on a bound route the step that dispatches a message, or
\* delivers one that is not recovered, counts it at its gate in full.  A
\* rejected message, a retry, a recovery and the traffic of an unbound route
\* use nothing up.  An inbound gate answers the Mailbox only, so it counts a
\* message once; an outbound gate may count the last dispatch again
\* (CountedAgain), and counts nothing else.
TrafficIsGated ==
    [][LET dispatches == {c \in Chains : sent'[c] # sent[c] /\ OutboundGate(c) \in bound}
           deliveries == {m \in delivered' \ delivered :
                              InboundGate(m) \in bound /\ ~Recovering(m)}
       IN  \A g \in Gates :
             \/ Used(g) = IF g.chain \in dispatches /\ g.origin = g.chain
                            THEN sent'[g.chain][Len(sent'[g.chain])]
                            ELSE MapThenSumSet(Amount, {m \in deliveries : InboundGate(m) = g})
             \/ CountedAgain(g)]_bridgeVars

AbstractLedger == INSTANCE Ledger WITH requested <- sent, settled <- delivered

\* The bridge keeps its promise: every step is one debit, one credit of a
\* transfer that was debited and not yet credited, or invisible to users.
ImplementsLedger == AbstractLedger!LedgerSpec

\* SEC-03 and the relayer's duty: whatever is dispatched is delivered in the
\* end, provided the recovery module is removed for good and every gate again
\* and again allows as much as it can.  A message stranded before is exempt.
EventuallyDelivered ==
    /\ <>[](installed = {})
    /\ \A g \in Gates : []<>(allowance[g] = MaxAllowance)
    => \A m \in MessageIds :
          m \notin Messages => (m \in Messages ~> m \in delivered)

\* A cleared message is recovered although it was never in the tree and its
\* gate may be closed, unless the operator withdraws first.
ClearedIsRecovered ==
    \A m \in MessageIds :
        m \in Messages /\ Recovering(m) ~> m \in delivered \/ ~Recovering(m)
=============================================================================
