---------------------------- MODULE BridgeProofs ----------------------------
(***************************************************************************)
(* What the bridge promises, for every set of amounts and every bound: its *)
(* types, that value is credited only with cause, that it implements the   *)
(* exactly-once ledger, that the collateral covers every claim and all     *)
(* that is in transit, that every transfer is counted by its gate, and     *)
(* that the solvency check raises no false alarm but the one it documents. *)
(*                                                                         *)
(* What is in transit is a sum over a set of messages, which the community *)
(* modules define by recursion on the subsets of the set.  The lemmas on   *)
(* Total unfold that recursion by induction on the subsets, in the form    *)
(* SmallestSubset: a set that has a bad subset has a smallest one.         *)
(***************************************************************************)
EXTENDS SolvencyCheck, FiniteSetTheorems, TLAPS

\* A step of the bridge, one case per operation.
LEMMA BridgeStepCases ==
    ASSUME [BridgeNext]_bridgeVars, NEW P,
           \A c \in Chains, a \in Amounts : Transfer(c, a) => P,
           \A m \in Messages : PostDispatchAgain(m) => P,
           \A m \in Messages : Attest(m) => P,
           \A m \in Messages : Process(m) => P,
           \A m \in Messages : Allow(m) => P,
           \A m \in Messages : Revoke(m) => P,
           \A c \in Recoverers : SetIsm(c) => P,
           \A g \in Bindable, b \in BOOLEAN : BindRoute(g, b) => P,
           \A g \in Gates, n \in 0..MaxAllowance : OperateGate(g, n) => P,
           UNCHANGED bridgeVars => P
    PROVE  P
BY Zenon DEF BridgeNext

\* What verification leaves alone, whichever module the router uses: it only
\* spends a clearance or some of the inbound gate.
LEMMA VerifyChanges ==
    ASSUME NEW m, Verify(m)
    PROVE  IF Destination(m) \in installed
             THEN m \in recoverable /\ m \notin recoverable'
             ELSE m \in attested
BY DEF Verify, RecoveryVerify, GuardVerify, GuardAuthenticates

\* INV-09 for every instance: value is credited for a message only if a quorum
\* attested it, or, while the recovery module is installed, if that was cleared
\* for it and no longer is.
THEOREM CauseTheorem == BridgeSpec => DeliveredWithCause
<1> DEFINE Cause(m) ==
        IF Destination(m) \in installed
          THEN m \in recoverable /\ m \notin recoverable'
          ELSE m \in attested
<1> DEFINE AllCaused == \A m \in delivered' \ delivered : Cause(m)
<1>1. ASSUME [BridgeNext]_bridgeVars PROVE AllCaused
  <2>1. ASSUME UNCHANGED delivered PROVE AllCaused
    BY <2>1
  <2>2. ASSUME NEW m \in Messages, Process(m) PROVE AllCaused
    <3>1. Cause(m)
      BY <2>2, VerifyChanges, Zenon DEF Process
    <3>2. delivered' = delivered \cup {m}
      BY <2>2 DEF Process
    <3> QED BY <3>1, <3>2
  <2>3. ASSUME NEW c, NEW a, Transfer(c, a) PROVE UNCHANGED delivered
    BY <2>3 DEF Transfer
  <2>4. ASSUME NEW m, Attest(m) \/ Allow(m) \/ Revoke(m) PROVE UNCHANGED delivered
    BY <2>4 DEF Attest, Allow, Revoke, messageVars
  <2>5. ASSUME NEW c, SetIsm(c) PROVE UNCHANGED delivered
    BY <2>5 DEF SetIsm, messageVars
  <2>6. ASSUME NEW g, NEW b, BindRoute(g, b) \/ OperateGate(g, b)
        PROVE  UNCHANGED delivered
    BY <2>6 DEF BindRoute, OperateGate, messageVars
  <2>7. UNCHANGED bridgeVars => UNCHANGED delivered
    BY DEF bridgeVars, messageVars
  <2>8. ASSUME NEW m, PostDispatchAgain(m) PROVE UNCHANGED delivered
    BY <2>8 DEF PostDispatchAgain
  <2> HIDE DEF AllCaused
  <2> QED BY <1>1, <2>1, <2>2, <2>3, <2>4, <2>5, <2>6, <2>7, <2>8, BridgeStepCases, Zenon
<1> QED BY <1>1, PTL DEF BridgeSpec, DeliveredWithCause
----------------------------------------------------------------------------
LEMMA ChainFacts ==
    ASSUME NEW c \in Chains
    PROVE  /\ Other(c) \in Chains
           /\ OutboundGate(c) \in Gates
           /\ c = Collateral \/ c = Synthetic
           /\ c = Collateral <=> Other(c) = Synthetic
BY BridgeAssumption DEF Chains, Other, OutboundGate, Gates

\* A message id is a chain and a nonce within that chain's bound.
LEMMA IdFacts ==
    ASSUME NEW m
    PROVE  m \in MessageIds <=>
             \E c \in Chains : \E i \in 1..MaxTransfers[c] : m = [origin |-> c, nonce |-> i]
BY DEF MessageIds

LEMMA MessageFacts ==
    ASSUME BridgeTypeOK, NEW m \in Messages
    PROVE  /\ m.origin \in Chains
           /\ m = [origin |-> m.origin, nonce |-> m.nonce]
           /\ m.nonce \in DOMAIN sent[m.origin]
           /\ Amount(m) \in Amounts
           /\ Destination(m) \in Chains
           /\ InboundGate(m) \in Gates
<1>1. PICK c \in Chains : \E i \in 1..MaxTransfers[c] : m = [origin |-> c, nonce |-> i]
  BY IdFacts DEF Messages
<1>6. PICK i \in 1..MaxTransfers[c] : m = [origin |-> c, nonce |-> i]
  BY <1>1
<1>2. m.origin = c /\ m.nonce = i /\ i <= Len(sent[c])
  BY <1>6 DEF Messages
<1>3. sent[c] \in Seq(Amounts)
  BY <1>1 DEF BridgeTypeOK
<1>4. i \in DOMAIN sent[c] /\ sent[c][i] \in Amounts
  <2>1. MaxTransfers[c] \in Nat
    BY <1>1, BridgeAssumption
  <2> QED BY <1>2, <1>3, <2>1
<1>5. Other(c) \in Chains
  BY <1>1, ChainFacts
<1> QED BY <1>6, <1>2, <1>4, <1>5 DEF Amount, Destination, InboundGate, Gates

\* Dispatching one more transfer appends it, and forgets none.
LEMMA Dispatch ==
    ASSUME BridgeTypeOK, NEW c \in Chains, NEW a \in Amounts, Transfer(c, a)
    PROVE  /\ sent' \in [Chains -> Seq(Amounts)]
           /\ \A d \in Chains : Len(sent'[d]) <= MaxTransfers[d]
           /\ Messages \subseteq Messages'
           /\ [origin |-> c, nonce |-> Len(sent[c]) + 1] \in Messages'
<1> DEFINE m == [origin |-> c, nonce |-> Len(sent[c]) + 1]
<1>1. sent' = [sent EXCEPT ![c] = Append(@, a)] /\ Len(sent[c]) < MaxTransfers[c]
  BY DEF Transfer
<1>2. \A d \in Chains : sent[d] \in Seq(Amounts) /\ MaxTransfers[d] \in Nat
  BY BridgeAssumption DEF BridgeTypeOK
<1>3. sent' \in [Chains -> Seq(Amounts)]
  BY <1>1, <1>2 DEF BridgeTypeOK
<1>4. \A d \in Chains : sent'[d] = IF d = c THEN Append(sent[c], a) ELSE sent[d]
  BY <1>1 DEF BridgeTypeOK
<1>5. \A d \in Chains : Len(sent[d]) <= Len(sent'[d]) /\ Len(sent'[d]) <= MaxTransfers[d]
  BY <1>1, <1>2, <1>4 DEF BridgeTypeOK
<1>6. Messages \subseteq Messages'
  <2> SUFFICES ASSUME NEW x \in Messages PROVE x.nonce <= Len(sent'[x.origin])
    BY DEF Messages, MessageIds
  <2>1. x.origin \in Chains /\ x.nonce <= Len(sent[x.origin]) /\ x.nonce \in Nat
    <3>1. PICK d \in Chains : \E i \in 1..MaxTransfers[d] : x = [origin |-> d, nonce |-> i]
      BY IdFacts DEF Messages
    <3>2. \A i \in 1..MaxTransfers[d] : i \in Nat
      BY <1>2
    <3> QED BY <3>1, <3>2 DEF Messages
  <2>2. Len(sent[x.origin]) <= Len(sent'[x.origin])
    BY <1>5, <2>1
  <2>3. Len(sent[x.origin]) \in Nat /\ Len(sent'[x.origin]) \in Nat
    BY <1>2, <1>3, <2>1
  <2> QED BY <2>1, <2>2, <2>3
<1>7. m \in Messages'
  <2>1. Len(sent'[c]) = Len(sent[c]) + 1 /\ Len(sent[c]) \in Nat
    <3>1. sent[c] \in Seq(Amounts) /\ sent'[c] = Append(sent[c], a)
      BY <1>2, <1>4
    <3> QED BY <3>1
  <2>2. m \in MessageIds
    BY <1>1, <1>2, <2>1, IdFacts
  <2> QED BY <2>1, <2>2 DEF Messages, MessageIds
<1> QED BY <1>3, <1>5, <1>6, <1>7

\* A gate keeps its type, whether it is asked or not.
LEMMA AuthorizedTypes ==
    ASSUME BridgeTypeOK, NEW g \in Gates, NEW a \in Amounts, Authorized(g, a)
    PROVE  /\ allowance' \in [Gates -> 0..MaxAllowance]
           /\ moved' \in [Gates -> Nat]
<1>1. a \in Nat
  BY BridgeAssumption
<1>2. CASE g \in bound
  <2>1. PICK left \in 0..MaxAllowance : allowance' = [allowance EXCEPT ![g] = left]
                                         /\ AtGate!Pass(g, a)
    BY <1>2, Zenon DEF Authorized
  <2>2. moved' = [moved EXCEPT ![g] = @ + a]
    BY <2>1 DEF AtGate!Pass
  <2>3. allowance \in [Gates -> 0..MaxAllowance] /\ moved \in [Gates -> Nat]
    BY DEF BridgeTypeOK
  <2>4. moved[g] + a \in Nat
    BY <1>1, <2>3
  <2> QED BY <2>1, <2>2, <2>3, <2>4
<1>3. CASE g \notin bound
  BY <1>3 DEF Authorized, bridgeGateVars, BridgeTypeOK
<1> QED BY <1>2, <1>3

\* Adding and subtracting an amount, on either chain.
LEMMA ValueTypes ==
    ASSUME BridgeTypeOK
    PROVE  /\ \A c \in Chains, a \in Amounts : LockOrBurn(c, a) =>
                  locked' \in Int /\ supply' \in Nat
           /\ \A m \in Messages : MintOrRelease(m) =>
                  locked' \in Int /\ supply' \in Nat
<1>1. ASSUME NEW c \in Chains, NEW a \in Amounts, LockOrBurn(c, a)
      PROVE  locked' \in Int /\ supply' \in Nat
  <2>1. a \in Nat /\ locked \in Int /\ supply \in Nat
    BY BridgeAssumption DEF BridgeTypeOK
  <2> QED BY <1>1, <2>1 DEF LockOrBurn
<1>2. ASSUME NEW m \in Messages, MintOrRelease(m)
      PROVE  locked' \in Int /\ supply' \in Nat
  <2>1. Amount(m) \in Nat /\ locked \in Int /\ supply \in Nat
    BY MessageFacts, BridgeAssumption DEF BridgeTypeOK
  <2> QED BY <1>2, <2>1 DEF MintOrRelease
<1> QED BY <1>1, <1>2

LEMMA BridgeTypeInit == BridgeInit => BridgeTypeOK
<1> SUFFICES ASSUME BridgeInit PROVE BridgeTypeOK
  OBVIOUS
<1>1. PICK stranded \in {<<>>} \cup {<<a>> : a \in Amounts} :
          /\ sent = [c \in Chains |-> IF c = Collateral THEN stranded ELSE <<>>]
          /\ locked = IF stranded = <<>> THEN 0 ELSE stranded[1]
  BY DEF BridgeInit
<1>2. stranded \in Seq(Amounts) /\ Len(stranded) \in {0, 1} /\ locked \in Int
  <2>1. CASE stranded = <<>>
    BY <1>1, <2>1
  <2>2. ASSUME NEW a \in Amounts, stranded = <<a>>
        PROVE  stranded \in Seq(Amounts) /\ Len(stranded) = 1 /\ locked \in Int
    <3>1. locked = a
      BY <1>1, <2>2
    <3> QED BY <2>2, <3>1, BridgeAssumption
  <2> QED BY <2>1, <2>2
<1>3. sent \in [Chains -> Seq(Amounts)]
  BY <1>1, <1>2
<1>4. ASSUME NEW c \in Chains PROVE Len(sent[c]) <= MaxTransfers[c]
  <2>1. MaxTransfers[c] \in Nat /\ MaxTransfers[c] >= 1
    BY BridgeAssumption
  <2>2. sent[c] = stranded \/ sent[c] = <<>>
    BY <1>1
  <2>3. Len(sent[c]) = 0 \/ Len(sent[c]) = 1
    BY <1>2, <2>2
  <2> QED
    <3>1. \A n \in Nat : n >= 1 => 0 <= n /\ 1 <= n
      OBVIOUS
    <3> QED BY <2>1, <2>3, <3>1, Zenon
<1>5. allowance \in [Gates -> 0..MaxAllowance] /\ moved \in [Gates -> Nat]
  BY BridgeAssumption DEF BridgeInit, AtGate!GateInit
<1> QED
  BY <1>2, <1>3, <1>4, <1>5, BridgeAssumption DEF BridgeInit, BridgeTypeOK

\* Everything a step that dispatches nothing leaves as it was.
LEMMA SameMessages ==
    ASSUME UNCHANGED sent
    PROVE  Messages' = Messages
BY DEF Messages, MessageIds

LEMMA VerifyTypes ==
    ASSUME BridgeTypeOK, NEW m \in Messages, Verify(m)
    PROVE  /\ allowance' \in [Gates -> 0..MaxAllowance]
           /\ moved' \in [Gates -> Nat]
           /\ recoverable' \subseteq Messages
<1>1. InboundGate(m) \in Gates /\ Amount(m) \in Amounts
  BY MessageFacts
<1>2. \/ Authorized(InboundGate(m), Amount(m))
      \/ UNCHANGED bridgeGateVars
  BY DEF Verify, RecoveryVerify, GuardVerify
<1>3. allowance' \in [Gates -> 0..MaxAllowance] /\ moved' \in [Gates -> Nat]
  <2>1. CASE Authorized(InboundGate(m), Amount(m))
    BY <1>1, <2>1, AuthorizedTypes
  <2>2. CASE UNCHANGED bridgeGateVars
    BY <2>2 DEF bridgeGateVars, BridgeTypeOK
  <2> QED BY <1>2, <2>1, <2>2
<1>4. recoverable' \subseteq Messages
  BY DEF Verify, RecoveryVerify, BridgeTypeOK
<1> QED BY <1>3, <1>4

\* One step per operation, each by the conjuncts it can disturb.
LEMMA BridgeTypeStep == BridgeTypeOK /\ [BridgeNext]_bridgeVars => BridgeTypeOK'
<1> SUFFICES ASSUME BridgeTypeOK, [BridgeNext]_bridgeVars PROVE BridgeTypeOK'
  OBVIOUS
<1>1. ASSUME NEW c \in Chains, NEW a \in Amounts, Transfer(c, a) PROVE BridgeTypeOK'
  <2> DEFINE m == [origin |-> c, nonce |-> Len(sent[c]) + 1]
  <2>1. /\ sent' \in [Chains -> Seq(Amounts)]
        /\ \A d \in Chains : Len(sent'[d]) <= MaxTransfers[d]
        /\ Messages \subseteq Messages'
        /\ m \in Messages'
    BY <1>1, Dispatch
  <2>2. Authorized(OutboundGate(c), a) /\ inTree' = inTree \cup {m}
    BY <1>1 DEF Transfer, PostDispatch
  <2>3. allowance' \in [Gates -> 0..MaxAllowance] /\ moved' \in [Gates -> Nat]
    BY <2>2, AuthorizedTypes, ChainFacts
  <2>4. locked' \in Int /\ supply' \in Nat
    BY <1>1, ValueTypes DEF Transfer
  <2>5. UNCHANGED <<attested, delivered, bound, installed, recoverable>>
    BY <1>1 DEF Transfer, recoveryVars
  <2> QED BY <2>1, <2>2, <2>3, <2>4, <2>5 DEF BridgeTypeOK
<1>2. ASSUME NEW m \in Messages, Attest(m) PROVE BridgeTypeOK'
  BY <1>2, SameMessages
  DEF Attest, BridgeTypeOK, valueVars, recoveryVars, bridgeGateVars
<1>3. ASSUME NEW m \in Messages, Process(m) PROVE BridgeTypeOK'
  <2>1. /\ allowance' \in [Gates -> 0..MaxAllowance]
        /\ moved' \in [Gates -> Nat]
        /\ recoverable' \subseteq Messages
    BY <1>3, VerifyTypes DEF Process
  <2>2. locked' \in Int /\ supply' \in Nat
    BY <1>3, ValueTypes DEF Process
  <2>3. delivered' \subseteq Messages /\ UNCHANGED <<sent, inTree, attested, bound, installed>>
    BY <1>3 DEF Process, BridgeTypeOK
  <2> QED BY <2>1, <2>2, <2>3, SameMessages DEF BridgeTypeOK
<1>4. ASSUME NEW m \in Messages, Allow(m) \/ Revoke(m) PROVE BridgeTypeOK'
  BY <1>4, SameMessages
  DEF Allow, Revoke, BridgeTypeOK, messageVars, valueVars, bridgeGateVars
<1>5. ASSUME NEW c \in Recoverers, SetIsm(c) PROVE BridgeTypeOK'
  BY <1>5, SameMessages DEF SetIsm, BridgeTypeOK, messageVars, valueVars, bridgeGateVars
<1>6. ASSUME NEW g \in Bindable, NEW b \in BOOLEAN, BindRoute(g, b) PROVE BridgeTypeOK'
  BY <1>6, SameMessages, BridgeAssumption
  DEF BindRoute, BridgeTypeOK, messageVars, valueVars, recoveryVars, bridgeGateVars
<1>7. ASSUME NEW g \in Gates, NEW n \in 0..MaxAllowance, OperateGate(g, n)
      PROVE  BridgeTypeOK'
  BY <1>7, SameMessages
  DEF OperateGate, AtGate!Operate, BridgeTypeOK, messageVars, valueVars, recoveryVars
<1>8. ASSUME UNCHANGED bridgeVars PROVE BridgeTypeOK'
  BY <1>8, SameMessages
  DEF BridgeTypeOK, bridgeVars, messageVars, valueVars, recoveryVars, bridgeGateVars
<1>9. ASSUME NEW m \in Messages, PostDispatchAgain(m) PROVE BridgeTypeOK'
  <2>1. Authorized(OutboundGate(m.origin), Amount(m)) /\ inTree' = inTree \cup {m}
    BY <1>9 DEF PostDispatchAgain, PostDispatch
  <2>2. m.origin \in Chains /\ Amount(m) \in Amounts
    BY MessageFacts
  <2>3. allowance' \in [Gates -> 0..MaxAllowance] /\ moved' \in [Gates -> Nat]
    BY <2>1, <2>2, AuthorizedTypes, ChainFacts
  <2>4. UNCHANGED <<sent, attested, delivered, locked, supply, bound, installed, recoverable>>
    BY <1>9 DEF PostDispatchAgain, valueVars, recoveryVars
  <2> QED BY <2>1, <2>3, <2>4, SameMessages DEF BridgeTypeOK
<1> HIDE DEF BridgeTypeOK
<1> QED
  BY <1>1, <1>2, <1>3, <1>4, <1>5, <1>6, <1>7, <1>8, <1>9, BridgeStepCases, Zenon

\* The types of every reachable state: in particular no message is delivered
\* or attested that was never dispatched, and no burn makes the supply negative.
THEOREM BridgeTypeCorrect == BridgeSpec => []BridgeTypeOK
BY BridgeTypeInit, BridgeTypeStep, PTL DEF BridgeSpec
----------------------------------------------------------------------------
LEMMA TransferMaps ==
    ASSUME NEW c \in Chains, NEW a \in Amounts, Transfer(c, a)
    PROVE  AbstractLedger!LedgerNext
<1>1. CASE c = Collateral
  <2>1. AbstractLedger!Lock(a)
    BY <1>1 DEF Transfer, LockOrBurn, AbstractLedger!Lock, AbstractLedger!Append1
  <2> QED BY <2>1 DEF AbstractLedger!LedgerNext
<1>2. CASE c = Synthetic
  <2>1. AbstractLedger!Burn(a)
    BY <1>2, BridgeAssumption
    DEF Transfer, LockOrBurn, AbstractLedger!Burn, AbstractLedger!Append1
  <2> QED BY <2>1 DEF AbstractLedger!LedgerNext
<1> QED BY <1>1, <1>2, ChainFacts

LEMMA ProcessMaps ==
    ASSUME BridgeTypeOK, NEW m \in Messages, Process(m)
    PROVE  AbstractLedger!LedgerNext
<1> DEFINE i == m.nonce
<1>1. /\ m = [origin |-> m.origin, nonce |-> i]
      /\ i \in DOMAIN sent[m.origin]
      /\ m.origin \in Chains
  BY MessageFacts
<1>2. m \notin delivered /\ delivered' = delivered \cup {m} /\ UNCHANGED sent
  BY DEF Process, NotYetDelivered
<1>3. Amount(m) = sent[m.origin][i] /\ Destination(m) = Other(m.origin)
  BY DEF Amount, Destination
<1>4. MintOrRelease(m)
  BY DEF Process
<1>5. CASE m.origin = Collateral
  <2>1. supply' = supply + sent[Collateral][i] /\ UNCHANGED locked
    BY <1>1, <1>3, <1>4, <1>5, ChainFacts DEF MintOrRelease
  <2>2. AbstractLedger!Mint(i)
    BY <1>1, <1>2, <1>5, <2>1 DEF AbstractLedger!Mint
  <2> QED BY <1>1, <1>5, <2>2 DEF AbstractLedger!LedgerNext
<1>6. CASE m.origin = Synthetic
  <2>1. locked' = locked - sent[Synthetic][i] /\ UNCHANGED supply
    BY <1>1, <1>3, <1>4, <1>6, ChainFacts, BridgeAssumption DEF MintOrRelease
  <2>2. AbstractLedger!Release(i)
    BY <1>1, <1>2, <1>6, <2>1 DEF AbstractLedger!Release
  <2> QED BY <1>1, <1>6, <2>2 DEF AbstractLedger!LedgerNext
<1> QED BY <1>1, <1>5, <1>6, ChainFacts

\* INV-06, INV-07, INV-08 for every instance: whatever relayers retry and
\* operators pause, limit, bind, clear or install, each transfer is debited
\* once and credited at most once, with the amount that was debited.
THEOREM LedgerTheorem == BridgeSpec => ImplementsLedger
<1>1. BridgeInit => AbstractLedger!LedgerInit
  <2> SUFFICES ASSUME BridgeInit PROVE AbstractLedger!LedgerInit
    OBVIOUS
  <2>1. PICK stranded \in {<<>>} \cup {<<a>> : a \in Amounts} :
          /\ sent = [c \in Chains |-> IF c = Collateral THEN stranded ELSE <<>>]
          /\ locked = IF stranded = <<>> THEN 0 ELSE stranded[1]
    BY DEF BridgeInit
  <2>2. sent[Synthetic] = <<>> /\ sent[Collateral] = stranded
    BY <2>1, BridgeAssumption DEF Chains
  <2>3. \/ stranded = <<>> /\ locked = 0
        \/ \E a \in Amounts : stranded = <<a>> /\ locked = a
    <3>1. CASE stranded = <<>>
      BY <2>1, <3>1
    <3>2. ASSUME NEW a \in Amounts, stranded = <<a>> PROVE locked = a
      BY <2>1, <3>2
    <3> QED BY <3>1, <3>2
  <2> QED BY <2>2, <2>3 DEF AbstractLedger!LedgerInit, BridgeInit
<1>2. ASSUME BridgeTypeOK, [BridgeNext]_bridgeVars
      PROVE  [AbstractLedger!LedgerNext]_(AbstractLedger!ledgerVars)
  <2> DEFINE Mapped == [AbstractLedger!LedgerNext]_(AbstractLedger!ledgerVars)
  <2>1. ASSUME NEW c \in Chains, NEW a \in Amounts, Transfer(c, a) PROVE Mapped
    BY <2>1, TransferMaps
  <2>2. ASSUME NEW m \in Messages, Process(m) PROVE Mapped
    BY <1>2, <2>2, ProcessMaps
  <2>3. ASSUME UNCHANGED <<messageVars, valueVars>> PROVE Mapped
    BY <2>3 DEF messageVars, valueVars, AbstractLedger!ledgerVars
  <2>4. ASSUME NEW m, Attest(m) PROVE Mapped
    BY <2>4 DEF Attest, valueVars, AbstractLedger!ledgerVars
  <2>5. ASSUME NEW m, Allow(m) \/ Revoke(m) PROVE UNCHANGED <<messageVars, valueVars>>
    BY <2>5 DEF Allow, Revoke
  <2>6. ASSUME NEW c, SetIsm(c) PROVE UNCHANGED <<messageVars, valueVars>>
    BY <2>6 DEF SetIsm
  <2>7. ASSUME NEW g, NEW b, BindRoute(g, b) \/ OperateGate(g, b)
        PROVE  UNCHANGED <<messageVars, valueVars>>
    BY <2>7 DEF BindRoute, OperateGate
  <2>8. UNCHANGED bridgeVars => UNCHANGED <<messageVars, valueVars>>
    BY DEF bridgeVars
  <2>9. ASSUME NEW m, PostDispatchAgain(m) PROVE Mapped
    BY <2>9 DEF PostDispatchAgain, valueVars, AbstractLedger!ledgerVars
  <2> HIDE DEF Mapped
  <2>10. Mapped
    BY <1>2, <2>1, <2>2, <2>3, <2>4, <2>5, <2>6, <2>7, <2>8, <2>9, BridgeStepCases, Zenon
  <2> QED BY <2>10 DEF Mapped
<1> QED
  BY <1>1, <1>2, BridgeTypeCorrect, PTL
  DEF BridgeSpec, ImplementsLedger, AbstractLedger!LedgerSpec
-----------------------------------------------------------------------------
\* Induction over the subsets of a finite set.
LEMMA SmallestSubset ==
    ASSUME NEW T, IsFiniteSet(T), NEW B, B \subseteq SUBSET T, B # {}
    PROVE  \E U \in B : \A V \in B : V \subseteq U => V = U
<1>1. IsWellFoundedOn(StrictSubsetOrdering(T), SUBSET T)
  BY FS_StrictSubsetOrderingWellFounded, FS_FiniteSubsetsOfFinite, Zenon
<1>2. PICK U \in B : \A V \in B : ~(<<V, U>> \in StrictSubsetOrdering(T))
  BY <1>1, WFMin, Zenon
<1>3. ASSUME NEW V \in B, V \subseteq U PROVE V = U
  BY <1>2, <1>3 DEF StrictSubsetOrdering
<1> QED BY <1>3

\* The amount of message m, if s is what was sent: InTransit's Amount, with
\* the state it reads as a parameter, so that two states can be compared.
Carried(s, m) == s[m.origin][m.nonce]
\* The element the community modules' fold takes out of a set.
Some(t) == CHOOSE m \in t : TRUE

\* f is the fold's recursive function on the subsets of T.
IsSum(s, f, T) ==
    f = [t \in SUBSET T |-> IF t = {} THEN 0 ELSE Carried(s, Some(t)) + f[t \ {Some(t)}]]

\* The sum the model is written with.
Total(s, T) == MapThenSumSet(LAMBDA m : Carried(s, m), T)

LEMMA SomeIn ==
    ASSUME NEW T, T # {}
    PROVE  Some(T) \in T
BY Zenon DEF Some

\* Two such functions agree wherever both are defined.
LEMMA SumsAgree ==
    ASSUME NEW s, NEW T, IsFiniteSet(T), NEW U, IsFiniteSet(U), NEW f, NEW g, IsSum(s, f, T), IsSum(s, g, U),
           NEW t \in SUBSET T, t \in SUBSET U
    PROVE  f[t] = g[t]
<1> DEFINE B == {v \in SUBSET T : v \subseteq U /\ f[v] # g[v]}
<1>1. SUFFICES ASSUME B # {} PROVE FALSE
  OBVIOUS
<1>2. B \subseteq SUBSET T
  OBVIOUS
<1>5. \E v \in B : \A w \in B : w \subseteq v => w = v
  <2> HIDE DEF B
  <2> QED BY <1>1, <1>2, SmallestSubset
<1>3. PICK v \in B : \A w \in B : w \subseteq v => w = v
  BY <1>5
<1>4. v \in SUBSET T /\ v \in SUBSET U
  OBVIOUS
<1>6. f[v] = IF v = {} THEN 0 ELSE Carried(s, Some(v)) + f[v \ {Some(v)}]
  BY <1>4 DEF IsSum
<1>7. g[v] = IF v = {} THEN 0 ELSE Carried(s, Some(v)) + g[v \ {Some(v)}]
  BY <1>4 DEF IsSum
<1>8. v # {}
  BY <1>6, <1>7
<1>9. Some(v) \in v
  BY <1>8, SomeIn
<1>10. f[v \ {Some(v)}] = g[v \ {Some(v)}]
  <2>1. v \ {Some(v)} \notin B
    BY <1>3, <1>9
  <2> QED BY <2>1, <1>4
<1> QED BY <1>6, <1>7, <1>8, <1>10

\* Such a function exists: on each subset by those of the smaller ones.
LEMMA SumExists ==
    ASSUME NEW s, NEW T, IsFiniteSet(T)
    PROVE  \E f : IsSum(s, f, T)
<1> DEFINE B == {v \in SUBSET T : ~ \E f : IsSum(s, f, v)}
<1>1. SUFFICES ASSUME B # {} PROVE FALSE
  OBVIOUS
<1>2. B \subseteq SUBSET T
  OBVIOUS
<1>5. \E v \in B : \A w \in B : w \subseteq v => w = v
  <2> HIDE DEF B
  <2> QED BY <1>1, <1>2, SmallestSubset
<1>3. PICK v \in B : \A w \in B : w \subseteq v => w = v
  BY <1>5
<1> DEFINE g == [w \in SUBSET T |-> CHOOSE f : IsSum(s, f, w)]
<1>4. ASSUME NEW w \in SUBSET v, w # v PROVE IsSum(s, g[w], w) /\ w \in SUBSET T /\ IsFiniteSet(w)
  <2>1. w \notin B /\ w \in SUBSET T
    BY <1>3, <1>4
  <2>2. \E f : IsSum(s, f, w)
    BY <2>1
  <2>3. IsSum(s, CHOOSE f : IsSum(s, f, w), w)
    BY <2>2, Zenon
  <2>4. IsFiniteSet(w)
    BY <2>1, FS_Subset
  <2> QED BY <2>1, <2>3, <2>4
<1> DEFINE rest(t) == t \ {Some(t)}
<1> DEFINE f == [t \in SUBSET v |-> IF t = {} THEN 0 ELSE Carried(s, Some(t)) + g[rest(t)][rest(t)]]
<1>6. ASSUME NEW t \in SUBSET v, t # {} PROVE f[rest(t)] = g[rest(t)][rest(t)]
  <2> DEFINE u == rest(t)
  <2>1. u \in SUBSET v /\ u # v
    BY <1>6, SomeIn
  <2>2. IsSum(s, g[u], u) /\ IsFiniteSet(u)
    BY <2>1, <1>4
  <2>3. g[u][u] = IF u = {} THEN 0 ELSE Carried(s, Some(u)) + g[u][rest(u)]
    BY <2>2 DEF IsSum
  <2>4. f[u] = IF u = {} THEN 0 ELSE Carried(s, Some(u)) + g[rest(u)][rest(u)]
    BY <2>1
  <2>5. ASSUME u # {} PROVE g[u][rest(u)] = g[rest(u)][rest(u)]
    <3>1. rest(u) \in SUBSET v /\ rest(u) # v /\ rest(u) \subseteq u
      BY <2>5, <2>1, SomeIn
    <3>2. IsSum(s, g[rest(u)], rest(u)) /\ IsFiniteSet(rest(u))
      BY <3>1, <1>4
    <3> DEFINE w == rest(u)
    <3>3. w \subseteq u /\ IsSum(s, g[u], u) /\ IsFiniteSet(u) /\ IsSum(s, g[w], w) /\ IsFiniteSet(w)
      BY <3>1, <3>2, <2>2
    <3> HIDE DEF g, u, w
    <3>4. g[u][w] = g[w][w]
      BY <3>3, SumsAgree
    <3> QED BY <3>4 DEF w
  <2> QED BY <2>3, <2>4, <2>5
<1>7. IsSum(s, f, v)
  <2>1. \A t \in SUBSET v : f[t] = IF t = {} THEN 0 ELSE Carried(s, Some(t)) + f[rest(t)]
    <3> SUFFICES ASSUME NEW t \in SUBSET v
                 PROVE f[t] = IF t = {} THEN 0 ELSE Carried(s, Some(t)) + f[rest(t)]
      OBVIOUS
    <3>1. f[t] = IF t = {} THEN 0 ELSE Carried(s, Some(t)) + g[rest(t)][rest(t)]
      OBVIOUS
    <3> HIDE DEF f, g
    <3> QED BY <1>6, <3>1
  <2> HIDE DEF g
  <2>2. f = [t \in SUBSET v |-> f[t]]
    OBVIOUS
  <2> HIDE DEF f
  <2> QED BY <2>1, <2>2 DEF IsSum
<1> QED BY <1>7

\* So the sum is the value of any such function.
LEMMA TotalIsSum ==
    ASSUME NEW s, NEW T, IsFiniteSet(T), NEW f, IsSum(s, f, T)
    PROVE  Total(s, T) = f[T]
<1> DEFINE iter == CHOOSE g : IsSum(s, g, T)
<1>1. IsSum(s, iter, T)
  BY SumExists, Zenon
<1>2. Total(s, T) = iter[T]
  BY Zenon DEF Total, MapThenSumSet, MapThenFoldSet, IsSum, Some
<1>3. T \subseteq T
  OBVIOUS
<1> HIDE DEF iter
<1> QED BY <1>1, <1>2, <1>3, SumsAgree

LEMMA TotalEmpty ==
    ASSUME NEW s
    PROVE  Total(s, {}) = 0
<1>1. PICK f : IsSum(s, f, {})
  BY SumExists, FS_EmptySet
<1>2. f[{}] = 0
  BY <1>1 DEF IsSum
<1> QED BY <1>1, <1>2, TotalIsSum, FS_EmptySet

\* The sum, one element at a time, as the fold takes them.
LEMMA TotalStep ==
    ASSUME NEW s, NEW T, IsFiniteSet(T), T # {}
    PROVE  Total(s, T) = Carried(s, Some(T)) + Total(s, T \ {Some(T)})
<1>1. PICK f : IsSum(s, f, T)
  BY SumExists
<1>2. ASSUME NEW rest, rest = T \ {Some(T)} PROVE Total(s, T) = Carried(s, Some(T)) + Total(s, rest)
  <2>1. IsFiniteSet(rest) /\ rest \in SUBSET T
    BY <1>2, FS_RemoveElement
  <2>2. f[T] = Carried(s, Some(T)) + f[rest]
    BY <1>1, <1>2 DEF IsSum
  <2>3. PICK g : IsSum(s, g, rest)
    BY <2>1, SumExists
  <2>4. f[rest] = g[rest]
    BY <1>1, <2>1, <2>3, SumsAgree
  <2>5. Total(s, T) = f[T] /\ Total(s, rest) = g[rest]
    BY <1>1, <2>1, <2>3, TotalIsSum
  <2> QED BY <2>2, <2>4, <2>5
<1> QED BY <1>2

\* A sum of numbers is a number.
LEMMA TotalType ==
    ASSUME NEW s, NEW T, IsFiniteSet(T), \A m \in T : Carried(s, m) \in Nat
    PROVE  Total(s, T) \in Nat
<1> DEFINE B == {v \in SUBSET T : Total(s, v) \notin Nat}
<1>1. SUFFICES ASSUME B # {} PROVE FALSE
  OBVIOUS
<1>2. B \subseteq SUBSET T
  OBVIOUS
<1>3. \E v \in B : \A w \in B : w \subseteq v => w = v
  <2> HIDE DEF B
  <2> QED BY <1>1, <1>2, SmallestSubset
<1>4. PICK v \in B : \A w \in B : w \subseteq v => w = v
  BY <1>3
<1>5. v # {}
  BY TotalEmpty
<1>6. Some(v) \in v /\ IsFiniteSet(v)
  BY <1>5, SomeIn, FS_Subset
<1>7. Total(s, v \ {Some(v)}) \in Nat
  BY <1>4, <1>6
<1>8. Total(s, v) = Carried(s, Some(v)) + Total(s, v \ {Some(v)})
  BY <1>5, <1>6, TotalStep
<1>9. Carried(s, Some(v)) \in Nat
  BY <1>6
<1> QED BY <1>7, <1>8, <1>9

\* Messages that carry the same in two states sum to the same.
LEMMA TotalSame ==
    ASSUME NEW s, NEW r, NEW T, IsFiniteSet(T), \A m \in T : Carried(s, m) = Carried(r, m)
    PROVE  Total(s, T) = Total(r, T)
<1> DEFINE B == {v \in SUBSET T : Total(s, v) # Total(r, v)}
<1>1. SUFFICES ASSUME B # {} PROVE FALSE
  OBVIOUS
<1>2. B \subseteq SUBSET T
  OBVIOUS
<1>3. \E v \in B : \A w \in B : w \subseteq v => w = v
  <2> HIDE DEF B
  <2> QED BY <1>1, <1>2, SmallestSubset
<1>4. PICK v \in B : \A w \in B : w \subseteq v => w = v
  BY <1>3
<1>5. v # {}
  BY TotalEmpty
<1>6. Some(v) \in v /\ IsFiniteSet(v)
  BY <1>5, SomeIn, FS_Subset
<1>7. Total(s, v \ {Some(v)}) = Total(r, v \ {Some(v)})
  BY <1>4, <1>6
<1>8. /\ Total(s, v) = Carried(s, Some(v)) + Total(s, v \ {Some(v)})
      /\ Total(r, v) = Carried(r, Some(v)) + Total(r, v \ {Some(v)})
  BY <1>5, <1>6, TotalStep
<1>9. Carried(s, Some(v)) = Carried(r, Some(v))
  BY <1>6
<1> QED BY <1>7, <1>8, <1>9

\* The order in which the fold takes the elements does not matter: any of
\* them can be taken out first.
LEMMA TotalRemove ==
    ASSUME NEW s, NEW T, IsFiniteSet(T), \A m \in T : Carried(s, m) \in Nat, NEW x \in T
    PROVE  Total(s, T) = Carried(s, x) + Total(s, T \ {x})
<1> DEFINE B == {v \in SUBSET T : \E y \in v : Total(s, v) # Carried(s, y) + Total(s, v \ {y})}
<1>1. SUFFICES ASSUME B # {} PROVE FALSE
  OBVIOUS
<1>2. B \subseteq SUBSET T
  OBVIOUS
<1>3. \E v \in B : \A w \in B : w \subseteq v => w = v
  <2> HIDE DEF B
  <2> QED BY <1>1, <1>2, SmallestSubset
<1>4. PICK v \in B : \A w \in B : w \subseteq v => w = v
  BY <1>3
<1>5. PICK y \in v : Total(s, v) # Carried(s, y) + Total(s, v \ {y})
  BY <1>4
<1> DEFINE z == Some(v)
<1>6. z \in v /\ IsFiniteSet(v) /\ v \in SUBSET T
  BY <1>5, SomeIn, FS_Subset
<1>7. Total(s, v) = Carried(s, z) + Total(s, v \ {z})
  BY <1>5, <1>6, TotalStep
<1> HIDE DEF z
<1>8. y # z
  BY <1>5, <1>7
<1>9. Total(s, v \ {z}) = Carried(s, y) + Total(s, (v \ {z}) \ {y})
  <2>1. v \ {z} \notin B /\ v \ {z} \in SUBSET T /\ y \in v \ {z}
    BY <1>4, <1>6, <1>8
  <2> QED BY <2>1
<1>10. Total(s, v \ {y}) = Carried(s, z) + Total(s, (v \ {y}) \ {z})
  <2>1. v \ {y} \notin B /\ v \ {y} \in SUBSET T /\ z \in v \ {y}
    BY <1>4, <1>5, <1>6, <1>8
  <2> QED BY <2>1
<1>11. (v \ {y}) \ {z} = (v \ {z}) \ {y}
  OBVIOUS
<1>12. Carried(s, y) \in Nat /\ Carried(s, z) \in Nat
  BY <1>5, <1>6
<1>13. Total(s, (v \ {z}) \ {y}) \in Nat
  <2>1. IsFiniteSet((v \ {z}) \ {y})
    BY <1>6, FS_Subset
  <2> QED BY <1>6, <2>1, TotalType
<1> QED BY <1>5, <1>7, <1>9, <1>10, <1>11, <1>12, <1>13
-----------------------------------------------------------------------------
\* What c sent and the other chain has not been credited.
Undelivered(c) == {m \in Messages \ delivered : m.origin = c}

\* The model's InTransit is such a sum, now and after a step.
LEMMA InTransitIsTotal ==
    ASSUME NEW c
    PROVE  InTransit(c) = Total(sent, Undelivered(c))
BY Zenon DEF InTransit, Total, Undelivered, Carried, Amount

LEMMA MessagesFinite == IsFiniteSet(MessageIds)
<1>1. ASSUME NEW c \in Chains PROVE IsFiniteSet([origin: {c}, nonce: 1..MaxTransfers[c]])
  <2> DEFINE ids == [origin: {c}, nonce: 1..MaxTransfers[c]]
             named == [i \in 1..MaxTransfers[c] |-> [origin |-> c, nonce |-> i]]
  <2>1. IsFiniteSet(1..MaxTransfers[c])
    BY BridgeAssumption, FS_Interval
  <2>2. named \in Surjection(1..MaxTransfers[c], ids)
    <3>1. named \in [1..MaxTransfers[c] -> ids]
      OBVIOUS
    <3>2. ASSUME NEW m \in ids PROVE \E i \in 1..MaxTransfers[c] : named[i] = m
      <4>1. m.nonce \in 1..MaxTransfers[c] /\ m = [origin |-> c, nonce |-> m.nonce]
        OBVIOUS
      <4> QED BY <4>1
    <3> QED BY <3>1, <3>2 DEF Surjection
  <2> HIDE DEF named, ids
  <2>3. IsFiniteSet(ids)
    BY <2>1, <2>2, FS_Surjection
  <2> QED BY <2>3 DEF ids
<1> DEFINE ids(c) == [origin: {c}, nonce: 1..MaxTransfers[c]]
<1>2. MessageIds = ids(Collateral) \cup ids(Synthetic)
  BY DEF MessageIds, Chains
<1>3. IsFiniteSet(ids(Collateral)) /\ IsFiniteSet(ids(Synthetic))
  BY <1>1 DEF Chains
<1> HIDE DEF ids
<1> QED BY <1>2, <1>3, FS_Union

\* All the sets summed over are finite.
LEMMA UndeliveredFinite ==
    ASSUME NEW c
    PROVE  IsFiniteSet(Undelivered(c))
<1>1. Undelivered(c) \in SUBSET MessageIds
  BY DEF Undelivered, Messages
<1> QED BY <1>1, MessagesFinite, FS_Subset

LEMMA InTransitTotals == \A c : InTransit(c) = Total(sent, Undelivered(c))
BY InTransitIsTotal

LEMMA InTransitTotalsAfter == (\A c : InTransit(c) = Total(sent, Undelivered(c)))'
BY InTransitTotals, PTL

\* Every message carries an amount, so every sum over messages is a number.
LEMMA CarriesNumbers ==
    ASSUME BridgeTypeOK, NEW m \in Messages
    PROVE  Carried(sent, m) \in Nat /\ Carried(sent, m) = Amount(m)
BY MessageFacts, BridgeAssumption DEF Carried, Amount

LEMMA InTransitType ==
    ASSUME BridgeTypeOK, NEW c
    PROVE  InTransit(c) \in Nat
<1>1. \A m \in Undelivered(c) : Carried(sent, m) \in Nat
  BY CarriesNumbers DEF Undelivered
<1> QED BY <1>1, InTransitIsTotal, TotalType, UndeliveredFinite

LEMMA InTransitTypes == BridgeTypeOK => \A c : InTransit(c) \in Nat
BY InTransitType

LEMMA InTransitTypesAfter == (BridgeTypeOK => \A c : InTransit(c) \in Nat)'
BY InTransitTypes, PTL

\* A step that dispatches and delivers nothing leaves the same in transit.
LEMMA SameInTransit ==
    ASSUME UNCHANGED <<sent, delivered>>
    PROVE  \A c : InTransit(c)' = InTransit(c)
<1> TAKE c
<1>1. Undelivered(c)' = Undelivered(c)
  BY SameMessages DEF Undelivered
<1>2. InTransit(c) = Total(sent, Undelivered(c))
  BY InTransitIsTotal
<1>3. InTransit(c)' = Total(sent', Undelivered(c)')
  BY InTransitTotalsAfter
<1> QED BY <1>1, <1>2, <1>3

\* A dispatch adds one message, which nobody has delivered.
LEMMA NewMessage ==
    ASSUME BridgeTypeOK, NEW c \in Chains, NEW a \in Amounts, Transfer(c, a),
           NEW m, m = [origin |-> c, nonce |-> Len(sent[c]) + 1]
    PROVE  /\ m \notin Messages
           /\ Messages' = Messages \cup {m}
           /\ Carried(sent', m) = a
           /\ \A x \in Messages : Carried(sent', x) = Carried(sent, x)
<1>1. sent' = [sent EXCEPT ![c] = Append(@, a)]
  BY DEF Transfer
<1>2. \A d \in Chains : sent[d] \in Seq(Amounts) /\ MaxTransfers[d] \in Nat
  BY BridgeAssumption DEF BridgeTypeOK
<1>3. \A d \in Chains : sent'[d] = IF d = c THEN Append(sent[c], a) ELSE sent[d]
  BY <1>1 DEF BridgeTypeOK
<1>4. sent'[c] = Append(sent[c], a) /\ Len(sent'[c]) = Len(sent[c]) + 1 /\ Len(sent[c]) \in Nat
  <2>1. sent'[c] = Append(sent[c], a) /\ sent[c] \in Seq(Amounts)
    BY <1>2, <1>3
  <2> QED BY <2>1
<1>5. m.origin = c /\ m.nonce = Len(sent[c]) + 1
  OBVIOUS
<1>6. m \notin Messages
  BY <1>4, <1>5 DEF Messages
<1>7. Carried(sent', m) = a
  BY <1>2, <1>4, <1>5 DEF Carried
<1>8. ASSUME NEW x \in Messages PROVE Carried(sent', x) = Carried(sent, x)
  <2>1. x.origin \in Chains /\ x.nonce \in DOMAIN sent[x.origin]
    BY MessageFacts
  <2>2. CASE x.origin = c
    <3> DEFINE k == x.nonce
               q == sent[c]
    <3>1. q \in Seq(Amounts) /\ k \in DOMAIN q
      BY <1>2, <2>1, <2>2
    <3> HIDE DEF k, q
    <3>2. Append(q, a)[k] = q[k]
      BY <3>1
    <3> QED BY <1>4, <2>2, <3>2, Zenon DEF Carried, k, q
  <2>3. CASE x.origin # c
    BY <1>3, <2>1, <2>3 DEF Carried
  <2> QED BY <2>2, <2>3
<1>9. ASSUME NEW x \in Messages' PROVE x \in Messages \/ x = m
  <2>1. x \in MessageIds /\ x.nonce <= Len(sent'[x.origin])
    BY DEF Messages, MessageIds
  <2>2. PICK d \in Chains : \E i \in 1..MaxTransfers[d] : x = [origin |-> d, nonce |-> i]
    BY <2>1, IdFacts
  <2>3. PICK i \in 1..MaxTransfers[d] : x = [origin |-> d, nonce |-> i]
    BY <2>2
  <2>4. i \in Nat /\ x.origin = d /\ x.nonce = i
    BY <1>2, <2>3
  <2>5. CASE d # c
    BY <1>3, <2>1, <2>4, <2>5 DEF Messages
  <2>6. CASE d = c
    <3>1. i <= Len(sent[c]) \/ i = Len(sent[c]) + 1
      BY <1>4, <2>1, <2>4, <2>6
    <3> QED BY <2>1, <2>3, <2>4, <2>6, <3>1 DEF Messages
  <2> QED BY <2>5, <2>6
<1>10. Messages \subseteq Messages' /\ m \in Messages'
  BY Dispatch
<1> QED BY <1>6, <1>7, <1>8, <1>9, <1>10

\* A dispatch puts its amount in transit, on its own side only.
LEMMA TransferInTransit ==
    ASSUME BridgeTypeOK, NEW c \in Chains, NEW a \in Amounts, Transfer(c, a)
    PROVE  \A d \in Chains :
             InTransit(d)' = InTransit(d) + (IF d = c THEN a ELSE 0)
<1>1. ASSUME NEW d \in Chains, NEW m, m = [origin |-> c, nonce |-> Len(sent[c]) + 1]
      PROVE  InTransit(d)' = InTransit(d) + (IF d = c THEN a ELSE 0)
  <2>1. /\ m \notin Messages
        /\ Messages' = Messages \cup {m}
        /\ Carried(sent', m) = a
        /\ \A x \in Messages : Carried(sent', x) = Carried(sent, x)
    BY <1>1, NewMessage
  <2>2. m \notin delivered /\ delivered' = delivered /\ m.origin = c
    BY <1>1, <2>1 DEF BridgeTypeOK, Transfer
  <2>3. InTransit(d)' = Total(sent', Undelivered(d)')
    BY InTransitTotalsAfter
  <2>4. InTransit(d) = Total(sent, Undelivered(d))
    BY InTransitIsTotal
  <2>5. Undelivered(d)' = IF d = c THEN Undelivered(d) \cup {m} ELSE Undelivered(d)
    BY <2>1, <2>2 DEF Undelivered
  <2>6. \A x \in Undelivered(d) : Carried(sent', x) = Carried(sent, x)
    BY <2>1 DEF Undelivered
  <2>7. Total(sent', Undelivered(d)) = Total(sent, Undelivered(d))
    BY <2>6, UndeliveredFinite, TotalSame
  <2>8. InTransit(d) \in Nat /\ a \in Nat
    BY InTransitType, BridgeAssumption
  <2>9. CASE d # c
    BY <2>3, <2>4, <2>5, <2>7, <2>8, <2>9
  <2>10. ASSUME d = c, NEW T, T = Undelivered(d)' PROVE InTransit(d)' = InTransit(d) + a
    <3>1. m \in T /\ T \ {m} = Undelivered(d) /\ T = Undelivered(d) \cup {m}
      BY <2>1, <2>5, <2>10 DEF Undelivered
    <3>2. IsFiniteSet(T)
      BY <3>1, UndeliveredFinite, FS_AddElement
    <3>3. \A x \in T : Carried(sent', x) \in Nat
      BY <2>1, <2>6, <2>8, <3>1, CarriesNumbers DEF Undelivered
    <3>4. Total(sent', T) = Carried(sent', m) + Total(sent', T \ {m})
      BY <3>1, <3>2, <3>3, TotalRemove
    <3>5. Total(sent', T) = a + Total(sent', Undelivered(d))
      BY <2>1, <3>1, <3>4, Zenon
    <3>6. InTransit(d)' = a + InTransit(d)
      BY <2>3, <2>4, <2>7, <2>10, <3>5, Zenon
    <3> QED BY <2>8, <3>6
  <2> QED BY <2>9, <2>10
<1> QED BY <1>1

\* A delivery takes its amount out of transit, on its own side only.
LEMMA ProcessInTransit ==
    ASSUME BridgeTypeOK, NEW m \in Messages, Process(m)
    PROVE  \A d \in Chains :
             IF d = m.origin THEN InTransit(d) = InTransit(d)' + Amount(m)
                             ELSE InTransit(d) = InTransit(d)'
<1> TAKE d \in Chains
<1>1. m \notin delivered /\ delivered' = delivered \cup {m} /\ UNCHANGED sent
  BY DEF Process, NotYetDelivered
<1>2. InTransit(d)' = Total(sent', Undelivered(d)')
  BY InTransitTotalsAfter
<1>3. InTransit(d) = Total(sent, Undelivered(d))
  BY InTransitIsTotal
<1>4. Undelivered(d)' = Undelivered(d) \ {m}
  BY <1>1, SameMessages DEF Undelivered
<1>5. \A x \in Undelivered(d) : Carried(sent, x) \in Nat
  BY CarriesNumbers DEF Undelivered
<1>6. InTransit(d) \in Nat
  BY InTransitType
<1>7. CASE d # m.origin
  <2>1. Undelivered(d)' = Undelivered(d)
    BY <1>4, <1>7 DEF Undelivered
  <2> QED BY <1>1, <1>2, <1>3, <1>6, <1>7, <2>1
<1>8. CASE d = m.origin
  <2>1. m \in Undelivered(d)
    BY <1>1, <1>8 DEF Undelivered
  <2>2. Total(sent, Undelivered(d)) = Carried(sent, m) + Total(sent, Undelivered(d) \ {m})
    BY <1>5, <2>1, UndeliveredFinite, TotalRemove
  <2>3. \A x \in Undelivered(d) \ {m} : Carried(sent, x) \in Nat
    BY <1>5
  <2>4. Total(sent, Undelivered(d) \ {m}) \in Nat
    <3>1. IsFiniteSet(Undelivered(d) \ {m})
      BY UndeliveredFinite, FS_RemoveElement
    <3> QED BY <2>3, <3>1, TotalType
  <2>5. Carried(sent, m) = Amount(m) /\ Carried(sent, m) \in Nat
    BY CarriesNumbers
  <2> QED BY <1>1, <1>2, <1>3, <1>4, <1>8, <2>2, <2>4, <2>5
<1> QED BY <1>7, <1>8

LEMMA SumOfOne ==
    ASSUME NEW m, Carried(sent, m) \in Nat
    PROVE  Total(sent, {m}) = Carried(sent, m)
<1>1. ASSUME NEW T, T = {m} PROVE Total(sent, T) = Carried(sent, m)
  <2>1. IsFiniteSet(T) /\ \A x \in T : Carried(sent, x) \in Nat
    BY <1>1, FS_Singleton
  <2>2. m \in T /\ T \ {m} = {}
    BY <1>1
  <2>3. Total(sent, T) = Carried(sent, m) + Total(sent, T \ {m})
    BY <2>1, <2>2, TotalRemove
  <2> QED BY <2>2, <2>3, TotalEmpty
<1> QED BY <1>1

\* Deployed with nothing on its way but what the first hook stranded.
LEMMA BackedInit == BridgeInit => Backed
<1> SUFFICES ASSUME BridgeInit PROVE Backed
  OBVIOUS
<1>1. PICK stranded \in {<<>>} \cup {<<a>> : a \in Amounts} :
          /\ sent = [c \in Chains |-> IF c = Collateral THEN stranded ELSE <<>>]
          /\ locked = IF stranded = <<>> THEN 0 ELSE stranded[1]
  BY DEF BridgeInit
<1>2. supply = 0 /\ delivered = {}
  BY DEF BridgeInit
<1>3. sent[Collateral] = stranded /\ sent[Synthetic] = <<>>
  BY <1>1, BridgeAssumption DEF Chains
<1>4. BridgeTypeOK
  BY BridgeTypeInit
<1>5. \A x \in Messages : x.origin \in Chains /\ x.nonce \in DOMAIN sent[x.origin]
  BY <1>4, MessageFacts
<1>6. Undelivered(Synthetic) = {}
  BY <1>3, <1>5 DEF Undelivered
<1>7. InTransit(Synthetic) = 0
  BY <1>6, InTransitIsTotal, TotalEmpty
<1>8. CASE stranded = <<>>
  <2>1. Undelivered(Collateral) = {}
    BY <1>3, <1>5, <1>8 DEF Undelivered
  <2>2. InTransit(Collateral) = 0
    BY <2>1, InTransitIsTotal, TotalEmpty
  <2> QED BY <1>1, <1>2, <1>7, <1>8, <2>2 DEF Backed
<1>9. ASSUME NEW a \in Amounts, stranded = <<a>>,
             NEW m, m = [origin |-> Collateral, nonce |-> 1]
      PROVE  Backed
  <2>1. stranded # <<>> /\ Len(stranded) = 1 /\ stranded[1] = a /\ a \in Nat
    BY <1>9, BridgeAssumption
  <2>2. locked = a
    BY <1>1, <2>1
  <2>3. Carried(sent, m) = a
    BY <1>3, <1>9, <2>1 DEF Carried
  <2>4. m \in Messages
    <3>1. Collateral \in Chains /\ MaxTransfers[Collateral] \in Nat \ {0}
      BY BridgeAssumption DEF Chains
    <3>2. 1 \in 1..MaxTransfers[Collateral]
      BY <3>1
    <3>3. m \in MessageIds
      BY <1>9, <3>1, <3>2, IdFacts
    <3> QED BY <1>3, <1>9, <2>1, <3>3 DEF Messages
  <2>5. Undelivered(Collateral) = {m}
    <3>1. ASSUME NEW x \in Messages, x.origin = Collateral PROVE x = m
      <4>1. x.nonce \in DOMAIN stranded /\ x = [origin |-> x.origin, nonce |-> x.nonce]
        BY <1>3, <1>4, <3>1, MessageFacts
      <4>2. x.nonce = 1
        BY <1>9, <4>1
      <4> QED BY <1>9, <3>1, <4>1, <4>2
    <3> QED BY <1>2, <1>9, <2>4, <3>1 DEF Undelivered
  <2>6. InTransit(Collateral) = a
    BY <2>1, <2>3, <2>5, InTransitIsTotal, SumOfOne
  <2> QED BY <1>2, <1>7, <2>1, <2>2, <2>6 DEF Backed
<1> QED BY <1>8, <1>9

\* One step per operation that moves value; the others leave every term alone.
LEMMA BackedStep == BridgeTypeOK /\ Backed /\ [BridgeNext]_bridgeVars => Backed'
<1> SUFFICES ASSUME BridgeTypeOK, Backed, [BridgeNext]_bridgeVars PROVE Backed'
  OBVIOUS
<1> DEFINE toSynthetic == InTransit(Collateral)
           toCollateral == InTransit(Synthetic)
<1>1. locked \in Int /\ supply \in Nat /\ locked = supply + toSynthetic + toCollateral
  BY DEF BridgeTypeOK, Backed
<1>2. toSynthetic \in Nat /\ toCollateral \in Nat
  BY InTransitType
<1>3. Collateral \in Chains /\ Synthetic \in Chains /\ Collateral # Synthetic
  BY BridgeAssumption DEF Chains
<1>4. Backed' <=> locked' = supply' + toSynthetic' + toCollateral'
  BY DEF Backed
<1> HIDE DEF toSynthetic, toCollateral
<1>5. ASSUME NEW c \in Chains, NEW a \in Amounts, Transfer(c, a) PROVE Backed'
  <2>1. /\ toSynthetic' = toSynthetic + (IF Collateral = c THEN a ELSE 0)
        /\ toCollateral' = toCollateral + (IF Synthetic = c THEN a ELSE 0)
    BY <1>3, <1>5, TransferInTransit, Zenon DEF toSynthetic, toCollateral
  <2>2. LockOrBurn(c, a) /\ a \in Nat
    BY <1>5, BridgeAssumption DEF Transfer
  <2>3. CASE c = Collateral
    BY <1>1, <1>2, <1>3, <1>4, <2>1, <2>2, <2>3 DEF LockOrBurn
  <2>4. CASE c = Synthetic
    BY <1>1, <1>2, <1>3, <1>4, <2>1, <2>2, <2>4 DEF LockOrBurn
  <2> QED BY <2>3, <2>4, ChainFacts
<1>6. ASSUME NEW m \in Messages, Process(m) PROVE Backed'
  <2>1. /\ IF Collateral = m.origin THEN toSynthetic = toSynthetic' + Amount(m)
                                    ELSE toSynthetic = toSynthetic'
        /\ IF Synthetic = m.origin THEN toCollateral = toCollateral' + Amount(m)
                                   ELSE toCollateral = toCollateral'
    BY <1>3, <1>6, ProcessInTransit, Zenon DEF toSynthetic, toCollateral
  <2>2. MintOrRelease(m) /\ Amount(m) \in Nat /\ m.origin \in Chains
    BY <1>6, MessageFacts, BridgeAssumption DEF Process
  <2>3. toSynthetic' \in Int /\ toCollateral' \in Int
    <3>1. BridgeTypeOK'
      BY BridgeTypeStep
    <3>2. (toSynthetic \in Nat)' /\ (toCollateral \in Nat)'
      BY <3>1, InTransitTypesAfter DEF toSynthetic, toCollateral
    <3> QED BY <3>2
  <2>4. CASE m.origin = Collateral
    <3>1. supply' = supply + Amount(m) /\ locked' = locked
      BY <2>2, <2>4 DEF MintOrRelease, Destination, Other
    <3>2. toSynthetic = toSynthetic' + Amount(m) /\ toCollateral = toCollateral'
      BY <1>3, <2>1, <2>4, Zenon
    <3> QED BY <1>1, <1>4, <2>2, <2>3, <3>1, <3>2
  <2>5. CASE m.origin = Synthetic
    <3>1. locked' = locked - Amount(m) /\ supply' = supply
      BY <1>3, <2>2, <2>5 DEF MintOrRelease, Destination, Other
    <3>2. toCollateral = toCollateral' + Amount(m) /\ toSynthetic = toSynthetic'
      BY <1>3, <2>1, <2>5, Zenon
    <3> QED BY <1>1, <1>4, <2>2, <2>3, <3>1, <3>2
  <2> QED BY <2>2, <2>4, <2>5, ChainFacts
<1>7. ASSUME UNCHANGED <<messageVars, valueVars>> PROVE Backed'
  <2>1. UNCHANGED <<sent, delivered, locked, supply>>
    BY <1>7 DEF messageVars, valueVars
  <2>2. toSynthetic' = toSynthetic /\ toCollateral' = toCollateral
    BY <2>1, SameInTransit, Zenon DEF toSynthetic, toCollateral
  <2> QED BY <1>1, <1>4, <2>1, <2>2
<1>8. ASSUME NEW m, Attest(m) PROVE Backed'
  <2>1. UNCHANGED <<sent, delivered, locked, supply>>
    BY <1>8 DEF Attest, valueVars
  <2>2. toSynthetic' = toSynthetic /\ toCollateral' = toCollateral
    BY <2>1, SameInTransit, Zenon DEF toSynthetic, toCollateral
  <2> QED BY <1>1, <1>4, <2>1, <2>2
<1>9. ASSUME NEW m, Allow(m) \/ Revoke(m) PROVE UNCHANGED <<messageVars, valueVars>>
  BY <1>9 DEF Allow, Revoke
<1>10. ASSUME NEW c, SetIsm(c) PROVE UNCHANGED <<messageVars, valueVars>>
  BY <1>10 DEF SetIsm
<1>11. ASSUME NEW g, NEW b, BindRoute(g, b) \/ OperateGate(g, b)
       PROVE  UNCHANGED <<messageVars, valueVars>>
  BY <1>11 DEF BindRoute, OperateGate
<1>12. UNCHANGED bridgeVars => UNCHANGED <<messageVars, valueVars>>
  BY DEF bridgeVars
<1>13. ASSUME NEW m, PostDispatchAgain(m) PROVE Backed'
  <2>1. UNCHANGED <<sent, delivered, locked, supply>>
    BY <1>13 DEF PostDispatchAgain, valueVars
  <2>2. toSynthetic' = toSynthetic /\ toCollateral' = toCollateral
    BY <2>1, SameInTransit, Zenon DEF toSynthetic, toCollateral
  <2> QED BY <1>1, <1>4, <2>1, <2>2
<1> HIDE DEF Backed
<1> QED
  BY <1>5, <1>6, <1>7, <1>8, <1>9, <1>10, <1>11, <1>12, <1>13, BridgeStepCases, Zenon

\* INV-06, INV-07, INV-08 for every instance: the collateral covers the
\* synthetic and everything on its way, to the last unit, whatever was retried,
\* recovered, ungated or stranded in between.
THEOREM BackedTheorem == BridgeSpec => []Backed
BY BackedInit, BackedStep, BridgeTypeCorrect, PTL DEF BridgeSpec

-----------------------------------------------------------------------------
\* What one step is to be counted for at a gate: the amount of the dispatch or
\* of the delivery it makes on a bound route, if that is the gate's.
Dispatches == {c \in Chains : sent'[c] # sent[c] /\ OutboundGate(c) \in bound}
Deliveries == {m \in delivered' \ delivered : InboundGate(m) \in bound /\ ~Recovering(m)}

Counted(g) ==
    Used(g) =
      IF g.chain \in Dispatches /\ g.origin = g.chain
        THEN sent'[g.chain][Len(sent'[g.chain])]
        ELSE MapThenSumSet(Amount, {m \in Deliveries : InboundGate(m) = g})

LEMMA DeliveriesAreTotal ==
    ASSUME NEW g
    PROVE  MapThenSumSet(Amount, {m \in Deliveries : InboundGate(m) = g})
             = Total(sent, {m \in Deliveries : InboundGate(m) = g})
BY Zenon DEF Total, Carried, Amount

\* Asking a gate counts at that gate alone, and at none that is not bound.
LEMMA AuthorizedCounts ==
    ASSUME BridgeTypeOK, NEW g \in Gates, NEW a \in Nat, Authorized(g, a), NEW h \in Gates
    PROVE  moved'[h] - moved[h] = IF h = g /\ g \in bound THEN a ELSE 0
<1>1. moved \in [Gates -> Nat]
  BY DEF BridgeTypeOK
<1>2. CASE g \in bound
  <2>1. moved' = [moved EXCEPT ![g] = @ + a]
    BY <1>2 DEF Authorized, AtGate!Pass
  <2>2. moved[h] \in Nat
    BY <1>1
  <2>3. CASE h = g
    BY <1>1, <1>2, <2>1, <2>2, <2>3
  <2>4. CASE h # g
    BY <1>1, <2>1, <2>2, <2>4
  <2> QED BY <2>3, <2>4
<1>3. CASE g \notin bound
  <2>1. moved' = moved /\ moved[h] \in Nat
    BY <1>1, <1>3 DEF Authorized, bridgeGateVars
  <2> QED BY <1>3, <2>1
<1> QED BY <1>2, <1>3

\* A step that neither dispatches, nor delivers, nor moves a gate.
LEMMA QuietStepCounts ==
    ASSUME BridgeTypeOK, UNCHANGED <<sent, delivered, moved>>
    PROVE  \A g \in Gates : Counted(g)
<1> TAKE g \in Gates
<1>1. Dispatches = {} /\ {m \in Deliveries : InboundGate(m) = g} = {}
  BY DEF Dispatches, Deliveries
<1>2. moved[g] \in Nat /\ moved'[g] = moved[g]
  BY DEF BridgeTypeOK
<1>3. moved'[g] - moved[g] = 0
  BY <1>2
<1> QED BY <1>1, <1>3, DeliveriesAreTotal, TotalEmpty, Zenon DEF Counted, Used

LEMMA TransferCounts ==
    ASSUME BridgeTypeOK, NEW c \in Chains, NEW a \in Amounts, Transfer(c, a)
    PROVE  \A g \in Gates : Counted(g)
<1> TAKE g \in Gates
<1>1. /\ sent' = [sent EXCEPT ![c] = Append(@, a)]
      /\ delivered' = delivered
      /\ Authorized(OutboundGate(c), a)
  BY DEF Transfer, PostDispatch
<1>2. a \in Nat /\ OutboundGate(c) \in Gates
  BY BridgeAssumption, ChainFacts
<1>3. sent \in [Chains -> Seq(Amounts)]
  BY DEF BridgeTypeOK
<1>4. sent'[c] = Append(sent[c], a) /\ sent[c] \in Seq(Amounts)
  BY <1>1, <1>3
<1>5. sent'[c] # sent[c] /\ sent'[c][Len(sent'[c])] = a
  <2>1. Len(Append(sent[c], a)) = Len(sent[c]) + 1 /\ Len(sent[c]) \in Nat
    BY <1>4
  <2> QED BY <1>4, <2>1
<1>6. \A d \in Chains : d # c => sent'[d] = sent[d]
  BY <1>1, <1>3
<1>7. Dispatches = IF OutboundGate(c) \in bound THEN {c} ELSE {}
  BY <1>5, <1>6 DEF Dispatches
<1>8. {m \in Deliveries : InboundGate(m) = g} = {}
  BY <1>1 DEF Deliveries
<1>9. moved'[g] - moved[g] = IF g = OutboundGate(c) /\ OutboundGate(c) \in bound THEN a ELSE 0
  BY <1>1, <1>2, AuthorizedCounts
<1>10. g = [chain |-> g.chain, origin |-> g.origin]
  BY DEF Gates
<1>11. g.chain \in Dispatches /\ g.origin = g.chain
         <=> g = OutboundGate(c) /\ OutboundGate(c) \in bound
  BY <1>7, <1>10 DEF OutboundGate
<1>12. CASE g = OutboundGate(c) /\ OutboundGate(c) \in bound
  <2>1. g.chain = c
    BY <1>12 DEF OutboundGate
  <2> QED BY <1>5, <1>9, <1>11, <1>12, <2>1 DEF Counted, Used
<1>13. CASE ~(g = OutboundGate(c) /\ OutboundGate(c) \in bound)
  BY <1>8, <1>9, <1>11, <1>13, DeliveriesAreTotal, TotalEmpty, Zenon DEF Counted, Used
<1> QED BY <1>12, <1>13

LEMMA ProcessCounts ==
    ASSUME BridgeTypeOK, NEW m \in Messages, Process(m)
    PROVE  \A g \in Gates : Counted(g)
<1> TAKE g \in Gates
<1>1. m \notin delivered /\ delivered' = delivered \cup {m} /\ sent' = sent /\ Verify(m)
  BY DEF Process, NotYetDelivered
<1>2. InboundGate(m) \in Gates /\ Amount(m) \in Nat /\ Amount(m) = Carried(sent, m)
  BY MessageFacts, CarriesNumbers, BridgeAssumption
<1>3. Dispatches = {}
  BY <1>1 DEF Dispatches
<1>4. Deliveries = IF InboundGate(m) \in bound /\ ~Recovering(m) THEN {m} ELSE {}
  BY <1>1 DEF Deliveries
<1>5. moved[g] \in Nat
  BY DEF BridgeTypeOK
<1>6. moved'[g] - moved[g] =
        IF g = InboundGate(m) /\ InboundGate(m) \in bound /\ ~Recovering(m)
          THEN Amount(m) ELSE 0
  <2>1. CASE Recovering(m)
    <3>1. UNCHANGED bridgeGateVars
      BY <1>1, <2>1 DEF Recovering, Verify, RecoveryVerify
    <3>2. moved'[g] = moved[g]
      BY <3>1 DEF bridgeGateVars
    <3> QED BY <1>5, <2>1, <3>2
  <2>2. CASE ~Recovering(m)
    <3>1. Authorized(InboundGate(m), Amount(m))
      BY <1>1, <2>2
      DEF Recovering, Verify, RecoveryVerify, GuardVerify, GuardAuthenticates
    <3> QED BY <1>2, <2>2, <3>1, AuthorizedCounts
  <2> QED BY <2>1, <2>2
<1>7. CASE g = InboundGate(m) /\ InboundGate(m) \in bound /\ ~Recovering(m)
  <2>1. {x \in Deliveries : InboundGate(x) = g} = {m}
    BY <1>4, <1>7
  <2>2. Total(sent, {m}) = Amount(m)
    BY <1>2, SumOfOne
  <2> QED BY <1>3, <1>6, <1>7, <2>1, <2>2, DeliveriesAreTotal, Zenon DEF Counted, Used
<1>8. CASE ~(g = InboundGate(m) /\ InboundGate(m) \in bound /\ ~Recovering(m))
  <2>1. {x \in Deliveries : InboundGate(x) = g} = {}
    BY <1>4, <1>8
  <2> QED BY <1>3, <1>6, <1>8, <2>1, DeliveriesAreTotal, TotalEmpty, Zenon DEF Counted, Used
<1> QED BY <1>7, <1>8

\* A second call of the hook is counted at the outbound gate, if it is bound.
LEMMA AgainCounts ==
    ASSUME BridgeTypeOK, NEW m \in Messages, PostDispatchAgain(m), NEW g \in Gates
    PROVE  Counted(g) \/ CountedAgain(g)
<1> DEFINE o == OutboundGate(m.origin)
<1>1. /\ UNCHANGED <<sent, delivered, valueVars>>
      /\ Authorized(o, Amount(m))
      /\ m.nonce = Len(sent[m.origin])
  BY DEF PostDispatchAgain, PostDispatch
<1>2. m.origin \in Chains /\ Amount(m) \in Nat /\ m.nonce \in DOMAIN sent[m.origin]
  BY MessageFacts, BridgeAssumption
<1>3. o \in Gates
  BY <1>2, ChainFacts
<1>4. Used(g) = IF g = o /\ o \in bound THEN Amount(m) ELSE 0
  BY <1>1, <1>2, <1>3, AuthorizedCounts DEF Used
<1>5. CASE g = o /\ o \in bound
  <2>1. g.chain = m.origin /\ g.origin = m.origin
    BY <1>5 DEF OutboundGate
  <2>2. sent[g.chain] # <<>>
    BY <1>2, <2>1
  <2>3. Used(g) = sent[g.chain][Len(sent[g.chain])]
    BY <1>1, <1>4, <1>5, <2>1 DEF Amount
  <2> QED BY <1>1, <1>5, <2>1, <2>2, <2>3 DEF CountedAgain
<1>6. CASE ~(g = o /\ o \in bound)
  <2>1. Dispatches = {} /\ {x \in Deliveries : InboundGate(x) = g} = {}
    BY <1>1 DEF Dispatches, Deliveries
  <2> QED BY <1>4, <1>6, <2>1, DeliveriesAreTotal, TotalEmpty, Zenon DEF Counted
<1> QED BY <1>5, <1>6

\* INV-12, INV-13 for every instance: on a bound route every dispatch and every
\* delivery that is no recovery is counted by its gate in full, deliveries
\* exactly once; and the one thing counted beside them is a second call of the
\* hook for the last dispatch, which moves no value.
THEOREM GatedTheorem == BridgeSpec => TrafficIsGated
<1> DEFINE AllCounted == \A g \in Gates :
                             \/ Counted(g)
                             \/ CountedAgain(g)
<1>1. ASSUME BridgeTypeOK, [BridgeNext]_bridgeVars PROVE AllCounted
  <2>1. ASSUME NEW c \in Chains, NEW a \in Amounts, Transfer(c, a) PROVE AllCounted
    BY <1>1, <2>1, TransferCounts
  <2>2. ASSUME NEW m \in Messages, Process(m) PROVE AllCounted
    BY <1>1, <2>2, ProcessCounts
  <2>3. ASSUME UNCHANGED <<sent, delivered, moved>> PROVE AllCounted
    BY <1>1, <2>3, QuietStepCounts
  <2>4. ASSUME NEW m, Attest(m) \/ Allow(m) \/ Revoke(m)
        PROVE  UNCHANGED <<sent, delivered, moved>>
    BY <2>4 DEF Attest, Allow, Revoke, messageVars, bridgeGateVars
  <2>5. ASSUME NEW c, SetIsm(c) PROVE UNCHANGED <<sent, delivered, moved>>
    BY <2>5 DEF SetIsm, messageVars, bridgeGateVars
  <2>6. ASSUME NEW g, NEW b, BindRoute(g, b) \/ OperateGate(g, b)
        PROVE  UNCHANGED <<sent, delivered, moved>>
    BY <2>6 DEF BindRoute, OperateGate, AtGate!Operate, messageVars, bridgeGateVars
  <2>7. UNCHANGED bridgeVars => UNCHANGED <<sent, delivered, moved>>
    BY DEF bridgeVars, messageVars, bridgeGateVars
  <2>8. ASSUME NEW m \in Messages, PostDispatchAgain(m) PROVE AllCounted
    BY <1>1, <2>8, AgainCounts
  <2> HIDE DEF AllCounted
  <2> QED BY <1>1, <2>1, <2>2, <2>3, <2>4, <2>5, <2>6, <2>7, <2>8, BridgeStepCases, Zenon
<1> QED
  BY <1>1, BridgeTypeCorrect, PTL
  DEF BridgeSpec, TrafficIsGated, Counted, Dispatches, Deliveries

-----------------------------------------------------------------------------
\* While a check is between its reads, nothing having arrived, the supply is
\* still covered by what it read; and a report of trouble names an arrival.
ReadCovers == lockedRead # Unread /\ ~arrived => supply <= lockedRead

SolvencyInv ==
    /\ BridgeTypeOK
    /\ Backed
    /\ lockedRead \in Int
    /\ ReadCovers
    /\ AlarmOnlyAfterArrival

LEMMA BackedCovers ==
    ASSUME BridgeTypeOK, Backed
    PROVE  supply <= locked
<1>1. InTransit(Collateral) \in Nat /\ InTransit(Synthetic) \in Nat
  BY InTransitType
<1>2. supply \in Nat /\ locked = supply + InTransit(Collateral) + InTransit(Synthetic)
  BY DEF BridgeTypeOK, Backed
<1> QED BY <1>1, <1>2

LEMMA SolvencyInvInit == SolvencyInit => SolvencyInv
BY BridgeTypeInit, BackedInit
DEF SolvencyInit, CheckInit, SolvencyInv, ReadCovers, AlarmOnlyAfterArrival, Unread

LEMMA SolvencyInvStep == SolvencyInv /\ [SolvencyNext]_solvencyVars => SolvencyInv'
<1> SUFFICES ASSUME SolvencyInv, [SolvencyNext]_solvencyVars PROVE SolvencyInv'
  OBVIOUS
<1>1. /\ BridgeTypeOK
      /\ Backed
      /\ lockedRead \in Int
      /\ ReadCovers
      /\ AlarmOnlyAfterArrival
  BY DEF SolvencyInv
<1>2. BridgeTypeOK' /\ Backed'
  <2>1. [BridgeNext]_bridgeVars
    BY DEF SolvencyNext, ReadLocked, ReadClaimsAndReport, BridgeStep, solvencyVars
  <2> QED BY <1>1, <2>1, BridgeTypeStep, BackedStep
<1>3. locked \in Int /\ supply \in Nat /\ supply' \in Nat /\ supply <= locked
  BY <1>1, <1>2, BackedCovers DEF BridgeTypeOK
<1>4. ASSUME ReadLocked
      PROVE  lockedRead' \in Int /\ ReadCovers' /\ AlarmOnlyAfterArrival'
  <2>1. lockedRead' = locked /\ verdict' = "none" /\ supply' = supply
    BY <1>4 DEF ReadLocked, bridgeVars, valueVars
  <2> QED BY <1>3, <2>1 DEF ReadCovers, AlarmOnlyAfterArrival
<1>5. ASSUME ReadClaimsAndReport
      PROVE  lockedRead' \in Int /\ ReadCovers' /\ AlarmOnlyAfterArrival'
  <2>1. lockedRead # Unread /\ lockedRead' = Unread /\ arrived' = arrived
    BY <1>5 DEF ReadClaimsAndReport
  <2>2. verdict' = "INVESTIGATE" => ~(lockedRead - supply >= 0)
    BY <1>5 DEF ReadClaimsAndReport, Difference
  <2>3. ~arrived => supply <= lockedRead
    BY <1>1, <2>1 DEF ReadCovers
  <2>4. AlarmOnlyAfterArrival'
    BY <1>1, <1>3, <2>1, <2>2, <2>3 DEF AlarmOnlyAfterArrival
  <2> QED BY <2>1, <2>4 DEF ReadCovers, Unread
<1>6. ASSUME BridgeStep
      PROVE  lockedRead' \in Int /\ ReadCovers' /\ AlarmOnlyAfterArrival'
  <2>1. /\ arrived' = (lockedRead # Unread /\ (arrived \/ supply' > supply))
        /\ verdict' = "none"
        /\ lockedRead' = lockedRead
    BY <1>6 DEF BridgeStep
  <2>2. lockedRead # Unread /\ ~arrived' => ~arrived /\ supply' <= supply
    <3>1. lockedRead # Unread /\ ~arrived' => ~arrived /\ ~(supply' > supply)
      BY <2>1, Zenon
    <3>2. ~(supply' > supply) => supply' <= supply
      BY <1>3
    <3> QED BY <3>1, <3>2, Zenon
  <2> QED BY <1>1, <1>3, <2>1, <2>2 DEF ReadCovers, AlarmOnlyAfterArrival
<1>7. ASSUME UNCHANGED solvencyVars
      PROVE  lockedRead' \in Int /\ ReadCovers' /\ AlarmOnlyAfterArrival'
  BY <1>1, <1>7
  DEF solvencyVars, checkVars, bridgeVars, valueVars, ReadCovers, AlarmOnlyAfterArrival
<1>8. lockedRead' \in Int /\ ReadCovers' /\ AlarmOnlyAfterArrival'
  BY <1>4, <1>5, <1>6, <1>7, Zenon DEF SolvencyNext
<1> QED BY <1>2, <1>8 DEF SolvencyInv

\* The solvency check cries wolf only about an inbound transfer that arrived
\* between its two reads: never about value in transit, in either direction,
\* nor about a stranded message, whatever the bridge does in between.
THEOREM AlarmTheorem == SolvencySpec => []AlarmOnlyAfterArrival
<1>1. SolvencyInv => AlarmOnlyAfterArrival
  BY DEF SolvencyInv
<1> QED BY <1>1, SolvencyInvInit, SolvencyInvStep, PTL DEF SolvencySpec

============================================================================
