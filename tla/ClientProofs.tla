---------------------------- MODULE ClientProofs ----------------------------
(***************************************************************************)
(* What the SDK client promises, for any chains, routes and bounds: its    *)
(* types, that the wallet is asked to sign only what would pass while      *)
(* nothing the call has read changes, and that the activity records tell   *)
(* what was sent.  The bridge card, with its own caches and its own guess  *)
(* at the next action, drives the client only as the client allows, so all *)
(* of this holds of the card too.                                          *)
(***************************************************************************)
EXTENDS Card, SequenceTheorems, TLAPS

\* A step of the client, one case per operation.
LEMMA ClientStepCases ==
    ASSUME [ClientNext]_clientVars, NEW P,
           \A r \in Routes : Select(r) => P,
           \A c \in Chains : SwitchNetwork(c) => P,
           \A value \in Amounts \ {0} : ClickApprove(value) => P,
           \A value \in Amounts \ {0} : ClickBridge(value) => P,
           CloseReceipt => P,
           Reload => P,
           \A fresh \in BOOLEAN : Poll(fresh) => P,
           ReadBalance => P, ReadCapacity => P, ReadAllowance => P, ReadFee => P,
           ReadAllowanceToApprove => P, ApprovalMined => P, ReadReceipt => P,
           CallFails => P,
           SignApproval => P, SignTransfer => P,
           Drift => P,
           \A i \in DOMAIN txs : Mine(i) => P,
           \A i \in DOMAIN txs : Deliver(i) => P,
           UNCHANGED clientVars => P
    PROVE  P
BY Zenon DEF ClientNext, UserStep, PollStep, CallStep, WalletStep, ChainStep

Settled(i, status) == [txs EXCEPT ![i].status = status]

\* A change of status keeps the sequence of transactions one.
LEMMA SettledType ==
    ASSUME txs \in Seq(Transactions), NEW i \in DOMAIN txs,
           NEW status \in {"mined", "reverted", "delivered", "elsewhere"}
    PROVE  /\ Settled(i, status) \in Seq(Transactions)
           /\ Len(Settled(i, status)) = Len(txs)
           /\ DOMAIN Settled(i, status) = DOMAIN txs
<1>1. i \in 1..Len(txs)
  BY LenProperties
<1>2. txs[i] \in Transactions
  BY <1>1, ElementOfSeq
<1>3. [txs[i] EXCEPT !.status = status] \in Transactions
  BY <1>2 DEF Transactions
<1>4. Settled(i, status) = [txs EXCEPT ![i] = [txs[i] EXCEPT !.status = status]]
  BY Zenon DEF Settled
<1>5. /\ Settled(i, status) \in Seq(Transactions)
      /\ Len(Settled(i, status)) = Len(txs)
  BY <1>1, <1>3, <1>4, ExceptSeq
<1> QED BY <1>5, LenProperties

\* A step of a call that reads: nothing but the call moves, and it goes to a
\* stage that refers to no transaction or ends.
LEMMA ReadKeepsTypes ==
    ASSUME ClientTypeOK, Busy,
           UNCHANGED <<ledgerVars, txs, network, selected, submission, steady, drifts>>,
           \/ call' = NoCall
           \/ /\ call' \in Calls /\ call'.tx = 0 /\ Len(txs) < MaxTransactions
              /\ call'.stage \notin {"receipt", "approvalMined"},
           lost' \subseteq DOMAIN txs
    PROVE  ClientTypeOK'
<1>1. FormShown /\ FormShown'
  BY DEF ClientTypeOK, ReceiptOK, FormShown
<1>2. LedgerOK' /\ TxsOK' /\ FormOK' /\ ObserversOK'
  BY DEF ClientTypeOK, LedgerOK, TxsOK, FormOK, ObserversOK, ledgerVars
<1>3. CallOK'
  BY DEF ClientTypeOK, CallOK, Busy, At, NoCall
<1> QED BY <1>1, <1>2, <1>3 DEF ClientTypeOK, ReceiptOK

LEMMA TypeInit == ClientInit => ClientTypeOK
<1> SUFFICES ASSUME ClientInit PROVE ClientTypeOK
  OBVIOUS
<1>1. LedgerOK
  BY ClientAssumption DEF ClientInit, LedgerOK, Amounts
<1>2. TxsOK
  BY ClientAssumption, EmptySeq DEF ClientInit, TxsOK
<1>3. FormOK /\ CallOK
  BY DEF ClientInit, FormOK, CallOK, Busy, At
<1>4. ReceiptOK
  BY DEF ClientInit, ReceiptOK, FormShown
<1>5. ObserversOK
  <2>1. 0 \in 0..MaxDrifts
    BY ClientAssumption
  <2> QED BY <2>1, Zenon DEF ClientInit, ObserversOK
<1> QED BY <1>1, <1>2, <1>3, <1>4, <1>5 DEF ClientTypeOK

\* A signature appends one well-typed transaction, which the call, the records
\* of what is lost and the receipt may refer to.
LEMMA SignKeepsTypes ==
    ASSUME ClientTypeOK, NEW stage \in Stages, NEW next \in {"receipt", "approvalMined"},
           stage \notin {"receipt", "approvalMined"}, Sign(stage, next)
    PROVE  ClientTypeOK'
<1> DEFINE tx == [kind |-> call.kind, route |-> call.route, amount |-> call.amount,
                  on |-> network, status |-> "pending"]
<1>1. Busy /\ call \in Calls /\ FormShown /\ Len(txs) < MaxTransactions
  BY DEF ClientTypeOK, CallOK, ReceiptOK, Sign, At
<1>2. tx \in Transactions
  BY <1>1 DEF ClientTypeOK, FormOK, Calls, Transactions
<1>3. /\ txs' \in Seq(Transactions)
      /\ Len(txs') = Len(txs) + 1 /\ Len(txs) \in Nat
      /\ DOMAIN txs = 1..Len(txs) /\ DOMAIN txs' = 1..Len(txs')
  BY <1>2, AppendProperties, LenProperties DEF ClientTypeOK, TxsOK, Sign
<1>4. LedgerOK' /\ FormOK' /\ TxsOK'
  <2>1. LedgerOK' /\ FormOK'
    BY DEF Sign, StepOfCall, ledgerVars, ClientTypeOK, LedgerOK, FormOK
  <2>2. TxsOK'
    BY <1>1, <1>3, ClientAssumption DEF TxsOK
  <2> QED BY <2>1, <2>2
<1>5. CallOK'
  <2>1. CASE call' = NoCall
    BY <2>1 DEF CallOK, Busy, At
  <2>2. CASE call' = [call EXCEPT !.stage = next, !.tx = Len(txs')]
    <3>1. call' \in Calls /\ call'.stage = next /\ call'.tx = Len(txs')
      <4>1. next \in Stages /\ Len(txs') \in Nat
        BY <1>3 DEF Stages
      <4> QED BY <1>1, <2>2, <4>1 DEF Calls
    <3> QED BY <1>3, <3>1 DEF CallOK
  <2> QED BY <2>1, <2>2 DEF Sign, Throw
<1>6. ReceiptOK' /\ ObserversOK'
  BY <1>1, <1>3 DEF ClientTypeOK, ObserversOK, ReceiptOK, Sign, StepOfCall, FormShown
<1> QED BY <1>4, <1>5, <1>6 DEF ClientTypeOK

LEMMA TypeStep == ClientTypeOK /\ [ClientNext]_clientVars => ClientTypeOK'
<1> SUFFICES ASSUME ClientTypeOK, [ClientNext]_clientVars PROVE ClientTypeOK'
  OBVIOUS
<1> USE DEF ClientTypeOK
<1>1. ASSUME NEW r \in Routes, Select(r) PROVE ClientTypeOK'
  BY <1>1 DEF Select, LedgerOK, TxsOK, FormOK, CallOK, ReceiptOK, ObserversOK, ledgerVars,
     observerVars, Busy, At, FormShown
<1>2. ASSUME NEW c \in Chains, SwitchNetwork(c) PROVE ClientTypeOK'
  BY <1>2 DEF SwitchNetwork, LedgerOK, TxsOK, FormOK, CallOK, ReceiptOK, ObserversOK, ledgerVars,
     observerVars, Busy, At, FormShown
<1>3. ASSUME NEW value \in Amounts \ {0}, NEW kind \in {"approve", "bridge"},
             NEW stage \in {"approvalRead", "balance"}, Begin(kind, stage, value)
      PROVE  ClientTypeOK'
  <2>1. call' \in Calls /\ call'.stage = stage /\ call'.tx = 0
    BY <1>3 DEF Begin, Calls, Stages, FormOK
  <2>2. CallOK'
    BY <1>3, <2>1 DEF CallOK, At, Begin
  <2> QED BY <1>3, <2>2 DEF Begin, LedgerOK, TxsOK, FormOK, ReceiptOK, ObserversOK,
             ledgerVars, FormShown
<1>4. CloseReceipt => ClientTypeOK'
  BY DEF CloseReceipt, LedgerOK, TxsOK, FormOK, CallOK, ReceiptOK, ObserversOK, ledgerVars,
     observerVars, Busy, At, FormShown
<1>5. Reload => ClientTypeOK'
  <2> SUFFICES ASSUME Reload PROVE ClientTypeOK'
    OBVIOUS
  <2>1. lost' \subseteq DOMAIN txs
    BY DEF Reload, CallOK, ObserversOK
  <2> QED BY <2>1 DEF Reload, LedgerOK, TxsOK, FormOK, CallOK, ReceiptOK, ObserversOK, ledgerVars,
             Busy, At, FormShown
<1>6. ASSUME NEW fresh \in BOOLEAN, Poll(fresh) PROVE ClientTypeOK'
  <2>1. submission' \in Receipts /\ submission'.tx = submission.tx
    BY <1>6 DEF Poll, Polls, ReceiptOK, FormShown, Receipts
  <2> QED BY <1>6, <2>1 DEF Poll, Polls, LedgerOK, TxsOK, FormOK, CallOK, ReceiptOK, ObserversOK,
             ledgerVars, observerVars, Busy, FormShown
<1>7. ReadBalance => ClientTypeOK'
  <2> SUFFICES ASSUME ReadBalance PROVE ClientTypeOK'
    OBVIOUS
  <2>1. Busy /\ call \in Calls /\ call.tx = 0 /\ Len(txs) < MaxTransactions
    BY DEF ReadBalance, At, CallOK
  <2>2. balance[call.route.source] \in Nat
    BY <2>1, ClientAssumption DEF LedgerOK, Calls
  <2>3. call' \in Calls /\ call'.stage = "capacity" /\ call'.tx = 0
    <3>1. call' = [call EXCEPT !.stage = "capacity", !.balance = balance[call.route.source]]
      BY DEF ReadBalance
    <3>2. "capacity" \in Stages
      BY DEF Stages
    <3> QED BY <2>1, <2>2, <3>1, <3>2 DEF Calls
  <2> QED BY <2>1, <2>3, ReadKeepsTypes DEF ReadBalance, StepOfCall, ObserversOK
<1>8. ReadCapacity => ClientTypeOK'
  <2> SUFFICES ASSUME ReadCapacity PROVE ClientTypeOK'
    OBVIOUS
  <2>1. Busy /\ call \in Calls /\ call.tx = 0 /\ Len(txs) < MaxTransactions
    BY DEF ReadCapacity, At, CallOK
  <2>2. capacity[call.route] \in Amounts
    BY <2>1 DEF LedgerOK, Calls
  <2>3. \/ call' = NoCall
        \/ call' \in Calls /\ call'.stage = "approval" /\ call'.tx = 0
    <3>1. PICK limit \in {capacity[call.route], None} :
             call' = NoCall \/ call' = [call EXCEPT !.stage = "approval", !.capacity = limit]
      BY Zenon DEF ReadCapacity, Throw
    <3>2. "approval" \in Stages /\ limit \in Amounts \cup {None}
      BY <2>2 DEF Stages
    <3> QED BY <2>1, <3>1, <3>2 DEF Calls
  <2> QED BY <2>1, <2>3, ReadKeepsTypes DEF ReadCapacity, StepOfCall, ObserversOK
<1>9. ReadAllowance \/ ReadFee \/ ReadAllowanceToApprove => ClientTypeOK'
  <2> SUFFICES ASSUME ReadAllowance \/ ReadFee \/ ReadAllowanceToApprove PROVE ClientTypeOK'
    OBVIOUS
  <2>1. Busy /\ call \in Calls /\ call.tx = 0 /\ Len(txs) < MaxTransactions
    BY DEF ReadAllowance, ReadFee, ReadAllowanceToApprove, At, CallOK
  <2>2. \/ call' = NoCall
        \/ /\ call' \in Calls /\ call'.tx = 0
           /\ call'.stage \in {"fee", "sign", "approvalSign"}
    <3>1. PICK stage \in {"fee", "sign", "approvalSign"} :
             call' = NoCall \/ call' = [call EXCEPT !.stage = stage]
      BY Zenon DEF ReadAllowance, ReadFee, ReadAllowanceToApprove, Throw, GoTo
    <3> QED BY <2>1, <3>1 DEF Calls, Stages
  <2> QED BY <2>1, <2>2, ReadKeepsTypes
          DEF ReadAllowance, ReadFee, ReadAllowanceToApprove, StepOfCall, ObserversOK
<1>10. CallFails => ClientTypeOK'
  <2> SUFFICES ASSUME CallFails PROVE ClientTypeOK'
    OBVIOUS
  <2>1. lost' \subseteq DOMAIN txs
    BY DEF CallFails, CallOK, ObserversOK, At
  <2> QED BY <2>1, ReadKeepsTypes DEF CallFails, StepOfCall, Throw
<1>11. ApprovalMined => ClientTypeOK'
  BY DEF ApprovalMined, LedgerOK, TxsOK, FormOK, CallOK, ReceiptOK, ObserversOK, ledgerVars,
     observerVars, Busy, At, FormShown
<1>12. ReadReceipt => ClientTypeOK'
  <2> SUFFICES ASSUME ReadReceipt PROVE ClientTypeOK'
    OBVIOUS
  <2>1. ~Busy' /\ call.tx \in DOMAIN txs
    BY DEF ReadReceipt, At, CallOK, Busy
  <2>2. submission' \in Receipts /\ submission'.tx = call.tx
    BY <2>1, LenProperties DEF ReadReceipt, Submitted, MessageId, Receipts, TxsOK
  <2> QED BY <2>1, <2>2 DEF ReadReceipt, Submitted, LedgerOK, TxsOK, FormOK, CallOK, ReceiptOK,
             ObserversOK, ledgerVars, observerVars
<1>13. SignApproval \/ SignTransfer => ClientTypeOK'
  BY SignKeepsTypes DEF SignApproval, SignTransfer, Stages
<1>14. Drift => ClientTypeOK'
  <2> SUFFICES ASSUME Drift PROVE ClientTypeOK'
    OBVIOUS
  <2>1. LedgerOK'
    BY ClientAssumption DEF Drift, LedgerOK, Amounts
  <2>2. drifts' \in 0..MaxDrifts
    BY ClientAssumption DEF Drift, ObserversOK
  <2> QED BY <2>1, <2>2 DEF Drift, TxsOK, FormOK, CallOK, ReceiptOK, ObserversOK, Busy, FormShown
<1>15. ASSUME NEW i \in DOMAIN txs, Mine(i) PROVE ClientTypeOK'
  <2>1. PICK status \in {"mined", "reverted", "elsewhere"} : txs' = Settled(i, status)
    BY <1>15 DEF Mine, Settled
  <2>2. TxsOK' /\ DOMAIN txs' = DOMAIN txs /\ Len(txs') = Len(txs)
    BY <2>1, SettledType DEF TxsOK
  <2>3. txs[i] \in Transactions
    BY LenProperties, ElementOfSeq DEF TxsOK
  <2>4. LedgerOK'
    BY <1>15, <2>3, ClientAssumption DEF Mine, Accepts, Transactions, LedgerOK, ledgerVars, Amounts
  <2> QED BY <1>15, <2>2, <2>4 DEF Mine, FormOK, CallOK, ReceiptOK, ObserversOK, Busy, FormShown
<1>16. ASSUME NEW i \in DOMAIN txs, Deliver(i) PROVE ClientTypeOK'
  <2>1. txs' = Settled(i, "delivered")
    BY <1>16 DEF Deliver, Settled
  <2>2. TxsOK' /\ DOMAIN txs' = DOMAIN txs /\ Len(txs') = Len(txs)
    BY <2>1, SettledType DEF TxsOK
  <2>3. txs[i] \in Transactions
    BY LenProperties, ElementOfSeq DEF TxsOK
  <2>4. LedgerOK'
    BY <1>16, <2>3, ClientAssumption DEF Deliver, Transactions, LedgerOK, Amounts
  <2> QED BY <1>16, <2>2, <2>4 DEF Deliver, FormOK, CallOK, ReceiptOK, ObserversOK, observerVars,
             Busy, FormShown
<1>17. UNCHANGED clientVars => ClientTypeOK'
  BY DEF clientVars, ledgerVars, observerVars, LedgerOK, TxsOK, FormOK, CallOK, ReceiptOK,
     ObserversOK, Busy, FormShown
<1>18. ASSUME NEW value \in Amounts \ {0}, ClickApprove(value) \/ ClickBridge(value)
       PROVE  ClientTypeOK'
  BY <1>3, <1>18 DEF ClickApprove, ClickBridge
<1> HIDE DEF ClientTypeOK
<1> QED BY ONLY [ClientNext]_clientVars, <1>1, <1>2, <1>4, <1>5, <1>6, <1>7, <1>8, <1>9, <1>10,
           <1>11, <1>12, <1>13, <1>14, <1>15, <1>16, <1>17, <1>18, ClientStepCases, Zenon

\* In every reachable state the page, the call and the receipt are well typed:
\* only a call that has signed refers to a transaction, and no call is under
\* way behind a receipt.
THEOREM ClientTypeCorrect == ClientSpec => []ClientTypeOK
<1> QED BY TypeInit, TypeStep, PTL DEF ClientSpec
-----------------------------------------------------------------------------
\* What the call has checked so far still holds on the chain.
ChecksStand ==
    LET r == call.route
    IN  /\ call.stage \in {"capacity", "approval", "fee", "sign"} => call.balance <= balance[r.source]
        /\ call.stage \in {"approval", "fee", "sign"} =>
              /\ call.amount <= call.balance
              /\ call.capacity # None => call.amount <= capacity[r]
        /\ call.stage \in {"fee", "sign"} => ~ApprovalRequired(r, call.amount, allowance[r.source])

SignsInv == Busy /\ steady => ChecksStand

\* Delivery only adds to a balance, and the call keeps what it has read.
LEMMA DeliverKeepsChecks ==
    ASSUME ClientTypeOK, SignsInv, NEW i \in DOMAIN txs, Deliver(i)
    PROVE  SignsInv'
<1> SUFFICES ASSUME Busy, steady PROVE ChecksStand'
  BY DEF Deliver, observerVars, SignsInv, Busy
<1>1. call \in Calls /\ ChecksStand
  BY DEF ClientTypeOK, CallOK, SignsInv
<1>2. txs[i] \in Transactions
  BY LenProperties, ElementOfSeq DEF ClientTypeOK, TxsOK
<1>3. \A c \in Chains : balance[c] \in Nat /\ balance'[c] \in Nat /\ balance[c] <= balance'[c]
  BY <1>2, ClientAssumption DEF Deliver, ClientTypeOK, LedgerOK, Transactions, Amounts
<1>4. call.route.source \in Chains /\ call.balance \in Nat
  BY <1>1, ClientAssumption DEF Calls
<1>5. call.balance <= balance[call.route.source] => call.balance <= balance'[call.route.source]
  BY <1>3, <1>4
<1> QED BY <1>1, <1>5 DEF Deliver, ChecksStand

\* Each read adds what it has checked to what stands already.
LEMMA ReadKeepsChecks ==
    ASSUME ClientTypeOK, SignsInv,
           ReadBalance \/ ReadCapacity \/ ReadAllowance \/ ReadFee \/ ReadAllowanceToApprove
    PROVE  SignsInv'
<1> SUFFICES ASSUME Busy', steady' PROVE ChecksStand'
  BY DEF SignsInv
<1>1. /\ Busy /\ steady /\ call \in Calls /\ ChecksStand
      /\ UNCHANGED <<balance, allowance, capacity>>
  BY DEF ReadBalance, ReadCapacity, ReadAllowance, ReadFee, ReadAllowanceToApprove, At,
     StepOfCall, ledgerVars, ClientTypeOK, CallOK, SignsInv
<1>2. call' # NoCall
  BY DEF Busy
<1>3. balance[call.route.source] \in Nat
  BY <1>1, ClientAssumption DEF ClientTypeOK, LedgerOK, Calls
<1>4. CASE ReadBalance
  <2>1. call' = [call EXCEPT !.stage = "capacity", !.balance = balance[call.route.source]]
    BY <1>4 DEF ReadBalance
  <2> QED BY <1>1, <1>3, <2>1 DEF ChecksStand, Calls
<1>5. CASE ReadCapacity
  <2>1. PICK limit \in {capacity[call.route], None} :
           /\ Validates(call.amount, call.balance, limit)
           /\ call' = [call EXCEPT !.stage = "approval", !.capacity = limit]
    BY <1>2, <1>5, Zenon DEF ReadCapacity, Throw
  <2>2. call.stage = "capacity"
    BY <1>5 DEF ReadCapacity, At
  <2> QED BY <1>1, <2>1, <2>2 DEF ChecksStand, Calls, Validates
<1>6. CASE ReadAllowance
  <2>1. /\ ~ApprovalRequired(call.route, call.amount, allowance[call.route.source])
        /\ call' = [call EXCEPT !.stage = "fee"]
    BY <1>2, <1>6 DEF ReadAllowance, Throw, GoTo
  <2>2. call.stage = "approval"
    BY <1>6 DEF ReadAllowance, At
  <2> QED BY <1>1, <2>1, <2>2 DEF ChecksStand, Calls
<1>7. CASE ReadFee
  BY <1>1, <1>7 DEF ReadFee, At, GoTo, ChecksStand, Calls
<1>8. CASE ReadAllowanceToApprove
  <2>1. call' = [call EXCEPT !.stage = "approvalSign"]
    BY <1>2, <1>8 DEF ReadAllowanceToApprove, Throw, GoTo
  <2> QED BY <1>1, <2>1 DEF ChecksStand, Calls
<1> QED BY <1>4, <1>5, <1>6, <1>7, <1>8

LEMMA SignsStep ==
    ASSUME ClientTypeOK, SignsInv, [ClientNext]_clientVars
    PROVE  SignsInv'
<1>1. ASSUME UNCHANGED <<ledgerVars, call, steady>> PROVE SignsInv'
  BY <1>1 DEF SignsInv, ChecksStand, Busy, ledgerVars
<1>2. ASSUME call' = NoCall \/ ~steady' PROVE SignsInv'
  BY <1>2 DEF SignsInv, Busy
<1>3. ASSUME call' \in Calls, call'.stage \in {"balance", "approvalRead", "receipt", "approvalMined"}
      PROVE  SignsInv'
  BY <1>3 DEF SignsInv, ChecksStand
<1>4. \A r \in Routes : Select(r) => SignsInv'
  BY <1>1 DEF Select, observerVars
<1>5. \A c \in Chains : SwitchNetwork(c) => SignsInv'
  BY <1>1 DEF SwitchNetwork, observerVars
<1>6. \A value \in Amounts \ {0} : ClickApprove(value) => SignsInv'
  BY DEF ClickApprove, Begin, SignsInv, ChecksStand
<1>7. \A value \in Amounts \ {0} : ClickBridge(value) => SignsInv'
  BY DEF ClickBridge, Begin, SignsInv, ChecksStand
<1>8. CloseReceipt => SignsInv'
  BY <1>1 DEF CloseReceipt, observerVars
<1>9. Reload => SignsInv'
  BY <1>2 DEF Reload
<1>10. \A fresh \in BOOLEAN : Poll(fresh) => SignsInv'
  BY <1>1 DEF Poll, observerVars
<1>11. CallFails \/ ApprovalMined \/ ReadReceipt => SignsInv'
  BY <1>2 DEF CallFails, Throw, ApprovalMined, ReadReceipt
<1>12. ASSUME NEW stage, NEW next \in {"receipt", "approvalMined"}, Sign(stage, next)
       PROVE  SignsInv'
  <2>1. call \in Calls
    BY <1>12 DEF Sign, At, ClientTypeOK, CallOK
  <2>2. call' = NoCall \/ call'.stage = next
    BY <1>12, <2>1 DEF Sign, Throw, Calls
  <2> QED BY <1>2, <2>2 DEF SignsInv, ChecksStand
<1>13. SignApproval \/ SignTransfer => SignsInv'
  BY <1>12 DEF SignApproval, SignTransfer
<1>14. Drift => SignsInv'
  BY <1>2 DEF Drift
<1>15. \A i \in DOMAIN txs : Mine(i) => SignsInv'
  BY <1>2 DEF Mine
<1>16. \A i \in DOMAIN txs : Deliver(i) => SignsInv'
  BY DeliverKeepsChecks
<1>17. UNCHANGED clientVars => SignsInv'
  BY <1>1 DEF clientVars, observerVars
<1>18. ReadBalance \/ ReadCapacity \/ ReadAllowance \/ ReadFee \/ ReadAllowanceToApprove => SignsInv'
  BY ReadKeepsChecks
<1> QED BY ONLY [ClientNext]_clientVars, <1>4, <1>5, <1>6, <1>7, <1>8, <1>9, <1>10, <1>11, <1>13,
           <1>14, <1>15, <1>16, <1>17, <1>18, ClientStepCases, Zenon

\* The checks that stand when the wallet is asked are those the contracts make.
LEMMA ChecksSuffice == ClientTypeOK /\ SignsInv => SignsOnlyWhatPasses
<1> SUFFICES ASSUME ClientTypeOK, SignsInv, At("sign"), steady, call.capacity # None
             PROVE  Accepts(call.route, call.amount)
  BY DEF SignsOnlyWhatPasses
<1>1. call \in Calls /\ ChecksStand /\ call.stage = "sign"
  BY DEF At, ClientTypeOK, CallOK, SignsInv
<1>2. /\ call.balance \in Nat /\ call.amount \in Nat
      /\ balance[call.route.source] \in Nat /\ allowance[call.route.source] \in Nat
      /\ capacity[call.route] \in Amounts
  BY <1>1, ClientAssumption DEF ClientTypeOK, LedgerOK, Calls, Amounts
<1> QED BY <1>1, <1>2 DEF ChecksStand, ApprovalRequired, Accepts, IsCollateral

\* While nothing a bridge() call reads changes, the transfer it asks the wallet
\* to sign is one the contracts accept, whatever is delivered, selected or
\* connected meanwhile: each check still stands when the next is made.
THEOREM SignsTheorem == ClientSpec => []SignsOnlyWhatPasses
<1>1. ClientInit => SignsInv
  BY DEF ClientInit, SignsInv
<1> QED BY TypeInit, TypeStep, <1>1, SignsStep, ChecksSuffice, PTL DEF ClientSpec
-----------------------------------------------------------------------------
\* What a call that waits for a receipt has sent, and nobody has recorded yet.
ReceiptAwaited ==
    At("receipt") =>
        /\ txs[call.tx].kind = "bridge"
        /\ txs[call.tx].route = call.route
        /\ txs[call.tx].amount = call.amount
        /\ \A r \in records : r.tx # call.tx

\* The stages of approve() and of bridge() are apart.
KindsApart ==
    Busy => (call.kind = "approve"
               <=> call.stage \in {"approvalRead", "approvalSign", "approvalMined"})

RecordsTrue ==
    \A r \in records :
        /\ r.tx \in DOMAIN txs
        /\ txs[r.tx].kind = "bridge"
        /\ r.route = txs[r.tx].route /\ r.amount = txs[r.tx].amount
        /\ r.messageId => txs[r.tx].status \in {"mined", "delivered"}
        /\ \A q \in records : q.tx = r.tx => q = r

Told(i) == (\E r \in records : r.tx = i) \/ (At("receipt") /\ call.tx = i) \/ i \in lost

AllTold == \A i \in DOMAIN txs : txs[i].kind = "bridge" => Told(i)

FaithInv == ReceiptAwaited /\ KindsApart /\ RecordsTrue /\ AllTold

LEMMA FaithIsFaithful == FaithInv => ActivityIsFaithful
BY DEF FaithInv, RecordsTrue, AllTold, Told, ActivityIsFaithful

\* Nothing the activity page or the call knows has moved.
LEMMA FaithKept ==
    ASSUME FaithInv, UNCHANGED <<txs, call, records, lost>>
    PROVE  FaithInv'
BY DEF FaithInv, ReceiptAwaited, KindsApart, RecordsTrue, AllTold, Told, At, Busy

\* A call begins, goes on or ends, away from the receipt: only what was lost
\* may grow.
LEMMA FaithOfReads ==
    ASSUME FaithInv, UNCHANGED <<txs, records>>, lost \subseteq lost', ~At("receipt"),
           \/ call' = NoCall
           \/ /\ call' \in Calls /\ call'.stage # "receipt"
              /\ call'.kind = "approve"
                   <=> call'.stage \in {"approvalRead", "approvalSign", "approvalMined"}
    PROVE  FaithInv'
<1>1. ~At("receipt")'
  BY DEF At, Busy
<1>2. ReceiptAwaited' /\ RecordsTrue'
  BY <1>1 DEF ReceiptAwaited, FaithInv, RecordsTrue
<1>3. KindsApart'
  BY DEF KindsApart, Busy
<1>4. AllTold'
  BY DEF FaithInv, AllTold, Told
<1> QED BY <1>2, <1>3, <1>4 DEF FaithInv

LEMMA FaithOfReload ==
    ASSUME ClientTypeOK, FaithInv, Reload
    PROVE  FaithInv'
<1>1. call' = NoCall /\ UNCHANGED <<txs, records>>
      /\ lost' = IF Busy /\ call.tx # 0 THEN lost \cup {call.tx} ELSE lost
  BY DEF Reload
<1>2. ~Busy'
  BY <1>1 DEF Busy
<1>3. ReceiptAwaited' /\ KindsApart'
  BY <1>2 DEF ReceiptAwaited, KindsApart, At
<1>4. RecordsTrue'
  BY <1>1 DEF FaithInv, RecordsTrue
<1>5. At("receipt") => call.tx \in lost'
  <2> SUFFICES ASSUME At("receipt") PROVE Busy /\ call.tx # 0
    BY <1>1
  <2>1. Busy /\ call.tx \in DOMAIN txs
    BY DEF At, ClientTypeOK, CallOK
  <2>2. call.tx \in 1..Len(txs)
    BY <2>1, LenProperties DEF ClientTypeOK, TxsOK
  <2> QED BY <2>1, <2>2
<1>6. AllTold'
  BY <1>1, <1>5 DEF FaithInv, AllTold, Told
<1> QED BY <1>3, <1>4, <1>6 DEF FaithInv

\* A signature adds a transaction that is the call's own.
LEMMA FaithOfSign ==
    ASSUME ClientTypeOK, FaithInv,
           NEW stage, NEW next, Sign(stage, next),
           \/ stage = "sign" /\ next = "receipt"
           \/ stage = "approvalSign" /\ next = "approvalMined"
    PROVE  FaithInv'
<1> DEFINE tx == [kind |-> call.kind, route |-> call.route, amount |-> call.amount,
                  on |-> network, status |-> "pending"]
           n == Len(txs) + 1
<1>1. Busy /\ call \in Calls /\ call.stage = stage /\ ~At("receipt")
  BY DEF ClientTypeOK, CallOK, Sign, At
<1>2. txs \in Seq(Transactions) /\ tx \in Transactions
  BY <1>1 DEF ClientTypeOK, TxsOK, FormOK, Calls, Transactions
<1>3. /\ Len(txs') = n /\ txs'[n] = tx /\ n \notin DOMAIN txs
      /\ DOMAIN txs' = DOMAIN txs \cup {n}
      /\ \A i \in DOMAIN txs : txs'[i] = txs[i]
  <2>1. txs' = Append(txs, tx)
    BY DEF Sign
  <2>2. Len(txs) \in Nat /\ DOMAIN txs = 1..Len(txs)
    BY <1>2, LenProperties
  <2>3. /\ txs' \in Seq(Transactions)
        /\ Len(txs') = Len(txs) + 1
        /\ \A i \in 1..Len(txs) : txs'[i] = txs[i]
        /\ txs'[Len(txs) + 1] = tx
    BY <1>2, <2>1, AppendProperties
  <2>4. DOMAIN txs' = 1..(Len(txs) + 1)
    BY <2>3, LenProperties
  <2> QED BY <2>2, <2>3, <2>4
<1>4. records' = records
  BY DEF Sign
<1> HIDE DEF n
<1>5. RecordsTrue'
  BY <1>3, <1>4 DEF FaithInv, RecordsTrue
<1>6. \A r \in records : r.tx # n
  BY <1>3 DEF FaithInv, RecordsTrue
<1>7. call.kind = "approve" <=> stage = "approvalSign"
  BY <1>1 DEF FaithInv, KindsApart
<1>8. call.kind \in {"approve", "bridge"}
  BY <1>1 DEF Calls
<1>9. ASSUME NEW i \in DOMAIN txs, txs'[i].kind = "bridge" PROVE Told(i)'
  <2>1. \/ \E r \in records : r.tx = i
        \/ i \in lost
    BY <1>1, <1>3, <1>9 DEF FaithInv, AllTold, Told
  <2> QED BY <1>4, <2>1 DEF Told, Sign
<1>10. CASE call' = NoCall
  <2>1. lost' = lost \cup {n} \/ lost' = lost \cup {Len(txs')}
    BY <1>1, <1>10 DEF Sign, Throw, Calls, NoCall, Busy
  <2>2. n \in lost'
    BY <1>3, <2>1
  <2>3. ReceiptAwaited' /\ KindsApart'
    BY <1>10 DEF ReceiptAwaited, KindsApart, At, Busy
  <2>4. AllTold'
    BY <1>3, <1>9, <2>2 DEF AllTold, Told
  <2> QED BY <1>5, <2>3, <2>4 DEF FaithInv
<1>11. CASE call' # NoCall
  <2>1. call' = [call EXCEPT !.stage = next, !.tx = n]
    BY <1>3, <1>11 DEF Sign, Throw
  <2>2. /\ call'.stage = next /\ call'.tx = n /\ call'.kind = call.kind
        /\ call'.route = call.route /\ call'.amount = call.amount
    BY <1>1, <2>1 DEF Calls
  <2>3. KindsApart'
    BY <1>7, <2>2 DEF KindsApart
  <2>4. ReceiptAwaited'
    BY <1>3, <1>4, <1>6, <1>7, <1>8, <2>2 DEF ReceiptAwaited, At
  <2>5. ASSUME NEW i, i = n, txs'[i].kind = "bridge" PROVE Told(i)'
    BY <1>3, <1>7, <1>11, <2>2, <2>5 DEF Told, At, Busy
  <2>6. AllTold'
    BY <1>3, <1>9, <2>5 DEF AllTold
  <2> QED BY <1>5, <2>3, <2>4, <2>6 DEF FaithInv
<1> QED BY <1>10, <1>11

\* The receipt's transfer joins the records: the first record of it.
LEMMA FaithOfReceipt ==
    ASSUME ClientTypeOK, FaithInv, ReadReceipt
    PROVE  FaithInv'
<1> DEFINE id == MessageId(call.tx)
           rec == [tx |-> call.tx, route |-> call.route, amount |-> call.amount, messageId |-> id]
<1>1. /\ At("receipt") /\ call' = NoCall
      /\ records' = records \cup {rec}
      /\ UNCHANGED <<txs, lost>>
  BY DEF ReadReceipt, Submitted, Recorded, observerVars
<1>2. call.tx \in DOMAIN txs
  BY <1>1 DEF ClientTypeOK, CallOK, At
<1>3. /\ txs[call.tx].kind = "bridge"
      /\ txs[call.tx].route = call.route
      /\ txs[call.tx].amount = call.amount
      /\ \A r \in records : r.tx # call.tx
  BY <1>1 DEF FaithInv, ReceiptAwaited
<1>4. id => txs[call.tx].status \in {"mined", "delivered"}
  BY DEF MessageId
<1>5. /\ rec.tx = call.tx /\ rec.route = call.route /\ rec.amount = call.amount
      /\ rec.messageId = id
  OBVIOUS
<1> HIDE DEF id, rec
<1>6. RecordsTrue'
  <2> SUFFICES ASSUME NEW r \in records'
               PROVE  /\ r.tx \in DOMAIN txs
                      /\ txs[r.tx].kind = "bridge"
                      /\ r.route = txs[r.tx].route /\ r.amount = txs[r.tx].amount
                      /\ r.messageId => txs[r.tx].status \in {"mined", "delivered"}
                      /\ \A q \in records' : q.tx = r.tx => q = r
    BY <1>1 DEF RecordsTrue
  <2>1. CASE r = rec
    BY <1>1, <1>2, <1>3, <1>4, <1>5, <2>1, Zenon
  <2>2. CASE r \in records
    BY <1>1, <1>3, <1>5, <2>2, Zenon DEF FaithInv, RecordsTrue
  <2> QED BY <1>1, <2>1, <2>2
<1>7. AllTold'
  BY <1>1, <1>5 DEF FaithInv, AllTold, Told
<1>8. ReceiptAwaited' /\ KindsApart'
  BY <1>1 DEF ReceiptAwaited, KindsApart, At, Busy
<1> QED BY <1>6, <1>7, <1>8 DEF FaithInv

\* A chain settles a transaction: what it is does not change, and once carried
\* out it stays so.
LEMMA FaithOfChain ==
    ASSUME ClientTypeOK, FaithInv, NEW i \in DOMAIN txs, Mine(i) \/ Deliver(i)
    PROVE  FaithInv'
<1>1. UNCHANGED <<call, records, lost>>
  BY DEF Mine, Deliver, observerVars
<1>2. PICK status \in {"mined", "reverted", "delivered", "elsewhere"} :
          /\ txs' = Settled(i, status)
          /\ txs[i].status \in {"mined", "delivered"} => status \in {"mined", "delivered"}
  BY DEF Mine, Deliver, Settled
<1>3. DOMAIN txs' = DOMAIN txs /\ txs[i] \in Transactions
  BY <1>2, SettledType, LenProperties, ElementOfSeq DEF ClientTypeOK, TxsOK
<1>4. \A j \in DOMAIN txs :
          /\ txs'[j].kind = txs[j].kind
          /\ txs'[j].route = txs[j].route
          /\ txs'[j].amount = txs[j].amount
          /\ txs[j].status \in {"mined", "delivered"} => txs'[j].status \in {"mined", "delivered"}
  <2> SUFFICES ASSUME NEW j \in DOMAIN txs
               PROVE  /\ txs'[j].kind = txs[j].kind
                      /\ txs'[j].route = txs[j].route
                      /\ txs'[j].amount = txs[j].amount
                      /\ txs[j].status \in {"mined", "delivered"}
                           => txs'[j].status \in {"mined", "delivered"}
    OBVIOUS
  <2>1. txs'[j] = IF j = i THEN [txs[i] EXCEPT !.status = status] ELSE txs[j]
    BY <1>2, Zenon DEF Settled
  <2> QED BY <1>2, <1>3, <2>1 DEF Transactions
<1>5. ReceiptAwaited'
  <2> SUFFICES ASSUME At("receipt")
               PROVE  /\ txs'[call.tx].kind = "bridge"
                      /\ txs'[call.tx].route = call.route
                      /\ txs'[call.tx].amount = call.amount
                      /\ \A r \in records : r.tx # call.tx
    BY <1>1 DEF ReceiptAwaited, At, Busy
  <2>1. call.tx \in DOMAIN txs
    BY DEF ClientTypeOK, CallOK, At
  <2> QED BY <1>4, <2>1 DEF FaithInv, ReceiptAwaited
<1>6. KindsApart'
  BY <1>1 DEF FaithInv, KindsApart, Busy
<1>7. RecordsTrue'
  <2> SUFFICES ASSUME NEW r \in records
               PROVE  /\ r.tx \in DOMAIN txs'
                      /\ txs'[r.tx].kind = "bridge"
                      /\ r.route = txs'[r.tx].route /\ r.amount = txs'[r.tx].amount
                      /\ r.messageId => txs'[r.tx].status \in {"mined", "delivered"}
                      /\ \A q \in records : q.tx = r.tx => q = r
    BY <1>1 DEF RecordsTrue
  <2> QED BY <1>3, <1>4 DEF FaithInv, RecordsTrue
<1>8. AllTold'
  BY <1>1, <1>3, <1>4 DEF FaithInv, AllTold, Told, At, Busy
<1> QED BY <1>5, <1>6, <1>7, <1>8 DEF FaithInv

LEMMA FaithStep ==
    ASSUME ClientTypeOK, FaithInv, [ClientNext]_clientVars
    PROVE  FaithInv'
<1>1. \A r \in Routes : Select(r) => FaithInv'
  BY FaithKept DEF Select, observerVars
<1>2. \A c \in Chains : SwitchNetwork(c) => FaithInv'
  BY FaithKept DEF SwitchNetwork, observerVars
<1>3. ASSUME NEW value \in Amounts \ {0}, ClickApprove(value) \/ ClickBridge(value)
      PROVE  FaithInv'
  <2>1. PICK kind \in {"approve", "bridge"}, stage \in {"approvalRead", "balance"} :
            /\ Begin(kind, stage, value)
            /\ kind = "approve" <=> stage = "approvalRead"
    BY <1>3 DEF ClickApprove, ClickBridge
  <2>2. /\ call' \in Calls /\ call'.stage = stage /\ call'.kind = kind
    BY <2>1 DEF Begin, Calls, Stages, ClientTypeOK, FormOK
  <2>3. ~At("receipt") /\ UNCHANGED <<txs, records, lost>>
    BY <2>1 DEF Begin, At
  <2> QED BY <2>1, <2>2, <2>3, FaithOfReads
<1>4. CloseReceipt => FaithInv'
  BY FaithKept DEF CloseReceipt, observerVars
<1>5. \A fresh \in BOOLEAN : Poll(fresh) => FaithInv'
  BY FaithKept DEF Poll, observerVars
<1>6. ASSUME ReadBalance \/ ReadCapacity \/ ReadAllowance \/ ReadFee \/ ReadAllowanceToApprove
      PROVE  FaithInv'
  <2>1. /\ Busy /\ call \in Calls /\ ~At("receipt")
        /\ UNCHANGED <<txs, records, lost>>
    BY <1>6 DEF ReadBalance, ReadCapacity, ReadAllowance, ReadFee, ReadAllowanceToApprove, At,
       ClientTypeOK, CallOK
  <2>2. call.kind = "approve"
          <=> call.stage \in {"approvalRead", "approvalSign", "approvalMined"}
    BY <2>1 DEF FaithInv, KindsApart
  <2>3. ClientTypeOK'
    BY TypeStep
  <2>4. call' # NoCall => call' \in Calls
    BY <2>3 DEF ClientTypeOK, CallOK, Busy
  <2>5. CASE ReadBalance
    <3>1. call'.stage = "capacity" /\ call'.kind = call.kind /\ call.stage = "balance"
      BY <2>1, <2>5 DEF ReadBalance, At, Calls
    <3> QED BY <2>1, <2>2, <2>4, <3>1, FaithOfReads
  <2>6. CASE ReadCapacity
    <3>1. PICK limit : call' = NoCall \/ call' = [call EXCEPT !.stage = "approval", !.capacity = limit]
      BY <2>6, Zenon DEF ReadCapacity, Throw
    <3>2. call.stage = "capacity"
      BY <2>6 DEF ReadCapacity, At
    <3>3. call' # NoCall => call'.stage = "approval" /\ call'.kind = call.kind
      BY <2>1, <3>1 DEF Calls
    <3> QED BY <2>1, <2>2, <2>4, <3>2, <3>3, FaithOfReads
  <2>7. CASE ReadAllowance \/ ReadFee
    <3>1. PICK stage \in {"fee", "sign"} : call' = NoCall \/ call' = [call EXCEPT !.stage = stage]
      BY <2>7, Zenon DEF ReadAllowance, ReadFee, Throw, GoTo
    <3>2. call.stage \in {"approval", "fee"}
      BY <2>7 DEF ReadAllowance, ReadFee, At
    <3>3. call' # NoCall => call'.stage = stage /\ call'.kind = call.kind
      BY <2>1, <3>1 DEF Calls
    <3> QED BY <2>1, <2>2, <2>4, <3>2, <3>3, FaithOfReads
  <2>8. CASE ReadAllowanceToApprove
    <3>1. call' = NoCall \/ call' = [call EXCEPT !.stage = "approvalSign"]
      BY <2>8, Zenon DEF ReadAllowanceToApprove, Throw, GoTo
    <3>2. call.stage = "approvalRead"
      BY <2>8 DEF ReadAllowanceToApprove, At
    <3>3. call' # NoCall => call'.stage = "approvalSign" /\ call'.kind = call.kind
      BY <2>1, <3>1 DEF Calls
    <3> QED BY <2>1, <2>2, <2>4, <3>2, <3>3, FaithOfReads
  <2> QED BY <1>6, <2>5, <2>6, <2>7, <2>8
<1>7. ASSUME ApprovalMined \/ CallFails PROVE FaithInv'
  <2>1. call' = NoCall /\ ~At("receipt") /\ UNCHANGED <<txs, records>> /\ lost \subseteq lost'
    BY <1>7 DEF ApprovalMined, CallFails, Throw, At, observerVars
  <2> QED BY <2>1, FaithOfReads
<1>8. SignApproval \/ SignTransfer => FaithInv'
  BY FaithOfSign DEF SignApproval, SignTransfer
<1>9. Drift => FaithInv'
  BY FaithKept DEF Drift
<1>10. UNCHANGED clientVars => FaithInv'
  BY FaithKept DEF clientVars, observerVars
<1> QED BY ONLY ClientTypeOK, FaithInv, [ClientNext]_clientVars, <1>1, <1>2, <1>3, <1>4, <1>5, <1>6,
           <1>7, <1>8, <1>9, <1>10, FaithOfReload, FaithOfReceipt, FaithOfChain, ClientStepCases, Zenon

\* The activity page tells of each transfer what was really sent, once, and of
\* all of them but those the page was never told of, however calls, reloads,
\* deliveries and the user interleave.
THEOREM ActivityTheorem == ClientSpec => []ActivityIsFaithful
<1>1. ClientInit => FaithInv
  BY DEF ClientInit, FaithInv, ReceiptAwaited, KindsApart, RecordsTrue, AllTold, At, Busy
<1> QED BY TypeInit, TypeStep, <1>1, FaithStep, FaithIsFaithful, PTL DEF ClientSpec
----------------------------------------------------------------------------
\* The amount typed is one that can be typed.
TypedOK == amount \in Amounts

\* A button that approves or bridges has an amount to do it with.
LEMMA CtaHasAmount ==
    ASSUME Cta \in {"approve", "bridge"} PROVE amount # 0
BY DEF Cta

\* Every step of the card is one of the client or leaves the client alone, and
\* leaves an amount that can be typed.
LEMMA CardStep ==
    ASSUME TypedOK, [CardNext]_<<clientVars, cardVars>>
    PROVE  TypedOK' /\ [ClientNext]_clientVars
<1>1. ASSUME NEW r \in Routes, SelectOnCard(r)
      PROVE  TypedOK' /\ ClientNext
  BY <1>1 DEF SelectOnCard, TypedOK, Amounts, ClientNext, UserStep
<1>2. ASSUME NEW r \in Routes, AccountFetched(r) \/ \E why \in Failures : AccountFetchFails(r, why)
      PROVE  TypedOK' /\ UNCHANGED clientVars
  BY <1>2 DEF AccountFetched, AccountFetchFails, TypedOK, Amounts
<1>3. ASSUME NEW a \in Amounts, TypeAmount(a)
      PROVE  TypedOK' /\ UNCHANGED clientVars
  BY <1>3 DEF TypeAmount, TypedOK, Amounts
<1>4. ASSUME Refresh \/ \E outcome \in QuoteOutcomes : QuoteSettles(outcome)
      PROVE  TypedOK' /\ UNCHANGED clientVars
  BY <1>4 DEF Refresh, QuoteSettles, TypedOK, Amounts
<1>5. ASSUME ClickOnCard
      PROVE  TypedOK' /\ ClientNext
  <2>1. amount \in Amounts \ {0}
    BY <1>5, CtaHasAmount DEF ClickOnCard, TypedOK
  <2>2. ClickApprove(amount) \/ ClickBridge(amount)
    BY <1>5 DEF ClickOnCard
  <2>3. TypedOK'
    BY <1>5 DEF ClickOnCard, cardVars, TypedOK, Amounts
  <2> QED BY <2>1, <2>2, <2>3, Zenon DEF ClientNext, UserStep
<1>6. ASSUME ApprovalMinedOnCard
      PROVE  TypedOK' /\ ClientNext
  BY <1>6 DEF ApprovalMinedOnCard, TypedOK, Amounts, ClientNext, CallStep
<1>7. ASSUME CloseReceiptOnCard \/ ReloadCard
      PROVE  TypedOK' /\ ClientNext
  BY <1>7, ClientAssumption DEF CloseReceiptOnCard, ReloadCard, TypedOK, Amounts, ClientNext, UserStep
<1>8. ASSUME CardUnmoved
      PROVE  TypedOK' /\ ClientNext
  <2>1. TypedOK'
    BY <1>8 DEF CardUnmoved, cardVars, TypedOK, Amounts
  <2> QED BY <1>8, <2>1, Zenon DEF CardUnmoved, ClientNext, UserStep, CallStep
<1>9. ASSUME UNCHANGED <<clientVars, cardVars>>
      PROVE  TypedOK' /\ UNCHANGED clientVars
  BY <1>9 DEF cardVars, TypedOK, Amounts
<1> QED BY <1>1, <1>2, <1>3, <1>4, <1>5, <1>6, <1>7, <1>8, <1>9, Zenon DEF CardNext

\* Whatever the card has cached, guessed or missed, it uses the SDK as the
\* client's specification allows.
THEOREM CardImplementsClient == CardSpec => ClientSpec
<1>1. CardInit => ClientInit /\ TypedOK
  BY ClientAssumption DEF CardInit, TypedOK, Amounts
<1> QED BY <1>1, CardStep, PTL DEF CardSpec, ClientSpec

\* On the card too: what the wallet is asked to sign would pass while nothing
\* the call has read changes, although the button goes by older reads.
COROLLARY CardSignsTheorem == CardSpec => []SignsOnlyWhatPasses
BY CardImplementsClient, SignsTheorem, PTL

\* On the card too: the activity page tells of each transfer what was sent.
COROLLARY CardActivityTheorem == CardSpec => []ActivityIsFaithful
BY CardImplementsClient, ActivityTheorem, PTL
=============================================================================
