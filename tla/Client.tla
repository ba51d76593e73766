------------------------------- MODULE Client -------------------------------
(***************************************************************************)
(* The SDK client (packages/sdk/src/client.ts) as one page of apps/web     *)
(* uses it: an account that approves and bridges one asset.  Every read of *)
(* a chain is an await of its own, so the chains, the wallet and the user  *)
(* come in between.  The page keeps the route selected, the call under way *)
(* and the receipt of the last transfer; which button it offers, and on    *)
(* what cached reads, is Card's matter.                                    *)
(***************************************************************************)
EXTENDS Integers, Sequences, FiniteSets

CONSTANTS
    Chains,
    CollateralChains,  \* where the asset is a plain ERC20 that its router locks
    Routes,            \* the usable routes, each with a source and a destination
    None,              \* a value read by nobody, a model value
    MaxAmount,         \* bound: the largest amount typed, held or allowed
    MaxDrifts,         \* bound: changes made by others to what the page reads
    MaxTransactions    \* bound: transactions the account signs

ASSUME ClientAssumption ==
    /\ CollateralChains \subseteq Chains
    /\ Routes # {} /\ Routes \subseteq [source: Chains, destination: Chains]
    /\ MaxAmount \in Nat \ {0}
    /\ MaxDrifts \in Nat
    /\ MaxTransactions \in Nat

VARIABLES
    balance,     \* balance[c]: the account's tokens on c
    allowance,   \* allowance[c]: what the router on c may take of them
    capacity,    \* capacity[r]: what the guard lets through on r
    txs,         \* the transactions signed, in order
    network,     \* the chain the wallet is connected to
    selected,    \* the route selected
    call,        \* the SDK call under way, if any
    submission,  \* the receipt shown, if any
    records,     \* the transfers recorded for the activity page
    lost,        \* signed, but the page was reloaded or told of a failure
    steady,      \* nothing the call reads has changed since it began
    drifts       \* how often others have changed something

ledgerVars == <<balance, allowance, capacity>>
observerVars == <<lost, steady, drifts>>
clientVars == <<ledgerVars, txs, network, selected, call, submission, records, observerVars>>
----------------------------------------------------------------------------
Amounts == 0..MaxAmount

IsCollateral(r) == r.source \in CollateralChains

NoCall == [kind |-> None]

Busy == call # NoCall

At(stage) == Busy /\ call.stage = stage

\* Mutant of ApprovalRequired: any allowance will do.
ApprovalMissing(r, value, current) == IsCollateral(r) /\ current = 0

\* getApproval().required: a synthetic router burns without an allowance.
ApprovalRequired(r, value, current) == IsCollateral(r) /\ current < value
----------------------------------------------------------------------------
ClientInit ==
    /\ balance = [c \in Chains |-> IF c \in CollateralChains THEN MaxAmount ELSE 0]
    /\ allowance = [c \in Chains |-> 0]
    /\ capacity = [r \in Routes |-> MaxAmount]
    /\ txs = <<>>
    /\ network \in Chains
    /\ selected \in Routes
    /\ call = NoCall
    /\ submission = NoCall
    /\ records = {}
    /\ lost = {}
    /\ steady = FALSE
    /\ drifts = 0

\* The form is on the page: no receipt has replaced it.
FormShown == submission = NoCall
----------------------------------------------------------------------------
\* The user selects a route, whether or not a call is under way.
Select(r) ==
    /\ FormShown
    /\ r # selected
    /\ selected' = r
    /\ UNCHANGED <<ledgerVars, txs, network, call, submission, records, observerVars>>

\* The wallet connects to another chain, asked by the button or by the user.
SwitchNetwork(c) ==
    /\ c # network
    /\ network' = c
    /\ UNCHANGED <<ledgerVars, txs, selected, call, submission, records, observerVars>>
----------------------------------------------------------------------------
\* onCta(): the route selected and the amount typed when the button is clicked.
Begin(kind, stage, value) ==
    /\ FormShown
    /\ ~Busy
    /\ Len(txs) < MaxTransactions
    /\ call' = [kind |-> kind, stage |-> stage, route |-> selected, amount |-> value,
                balance |-> 0, capacity |-> None, tx |-> 0]
    /\ steady' = TRUE
    /\ UNCHANGED <<ledgerVars, txs, network, selected, submission, records, lost, drifts>>

ClickApprove(value) == Begin("approve", "approvalRead", value)

ClickBridge(value) == Begin("bridge", "balance", value)

GoTo(stage) == call' = [call EXCEPT !.stage = stage]

\* An exception: the error is shown and, whatever happened, the button freed.
Throw == call' = NoCall

\* What no step of a call touches before its last.
StepOfCall == UNCHANGED <<ledgerVars, network, selected, submission, drifts, steady>>

\* A chain does not answer, the user refuses to sign, or the wait for the
\* receipt of an approval times out.  The capacity read cannot fail.
CallFails ==
    /\ Busy
    /\ call.stage \notin {"capacity", "receipt"}
    /\ Throw
    /\ lost' = IF At("approvalMined") THEN lost \cup {call.tx} ELSE lost
    /\ UNCHANGED <<txs, records>> /\ StepOfCall

ReadBalance ==
    /\ At("balance")
    /\ call' = [call EXCEPT !.stage = "capacity", !.balance = balance[call.route.source]]
    /\ UNCHANGED <<txs, records, lost>> /\ StepOfCall

\* validateAmount(): a capacity that could not be read limits nothing.
Validates(value, held, limit) ==
    /\ value > 0
    /\ value <= held
    /\ limit # None => value <= limit

ReadCapacity ==
    /\ At("capacity")
    /\ \E limit \in {capacity[call.route], None} :
          IF Validates(call.amount, call.balance, limit)
          THEN call' = [call EXCEPT !.stage = "approval", !.capacity = limit]
          ELSE Throw
    /\ UNCHANGED <<txs, records, lost>> /\ StepOfCall

ReadAllowance ==
    /\ At("approval")
    /\ IF ApprovalRequired(call.route, call.amount, allowance[call.route.source])
       THEN Throw ELSE GoTo("fee")
    /\ UNCHANGED <<txs, records, lost>> /\ StepOfCall

ReadFee ==
    /\ At("fee")
    /\ GoTo("sign")
    /\ UNCHANGED <<txs, records, lost>> /\ StepOfCall

\* approve() reads the allowance again and has nothing to do if it suffices.
ReadAllowanceToApprove ==
    /\ At("approvalRead")
    /\ IF ApprovalRequired(call.route, call.amount, allowance[call.route.source])
       THEN GoTo("approvalSign") ELSE Throw
    /\ UNCHANGED <<txs, records, lost>> /\ StepOfCall

\* The wallet signs and sends on the chain it is connected to: the client asks
\* for no chain in particular.  The answer may not reach the page.
Sign(stage, next) ==
    /\ At(stage)
    /\ txs' = Append(txs, [kind |-> call.kind, route |-> call.route, amount |-> call.amount,
                           on |-> network, status |-> "pending"])
    /\ \/ /\ call' = [call EXCEPT !.stage = next, !.tx = Len(txs')]
          /\ UNCHANGED lost
       \/ /\ Throw
          /\ lost' = lost \cup {Len(txs')}
    /\ UNCHANGED records /\ StepOfCall

SignApproval == Sign("approvalSign", "approvalMined")

SignTransfer == Sign("sign", "receipt")

\* A transaction as the source chain's node sees it.
SeenMined(i) == txs[i].status \in {"mined", "reverted", "delivered"}

\* approve() resolves once the receipt is there.
ApprovalMined ==
    /\ At("approvalMined")
    /\ SeenMined(call.tx)
    /\ call' = NoCall
    /\ UNCHANGED <<ledgerVars, txs, network, selected, submission, records, observerVars>>

\* readMessageId(): the id is in the receipt of a mined transfer; without a
\* receipt, or without the log, there is none.
MessageId(i) == txs[i].status \in {"mined", "delivered"}

\* Mutant of Recorded: the form as it is when the call resolves.
RecordedFromForm(id) == [tx |-> call.tx, route |-> selected, amount |-> call.amount, messageId |-> id]

Recorded(id) == [tx |-> call.tx, route |-> call.route, amount |-> call.amount, messageId |-> id]

\* The transfer is recorded and its receipt shown, with or without an id.
Submitted ==
    LET id == MessageId(call.tx)
    IN  /\ records' = records \cup {Recorded(id)}
        /\ submission' = [tx |-> call.tx, messageId |-> id,
                          status |-> IF id THEN "MESSAGE_DISPATCHED" ELSE "SOURCE_CONFIRMED"]
        /\ UNCHANGED <<ledgerVars, txs, network, selected, observerVars>>

\* Mutant of ReadReceipt: the receipt is waited for, without a limit.
AwaitReceipt == At("receipt") /\ SeenMined(call.tx) /\ Submitted /\ call' = NoCall

\* The receipt is looked up once.
ReadReceipt == At("receipt") /\ Submitted /\ call' = NoCall
----------------------------------------------------------------------------
\* Mutant of Polls: a transfer seen on its way is left alone.
PollsUntilSeen == ~FormShown /\ submission.messageId /\ submission.status = "MESSAGE_DISPATCHED"

\* useTransferStatus(): only a transfer with a message id is polled, until it
\* has been seen delivered.
Polls == ~FormShown /\ submission.messageId /\ submission.status # "DELIVERED"

\* The Mailbox of the destination selected is asked for the message.
Poll(fresh) ==
    /\ Polls
    /\ LET delivered == /\ fresh
                        /\ txs[submission.tx].status = "delivered"
                        /\ txs[submission.tx].route.destination = selected.destination
       IN  submission' = [submission EXCEPT
                            !.status = IF delivered THEN "DELIVERED" ELSE "AWAITING_VERIFICATION"]
    /\ UNCHANGED <<ledgerVars, txs, network, selected, call, records, observerVars>>

\* The user leaves the receipt for an empty form.
CloseReceipt ==
    /\ ~FormShown
    /\ submission' = NoCall
    /\ UNCHANGED <<ledgerVars, txs, network, selected, call, records, observerVars>>

\* The page is loaded again: only the activity records survive, and the wallet
\* drops what it was asked to sign.
Reload ==
    /\ call' = NoCall
    /\ lost' = IF Busy /\ call.tx # 0 THEN lost \cup {call.tx} ELSE lost
    /\ submission' = NoCall
    /\ selected' \in Routes
    /\ UNCHANGED <<ledgerVars, txs, network, records, steady, drifts>>
----------------------------------------------------------------------------
\* The contracts accept a transfer now: Bridge's Transfer, seen by one account.
Accepts(r, value) ==
    /\ value <= balance[r.source]
    /\ IsCollateral(r) => value <= allowance[r.source]
    /\ value <= capacity[r]

\* A transaction sent on its source chain is executed there; one sent on
\* another finds no router and moves nothing of the asset.
Mine(i) ==
    LET tx == txs[i]
        c == tx.route.source
        settle(status) == txs' = [txs EXCEPT ![i].status = status]
    IN  /\ tx.status = "pending"
        /\ \/ /\ tx.on = c
              /\ tx.kind = "approve"
              /\ settle("mined")
              /\ allowance' = [allowance EXCEPT ![c] = tx.amount]
              /\ UNCHANGED <<balance, capacity>>
           \/ /\ tx.on = c
              /\ tx.kind = "bridge"
              /\ Accepts(tx.route, tx.amount)
              /\ settle("mined")
              /\ balance' = [balance EXCEPT ![c] = @ - tx.amount]
              /\ allowance' = IF IsCollateral(tx.route)
                              THEN [allowance EXCEPT ![c] = @ - tx.amount] ELSE allowance
              /\ capacity' = [capacity EXCEPT ![tx.route] = @ - tx.amount]
           \/ /\ tx.on = c
              /\ tx.kind = "bridge"
              /\ ~Accepts(tx.route, tx.amount)
              /\ settle("reverted")
              /\ UNCHANGED ledgerVars
           \/ /\ tx.on # c
              /\ settle("elsewhere")
              /\ UNCHANGED ledgerVars
        /\ steady' = FALSE
        /\ UNCHANGED <<network, selected, call, submission, records, lost, drifts>>

\* The message of a mined transfer is delivered to the same account.
Deliver(i) ==
    /\ txs[i].kind = "bridge" /\ txs[i].status = "mined"
    /\ txs' = [txs EXCEPT ![i].status = "delivered"]
    /\ balance' = [balance EXCEPT ![txs[i].route.destination] = @ + txs[i].amount]
    /\ UNCHANGED <<allowance, capacity, network, selected, call, submission, records, observerVars>>

\* Another wallet, another tab, another user, the passing of time, an operator.
Drift ==
    /\ drifts < MaxDrifts
    /\ drifts' = drifts + 1
    /\ steady' = FALSE
    /\ \E a \in Amounts :
          \/ /\ \E c \in Chains : balance[c] # a /\ balance' = [balance EXCEPT ![c] = a]
             /\ UNCHANGED <<allowance, capacity>>
          \/ /\ \E c \in CollateralChains : allowance[c] # a /\ allowance' = [allowance EXCEPT ![c] = a]
             /\ UNCHANGED <<balance, capacity>>
          \/ /\ \E r \in Routes : capacity[r] # a /\ capacity' = [capacity EXCEPT ![r] = a]
             /\ UNCHANGED <<balance, allowance>>
    /\ UNCHANGED <<txs, network, selected, call, submission, records, lost>>
----------------------------------------------------------------------------
UserStep ==
    \/ \E r \in Routes : Select(r)
    \/ \E c \in Chains : SwitchNetwork(c)
    \/ \E value \in Amounts \ {0} : ClickApprove(value) \/ ClickBridge(value)
    \/ CloseReceipt
    \/ Reload

PollStep == \E fresh \in BOOLEAN : Poll(fresh)

\* The steps of a call that wait for no one but the chains' nodes.
CallStep ==
    ReadBalance \/ ReadCapacity \/ ReadAllowance \/ ReadFee \/ ReadAllowanceToApprove
      \/ ApprovalMined \/ ReadReceipt

WalletStep == SignApproval \/ SignTransfer

ChainStep == Drift \/ \E i \in DOMAIN txs : Mine(i) \/ Deliver(i)

ClientNext == UserStep \/ PollStep \/ CallStep \/ CallFails \/ WalletStep \/ ChainStep

ClientSpec == ClientInit /\ [][ClientNext]_clientVars

\* Reads are answered or fail, and a node that has caught up is asked at last.
\* Nobody has to sign, and nothing has to be mined or delivered.
ClientFairness ==
    /\ WF_clientVars(CallStep \/ (At("approvalMined") /\ CallFails))
    /\ WF_clientVars(Poll(TRUE))
----------------------------------------------------------------------------
Stages == {"balance", "capacity", "approval", "fee", "sign", "receipt",
           "approvalRead", "approvalSign", "approvalMined"}

Transactions ==
    [kind: {"approve", "bridge"}, route: Routes, amount: Amounts \ {0}, on: Chains,
     status: {"pending", "mined", "reverted", "delivered", "elsewhere"}]

Calls ==
    [kind: {"approve", "bridge"}, stage: Stages, route: Routes, amount: Amounts \ {0},
     balance: Nat, capacity: Amounts \cup {None}, tx: Nat]

Receipts ==
    [tx: Nat, messageId: BOOLEAN,
     status: {"SOURCE_CONFIRMED", "MESSAGE_DISPATCHED", "AWAITING_VERIFICATION", "DELIVERED"}]

LedgerOK ==
    /\ balance \in [Chains -> Nat]
    /\ allowance \in [Chains -> Amounts]
    /\ capacity \in [Routes -> Amounts]

TxsOK == txs \in Seq(Transactions) /\ Len(txs) <= MaxTransactions

FormOK == network \in Chains /\ selected \in Routes

\* Only a call that has signed refers to a transaction; any other may sign one.
CallOK ==
    Busy => /\ call \in Calls
            /\ IF call.stage \in {"receipt", "approvalMined"}
               THEN call.tx \in DOMAIN txs
               ELSE call.tx = 0 /\ Len(txs) < MaxTransactions

\* The receipt replaces the form, so no call is under way while it is shown.
ReceiptOK == ~FormShown => ~Busy /\ submission \in Receipts /\ submission.tx \in DOMAIN txs

ObserversOK == lost \subseteq DOMAIN txs /\ steady \in BOOLEAN /\ drifts \in 0..MaxDrifts

ClientTypeOK == LedgerOK /\ TxsOK /\ FormOK /\ CallOK /\ ReceiptOK /\ ObserversOK

\* "A user should never be walked into a confirmation dialog for a transaction
\* that is going to revert" (client.ts): while nothing bridge() reads changes,
\* a transfer the wallet is asked to sign would be accepted, unless the guard
\* could not be read.
SignsOnlyWhatPasses ==
    At("sign") /\ steady /\ call.capacity # None => Accepts(call.route, call.amount)

\* The activity page tells of each transfer what was really sent, once, and of
\* all of them but those of which the page was never told; a message id is
\* recorded only of a transfer that the source chain carried out.
ActivityIsFaithful ==
    /\ \A r \in records :
          /\ r.tx \in DOMAIN txs
          /\ txs[r.tx].kind = "bridge"
          /\ r.route = txs[r.tx].route /\ r.amount = txs[r.tx].amount
          /\ r.messageId => txs[r.tx].status \in {"mined", "delivered"}
          /\ \A q \in records : q.tx = r.tx => q = r
    /\ \A i \in DOMAIN txs :
          txs[i].kind = "bridge" => \/ \E r \in records : r.tx = i
                                   \/ (At("receipt") /\ call.tx = i)
                                   \/ i \in lost

\* The button is freed: a call ends, or waits for the user's signature.
CallsEnd == Busy ~> ~Busy \/ At("sign") \/ At("approvalSign")

\* The receipt of the transaction i is shown, which has been delivered.
ReceiptOf(i) == ~FormShown /\ submission.tx = i /\ txs[i].status = "delivered"

HasItsId == submission.messageId
OnItsRoute(i) == selected = txs[i].route

ShownOrClosed == FormShown \/ submission.status = "DELIVERED"

\* A receipt that knows its message id and shows its own route is polled
\* through to the delivery, although nodes that lag are asked as well.
FollowedToDelivery ==
    \A i \in 1..MaxTransactions :
        (ReceiptOf(i) /\ HasItsId /\ OnItsRoute(i)) ~> ShownOrClosed
=============================================================================
