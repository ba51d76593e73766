------------------------------ MODULE Activity ------------------------------
(***************************************************************************)
(* What one tab of the web application tells of transfers: the error or    *)
(* the receipt in place of the form, the list of the activity page, the    *)
(* page of one transfer.  They share the browser's storage, with its other *)
(* tabs, and a cache of what the chains answered.  Users change account,   *)
(* follow links while a call is under way, and load pages anew.            *)
(*                                                                         *)
(* The steps of a call up to the signature are Client's matter, the form   *)
(* Page's; here a call is refused, signed, or signed and its answer lost.  *)
(***************************************************************************)
EXTENDS Integers, Sequences, FiniteSets, Filters

CONSTANTS
    Wallets,      \* the accounts of the user's wallet
    Transfers,    \* the transfers that may be made
    Chains,
    Destination,  \* Destination[t]: the chain transfer t goes to
    Thrown,       \* the errors wallets and nodes throw, each the set of what it mentions
    None,
    Cap           \* the entries kept for a wallet; 100 in the code

ASSUME ActivityAssumption ==
    /\ Destination \in [Transfers -> Chains]
    /\ None \notin Wallets \cup Transfers
    /\ {"bridge", "activity"} \cap Transfers = {}
    /\ Cap \in Nat \ {0}

VARIABLES
    chain,    \* chain[t]: where transfer t is, unsent to delivered
    sender,   \* sender[t]: the account it was started with, if it was
    stored,   \* stored[w]: the records kept for account w, the newest first
    wallet,   \* the account connected, if any
    page,     \* the page shown: "bridge", "activity", or that of a transfer
    calls,    \* the calls under way
    error,    \* the failure the form shows
    receipt,  \* the receipt in place of the form
    listed,   \* the records the activity page shows
    found,    \* whether the page of a transfer found its record
    answers   \* answers[k]: what the cache holds for query k

formVars == <<calls, error, receipt>>
viewVars == <<wallet, page, listed, found>>
activityVars == <<chain, sender, stored, viewVars, formVars, answers>>
----------------------------------------------------------------------------
(* Errors.                                                                 *)

\* What normalizeError() looks for, in its order, and the code it gives.
Clues ==
    <<[mentions |-> "user rejected", code |-> "USER_REJECTED"],
      [mentions |-> "allowance", code |-> "INSUFFICIENT_ALLOWANCE"],
      [mentions |-> "funds", code |-> "INSUFFICIENT_BALANCE"],
      [mentions |-> "limit", code |-> "LIMIT_EXCEEDED"],
      [mentions |-> "paused", code |-> "ROUTE_PAUSED"],
      [mentions |-> "wrong network", code |-> "WRONG_NETWORK"],
      [mentions |-> "unreachable", code |-> "RPC_UNAVAILABLE"],
      [mentions |-> "reverted", code |-> "SOURCE_TX_REVERTED"]>>

\* What a BridgeError of the SDK's own checks says, which is passed through.
OwnCodes == {"UNSUPPORTED_ROUTE", "INSUFFICIENT_BALANCE", "LIMIT_EXCEEDED",
             "INSUFFICIENT_ALLOWANCE", "UNSUPPORTED_CHAIN", "RPC_UNAVAILABLE"}

\* The text searched is that of an error with all its causes.
Mentioned(thrown) == {i \in DOMAIN Clues : Clues[i].mentions \in thrown}

\* Mutant of NormalizeError: what is not recognised is taken for a revert.
NormalizeErrorToRevert(thrown) ==
    IF Mentioned(thrown) = {} THEN "SOURCE_TX_REVERTED"
    ELSE Clues[CHOOSE i \in Mentioned(thrown) : \A j \in Mentioned(thrown) : i <= j].code

NormalizeError(thrown) ==
    IF Mentioned(thrown) = {} THEN "RPC_UNAVAILABLE"
    ELSE Clues[CHOOSE i \in Mentioned(thrown) : \A j \in Mentioned(thrown) : i <= j].code

\* The failures presented with "No assets were moved", or "Your funds are
\* unaffected".
NothingMoved == {"USER_REJECTED", "SOURCE_TX_REVERTED", "ROUTE_PAUSED"}

\* What an error may still say once the wallet has sent the transaction: that
\* an answer did not come.
AnswerLost == {thrown \in Thrown : thrown \subseteq {"unreachable"}}
----------------------------------------------------------------------------
(* The queries for the status of a transfer.                               *)

\* Mutant of StatusKey: a query for each destination.
StatusKeyOfChain(t, c) == <<c>>

StatusKey(t, c) == <<t, c>>

Queries == {StatusKey(t, c) : t \in Transfers, c \in Chains}

\* A transfer's message id is in the receipt of the source chain.
Dispatched(t) == chain[t] \in {"mined", "delivered"}

\* A receipt with a message id asks the destination selected by then for its
\* transfer, the page of a transfer the destination of its record; without a
\* record it asks a chain that does not exist.
Asks(f) ==
    \/ receipt # None /\ receipt.messageId /\ f = <<receipt.tx, receipt.to>>
    \/ page \in Transfers /\ found /\ f = <<page, Destination[page]>>

\* Mutant of Followed: one answer is enough.
FollowedUntilAnswered ==
    {f \in Transfers \X Chains : Asks(f) /\ answers[StatusKey(f[1], f[2])] = "none"}

Followed == {f \in Transfers \X Chains : Asks(f)}

\* What a surface shows of a transfer: the first status it assumes is behind
\* all that a query derives.
Shown(t, c, first) == IF answers[StatusKey(t, c)] = "none" THEN first ELSE answers[StatusKey(t, c)]

ReceiptStatus ==
    IF receipt.messageId THEN Shown(receipt.tx, receipt.to, "MESSAGE_DISPATCHED")
    ELSE "SOURCE_CONFIRMED"

DetailStatus ==
    IF found THEN Shown(page, Destination[page], "MESSAGE_DISPATCHED") ELSE "MESSAGE_DISPATCHED"

\* How far the steps on the receipt have come: 2 is "Message dispatched", 5 is
\* "Assets received".
StageIndex(status) ==
    CASE status = "SOURCE_CONFIRMED" -> 1
      [] status = "MESSAGE_DISPATCHED" -> 2
      [] status = "AWAITING_VERIFICATION" -> 3
      [] status = "DELIVERED" -> 5
----------------------------------------------------------------------------
ActivityInit ==
    /\ chain = [t \in Transfers |-> "unsent"]
    /\ sender = [t \in Transfers |-> None]
    /\ stored = [w \in Wallets |-> <<>>]
    /\ wallet \in Wallets \cup {None}
    /\ page = "bridge"
    /\ calls = {} /\ error = None /\ receipt = None
    /\ listed = <<>> /\ found = FALSE
    /\ answers = [k \in Queries |-> "none"]

\* The store (activityStore.ts).  The record goes first, without an older one of
\* the same transfer, and what is over the limit is cut.
Recorded(list, record) ==
    LET others == {i \in DOMAIN list : list[i].tx # record.tx}
        length == IF Cardinality(others) < Cap THEN 1 + Cardinality(others) ELSE Cap
    IN  [k \in 1..length |-> IF k = 1 THEN record ELSE AtPlaces(list, others)[k - 1]]

\* Mutant of Written: one list only is written back.
WrittenAlone(w, record) ==
    [v \in Wallets |-> IF v = w THEN Recorded(stored[w], record) ELSE <<>>]

\* The storage as recordTransfer() writes it, all wallets' lists in one entry.
Written(w, record) == [stored EXCEPT ![w] = Recorded(@, record)]

ListTransfers(w) == IF w = None THEN <<>> ELSE stored[w]

FindByMessageId(t) ==
    \E w \in Wallets : \E i \in DOMAIN stored[w] : stored[w][i].tx = t /\ stored[w][i].messageId
----------------------------------------------------------------------------
(* Calls.                                                                  *)

FormShown == page = "bridge" /\ receipt = None

\* The button is clicked: the account of that moment is the one that sends.
\* "here": the form that began the call is still on the page.
Start(t) ==
    /\ FormShown
    /\ wallet # None
    /\ \A c \in calls : ~c.here
    /\ sender[t] = None
    /\ sender' = [sender EXCEPT ![t] = wallet]
    /\ calls' = calls \cup {[tx |-> t, wallet |-> wallet, here |-> TRUE]}
    /\ error' = None
    /\ UNCHANGED <<chain, stored, viewVars, receipt, answers>>

\* A call ends with an error, which the form shows if it is still there.
Throws(call, code) ==
    /\ calls' = calls \ {call}
    /\ error' = IF call.here THEN [tx |-> call.tx, code |-> code] ELSE error

Unsigned(call) == chain[call.tx] = "unsent"

\* Before anything is sent: a check of the SDK's own, or what the wallet or a
\* node throws.
Refused(call) ==
    /\ Unsigned(call)
    /\ \E code \in OwnCodes \cup {NormalizeError(thrown) : thrown \in Thrown} : Throws(call, code)
    /\ UNCHANGED <<chain, sender, stored, viewVars, receipt, answers>>

Sign(call) ==
    /\ Unsigned(call)
    /\ chain' = [chain EXCEPT ![call.tx] = "pending"]
    /\ UNCHANGED <<sender, stored, viewVars, formVars, answers>>

\* The wallet has sent the transfer, and the page is told otherwise.
LostAnswer(call) ==
    /\ Unsigned(call)
    /\ chain' = [chain EXCEPT ![call.tx] = "pending"]
    /\ \E thrown \in AnswerLost : Throws(call, NormalizeError(thrown))
    /\ UNCHANGED <<sender, stored, viewVars, receipt, answers>>

\* Mutant of Account: the account connected when the call resolves.
AccountConnected(call) == IF wallet = None THEN call.wallet ELSE wallet

Account(call) == call.wallet

\* The receipt is looked up, once, at a node that may lag; the transfer is
\* recorded, if the browser lets it, and the receipt shown if the form is
\* still there, with the destination selected by then.
Resolve(call) ==
    /\ ~Unsigned(call)
    /\ calls' = calls \ {call}
    /\ \E messageId \in {FALSE, Dispatched(call.tx)}, to \in Chains :
          /\ stored' \in {stored, Written(Account(call), [tx |-> call.tx, messageId |-> messageId])}
          /\ receipt' = IF call.here THEN [tx |-> call.tx, messageId |-> messageId, to |-> to]
                        ELSE receipt
    /\ UNCHANGED <<chain, sender, viewVars, error, answers>>

CloseReceipt ==
    /\ receipt # None
    /\ receipt' = None
    /\ UNCHANGED <<chain, sender, stored, viewVars, calls, error, answers>>
----------------------------------------------------------------------------
(* Pages.                                                                  *)

\* A page appears: its effects read the storage once.
Appears(p) ==
    /\ page' = p
    /\ listed' = IF p = "activity" THEN ListTransfers(wallet) ELSE <<>>
    /\ found' = (p \in Transfers /\ FindByMessageId(p))
    /\ error' = None /\ receipt' = None

\* A link of the site: calls under way go on without their form.
FollowLink(p) ==
    /\ p # page
    /\ p \in Transfers => \E i \in DOMAIN listed : listed[i].tx = p /\ listed[i].messageId
    /\ Appears(p)
    /\ calls' = {[c EXCEPT !.here = FALSE] : c \in calls}
    /\ UNCHANGED <<chain, sender, stored, wallet, answers>>

\* A page is loaded: nothing survives but the storage.
Load(p) ==
    /\ p \in Transfers => Dispatched(p)
    /\ Appears(p)
    /\ calls' = {}
    /\ answers' = [k \in Queries |-> "none"]
    /\ UNCHANGED <<chain, sender, stored, wallet>>

\* The activity page lists the account's transfers anew when it changes.
SwitchAccount(w) ==
    /\ w # wallet
    /\ wallet' = w
    /\ listed' = IF page = "activity" THEN ListTransfers(w) ELSE <<>>
    /\ UNCHANGED <<chain, sender, stored, page, found, formVars, answers>>
----------------------------------------------------------------------------
(* Status.  A query is asked until it has seen the delivery, and again when *)
(* a page that follows it appears or the network is back.                  *)

\* The Mailbox of chain c is asked for transfer t, at a node that may lag.
Poll(f, fresh) ==
    LET t == f[1]
        c == f[2]
    IN  /\ f \in Followed
        /\ answers' = [answers EXCEPT ![StatusKey(t, c)] =
                          IF fresh /\ c = Destination[t] /\ chain[t] = "delivered"
                          THEN "DELIVERED" ELSE "AWAITING_VERIFICATION"]
        /\ UNCHANGED <<chain, sender, stored, viewVars, formVars>>

\* What nobody follows is dropped from the cache after a time.
Evict(k) ==
    /\ answers[k] # "none"
    /\ \A f \in Followed : k # StatusKey(f[1], f[2])
    /\ answers' = [answers EXCEPT ![k] = "none"]
    /\ UNCHANGED <<chain, sender, stored, viewVars, formVars>>
----------------------------------------------------------------------------
(* The chains, and the browser's other tabs.                               *)

Mine(t) ==
    /\ chain[t] = "pending"
    /\ chain' \in {[chain EXCEPT ![t] = "mined"], [chain EXCEPT ![t] = "reverted"]}
    /\ UNCHANGED <<sender, stored, viewVars, formVars, answers>>

Deliver(t) ==
    /\ chain[t] = "mined"
    /\ chain' = [chain EXCEPT ![t] = "delivered"]
    /\ UNCHANGED <<sender, stored, viewVars, formVars, answers>>

\* Another tab sends a transfer and records it in the storage they share.
SentElsewhere(t, w) ==
    /\ sender[t] = None
    /\ sender' = [sender EXCEPT ![t] = w]
    /\ \E messageId \in BOOLEAN :
          /\ chain' = [chain EXCEPT ![t] = IF messageId THEN "mined" ELSE "pending"]
          /\ stored' = Written(w, [tx |-> t, messageId |-> messageId])
    /\ UNCHANGED <<viewVars, formVars, answers>>
----------------------------------------------------------------------------
Pages == {"bridge", "activity"} \cup Transfers

ActivityNext ==
    \/ \E t \in Transfers : Start(t) \/ Mine(t) \/ Deliver(t)
    \/ \E call \in calls : Refused(call) \/ Sign(call) \/ LostAnswer(call) \/ Resolve(call)
    \/ CloseReceipt
    \/ \E p \in Pages : FollowLink(p) \/ Load(p)
    \/ \E w \in Wallets \cup {None} : SwitchAccount(w)
    \/ \E f \in Followed, fresh \in BOOLEAN : Poll(f, fresh)
    \/ \E k \in Queries : Evict(k)
    \/ \E t \in Transfers, w \in Wallets : SentElsewhere(t, w)

ActivitySpec == ActivityInit /\ [][ActivityNext]_activityVars

\* What is followed is asked again and again, at last of a node that keeps up.
FairActivitySpec ==
    /\ ActivitySpec
    /\ \A f \in Transfers \X Chains : WF_activityVars(Poll(f, TRUE))
----------------------------------------------------------------------------
\* A step is shown as reached, by the receipt or by the page of a transfer,
\* only of a transfer that has come so far, although both read one cache, the
\* receipt may ask another chain than the destination, and nodes lag.  (The
\* steps before the message are shown of any transfer, see the README.)
ArrivedIsTrue ==
    /\ receipt # None =>
          /\ StageIndex(ReceiptStatus) >= 2 => Dispatched(receipt.tx)
          /\ StageIndex(ReceiptStatus) = 5 => chain[receipt.tx] = "delivered"
    /\ page \in Transfers =>
          /\ Dispatched(page)
          /\ DetailStatus = "DELIVERED" => chain[page] = "delivered"

\* "No assets were moved" (errors.ts) is said only of a call that sent nothing.
SaysNothingMoved ==
    error # None /\ error.code \in NothingMoved => chain[error.tx] = "unsent"

\* "Scoped per wallet so switching accounts does not show someone else's
\* history" (activityStore.ts), whatever account is connected when a call ends.
OwnHistoryOnly ==
    \A i \in DOMAIN listed : wallet # None /\ sender[listed[i].tx] = wallet

\* What is recorded stays, for every account and whoever writes, until newer
\* transfers of the same account fill its list.
HistoryIsKept ==
    [][\A w \in Wallets : \A i \in DOMAIN stored[w] :
          \/ \E j \in DOMAIN stored'[w] : stored'[w][j].tx = stored[w][i].tx
          \/ i = Cap /\ Len(stored'[w]) = Cap]_stored

\* The page of a transfer that this browser recorded, left open, shows the
\* delivery at last, however often the nodes that answer lag.
DeliveryIsShown ==
    \A t \in Transfers :
        (page = t /\ found /\ chain[t] = "delivered") ~> (~(page = t /\ found) \/ DetailStatus = "DELIVERED")
=============================================================================
