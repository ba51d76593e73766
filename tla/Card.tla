-------------------------------- MODULE Card --------------------------------
(***************************************************************************)
(* The bridge card (apps/web: BridgeShell.tsx, useBridgeState.ts,          *)
(* ctaState.ts) around the SDK client: the amount typed, the cached reads  *)
(* of the account and the quote, and the one button derived from them.     *)
(* The modes of the card only ever disable the button, which is the same   *)
(* as the user not clicking it.                                            *)
(***************************************************************************)
EXTENDS Client

VARIABLES
    amount,    \* the amount typed, 0 for none
    account,   \* account[c]: the cached read for the source chain c, if any
    fetching,  \* the routes for which such a read is under way
    failed,    \* failed[c]: why the last such read of the source chain c failed, if it did
    quote      \* what has become of the quote for the amount typed

queryVars == <<account, fetching, failed>>
cardVars == <<amount, queryVars, quote>>
----------------------------------------------------------------------------
\* What the account query reads.  It asks getApproval for an amount of one and
\* takes an asset that needs no approval for a synthetic.
AccountRead(r, limit) ==
    [balance |-> balance[r.source],
     capacity |-> limit,
     allowance |-> IF IsCollateral(r) THEN allowance[r.source] ELSE 0,
     isSynthetic |-> ~ApprovalRequired(r, 1, allowance[r.source])]

Data == account[selected.source]

HasData == Data # None

ButtonApproval ==
    HasData /\ ~Data.isSynthetic /\ amount > 0 /\ Data.allowance < amount

\* A capacity that could not be read limits nothing.
Covered ==
    HasData => /\ amount <= Data.balance
               /\ Data.capacity # None => amount <= Data.capacity

\* What a read can fail with, as far as the button tells it apart: an error
\* that says the route is paused, or any other.
Failures == {"paused", "failed"}

\* The account's failure is shown before the quote's.
Failure ==
    IF failed[selected.source] # None THEN failed[selected.source]
    ELSE IF quote \in Failures THEN quote
    ELSE None

\* deriveCta(), with the conditions in the order in which they mask each other.
Cta ==
    IF Busy THEN "busy"
    ELSE IF network # selected.source THEN "switch"
    ELSE IF amount = 0 \/ ~Covered \/ Failure = "paused" THEN "blocked"
    ELSE IF ButtonApproval THEN "approve"
    ELSE IF Failure # None THEN "blocked"
    ELSE IF quote = "loading" THEN "busy"
    ELSE "bridge"
----------------------------------------------------------------------------
CardInit ==
    /\ ClientInit
    /\ amount = 0
    /\ account = [c \in Chains |-> None]
    /\ fetching = {selected}
    /\ failed = [c \in Chains |-> None]
    /\ quote = "loading"

\* A read of the account starts; one under way for the same source chain has
\* the same key and is given up.
Refetching(r) == {f \in fetching : f.source # r.source} \cup {r}

\* A cached read of the new source chain is shown at once, and read again if
\* it is old.
SelectOnCard(r) ==
    /\ Select(r)
    /\ quote' = "loading"
    /\ \/ fetching' = Refetching(r)
       \/ account[r.source] # None /\ UNCHANGED fetching
    /\ UNCHANGED <<amount, account, failed>>

TypeAmount(a) ==
    /\ FormShown
    /\ a # amount
    /\ amount' = a
    /\ quote' = "loading"
    /\ UNCHANGED <<clientVars, queryVars>>

\* The refresh button of the card, disabled while anything is loading.
Refresh ==
    /\ FormShown
    /\ selected \notin fetching
    /\ amount > 0 => quote # "loading"
    /\ fetching' = Refetching(selected)
    /\ UNCHANGED <<clientVars, amount, account, failed, quote>>

\* The account query of a route answers: what it read is stored under the
\* source chain, whatever the destination.
AccountFetched(r) ==
    /\ r \in fetching
    /\ \E limit \in {capacity[r], None} :
          account' = [account EXCEPT ![r.source] = AccountRead(r, limit)]
    /\ fetching' = fetching \ {r}
    /\ failed' = [failed EXCEPT ![r.source] = None]
    /\ UNCHANGED <<clientVars, amount, quote>>

\* It fails, its retries too: the data it had stays.
AccountFetchFails(r, why) ==
    /\ r \in fetching
    /\ fetching' = fetching \ {r}
    /\ failed' = [failed EXCEPT ![r.source] = why]
    /\ UNCHANGED <<clientVars, amount, account, quote>>

\* quote() reads the capacity and the interchain fee, either of which may fail;
\* the card leaves the account out, so no amount is refused for a balance.
QuoteOutcomes == {"ready"} \cup Failures

\* The quote is asked only for a positive amount.
QuoteSettles(outcome) ==
    /\ FormShown
    /\ amount > 0
    /\ quote # outcome
    /\ quote' = outcome
    /\ UNCHANGED <<clientVars, amount, queryVars>>

ClickOnCard ==
    /\ \/ Cta = "approve" /\ ClickApprove(amount)
       \/ Cta = "bridge" /\ ClickBridge(amount)
    /\ UNCHANGED cardVars

\* onCta() after approve(): what the page shows by now is read again.
ApprovalMinedOnCard ==
    /\ ApprovalMined
    /\ fetching' = Refetching(selected)
    /\ UNCHANGED <<amount, account, failed, quote>>

CloseReceiptOnCard ==
    /\ CloseReceipt
    /\ amount' = 0
    /\ quote' = "loading"
    /\ UNCHANGED queryVars

ReloadCard ==
    /\ Reload
    /\ amount' = 0
    /\ account' = [c \in Chains |-> None]
    /\ fetching' = {selected'}
    /\ failed' = [c \in Chains |-> None]
    /\ quote' = "loading"

\* Everything else leaves the form and its queries alone: after a transfer, in
\* particular, nothing is read again.
CardUnmoved ==
    /\ \/ \E c \in Chains : SwitchNetwork(c)
       \/ ReadBalance \/ ReadCapacity \/ ReadAllowance \/ ReadFee \/ ReadAllowanceToApprove
       \/ ReadReceipt \/ CallFails \/ WalletStep \/ PollStep \/ ChainStep
    /\ UNCHANGED cardVars

CardNext ==
    \/ \E r \in Routes : SelectOnCard(r) \/ AccountFetched(r)
    \/ \E r \in Routes, why \in Failures : AccountFetchFails(r, why)
    \/ \E a \in Amounts : TypeAmount(a)
    \/ \E outcome \in QuoteOutcomes : QuoteSettles(outcome)
    \/ Refresh \/ ClickOnCard \/ ApprovalMinedOnCard \/ CloseReceiptOnCard \/ ReloadCard
    \/ CardUnmoved

CardSpec == CardInit /\ [][CardNext]_<<clientVars, cardVars>>
----------------------------------------------------------------------------
\* "The CTA must always name the next action" (ctaState.ts): it names Bridge,
\* on data that is up to date, only if no approval has to come first.  The code
\* does not: what is left of an earlier approval passes for a synthetic asset,
\* the SDK then refuses for want of an approval the card does not offer.
NextActionIsNamed ==
    Cta = "bridge" /\ Data = AccountRead(selected, capacity[selected])
      => ~ApprovalRequired(selected, amount, allowance[selected.source])
=============================================================================
