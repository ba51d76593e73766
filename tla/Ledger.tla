------------------------------- MODULE Ledger -------------------------------
(***************************************************************************)
(* What the bridge promises its users: a transfer is debited once, when it *)
(* is requested, and credited once, some time later, with exactly the      *)
(* amount that was debited.  Nothing else touches the collateral or the    *)
(* supply of the synthetic it backs.                                       *)
(***************************************************************************)
EXTENDS Integers, Sequences

CONSTANTS Collateral, Synthetic, Amounts

Sides == {Collateral, Synthetic}

VARIABLES
    requested,  \* requested[c]: the amounts of the transfers leaving c, in order
    settled,    \* the transfers credited so far
    locked,     \* collateral held by the router of the collateral side
    supply      \* total supply of the synthetic

ledgerVars == <<requested, settled, locked, supply>>

\* Nothing is credited yet; one transfer may already be on its way.
LedgerInit ==
    /\ requested[Synthetic] = <<>>
    /\ \/ requested[Collateral] = <<>> /\ locked = 0
       \/ \E a \in Amounts : requested[Collateral] = <<a>> /\ locked = a
    /\ settled = {}
    /\ supply = 0

Append1(c, a) == [requested EXCEPT ![c] = Append(@, a)]

Lock(a) ==
    /\ requested' = Append1(Collateral, a)
    /\ locked' = locked + a
    /\ UNCHANGED <<settled, supply>>

Burn(a) ==
    /\ a <= supply
    /\ requested' = Append1(Synthetic, a)
    /\ supply' = supply - a
    /\ UNCHANGED <<settled, locked>>

Mint(i) ==
    /\ [origin |-> Collateral, nonce |-> i] \notin settled
    /\ settled' = settled \cup {[origin |-> Collateral, nonce |-> i]}
    /\ supply' = supply + requested[Collateral][i]
    /\ UNCHANGED <<requested, locked>>

Release(i) ==
    /\ [origin |-> Synthetic, nonce |-> i] \notin settled
    /\ settled' = settled \cup {[origin |-> Synthetic, nonce |-> i]}
    /\ locked' = locked - requested[Synthetic][i]
    /\ UNCHANGED <<requested, supply>>

LedgerNext ==
    \/ \E a \in Amounts : Lock(a) \/ Burn(a)
    \/ \E i \in DOMAIN requested[Collateral] : Mint(i)
    \/ \E i \in DOMAIN requested[Synthetic] : Release(i)

LedgerSpec == LedgerInit /\ [][LedgerNext]_ledgerVars
=============================================================================
