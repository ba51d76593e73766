-------------------------------- MODULE Page --------------------------------
(***************************************************************************)
(* The bridge page (apps/web): the route selected among those the site     *)
(* offers, the three modes of the card, and the address that receives.     *)
(* Each address field keeps its own text and tells BridgeShell what it     *)
(* stands for; a field that is not on the page has no text, and BridgeShell*)
(* keeps what it was told last.  The counterparty book and the armed       *)
(* limits are stored in the browser and shared with its other tabs.        *)
(*                                                                         *)
(* The amount, balances, approvals and the network of the wallet are Card's*)
(* matter, the calls of the SDK Client's: here they let the button be      *)
(* clicked, and a limit be armed, or not.                                  *)
(* So does what is read of the chains for the modes: the base fee and the  *)
(* health of the route are anything at any time.                           *)
(***************************************************************************)
EXTENDS Catalog

CONSTANTS
    Sites,         \* the catalogs that are released, one after the other
    Addresses,     \* those a user may name, other than the own
    None,          \* no address, no watch, no selection
    LimitIds,
    Cap            \* bound: the entries a stored list may hold

SelectionOf(route) ==
    [source |-> route.source, destination |-> route.destination, token |-> route.token]

ASSUME PageAssumption ==
    /\ None \notin Addresses \cup LimitIds \cup Selections
    /\ Malformed \notin Addresses
    /\ "" \notin Addresses \cup {Malformed}
    /\ Cap \in Nat \ {0}
    /\ \A s \in Sites : \A r \in UsableRoutes(s) : SelectionOf(r) \in Selections

VARIABLES
    site,          \* the catalog this page was built from
    selection,     \* the route selected, None if the site offers none
    mode,
    armed,         \* the fee limit this page watches, if any
    recipient,     \* what BridgeShell knows of the recipient field...
    invalid,       \* ...and whether that is an error
    recipientText, \* the text of the recipient field
    counterparty,  \* what BridgeShell knows of the counterparty field
    namedText,     \* the text of the counterparty field
    listed,        \* the part of the book that field shows
    busy,          \* a transfer is under way
    receipt,       \* the receipt of one has replaced the form
    book,          \* book[c], stored: the addresses saved for chain c
    limits,        \* stored: the limits armed and not cancelled
    namedFor,      \* history: the destination when the counterparty was named
    own            \* history: the limits armed on this page since it was loaded

routeVars == <<site, selection>>
modeVars == <<mode, armed, limits, own>>
recipientVars == <<recipient, invalid, recipientText>>
counterpartyVars == <<counterparty, namedText, listed, namedFor>>
callVars == <<busy, receipt>>
pageVars == <<routeVars, modeVars, recipientVars, counterpartyVars, callVars, book>>
----------------------------------------------------------------------------
Modes == {"instant", "limit", "direct"}

Texts == Addresses \cup {"", Malformed}

\* What a field makes of its text: an address, or nothing.
Parsed(text) == IF text \in Addresses THEN text ELSE None

FormShown == selection # None /\ ~receipt

\* A new entry leads the stored list, once, and the oldest are cut off; which
\* ones these are is left open.
Prepended(entry, stored) ==
    LET others == stored \ {entry}
        room == IF Cardinality(others) < Cap THEN Cardinality(others) ELSE Cap - 1
    IN  {{entry} \cup kept : kept \in {s \in SUBSET others : Cardinality(s) = room}}

\* What the page starts with: the first usable route, or the one of the link.
InitialSelections(catalog) ==
    IF UsableRoutes(catalog) = {} THEN {None} ELSE {SelectionOf(r) : r \in UsableRoutes(catalog)}
----------------------------------------------------------------------------
PageInit ==
    /\ site \in Sites
    /\ selection \in InitialSelections(site)
    /\ mode = "instant" /\ armed = None
    /\ recipient = None /\ invalid = FALSE /\ recipientText = ""
    /\ counterparty = None /\ namedText = "" /\ listed = {} /\ namedFor = None
    /\ busy = FALSE /\ receipt = FALSE
    /\ book = [c \in Chains |-> {}]
    /\ limits = {} /\ own = {}

\* A reload: the site may have been released anew; what is stored stays, and
\* nothing of it is taken up again.
Reload ==
    /\ site' \in Sites
    /\ selection' \in InitialSelections(site')
    /\ mode' = "instant" /\ armed' = None
    /\ recipient' = None /\ invalid' = FALSE /\ recipientText' = ""
    /\ counterparty' = None /\ namedText' = "" /\ listed' = {} /\ namedFor' = None
    /\ busy' = FALSE /\ receipt' = FALSE
    /\ own' = {}
    /\ UNCHANGED <<book, limits>>
----------------------------------------------------------------------------
(* The counterparty field appears, or another destination is chosen: its   *)
(* effects read the book and clear it.                                     *)

Cleared(destination) ==
    /\ counterparty' = None
    /\ namedText' = ""
    /\ namedFor' = None
    /\ listed' = book[destination]

\* The counterparty field, if it is on the page, is told of a new selection.
Shows(next) ==
    IF FormShown /\ mode = "direct" /\ next.destination # selection.destination
    THEN Cleared(next.destination)
    ELSE UNCHANGED counterpartyVars

Select(next) ==
    /\ selection' = next
    /\ Shows(next)
    /\ UNCHANGED <<site, modeVars, recipientVars, callVars, book>>

\* Another source comes with a destination and an asset that exist for it.
ChangeSource(c) ==
    /\ FormShown
    /\ c \in SelectableSourceChains(site)
    /\ \E d \in SelectableDestinationChains(site, c) :
          \E t \in SelectableTokens(site, c, d) :
             Select([source |-> c, destination |-> d, token |-> t])

\* Another destination comes with the asset that was selected.
ChooseDestination(d) ==
    /\ FormShown
    /\ d \in SelectableDestinationChains(site, selection.source)
    /\ Select([selection EXCEPT !.destination = d])

ChooseToken(t) ==
    /\ FormShown
    /\ t \in SelectableTokens(site, selection.source, selection.destination)
    /\ Select([selection EXCEPT !.token = t])

Flip ==
    /\ FormShown
    /\ CanFlip(site, selection)
    /\ Select(Reversed(selection))

\* A link into the page, which need not be reloaded for it: taken if usable.
FollowLink(route) ==
    /\ selection # None
    /\ route \in UsableRoutes(site)
    /\ Select(SelectionOf(route))
----------------------------------------------------------------------------
(* The modes: the recipient field is on the page in all but "direct", the  *)
(* counterparty field in "direct" alone.                                   *)

\* Mutant of FieldsShown: the counterparty field shows the address it finds.
FieldsShownAsFound(m) ==
    /\ IF m = "direct" /\ mode # "direct"
       THEN /\ namedText' = IF counterparty = None THEN "" ELSE counterparty
            /\ listed' = book[selection.destination]
            /\ UNCHANGED <<counterparty, namedFor>>
       ELSE IF m # "direct" /\ mode = "direct"
       THEN /\ namedText' = "" /\ listed' = {}
            /\ UNCHANGED <<counterparty, namedFor>>
       ELSE UNCHANGED counterpartyVars
    /\ recipientText' = IF m = "direct" THEN "" ELSE recipientText

\* A field that leaves the page loses its text; what BridgeShell holds of it
\* is left as it is, until the counterparty field, shown again, clears it.
FieldsShown(m) ==
    /\ \/ m = "direct" /\ mode # "direct" /\ Cleared(selection.destination)
       \/ /\ m # "direct" /\ mode = "direct"
          /\ namedText' = "" /\ listed' = {}
          /\ UNCHANGED <<counterparty, namedFor>>
       \/ (m = "direct") = (mode = "direct") /\ UNCHANGED counterpartyVars
    /\ recipientText' = IF m = "direct" THEN "" ELSE recipientText

\* Mutant of Unwatched: only the page forgets the watch.
UnwatchedHere == armed' = None /\ UNCHANGED limits

\* The limit watched is cancelled, where it is stored too.
Unwatched ==
    /\ armed' = None
    /\ limits' = limits \ {armed}

ChangeMode(m) ==
    /\ FormShown
    /\ mode' = m
    /\ FieldsShown(m)
    /\ IF m # "limit" /\ armed # None THEN Unwatched ELSE UNCHANGED <<armed, limits>>
    /\ UNCHANGED <<routeVars, recipient, invalid, callVars, book, own>>

\* A valid ceiling is armed, for an amount.
ArmLimit(id) ==
    /\ FormShown /\ mode = "limit"
    /\ armed = None
    /\ id \notin limits \cup own
    /\ armed' = id
    /\ own' = own \cup {id}
    /\ limits' \in Prepended(id, limits)
    /\ UNCHANGED <<routeVars, mode, recipientVars, counterpartyVars, callVars, book>>

CancelLimit ==
    /\ FormShown /\ mode = "limit"
    /\ armed # None
    /\ Unwatched
    /\ UNCHANGED <<routeVars, mode, own, recipientVars, counterpartyVars, callVars, book>>
----------------------------------------------------------------------------
TypeRecipient(text) ==
    /\ FormShown /\ mode # "direct"
    /\ recipientText' = text
    /\ recipient' = Parsed(text)
    /\ invalid' = (text = Malformed)
    /\ UNCHANGED <<routeVars, modeVars, counterpartyVars, callVars, book>>

\* The counterparty is typed, or picked from the part of the book shown.
Commit(text) ==
    /\ namedText' = text
    /\ counterparty' = Parsed(text)
    /\ namedFor' = selection.destination
    /\ UNCHANGED <<routeVars, modeVars, recipientVars, callVars>>

NameCounterparty(text) ==
    /\ FormShown /\ mode = "direct"
    /\ Commit(text)
    /\ UNCHANGED <<listed, book>>

PickCounterparty(a) ==
    /\ FormShown /\ mode = "direct"
    /\ a \in listed
    /\ Commit(a)
    /\ UNCHANGED <<listed, book>>

\* The book is kept for each destination, and read again once it is changed.
WriteBook(entries) ==
    /\ book' = [book EXCEPT ![selection.destination] = entries]
    /\ listed' = entries
    /\ UNCHANGED <<routeVars, modeVars, recipientVars, counterparty, namedText, namedFor, callVars>>

SaveCounterparty ==
    /\ FormShown /\ mode = "direct"
    /\ namedText \in Addresses
    /\ \E entries \in Prepended(namedText, book[selection.destination]) : WriteBook(entries)

RemoveCounterparty(a) ==
    /\ FormShown /\ mode = "direct"
    /\ a \in listed
    /\ WriteBook(book[selection.destination] \ {a})
----------------------------------------------------------------------------
\* The preconditions of the modes, checked on top of all others: a mode only
\* ever disables the button.
Gate ==
    \/ mode = "direct" /\ counterparty = None
    \/ mode # "direct" /\ invalid

\* Who receives: in direct mode the counterparty, else the recipient named, or
\* else the connected wallet.
EffectiveRecipient == IF mode = "direct" THEN counterparty ELSE recipient

ClickBridge ==
    /\ FormShown
    /\ ~busy
    /\ ResolveRoute(site, selection) = "ok"
    /\ ~Gate
    /\ busy' = TRUE
    /\ UNCHANGED <<routeVars, modeVars, recipientVars, counterpartyVars, receipt, book>>

\* The receipt takes the place of the form, whatever that shows by now.
TransferSent ==
    /\ busy
    /\ busy' = FALSE /\ receipt' = TRUE
    /\ recipientText' = "" /\ namedText' = "" /\ listed' = {}
    /\ UNCHANGED <<routeVars, modeVars, recipient, invalid, counterparty, namedFor, book>>

TransferFails ==
    /\ busy
    /\ busy' = FALSE
    /\ UNCHANGED <<routeVars, modeVars, recipientVars, counterpartyVars, receipt, book>>

CloseReceipt ==
    /\ receipt
    /\ receipt' = FALSE
    /\ IF mode = "direct" THEN Cleared(selection.destination) ELSE UNCHANGED counterpartyVars
    /\ UNCHANGED <<routeVars, modeVars, recipientVars, busy, book>>

\* Another tab of the browser arms a limit, cancels one that is not watched
\* here, or edits the book.
Elsewhere ==
    /\ \/ /\ \/ \E id \in LimitIds \ (limits \cup own) : limits' \in Prepended(id, limits)
             \/ \E id \in limits \ own : limits' = limits \ {id}
          /\ UNCHANGED book
       \/ /\ \E c \in Chains, a \in Addresses :
                \/ \E entries \in Prepended(a, book[c]) : book' = [book EXCEPT ![c] = entries]
                \/ book' = [book EXCEPT ![c] = @ \ {a}]
          /\ UNCHANGED limits
    /\ UNCHANGED <<routeVars, mode, armed, own, recipientVars, counterpartyVars, callVars>>

PageNext ==
    \/ \E c \in Chains : ChangeSource(c) \/ ChooseDestination(c)
    \/ \E t \in Chains \X Symbols : ChooseToken(t)
    \/ \E r \in UsableRoutes(site) : FollowLink(r)
    \/ Flip
    \/ \E m \in Modes : ChangeMode(m)
    \/ \E id \in LimitIds : ArmLimit(id)
    \/ CancelLimit
    \/ \E text \in Texts : TypeRecipient(text) \/ NameCounterparty(text)
    \/ \E a \in Addresses : PickCounterparty(a) \/ RemoveCounterparty(a)
    \/ SaveCounterparty
    \/ ClickBridge \/ TransferSent \/ TransferFails \/ CloseReceipt
    \/ Reload \/ Elsewhere

PageSpec == PageInit /\ [][PageNext]_pageVars
----------------------------------------------------------------------------
\* Every variable has its type; the selection in particular stays one of the
\* chains and the assets of the site, usable or not, and there is one behind
\* every call and every receipt.
PageTypeOK ==
    /\ site \in Sites
    /\ selection \in Selections \cup {None}
    /\ {busy, receipt, invalid} \subseteq BOOLEAN
    /\ busy \/ receipt => selection # None
    /\ mode \in Modes
    /\ armed \in LimitIds \cup {None}
    /\ own \subseteq LimitIds /\ limits \subseteq LimitIds
    /\ {recipient, counterparty} \subseteq Addresses \cup {None}
    /\ {recipientText, namedText} \subseteq Texts
    /\ listed \subseteq Addresses
    /\ book \in [Chains -> SUBSET Addresses]
    /\ namedFor \in Chains \cup {None}

\* "Switching destination invalidates a chosen address" (CounterpartyField.tsx)
\* and "validation blocks the transfer": whenever the form is on the page, a
\* transfer in direct mode goes to the address the field shows, and that was
\* named for the destination now selected; an address typed as the recipient is
\* the one that is used, and the button is gated if it is malformed.
SendsWhereItSays ==
    FormShown =>
        /\ mode = "direct" =>
              /\ EffectiveRecipient = Parsed(namedText)
              /\ counterparty # None => namedFor = selection.destination
        /\ mode # "direct" /\ recipientText # "" =>
              /\ EffectiveRecipient = Parsed(recipientText)
              /\ Gate <=> recipientText = Malformed

\* "A watch belongs to Limit mode" (BridgeShell.tsx): no limit armed on this
\* page is stored, whatever else this tab and the others did, unless it is the
\* one the page watches and shows.
NoStrayWatch ==
    /\ armed # None => mode = "limit" /\ armed \in own
    /\ limits \cap own \subseteq {armed}

\* "Leave empty to receive at your connected wallet" (RecipientField.tsx).  The
\* code does not: a field shown again is empty, the recipient is the last named.
EmptyFieldMeansOwnWallet ==
    FormShown /\ mode # "direct" /\ recipientText = "" => EffectiveRecipient = None
=============================================================================
