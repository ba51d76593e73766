----------------------------- MODULE PageProofs -----------------------------
(***************************************************************************)
(* What the bridge page promises, for any sites, addresses and limits: its *)
(* types, that a transfer goes where the form says, and that no limit is   *)
(* left behind by the page that armed it.                                  *)
(***************************************************************************)
EXTENDS Page, TLAPS

\* A stored list keeps only what it held and the entry it was given.
LEMMA PrependedBound ==
    ASSUME NEW entry, NEW stored, NEW next \in Prepended(entry, stored)
    PROVE  next \subseteq {entry} \cup stored
BY DEF Prepended

LEMMA ParsedType ==
    ASSUME NEW text \in Texts
    PROVE  Parsed(text) \in Addresses \cup {None}
BY DEF Parsed

\* Every selection of a site that is offered is one of chains and assets.
LEMMA InitialSelectionType ==
    ASSUME NEW s \in Sites, NEW next \in InitialSelections(s)
    PROVE  next \in Selections \cup {None}
BY PageAssumption DEF InitialSelections

\* What a change of the selection may do.
LEMMA SelectCases ==
    ASSUME NEW next, Select(next)
    PROVE  \/ FormShown /\ mode = "direct" /\ Cleared(next.destination)
           \/ /\ UNCHANGED counterpartyVars
              /\ FormShown /\ mode = "direct" => next.destination = selection.destination
BY DEF Select, Shows
----------------------------------------------------------------------------
(* Types.                                                                  *)

RouteTyped == site \in Sites /\ selection \in Selections \cup {None}

ModeTyped ==
    /\ mode \in Modes
    /\ armed \in LimitIds \cup {None}
    /\ own \subseteq LimitIds /\ limits \subseteq LimitIds

RecipientTyped ==
    recipient \in Addresses \cup {None} /\ recipientText \in Texts /\ invalid \in BOOLEAN

CounterpartyTyped ==
    /\ counterparty \in Addresses \cup {None}
    /\ namedText \in Texts
    /\ listed \subseteq Addresses
    /\ namedFor \in Chains \cup {None}

CallTyped ==
    busy \in BOOLEAN /\ receipt \in BOOLEAN /\ (busy \/ receipt => selection # None)

BookTyped == book \in [Chains -> SUBSET Addresses]

LEMMA PageTypeParts ==
    PageTypeOK <=> /\ RouteTyped /\ ModeTyped /\ RecipientTyped
                   /\ CounterpartyTyped /\ CallTyped /\ BookTyped
BY DEF PageTypeOK, RouteTyped, ModeTyped, RecipientTyped, CounterpartyTyped, CallTyped, BookTyped

\* The same of the next state.
LEMMA TypePartsPrime ==
    ASSUME RouteTyped', ModeTyped', RecipientTyped', CounterpartyTyped', CallTyped', BookTyped'
    PROVE  PageTypeOK'
BY DEF PageTypeOK, RouteTyped, ModeTyped, RecipientTyped, CounterpartyTyped, CallTyped, BookTyped

LEMMA FormHasSelection ==
    ASSUME RouteTyped, FormShown PROVE selection \in Selections
BY DEF RouteTyped, FormShown

LEMMA ClearedType ==
    ASSUME BookTyped, NEW d \in Chains, Cleared(d) PROVE CounterpartyTyped'
BY DEF BookTyped, Cleared, CounterpartyTyped, Texts

LEMMA SelectKeepsTypes ==
    ASSUME PageTypeOK, NEW next \in Selections, Select(next) PROVE PageTypeOK'
<1>1. next.destination \in Chains
  BY DEF Selections
<1>2. RouteTyped' /\ ModeTyped' /\ RecipientTyped' /\ CallTyped' /\ BookTyped'
  BY PageTypeParts, PageAssumption DEF Select, RouteTyped, ModeTyped, RecipientTyped, CallTyped,
     BookTyped, modeVars, recipientVars, callVars
<1>3. CounterpartyTyped'
  <2>1. CASE Cleared(next.destination)
    BY <1>1, <2>1, ClearedType, PageTypeParts
  <2>2. CASE UNCHANGED counterpartyVars
    BY <2>2, PageTypeParts DEF CounterpartyTyped, counterpartyVars
  <2> QED BY <2>1, <2>2, SelectCases
<1> QED BY <1>2, <1>3, TypePartsPrime

LEMMA PageTypeInit == PageInit => PageTypeOK
<1> SUFFICES ASSUME PageInit PROVE PageTypeOK
  OBVIOUS
<1>1. RouteTyped
  BY InitialSelectionType DEF PageInit, RouteTyped
<1> QED BY <1>1, PageTypeParts DEF PageInit, ModeTyped, Modes, RecipientTyped, CounterpartyTyped,
           CallTyped, BookTyped, Texts

SelectionStep ==
    \/ \E c \in Chains : ChangeSource(c) \/ ChooseDestination(c)
    \/ \E t \in Chains \X Symbols : ChooseToken(t)
    \/ \E r \in UsableRoutes(site) : FollowLink(r)
    \/ Flip

\* Selecting: every way to do so stays within the chains and the assets.
LEMMA SelectionStepSelects ==
    ASSUME PageTypeOK, SelectionStep
    PROVE  selection # None /\ \E next \in Selections : Select(next)
<1> DEFINE Goal == selection # None /\ \E next \in Selections : Select(next)
<1> USE PageTypeParts, FormHasSelection DEF FormShown
<1>1. ASSUME NEW c \in Chains, ChangeSource(c) PROVE Goal
  <2>1. PICK d \in SelectableDestinationChains(site, c) :
           \E t \in SelectableTokens(site, c, d) : Select([source |-> c, destination |-> d, token |-> t])
    BY <1>1 DEF ChangeSource
  <2>2. PICK t \in SelectableTokens(site, c, d) : Select([source |-> c, destination |-> d, token |-> t])
    BY <2>1
  <2>3. PICK r \in UsableRoutes(site) : r.source = c /\ r.destination = d /\ r.token = t
    BY DEF SelectableTokens
  <2>4. SelectionOf(r) \in Selections
    BY PageAssumption DEF RouteTyped
  <2> QED BY <1>1, <2>2, <2>3, <2>4 DEF SelectionOf, ChangeSource
<1>2. ASSUME NEW d \in Chains, ChooseDestination(d) PROVE Goal
  BY <1>2 DEF ChooseDestination, Selections
<1>3. ASSUME NEW t \in Chains \X Symbols, ChooseToken(t) PROVE Goal
  BY <1>3 DEF ChooseToken, Selections
<1>4. ASSUME NEW r \in UsableRoutes(site), FollowLink(r) PROVE Goal
  BY <1>4, PageAssumption DEF FollowLink, RouteTyped
<1>5. ASSUME Flip PROVE Goal
  BY <1>5 DEF Flip, Reversed, Selections
<1> QED BY <1>1, <1>2, <1>3, <1>4, <1>5 DEF SelectionStep

\* Naming a counterparty or a recipient, and the book.
LEMMA AddressStep ==
    ASSUME PageTypeOK,
           \/ \E text \in Texts : TypeRecipient(text) \/ NameCounterparty(text)
           \/ \E a \in Addresses : PickCounterparty(a) \/ RemoveCounterparty(a)
           \/ SaveCounterparty
    PROVE  PageTypeOK'
<1> USE PageTypeParts
<1>1. ASSUME NEW text \in Texts, TypeRecipient(text) PROVE PageTypeOK'
  BY <1>1, ParsedType, TypePartsPrime DEF TypeRecipient, routeVars, modeVars, counterpartyVars, callVars,
     RouteTyped, ModeTyped, RecipientTyped, CounterpartyTyped, CallTyped, BookTyped
<1>2. ASSUME NEW text \in Texts, FormShown, Commit(text), UNCHANGED <<listed, book>> PROVE PageTypeOK'
  <2>1. selection.destination \in Chains
    BY <1>2, FormHasSelection DEF Selections
  <2> QED BY <1>2, <2>1, ParsedType, TypePartsPrime DEF Commit, routeVars, modeVars, recipientVars,
             callVars, RouteTyped, ModeTyped, RecipientTyped, CounterpartyTyped, CallTyped, BookTyped
<1>3. ASSUME NEW entries \in SUBSET Addresses, FormShown, WriteBook(entries) PROVE PageTypeOK'
  <2>1. selection.destination \in Chains
    BY <1>3, FormHasSelection DEF Selections
  <2> QED BY <1>3, <2>1, TypePartsPrime DEF WriteBook, routeVars, modeVars, recipientVars,
             callVars, RouteTyped, ModeTyped, RecipientTyped, CounterpartyTyped, CallTyped, BookTyped
<1>4. ASSUME NEW text \in Texts, NameCounterparty(text) PROVE PageTypeOK'
  BY <1>2, <1>4 DEF NameCounterparty
<1>5. ASSUME NEW a \in Addresses, PickCounterparty(a) PROVE PageTypeOK'
  BY <1>2, <1>5 DEF PickCounterparty, Texts
<1>6. ASSUME NEW a \in Addresses, RemoveCounterparty(a) PROVE PageTypeOK'
  <2>1. book[selection.destination] \subseteq Addresses
    BY <1>6, FormHasSelection DEF RemoveCounterparty, Selections, BookTyped
  <2> QED BY <1>3, <1>6, <2>1 DEF RemoveCounterparty
<1>7. ASSUME SaveCounterparty PROVE PageTypeOK'
  <2>1. book[selection.destination] \subseteq Addresses
    BY <1>7, FormHasSelection DEF SaveCounterparty, Selections, BookTyped
  <2>2. PICK entries \in Prepended(namedText, book[selection.destination]) : WriteBook(entries)
    BY <1>7 DEF SaveCounterparty
  <2>3. entries \subseteq Addresses
    BY <1>7, <2>1, <2>2, PrependedBound DEF SaveCounterparty
  <2> QED BY <1>3, <1>7, <2>2, <2>3 DEF SaveCounterparty
<1> QED BY <1>1, <1>4, <1>5, <1>6, <1>7

\* The modes, the limits and the calls.
LEMMA CardStep ==
    ASSUME PageTypeOK,
           \/ \E m \in Modes : ChangeMode(m)
           \/ \E id \in LimitIds : ArmLimit(id)
           \/ CancelLimit
           \/ ClickBridge \/ TransferSent \/ TransferFails \/ CloseReceipt
           \/ Reload \/ Elsewhere
    PROVE  PageTypeOK'
<1> USE PageTypeParts DEF routeVars, modeVars, recipientVars, counterpartyVars, callVars
<1>1. ASSUME NEW m \in Modes, ChangeMode(m) PROVE PageTypeOK'
  <2>1. RouteTyped' /\ ModeTyped' /\ RecipientTyped' /\ CallTyped' /\ BookTyped'
    BY <1>1 DEF ChangeMode, FieldsShown, Unwatched, RouteTyped, ModeTyped, RecipientTyped,
       CallTyped, BookTyped, Texts
  <2>2. CounterpartyTyped'
    <3>1. CASE Cleared(selection.destination)
      BY <1>1, <3>1, FormHasSelection, ClearedType DEF ChangeMode, Selections
    <3>2. CASE namedText' = "" /\ listed' = {} /\ UNCHANGED <<counterparty, namedFor>>
      BY <3>2 DEF CounterpartyTyped, Texts
    <3>3. CASE UNCHANGED counterpartyVars
      BY <3>3 DEF CounterpartyTyped
    <3> QED BY <1>1, <3>1, <3>2, <3>3 DEF ChangeMode, FieldsShown
  <2> QED BY <2>1, <2>2, TypePartsPrime
<1>2. ASSUME NEW id \in LimitIds, ArmLimit(id) PROVE PageTypeOK'
  <2>1. limits' \subseteq LimitIds
    BY <1>2, PrependedBound DEF ArmLimit, ModeTyped
  <2> QED BY <1>2, <2>1, TypePartsPrime DEF ArmLimit, RouteTyped, ModeTyped, RecipientTyped,
             CounterpartyTyped, CallTyped, BookTyped
<1>3. ASSUME CancelLimit PROVE PageTypeOK'
  BY <1>3, TypePartsPrime DEF CancelLimit, Unwatched, RouteTyped, ModeTyped, RecipientTyped,
     CounterpartyTyped, CallTyped, BookTyped
<1>4. ASSUME ClickBridge \/ TransferSent \/ TransferFails PROVE PageTypeOK'
  BY <1>4, TypePartsPrime DEF FormShown, ClickBridge, TransferSent, TransferFails, RouteTyped, ModeTyped,
     RecipientTyped, CounterpartyTyped, CallTyped, BookTyped, Texts
<1>5. ASSUME CloseReceipt PROVE PageTypeOK'
  <2>1. RouteTyped' /\ ModeTyped' /\ RecipientTyped' /\ CallTyped' /\ BookTyped'
    BY <1>5 DEF CloseReceipt, RouteTyped, ModeTyped, RecipientTyped, CallTyped, BookTyped
  <2>2. CounterpartyTyped'
    <3>1. CASE Cleared(selection.destination)
      BY <1>5, <3>1, ClearedType DEF CloseReceipt, CallTyped, RouteTyped, Selections
    <3>2. CASE UNCHANGED counterpartyVars
      BY <3>2 DEF CounterpartyTyped
    <3> QED BY <1>5, <3>1, <3>2 DEF CloseReceipt
  <2> QED BY <2>1, <2>2, TypePartsPrime
<1>6. ASSUME Reload PROVE PageTypeOK'
  <2>1. RouteTyped'
    BY <1>6, InitialSelectionType DEF Reload, RouteTyped
  <2> QED BY <1>6, <2>1, TypePartsPrime DEF Reload, ModeTyped, Modes, RecipientTyped,
             CounterpartyTyped, CallTyped, BookTyped, Texts
<1>7. ASSUME Elsewhere PROVE PageTypeOK'
  <2>1. limits' \subseteq LimitIds
    BY <1>7, PrependedBound DEF Elsewhere, ModeTyped
  <2>2. book' \in [Chains -> SUBSET Addresses]
    <3>1. ASSUME NEW c \in Chains, NEW a \in Addresses, NEW entries \in Prepended(a, book[c])
          PROVE  entries \subseteq Addresses
      BY PrependedBound DEF BookTyped
    <3> QED BY <1>7, <3>1 DEF Elsewhere, BookTyped
  <2> QED BY <1>7, <2>1, <2>2, TypePartsPrime DEF Elsewhere, RouteTyped, ModeTyped, RecipientTyped,
             CounterpartyTyped, CallTyped, BookTyped
<1> QED BY <1>1, <1>2, <1>3, <1>4, <1>5, <1>6, <1>7

LEMMA PageTypeStep == PageTypeOK /\ [PageNext]_pageVars => PageTypeOK'
<1> SUFFICES ASSUME PageTypeOK, [PageNext]_pageVars PROVE PageTypeOK'
  OBVIOUS
<1>1. CASE UNCHANGED pageVars
  BY <1>1, TypePartsPrime, PageTypeParts DEF pageVars, routeVars, modeVars, recipientVars,
     counterpartyVars, callVars, RouteTyped, ModeTyped, RecipientTyped, CounterpartyTyped,
     CallTyped, BookTyped
<1>2. CASE SelectionStep
  BY <1>2, SelectionStepSelects, SelectKeepsTypes
<1> QED BY <1>1, <1>2, AddressStep, CardStep, Zenon DEF PageNext, SelectionStep

\* BridgeShell's state is well typed, and the selection is one of the site's
\* chains and assets whatever is released while the page is open.
THEOREM PageTypeCorrect == PageSpec => []PageTypeOK
BY PageTypeInit, PageTypeStep, PTL DEF PageSpec
----------------------------------------------------------------------------
(* No limit is left behind.                                                *)

LEMMA NoStrayWatchStep == PageTypeOK /\ NoStrayWatch /\ [PageNext]_pageVars => NoStrayWatch'
<1> SUFFICES ASSUME PageTypeOK, NoStrayWatch, [PageNext]_pageVars PROVE NoStrayWatch'
  OBVIOUS
<1> USE DEF NoStrayWatch
<1>1. CASE UNCHANGED modeVars
  BY <1>1 DEF modeVars
<1>2. ASSUME NEW m \in Modes, ChangeMode(m) PROVE NoStrayWatch'
  BY <1>2 DEF ChangeMode, Unwatched
<1>3. ASSUME NEW id \in LimitIds, ArmLimit(id) PROVE NoStrayWatch'
  <2>1. limits' \subseteq {id} \cup limits /\ limits \cap own \subseteq {None}
    BY <1>3, PrependedBound DEF ArmLimit
  <2>2. own \cap {None} = {} /\ id # None
    BY PageAssumption, PageTypeParts DEF ModeTyped
  <2> QED BY <1>3, <2>1, <2>2 DEF ArmLimit
<1>4. ASSUME CancelLimit PROVE NoStrayWatch'
  BY <1>4 DEF CancelLimit, Unwatched
<1>5. ASSUME Reload PROVE NoStrayWatch'
  BY <1>5 DEF Reload
<1>6. ASSUME Elsewhere PROVE NoStrayWatch'
  <2>1. limits' \cap own \subseteq limits \cap own
    BY <1>6, PrependedBound DEF Elsewhere
  <2> QED BY <1>6, <2>1 DEF Elsewhere
<1>7. ASSUME PageNext
      PROVE  \/ \E m \in Modes : ChangeMode(m)
             \/ \E id \in LimitIds : ArmLimit(id)
             \/ CancelLimit \/ Reload \/ Elsewhere
             \/ UNCHANGED modeVars
  BY <1>7, Zenon DEF PageNext, ChangeSource, ChooseDestination, ChooseToken, FollowLink, Flip, Select,
     TypeRecipient, NameCounterparty, PickCounterparty, Commit, RemoveCounterparty, SaveCounterparty,
     WriteBook, ClickBridge, TransferSent, TransferFails, CloseReceipt
<1> QED BY <1>1, <1>2, <1>3, <1>4, <1>5, <1>6, <1>7 DEF pageVars

\* A limit armed on a page never outlives its watch there: it is stored only
\* while the page shows the limit mode and watches it.
THEOREM NoStrayWatchTheorem == PageSpec => []NoStrayWatch
<1>1. PageInit => NoStrayWatch
  BY DEF PageInit, NoStrayWatch
<1> QED BY <1>1, NoStrayWatchStep, PageTypeCorrect, PTL DEF PageSpec
----------------------------------------------------------------------------
(* A transfer goes where the form says.                                    *)

\* The recipient field has a text only while it is on the page.
RecipientShown == receipt \/ mode = "direct" => recipientText = ""

NamedAsShown ==
    FormShown /\ mode = "direct" =>
        /\ counterparty = Parsed(namedText)
        /\ counterparty # None => namedFor = selection.destination

RecipientAsShown ==
    FormShown /\ mode # "direct" /\ recipientText # "" =>
        /\ recipient = Parsed(recipientText)
        /\ invalid <=> recipientText = Malformed

LEMMA SendsParts == SendsWhereItSays <=> NamedAsShown /\ RecipientAsShown
BY DEF SendsWhereItSays, NamedAsShown, RecipientAsShown, EffectiveRecipient, Gate

SendsInv == RecipientShown /\ NamedAsShown /\ RecipientAsShown

LEMMA EmptyIsNobody == Parsed("") = None
BY PageAssumption DEF Parsed

LEMMA SendsStep == PageTypeOK /\ SendsInv /\ [PageNext]_pageVars => SendsInv'
<1> SUFFICES ASSUME PageTypeOK, SendsInv, [PageNext]_pageVars PROVE SendsInv'
  OBVIOUS
<1> USE DEF SendsInv, RecipientShown, NamedAsShown, RecipientAsShown, FormShown,
        routeVars, modeVars, recipientVars, counterpartyVars, callVars
<1>1. CASE UNCHANGED <<selection, mode, recipientVars, counterparty, namedText, namedFor, receipt>>
  BY <1>1 DEF Parsed
<1>2. CASE SelectionStep
  <2>1. PICK next \in Selections : Select(next)
    BY <1>2, SelectionStepSelects
  <2>2. selection # None /\ selection' = next /\ UNCHANGED <<mode, recipientVars, receipt>>
    BY <1>2, <2>1, SelectionStepSelects DEF Select
  <2>3. CASE Cleared(next.destination)
    BY <2>2, <2>3, EmptyIsNobody DEF Cleared, Parsed
  <2>4. CASE UNCHANGED counterpartyVars
    BY <2>1, <2>2, <2>4, SelectCases, EmptyIsNobody DEF Cleared, Parsed
  <2> QED BY <2>1, <2>3, <2>4, SelectCases
<1>3. ASSUME NEW m \in Modes, ChangeMode(m) PROVE SendsInv'
  BY <1>3, EmptyIsNobody DEF ChangeMode, FieldsShown, Cleared, Parsed
<1>4. ASSUME NEW text \in Texts, TypeRecipient(text) PROVE SendsInv'
  BY <1>4 DEF TypeRecipient, Parsed
<1>5. ASSUME NEW text, FormShown, mode = "direct", Commit(text) PROVE SendsInv'
  BY <1>5 DEF Commit, Parsed
<1>6. CASE TransferSent
  BY <1>6 DEF TransferSent, Parsed
<1>7. CASE CloseReceipt
  BY <1>7, EmptyIsNobody DEF CloseReceipt, Cleared, Parsed
<1>8. CASE Reload
  BY <1>8 DEF Reload
<1>9. CASE UNCHANGED pageVars
  BY <1>1, <1>9 DEF pageVars
<1>10. ASSUME NEW text \in Texts, NameCounterparty(text) PROVE SendsInv'
  BY <1>5, <1>10 DEF NameCounterparty
<1>11. ASSUME NEW a \in Addresses, PickCounterparty(a) PROVE SendsInv'
  BY <1>5, <1>11 DEF PickCounterparty
<1>12. ASSUME NEW a \in Addresses, RemoveCounterparty(a) PROVE SendsInv'
  BY <1>1, <1>12 DEF RemoveCounterparty, WriteBook
<1>13. CASE SaveCounterparty
  BY <1>1, <1>13 DEF SaveCounterparty, WriteBook
<1>14. CASE (\E id \in LimitIds : ArmLimit(id)) \/ CancelLimit
  BY <1>1, <1>14 DEF ArmLimit, CancelLimit
<1>15. CASE ClickBridge \/ TransferFails \/ Elsewhere
  BY <1>1, <1>15 DEF ClickBridge, TransferFails, Elsewhere
<1> QED BY <1>2, <1>3, <1>4, <1>6, <1>7, <1>8, <1>9, <1>10, <1>11, <1>12, <1>13, <1>14, <1>15,
           Zenon DEF PageNext, SelectionStep

\* In direct mode a transfer goes to the address the field shows, named for
\* the destination it is sent to, and otherwise to the recipient typed.
THEOREM SendsWhereItSaysTheorem == PageSpec => []SendsWhereItSays
<1>1. PageInit => SendsInv
  BY DEF PageInit, SendsInv, RecipientShown, NamedAsShown, RecipientAsShown
<1>2. SendsInv => SendsWhereItSays
  BY SendsParts DEF SendsInv
<1> QED BY <1>1, <1>2, SendsStep, PageTypeCorrect, PTL DEF PageSpec
=============================================================================
