------------------------------- MODULE Picker -------------------------------
(***************************************************************************)
(* The pickers of the bridge card: a selector for each of the two networks *)
(* and one for the asset, in which the source can be chosen too.  Each is  *)
(* a panel in a native <dialog>: React's state says whether it is open,    *)
(* the element whether it is shown, and while one is shown the page behind *)
(* it is inert.  A panel that is dismissed stays until its animation has   *)
(* ended; Escape takes it away at once, past React.                        *)
(***************************************************************************)
EXTENDS Integers, Sequences, FiniteSets, Filters

CONSTANTS
    Offered,   \* the usable routes, as [source, destination, asset]
    Assets,    \* all assets, in the order of the catalog
    Matching,  \* Matching[q]: the networks and assets a search for q finds
    Reduced    \* whether the user asked for reduced motion

ASSUME PickerAssumption ==
    /\ Offered # {} /\ Reduced \in BOOLEAN
    /\ \A r \in Offered : r = [source |-> r.source, destination |-> r.destination, asset |-> r.asset]
    /\ Assets \in Seq({Assets[i] : i \in DOMAIN Assets})

VARIABLES
    selection,  \* the selection of the card
    opened,     \* the pickers whose state is open
    modal,      \* those whose element is shown
    closing,    \* those whose element is marked as closing
    timers,     \* those whose animation has a timer running
    network,    \* network[p]: the text of the search for a network
    query,      \* the text of the search for an asset
    active      \* the place of the highlighted asset, from 1

dialogVars == <<opened, modal, closing, timers>>
searchVars == <<network, query, active>>
pickerVars == <<selection, dialogVars, searchVars>>
----------------------------------------------------------------------------
Pickers == {"source", "destination", "asset"}

Searches == {""} \cup DOMAIN Matching

Finds(q, x) == q = "" \/ x \in Matching[q]

\* The networks picker p offers, and those its search leaves.
Networks(p) ==
    IF p = "destination" THEN {r.destination : r \in {o \in Offered : o.source = selection.source}}
    ELSE {r.source : r \in Offered}

Matches(p) == {c \in Networks(p) : Finds(network[p], c)}

\* Mutant of Filtered: the items are those of every route.
FilteredOfAll == AtPlaces(Assets, {i \in DOMAIN Assets : Finds(query, Assets[i])})

Filtered ==
    AtPlaces(Assets, {i \in DOMAIN Assets :
                    [selection EXCEPT !.asset = Assets[i]] \in Offered /\ Finds(query, Assets[i])})

\* Nothing of the page can be used but the panel that is shown.
Inert == modal # {}
----------------------------------------------------------------------------
PickerInit ==
    /\ selection \in Offered
    /\ opened = {} /\ modal = {} /\ closing = {} /\ timers = {}
    /\ network = [p \in Pickers |-> ""] /\ query = "" /\ active = 1

\* A timer left from an earlier closing is cleared; the mark it would have
\* removed stays.
Open(p) ==
    /\ ~Inert
    /\ opened' = opened \cup {p} /\ modal' = modal \cup {p}
    /\ timers' = timers \ {p}
    /\ UNCHANGED <<selection, closing, searchVars>>

\* Mutant of Closes: an element that is marked is taken to be closing already.
ClosesUnlessMarked(p) ==
    /\ opened' = opened \ {p}
    /\ IF p \notin opened \/ p \in closing THEN UNCHANGED <<modal, closing, timers>>
       ELSE /\ closing' = closing \cup {p} /\ timers' = timers \cup {p} /\ UNCHANGED modal

\* The picker is told to close, which has an effect if it was open.
Closes(p) ==
    /\ opened' = opened \ {p}
    /\ IF p \notin opened THEN UNCHANGED <<modal, closing, timers>>
       ELSE IF Reduced THEN modal' = modal \ {p} /\ UNCHANGED <<closing, timers>>
       ELSE closing' = closing \cup {p} /\ timers' = timers \cup {p} /\ UNCHANGED modal

\* The arrow back, or a click beside the panel.
Dismiss(p) ==
    /\ p \in modal
    /\ Closes(p)
    /\ UNCHANGED <<selection, searchVars>>

Escape(p) ==
    /\ p \in modal
    /\ modal' = modal \ {p} /\ opened' = opened \ {p}
    /\ UNCHANGED <<selection, closing, timers, searchVars>>

AnimationEnds(p) ==
    /\ p \in timers
    /\ timers' = timers \ {p} /\ closing' = closing \ {p} /\ modal' = modal \ {p}
    /\ UNCHANGED <<selection, opened, searchVars>>

\* The form gives way to the receipt of a call that ends meanwhile, whatever
\* is open or closing, and later comes back: the elements and their timers go
\* with it, the selection stays.
Remount ==
    /\ opened' = {} /\ modal' = {} /\ closing' = {} /\ timers' = {}
    /\ network' = [p \in Pickers |-> ""] /\ query' = "" /\ active' = 1
    /\ UNCHANGED selection
----------------------------------------------------------------------------
SearchNetworks(p, q) ==
    /\ p \in modal
    /\ network' = [network EXCEPT ![p] = q]
    /\ UNCHANGED <<selection, dialogVars, query, active>>

SearchAssets(q) ==
    /\ "asset" \in modal
    /\ q # query
    /\ query' = q /\ active' = 1
    /\ UNCHANGED <<selection, dialogVars, network>>

\* The arrow keys.
Highlight ==
    /\ "asset" \in modal
    /\ active' \in {IF active < Len(Filtered) THEN active + 1 ELSE Len(Filtered),
                    IF active > 1 THEN active - 1 ELSE 1}
    /\ UNCHANGED <<selection, dialogVars, network, query>>

\* The pointer over an item of the list.
PointAt(i) ==
    /\ "asset" \in modal
    /\ i \in DOMAIN Filtered
    /\ active' = i
    /\ UNCHANGED <<selection, dialogVars, network, query>>

PickAsset(i) ==
    /\ "asset" \in modal
    /\ i \in DOMAIN Filtered
    /\ selection' = [selection EXCEPT !.asset = Filtered[i]]
    /\ network' = [network EXCEPT !["asset"] = ""]
    /\ Closes("asset")
    /\ UNCHANGED <<query, active>>

\* The Enter key, which may find nothing highlighted.
Enter == PickAsset(active)

\* Another source comes with the first destination and asset there are for it;
\* in the panel of the asset it closes nothing.
PickSource(p, c) ==
    /\ p \in modal \ {"destination"}
    /\ c \in Matches(p)
    /\ \E r \in Offered : r.source = c /\ selection' = r
    /\ network' = [network EXCEPT ![p] = ""]
    /\ IF p = "asset" THEN UNCHANGED dialogVars ELSE Closes(p)
    /\ UNCHANGED <<query, active>>

\* Another destination comes with the asset that was selected.
PickDestination(c) ==
    /\ "destination" \in modal
    /\ c \in Matches("destination")
    /\ selection' = [selection EXCEPT !.destination = c]
    /\ network' = [network EXCEPT !["destination"] = ""]
    /\ Closes("destination")
    /\ UNCHANGED <<query, active>>

PickerNext ==
    \/ \E p \in Pickers : Open(p) \/ Dismiss(p) \/ Escape(p) \/ AnimationEnds(p)
    \/ \E p \in Pickers, q \in Searches : SearchNetworks(p, q)
    \/ \E q \in Searches : SearchAssets(q)
    \/ Highlight \/ Enter \/ Remount
    \/ \E i \in DOMAIN Filtered : PointAt(i) \/ PickAsset(i)
    \/ \E p \in Pickers : \E c \in Matches(p) : PickSource(p, c)
    \/ \E c \in Matches("destination") : PickDestination(c)

PickerSpec == PickerInit /\ [][PickerNext]_pickerVars

\* A timer that is left alone goes off.
PickerFairness == \A p \in Pickers : WF_pickerVars(AnimationEnds(p))
----------------------------------------------------------------------------
\* "A user who cannot escape a modal ... cannot use the bridge at all"
\* (Dialog.tsx): a panel that was dismissed does not keep the page inert,
\* whatever else was dismissed, escaped and opened before.
PageIsFreed ==
    \A p \in Pickers : (p \in modal /\ p \notin opened) ~> p \notin modal

\* "Prevent invalid combinations, do not explain them afterwards"
\* (BridgeShell.tsx): whatever was searched, highlighted and chosen before in
\* any panel, only another destination can leave a combination without a route.
PickedResolves ==
    [][\/ selection' \in Offered
       \/ selection' = [selection EXCEPT !.destination = selection'.destination]]_selection
=============================================================================
