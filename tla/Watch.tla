-------------------------------- MODULE Watch --------------------------------
(***************************************************************************)
(* What the site watches of the chains while one of its pages is open.     *)
(*                                                                         *)
(* The bridge card asks, again and again, for the health of the route that *)
(* is selected, with three reads at a time, and for the base fee of its    *)
(* source; both gate the button, which can be made to wait for a fee.  The *)
(* status page asks every chain.  The answers are cached, each under the   *)
(* key of what was asked, and the route may change while they are awaited. *)
(*                                                                         *)
(* The chains of a route, its guard and their fees change at any time.     *)
(***************************************************************************)
EXTENDS Integers

CONSTANTS
    Chains,
    Routes,       \* the combinations that can be selected
    Source,       \* Source[r]
    Destination,  \* Destination[r]
    Usable,       \* the routes the catalog resolves
    Guarded,      \* those whose source chain has a guard on record
    Unsteady,     \* the chains that may slow down or stop answering
    Fees,         \* the base fees, and the ceilings that may be typed
    NoAnswer

ASSUME WatchAssumption ==
    /\ Source \in [Routes -> Chains]
    /\ Destination \in [Routes -> Chains]
    /\ Usable \subseteq Routes
    /\ Fees \subseteq Nat \ {0}
    /\ NoAnswer \notin Fees

VARIABLES
    pace,      \* pace[c]: chain c answers "fast", "slow", in over 4 s, or is "down",
               \* as one without an endpoint on record always is
    capacity,  \* capacity[r]: what the guard of r has left, "some" or "none"
    fee,       \* fee[c]: the base fee, NoAnswer if its blocks state none
    view,      \* the page that is open, "card", "board" or another
    route,     \* the route selected on the card
    armed,     \* the fee limit: the source it was armed for and the ceiling
    asked,     \* the routes whose health is being asked
    health,    \* health[r]: the last answer
    baseFee,   \* baseFee[c]: the last answer
    board      \* board[c]: what the last request of the status page ended with

worldVars == <<pace, capacity, fee>>
cardVars == <<route, armed, asked, health, baseFee>>
watchVars == <<worldVars, view, cardVars, board>>
----------------------------------------------------------------------------
(* The card.                                                               *)

Ends(r) == {Source[r], Destination[r]}

\* What isRouteAvailable() may find: a guard that is not on record, or cannot
\* be read, is no reason to refuse.
Availability(r) ==
    IF r \notin Usable THEN {"none"}
    ELSE {"unknown"} \cup (IF r \in Guarded THEN {capacity[r]} ELSE {})

\* Mutant of Worst: the source chain's answer for both.
WorstOfSource(r) == health[r].pace[Source[r]]

\* A route is as healthy as the weaker of its two ends.
Worst(r) ==
    CHOOSE p \in {health[r].pace[c] : c \in Ends(r)} :
        \A c \in Ends(r) : /\ health[r].pace[c] = "down" => p = "down"
                           /\ health[r].pace[c] = "slow" => p # "fast"

Health(r) ==
    IF health[r] = NoAnswer THEN "checking"
    ELSE IF Worst(r) = "down" \/ health[r].availability = "none" THEN "unavailable"
    ELSE IF Worst(r) = "slow" THEN "degraded"
    ELSE "operational"

\* Mutant of IsMet: the ceiling itself is too much.
IsMetBelow == baseFee[Source[route]] # NoAnswer /\ baseFee[Source[route]] < armed.ceiling

\* The fee compared is that of the source selected now.
IsMet == baseFee[Source[route]] # NoAnswer /\ baseFee[Source[route]] <= armed.ceiling

\* What the modes of the card and its health leave of the button; Card has the
\* rest of it.
Gated == Health(route) = "unavailable" \/ (armed # NoAnswer /\ ~IsMet)
----------------------------------------------------------------------------
(* The status page.                                                        *)

BoardHealth(c) ==
    CASE board[c] = NoAnswer -> "checking"
      [] board[c] = "down" -> "unavailable"
      [] board[c] = "slow" -> "degraded"
      [] board[c] = "fast" -> "operational"

Overall ==
    IF \E c \in Chains : BoardHealth(c) = "unavailable" THEN "unavailable"
    ELSE IF \A c \in Chains : BoardHealth(c) = "operational" THEN "operational"
    ELSE "degraded"

\* The row of a route, which knows of no guard and passes what is unanswered.
Row(r) ==
    IF \E c \in Ends(r) : BoardHealth(c) = "unavailable" THEN "unavailable"
    ELSE IF \E c \in Ends(r) : BoardHealth(c) = "degraded" THEN "degraded"
    ELSE "operational"
----------------------------------------------------------------------------
WatchInit ==
    /\ pace \in [Chains -> {"fast", "slow", "down"}]
    /\ capacity = [r \in Routes |-> "some"]
    /\ fee \in [Chains -> Fees \cup {NoAnswer}]
    /\ view \in {"card", "board", "another"}
    /\ route \in Routes
    /\ armed = NoAnswer
    /\ asked = {}
    /\ health = [r \in Routes |-> NoAnswer]
    /\ baseFee = [c \in Chains |-> NoAnswer]
    /\ board = [c \in Chains |-> NoAnswer]

\* Any handler of the selection; an armed limit stays.
ChooseRoute(r) ==
    /\ view = "card"
    /\ route' = r
    /\ UNCHANGED <<worldVars, view, armed, asked, health, baseFee, board>>

Arm(ceiling) ==
    /\ view = "card" /\ armed = NoAnswer
    /\ armed' = [source |-> Source[route], ceiling |-> ceiling]
    /\ UNCHANGED <<worldVars, view, route, asked, health, baseFee, board>>

\* By its own button, or by leaving the mode.
Disarm ==
    /\ armed # NoAnswer
    /\ armed' = NoAnswer
    /\ UNCHANGED <<worldVars, view, route, asked, health, baseFee, board>>

AskHealth ==
    /\ view = "card" /\ route \notin asked
    /\ asked' = asked \cup {route}
    /\ UNCHANGED <<worldVars, view, route, armed, health, baseFee, board>>

\* The reads have come, whatever is selected by then.
HealthRead(r) ==
    /\ r \in asked
    /\ asked' = asked \ {r}
    /\ \E found \in Availability(r) :
          health' = [health EXCEPT ![r] = [availability |-> found, pace |-> [c \in Ends(r) |-> pace[c]]]]
    /\ UNCHANGED <<worldVars, view, route, armed, baseFee, board>>

\* A request that fails leaves the fee that was known; so does a block that
\* states no base fee.
FeeRead ==
    LET c == Source[route]
    IN  /\ view = "card" /\ pace[c] # "down" /\ fee[c] # NoAnswer
        /\ baseFee' = [baseFee EXCEPT ![c] = fee[c]]
        /\ UNCHANGED <<worldVars, view, route, armed, asked, health, board>>

\* One that fails, twice, is remembered as failed here.
BoardRead(c) ==
    /\ view = "board"
    /\ board' = [board EXCEPT ![c] = pace[c]]
    /\ UNCHANGED <<worldVars, view, cardVars>>

PaceChanges(c) ==
    /\ c \in Unsteady
    /\ \E p \in {"fast", "slow", "down"} : pace' = [pace EXCEPT ![c] = p]
    /\ UNCHANGED <<capacity, fee, view, cardVars, board>>

CapacityChanges(r) ==
    /\ r \in Guarded
    /\ \E left \in {"some", "none"} : capacity' = [capacity EXCEPT ![r] = left]
    /\ UNCHANGED <<pace, fee, view, cardVars, board>>

FeeChanges(c) ==
    /\ c \in Unsteady /\ fee[c] # NoAnswer
    /\ \E f \in Fees : fee' = [fee EXCEPT ![c] = f]
    /\ UNCHANGED <<pace, capacity, view, cardVars, board>>

WatchNext ==
    \/ \E r \in Routes : ChooseRoute(r) \/ HealthRead(r) \/ CapacityChanges(r)
    \/ \E ceiling \in Fees : Arm(ceiling)
    \/ Disarm \/ AskHealth \/ FeeRead
    \/ \E c \in Chains : BoardRead(c) \/ PaceChanges(c) \/ FeeChanges(c)

WatchSpec == WatchInit /\ [][WatchNext]_watchVars

\* The page that is open keeps asking, and requests end.
WatchFairness ==
    /\ WF_watchVars(AskHealth) /\ WF_watchVars(FeeRead)
    /\ \A r \in Routes : WF_watchVars(HealthRead(r))
    /\ \A c \in Chains : WF_watchVars(BoardRead(c))
----------------------------------------------------------------------------
\* "A route is only as healthy as its weaker end" (useRouteHealth.ts): a chain
\* that stays down closes the button of every route it ends, and is told by
\* the status page.
OutageIsShown ==
    \A c \in Chains :
        /\ \A r \in Routes :
              c \in Ends(r) => (<>[](view = "card" /\ route = r /\ pace[c] = "down") => <>[]Gated)
        /\ <>[](view = "board" /\ pace[c] = "down")
              => <>[](/\ Overall = "unavailable"
                      /\ \A r \in Routes : c \in Ends(r) => Row(r) = "unavailable")

\* Nothing the card once found, or once waited for, keeps its button closed:
\* while both chains answer, the guard has capacity and the fee of the source
\* stays at or below the ceiling, it opens again and again, although the fee
\* may move and limits be armed against a fee that is no longer true, or for
\* another chain than the one selected now.
NoDeadEnd ==
    \A r \in Usable :
        <>[](/\ view = "card" /\ route = r
             /\ \A c \in Ends(r) : pace[c] # "down"
             /\ capacity[r] = "some"
             /\ armed # NoAnswer => fee[Source[r]] # NoAnswer /\ fee[Source[r]] <= armed.ceiling)
        => []<>~Gated
=============================================================================
