------------------------------- MODULE Indexer -------------------------------
(***************************************************************************)
(* packages/indexer: a read model that polls the chains and advances the   *)
(* recorded status of each transfer.  A pass takes the pending transfers,  *)
(* then observes each in turn and writes back the record it started from.  *)
(* Observations are reads of several nodes, any of which may lag or fail.  *)
(***************************************************************************)
EXTENDS Integers, Sequences, FiniteSetsExt

CONSTANTS
    Order,      \* the transfers tracked, in the order they were first stored
    Reachable,  \* those whose chains answer again and again
    Stated,     \* those whose observer states how many confirmations it takes
    Sent,       \* those whose source transaction may be mined
    Passes      \* the trackPending calls that may be under way at once

Transfers == {Order[i] : i \in DOMAIN Order}

\* The stored transfers are the keys of a map: none is there twice.
ASSUME IndexerAssumption ==
    /\ Reachable \subseteq Transfers
    /\ Stated \subseteq Transfers
    /\ Sent \subseteq Transfers
    /\ Order \in Seq(Transfers)
    /\ \A i, j \in DOMAIN Order : Order[i] = Order[j] => i = j

VARIABLES
    facts,     \* facts[t]: what has happened to t on its chains
    store,     \* store[t]: the stored record
    snapshot,  \* snapshot[p]: the records the pass p took from pending()
    todo,      \* todo[p]: the places in Order that p has yet to observe, the first one next
    overtaken  \* observer: the transfers another pass wrote since p took its records

indexerVars == <<facts, store, snapshot, todo, overtaken>>
----------------------------------------------------------------------------
Statuses ==
    {"SOURCE_PENDING", "SOURCE_CONFIRMED", "MESSAGE_DISPATCHED", "AWAITING_VERIFICATION",
     "READY_FOR_DELIVERY", "DELIVERED", "FAILED"}

RANK == [SOURCE_PENDING |-> 3, SOURCE_CONFIRMED |-> 4, MESSAGE_DISPATCHED |-> 5,
         AWAITING_VERIFICATION |-> 6, READY_FOR_DELIVERY |-> 7, DELIVERED |-> 9, FAILED |-> 10]

TERMINAL == {"DELIVERED", "FAILED"}

Facts ==
    {"mined", "reverted", "once", "confirmed", "dispatched", "inserted", "notInserted",
     "signed", "attemptReverted", "delivered"}

\* An observation that does not state the required number settles for one.
Settled(o) == "mined" \in o /\ ("confirmed" \in o \/ ("once" \in o /\ "required" \notin o))

\* Mutant of DeriveStatus: an unread insertion is taken for one that happened.
DeriveStatusOptimistic(o) ==
    IF "delivered" \in o THEN "DELIVERED"
    ELSE IF {"mined", "reverted"} \subseteq o \/ {"attemptReverted", "notInserted"} \cap o # {}
      THEN "FAILED"
    ELSE IF ~Settled(o) THEN "SOURCE_PENDING"
    ELSE IF "dispatched" \notin o THEN "SOURCE_CONFIRMED"
    ELSE IF "signed" \in o THEN "READY_FOR_DELIVERY"
    ELSE "AWAITING_VERIFICATION"

\* deriveStatus(): the most conclusive evidence first.
DeriveStatus(o) ==
    IF "delivered" \in o THEN "DELIVERED"
    ELSE IF {"mined", "reverted"} \subseteq o THEN "FAILED"
    ELSE IF "attemptReverted" \in o THEN "FAILED"
    ELSE IF ~Settled(o) THEN "SOURCE_PENDING"
    ELSE IF "dispatched" \notin o THEN "SOURCE_CONFIRMED"
    ELSE IF "notInserted" \in o THEN "FAILED"
    ELSE IF "signed" \in o THEN "READY_FOR_DELIVERY"
    ELSE IF "inserted" \in o THEN "AWAITING_VERIFICATION"
    ELSE "MESSAGE_DISPATCHED"

IsRegression(previous, next) == RANK[next] < RANK[previous]

\* Mutant of AdvanceStatus: the latest observation wins.
AdvanceToLatest(previous, next) == next

AdvanceStatus(previous, next) ==
    IF previous = "DELIVERED" \/ IsRegression(previous, next) THEN previous ELSE next

\* pending(): the places of the transfers that are not terminal.
Pending == {i \in DOMAIN Order : store[Order[i]].status \notin TERMINAL}
----------------------------------------------------------------------------
IndexerInit ==
    /\ facts = [t \in Transfers |-> {}]
    /\ store = [t \in Transfers |-> [status |-> "SOURCE_PENDING", messageId |-> FALSE]]
    /\ snapshot = [p \in Passes |-> store]
    /\ todo = [p \in Passes |-> {}]
    /\ overtaken = [p \in Passes |-> {}]

\* The chains.  A successful source transaction dispatches at once, and its
\* hook inserts the message into the tree or, misconfigured, never does.  A
\* delivery attempt may revert and a later one succeed.
Outcomes == {{"mined", "reverted"}, {"mined", "dispatched", "inserted"},
             {"mined", "dispatched", "notInserted"}}

PossibleFacts(t) ==
    {f \in {"once", "confirmed", "signed", "attemptReverted", "delivered"} :
        /\ f \notin facts[t]
        /\ "delivered" \notin facts[t]
        /\ f = "once" => "dispatched" \in facts[t]
        /\ f = "confirmed" => "once" \in facts[t]
        /\ f = "signed" => {"confirmed", "inserted"} \subseteq facts[t]
        /\ f \in {"attemptReverted", "delivered"} => "signed" \in facts[t]}

SourceMined(t) ==
    /\ t \in Sent /\ facts[t] = {}
    /\ \E o \in Outcomes : facts' = [facts EXCEPT ![t] = o]
    /\ UNCHANGED <<store, snapshot, todo, overtaken>>

Progress(t) ==
    /\ \E f \in PossibleFacts(t) : facts' = [facts EXCEPT ![t] = @ \cup {f}]
    /\ UNCHANGED <<store, snapshot, todo, overtaken>>
----------------------------------------------------------------------------
\* trackPending() begins: pending() returns the records as they are now.
StartPass(p) ==
    /\ todo[p] = {}
    /\ Pending # {}
    /\ todo' = [todo EXCEPT ![p] = Pending]
    /\ snapshot' = [snapshot EXCEPT ![p] = store]
    /\ overtaken' = [overtaken EXCEPT ![p] = {}]
    /\ UNCHANGED <<facts, store>>

\* track(): what an observation makes of the record the pass started from.
Updated(record, o) ==
    [status |-> AdvanceStatus(record.status, DeriveStatus(o)),
     messageId |-> record.messageId \/ "dispatched" \in o]

\* A record that did not change is not written.
Write(p, t, o) ==
    LET updated == Updated(snapshot[p][t], o)
    IN  IF updated = snapshot[p][t] THEN store ELSE [store EXCEPT ![t] = updated]

\* The transfer a pass observes next, and what it has left after that one.
Observed(p) == Order[Min(todo[p])]
Rest(waiting) == waiting \ {Min(waiting)}

Track(p, o) ==
    /\ store' = Write(p, Observed(p), o)
    /\ todo' = [todo EXCEPT ![p] = Rest(@)]
    /\ overtaken' = [q \in Passes |->
                       IF q # p /\ store' # store THEN overtaken[q] \cup {Observed(p)}
                       ELSE overtaken[q]]
    /\ UNCHANGED <<facts, snapshot>>

\* An observation states the required number if its observer knows it.
Requirement(t) == IF t \in Stated THEN {"required"} ELSE {}

\* Mutant of AfterFailure: the exception ends the pass.
AbortPass(waiting) == {}

\* What is left of a pass when observing its first transfer throws: that one
\* waits for the next pass, the others do not.
AfterFailure(waiting) == Rest(waiting)

ObserveFails(p) ==
    /\ todo' = [todo EXCEPT ![p] = AfterFailure(@)]
    /\ UNCHANGED <<facts, store, snapshot, overtaken>>

\* Some nodes have not caught up: any part of what happened may be unread.
PassStep(p) ==
    /\ todo[p] # {}
    /\ \/ ObserveFails(p)
       \/ \E o \in SUBSET facts[Observed(p)] : Track(p, o \cup Requirement(Observed(p)))

\* The next transfer in turn is t, and every node asked has caught up.
TrackFully(p, t) ==
    /\ todo[p] # {}
    /\ Observed(p) = t
    /\ Track(p, facts[t] \cup Requirement(t))

IndexerNext ==
    \/ \E t \in Transfers : SourceMined(t) \/ Progress(t)
    \/ \E p \in Passes : StartPass(p)
    \/ \E p \in Passes : PassStep(p)

IndexerSpec == IndexerInit /\ [][IndexerNext]_indexerVars

----------------------------------------------------------------------------
\* The status shown never runs ahead of the chains, whatever was read late or
\* not at all: above all, DELIVERED is shown only of a delivered transfer, and
\* a transfer is called failed only if one of the three failures happened.
StatusIsEarned ==
    \A t \in Transfers :
        LET s == store[t].status
        IN  /\ s = "DELIVERED" => "delivered" \in facts[t]
            /\ s = "FAILED" => facts[t] \cap {"reverted", "notInserted", "attemptReverted"} # {}
            /\ s = "READY_FOR_DELIVERY" => "signed" \in facts[t]
            /\ s = "AWAITING_VERIFICATION" => "inserted" \in facts[t]
            /\ s \notin {"SOURCE_PENDING", "FAILED"} =>
                 (IF t \in Stated THEN "confirmed" ELSE "once") \in facts[t]

\* A record shows less than it did: an earlier status, or no message id.
Regresses(t) ==
    \/ IsRegression(store[t].status, store'[t].status)
    \/ store[t].messageId /\ ~store'[t].messageId

\* "Statuses never move backwards" (status.ts) is what advanceStatus() sees to,
\* of the record its pass took.  Of the store it is false once passes overlap,
\* for that record is written back after an await, in which another pass may
\* write.  What does hold, however many passes overlap: a record steps back only
\* when a pass writes one that another has written since it was taken.  Late and
\* partial observations, failures and a pass on its own never do it.
OnlyOvertakenRegress ==
    [][\A t \in Transfers :
         Regresses(t) => \E p \in Passes : /\ todo[p] # {} /\ todo'[p] # todo[p]
                                          /\ Observed(p) = t /\ t \in overtaken[p]]_indexerVars

\* "One unreachable chain must not stall every other transfer's tracking": a
\* reachable transfer that is delivered comes to a terminal status for good,
\* although the others' chains may never answer again and an overtaken pass may
\* still take back what another has written.
DeliveriesAreShown ==
    \A t \in Reachable : "delivered" \in facts[t] ~> [](store[t].status \in TERMINAL)
=============================================================================
