---------------------------- MODULE ReaderProofs ----------------------------
(***************************************************************************)
(* The programs that only read the chains.  The indexer, for any transfers: *)
(* a status is shown only once the chains have earned it, and a record     *)
(* moves backwards only when another pass has overtaken the one that       *)
(* writes it.  The check of the registry and the monitor, for any chains,  *)
(* endpoints and agents: their verdicts are those of the answers that came. *)
(***************************************************************************)
EXTENDS Indexer, LiveCheck, WellFoundedInduction, TLAPS

LEMMA LeastExists ==
    ASSUME NEW S \in SUBSET Nat, S # {}
    PROVE  Min(S) \in S
<1> DEFINE R == OpToRel(<, Nat)
<1>1. IsWellFoundedOn(R, Nat)
  BY NatLessThanWellFounded
<1>2. \A x, y \in Nat : <<x, y>> \in R <=> x < y
  BY Zenon DEF OpToRel
<1> HIDE DEF R
<1>3. PICK x \in S : \A y \in S : ~(<<y, x>> \in R)
  BY <1>1, WFMin, Zenon
<1>4. \A y \in S : ~(y < x)
  BY <1>2, <1>3, Zenon
<1>5. \A y \in S : x <= y
  BY <1>4
<1> QED BY <1>5, Zenon DEF Min
----------------------------------------------------------------------------
(* What was observed and what has happened.                                *)

Records == [status : Statuses, messageId : BOOLEAN]

IndexerTypeOK ==
    /\ facts \in [Transfers -> SUBSET Facts]
    /\ store \in [Transfers -> Records]
    /\ snapshot \in [Passes -> [Transfers -> Records]]
    /\ todo \in [Passes -> SUBSET DOMAIN Order]
    /\ overtaken \in [Passes -> SUBSET Transfers]

\* What had to happen before what.
InOrder(f) ==
    /\ f \cap {"once", "inserted"} # {} => "reverted" \notin f
    /\ "signed" \in f => {"confirmed", "inserted"} \subseteq f
    /\ f \cap {"attemptReverted", "delivered"} # {} => "signed" \in f
    /\ "confirmed" \in f => "once" \in f
    /\ "once" \in f => "dispatched" \in f
    /\ "required" \notin f
    /\ "reverted" \in f => "dispatched" \notin f

\* Whether the events f entitle a transfer to the status s, if the number of
\* confirmations it takes is stated, or if it is not.
Earned(s, f, stated) ==
    /\ s = "DELIVERED" => "delivered" \in f
    /\ s = "FAILED" => f \cap {"reverted", "notInserted", "attemptReverted"} # {}
    /\ s = "READY_FOR_DELIVERY" => "signed" \in f
    /\ s = "AWAITING_VERIFICATION" => "inserted" \in f
    /\ s \notin {"SOURCE_PENDING", "FAILED"} => (IF stated THEN "confirmed" ELSE "once") \in f

\* A status derived from any part of what happened is earned.
LEMMA DerivedIsEarned ==
    ASSUME NEW f, NEW t, NEW o \in SUBSET f, InOrder(f)
    PROVE  /\ DeriveStatus(o \cup Requirement(t)) \in Statuses
           /\ Earned(DeriveStatus(o \cup Requirement(t)), f, t \in Stated)
BY SMT DEF DeriveStatus, Settled, Requirement, Earned, InOrder, Statuses

\* What was earned stays earned.
LEMMA EarnedStays ==
    ASSUME NEW s, NEW f, NEW g, NEW b, f \subseteq g, Earned(s, f, b)
    PROVE  Earned(s, g, b)
BY SMT DEF Earned

\* The status written is the old one or the derived one.
LEMMA AdvanceChooses ==
    ASSUME NEW previous, NEW next
    PROVE  AdvanceStatus(previous, next) \in {previous, next}
BY DEF AdvanceStatus

LEMMA AdvanceIsNoRegression ==
    ASSUME NEW previous \in Statuses, NEW next \in Statuses
    PROVE  ~IsRegression(previous, AdvanceStatus(previous, next))
BY SMT DEF AdvanceStatus, IsRegression, RANK, Statuses

\* The record that a pass takes up is that of a transfer.
LEMMA ObservedIsTracked ==
    ASSUME IndexerTypeOK, NEW p \in Passes, todo[p] # {}
    PROVE  /\ Min(todo[p]) \in todo[p]
           /\ Observed(p) = Order[Min(todo[p])]
           /\ Observed(p) \in Transfers
<1>1. DOMAIN Order \subseteq Nat
  BY IndexerAssumption
<1>2. todo[p] \subseteq DOMAIN Order
  BY DEF IndexerTypeOK
<1>3. todo[p] \in SUBSET Nat
  BY <1>1, <1>2
<1>4. Min(todo[p]) \in todo[p]
  BY <1>3, LeastExists
<1> QED BY <1>2, <1>4, Zenon DEF Observed, Transfers
----------------------------------------------------------------------------
(* The statuses are earned.                                                *)

\* A step of the indexer, one case per action.
LEMMA IndexerStepCases ==
    ASSUME [IndexerNext]_indexerVars, NEW P,
           \A t \in Transfers : SourceMined(t) => P,
           \A t \in Transfers : Progress(t) => P,
           \A p \in Passes : StartPass(p) => P,
           \A p \in Passes : todo[p] # {} /\ ObserveFails(p) => P,
           \A p \in Passes : \A o \in SUBSET facts[Observed(p)] :
               todo[p] # {} /\ Track(p, o \cup Requirement(Observed(p))) => P,
           UNCHANGED indexerVars => P
    PROVE  P
BY Zenon DEF IndexerNext, PassStep

\* Nothing is ever shown, in the store or in the memory of a pass, that the
\* chains have not earned: a pass writes from a record that it read before, so
\* the stored records alone do not carry the argument.
EarnedInv ==
    /\ IndexerTypeOK
    /\ \A t \in Transfers : InOrder(facts[t])
    /\ \A t \in Transfers : Earned(store[t].status, facts[t], t \in Stated)
    /\ \A p \in Passes, t \in Transfers : Earned(snapshot[p][t].status, facts[t], t \in Stated)

LEMMA EarnedInit ==
    ASSUME IndexerInit
    PROVE  EarnedInv
<1> DEFINE first == [status |-> "SOURCE_PENDING", messageId |-> FALSE]
<1>1. first \in Records /\ InOrder({}) /\ \A b : Earned(first.status, {}, b)
  BY DEF Records, Statuses, Earned, InOrder
<1>2. \A t \in Transfers : store[t] = first /\ facts[t] = {}
  BY DEF IndexerInit
<1>3. \A p \in Passes, t \in Transfers : snapshot[p][t] = first
  BY <1>2 DEF IndexerInit
<1>4. IndexerTypeOK
  BY <1>1 DEF IndexerInit, IndexerTypeOK
<1> HIDE DEF first
<1> QED BY <1>1, <1>2, <1>3, <1>4, Zenon DEF EarnedInv

\* The chains move on, and what was earned stays earned.
LEMMA ChainsKeepEarned ==
    ASSUME EarnedInv, NEW u \in Transfers, NEW g \in SUBSET Facts,
           facts[u] \subseteq g, InOrder(g), facts' = [facts EXCEPT ![u] = g],
           UNCHANGED <<store, snapshot, todo, overtaken>>
    PROVE  EarnedInv'
<1>1. \A t \in Transfers : facts[t] \subseteq facts'[t] /\ InOrder(facts'[t])
  BY DEF EarnedInv, IndexerTypeOK
<1>2. IndexerTypeOK'
  BY DEF EarnedInv, IndexerTypeOK
<1>3. \A t \in Transfers : Earned(store'[t].status, facts'[t], t \in Stated)
  BY <1>1, EarnedStays, Zenon DEF EarnedInv
<1>4. \A p \in Passes, t \in Transfers : Earned(snapshot'[p][t].status, facts'[t], t \in Stated)
  BY <1>1, EarnedStays, Zenon DEF EarnedInv
<1> QED BY <1>1, <1>2, <1>3, <1>4, Zenon DEF EarnedInv

\* A pass writes: the record it took was earned, and so is what it derives.
LEMMA TrackKeepsEarned ==
    ASSUME EarnedInv, NEW p \in Passes, todo[p] # {},
           NEW seen \in SUBSET facts[Observed(p)], Track(p, seen \cup Requirement(Observed(p)))
    PROVE  EarnedInv'
<1> DEFINE x == Observed(p)
           o == seen \cup Requirement(x)
           Entitled(s) == Earned(s, facts[x], x \in Stated)
<1>1. IndexerTypeOK /\ x \in Transfers
  BY ObservedIsTracked DEF EarnedInv
<1>2. InOrder(facts[x]) /\ Entitled(snapshot[p][x].status) /\ snapshot[p][x] \in Records
      /\ facts[x] \in SUBSET Facts
  BY <1>1 DEF EarnedInv, IndexerTypeOK
<1>3. DeriveStatus(o) \in Statuses /\ Entitled(DeriveStatus(o))
  BY <1>2, DerivedIsEarned, Zenon
<1> DEFINE status == AdvanceStatus(snapshot[p][x].status, DeriveStatus(o))
<1>4. snapshot[p][x].status \in Statuses /\ snapshot[p][x].messageId \in BOOLEAN
  BY <1>2 DEF Records
<1>5. status \in Statuses /\ Entitled(status)
  BY <1>2, <1>3, <1>4, AdvanceChooses, Zenon
<1>6. Updated(snapshot[p][x], o).status = status /\ Updated(snapshot[p][x], o) \in Records
  <2> HIDE DEF x
  <2>1. (snapshot[p][x].messageId \/ "dispatched" \in o) \in BOOLEAN
    OBVIOUS
  <2> QED BY <1>5, <2>1 DEF Updated, Records
<1>7. store' = Write(p, x, o) /\ UNCHANGED <<facts, snapshot>>
  BY Zenon DEF Track
<1> HIDE DEF x, o, status, Entitled
<1>8. store' \in [Transfers -> Records]
  BY <1>1, <1>6, <1>7 DEF Write, IndexerTypeOK
<1>9. \A t \in Transfers : Earned(store'[t].status, facts[t], t \in Stated)
  <2>1. \A t \in Transfers : store'[t] = store[t] \/ (t = x /\ store'[t] = Updated(snapshot[p][x], o))
    BY <1>1, <1>7, Zenon DEF Write, IndexerTypeOK
  <2> QED BY <1>5, <1>6, <2>1, Zenon DEF EarnedInv, Entitled
<1>10. todo' \in [Passes -> SUBSET DOMAIN Order]
  BY <1>1, Zenon DEF Track, Rest, IndexerTypeOK
<1>11. overtaken' \in [Passes -> SUBSET Transfers]
  <2>1. \A q \in Passes : overtaken[q] \cup {x} \in SUBSET Transfers
    BY <1>1 DEF IndexerTypeOK
  <2>2. overtaken' = [q \in Passes |-> IF q # p /\ store' # store THEN overtaken[q] \cup {x}
                                      ELSE overtaken[q]]
    BY Zenon DEF Track, x
  <2> QED BY <1>1, <2>1, <2>2 DEF IndexerTypeOK
<1>12. IndexerTypeOK'
  BY <1>1, <1>7, <1>8, <1>10, <1>11, Zenon DEF IndexerTypeOK
<1> QED BY <1>7, <1>9, <1>12, Zenon DEF EarnedInv

LEMMA EarnedStep ==
    ASSUME EarnedInv, [IndexerNext]_indexerVars
    PROVE  EarnedInv'
<1>1. ASSUME NEW t \in Transfers, SourceMined(t) PROVE EarnedInv'
  <2>1. PICK o \in Outcomes : facts' = [facts EXCEPT ![t] = o]
    BY <1>1 DEF SourceMined
  <2>2. o \in SUBSET Facts /\ InOrder(o)
    BY DEF Outcomes, Facts, InOrder
  <2>3. facts[t] \subseteq o /\ UNCHANGED <<store, snapshot, todo, overtaken>>
    BY <1>1 DEF SourceMined
  <2> QED BY <2>1, <2>2, <2>3, ChainsKeepEarned, Zenon
<1>2. ASSUME NEW t \in Transfers, Progress(t) PROVE EarnedInv'
  <2>1. PICK f \in PossibleFacts(t) : facts' = [facts EXCEPT ![t] = @ \cup {f}]
    BY <1>2 DEF Progress
  <2>2. facts[t] \in SUBSET Facts /\ InOrder(facts[t])
    BY DEF EarnedInv, IndexerTypeOK
  <2>3. facts[t] \cup {f} \in SUBSET Facts /\ InOrder(facts[t] \cup {f})
    BY <2>2, SMT DEF PossibleFacts, Facts, InOrder
  <2>4. facts' = [facts EXCEPT ![t] = facts[t] \cup {f}] /\ UNCHANGED <<store, snapshot, todo, overtaken>>
    BY <1>2, <2>1 DEF Progress
  <2> QED BY <2>3, <2>4, ChainsKeepEarned
<1>3. ASSUME NEW p \in Passes, StartPass(p) PROVE EarnedInv'
  <2>1. UNCHANGED <<facts, store>> /\ Pending \subseteq DOMAIN Order
    BY <1>3 DEF StartPass, Pending
  <2>2. IndexerTypeOK'
    BY <1>3, <2>1 DEF StartPass, EarnedInv, IndexerTypeOK
  <2>3. \A q \in Passes : snapshot'[q] = snapshot[q] \/ snapshot'[q] = store
    BY <1>3 DEF StartPass, EarnedInv, IndexerTypeOK
  <2> QED BY <2>1, <2>2, <2>3, Zenon DEF EarnedInv
<1>4. ASSUME NEW p \in Passes, todo[p] # {}, ObserveFails(p) PROVE EarnedInv'
  <2>1. todo' \in [Passes -> SUBSET DOMAIN Order] /\ UNCHANGED <<facts, store, snapshot, overtaken>>
    BY <1>4 DEF ObserveFails, AfterFailure, Rest, EarnedInv, IndexerTypeOK
  <2> QED BY <2>1, Zenon DEF EarnedInv, IndexerTypeOK
<1>5. ASSUME NEW p \in Passes, NEW o \in SUBSET facts[Observed(p)], todo[p] # {},
             Track(p, o \cup Requirement(Observed(p)))
      PROVE  EarnedInv'
  BY <1>5, TrackKeepsEarned
<1>6. CASE UNCHANGED indexerVars
  BY <1>6, Zenon DEF indexerVars, EarnedInv, IndexerTypeOK
<1> QED BY <1>1, <1>2, <1>3, <1>4, <1>5, <1>6, IndexerStepCases, Zenon

LEMMA EarnedAlways == IndexerSpec => []EarnedInv
BY EarnedInit, EarnedStep, PTL DEF IndexerSpec

\* The status shown never runs ahead of the chains, for any transfers and any
\* number of passes at once (deriveStatus, advanceStatus, track).
THEOREM StatusTheorem == IndexerSpec => []StatusIsEarned
<1>1. EarnedInv => StatusIsEarned
  BY Zenon DEF EarnedInv, StatusIsEarned, Earned
<1> QED BY <1>1, EarnedAlways, PTL
----------------------------------------------------------------------------
(* A record moves backwards only when its pass was overtaken.              *)

\* What a pass has yet to observe is stored as it was when the pass began,
\* unless another pass has written it since.
FreshInv ==
    /\ EarnedInv
    /\ \A p \in Passes : \A i \in todo[p] :
          Order[i] \in overtaken[p] \/ store[Order[i]] = snapshot[p][Order[i]]

LEMMA FreshInit ==
    ASSUME IndexerInit
    PROVE  FreshInv
BY EarnedInit, Zenon DEF FreshInv, IndexerInit

\* A pass that writes has overtaken the others there, and it never comes back
\* to the transfer it has written.
LEMMA TrackKeepsFresh ==
    ASSUME FreshInv, NEW p \in Passes, todo[p] # {}, NEW seen \in SUBSET facts[Observed(p)],
           Track(p, seen \cup Requirement(Observed(p)))
    PROVE  FreshInv'
<1> DEFINE o == seen \cup Requirement(Observed(p))
           x == Observed(p)
           Fresh(q, i) == Order[i] \in overtaken[q] \/ store[Order[i]] = snapshot[q][Order[i]]
<1>1. EarnedInv' /\ IndexerTypeOK
  BY TrackKeepsEarned, Zenon DEF FreshInv, EarnedInv
<1>2. Min(todo[p]) \in todo[p] /\ x = Order[Min(todo[p])]
  BY <1>1, ObservedIsTracked
<1>3. store' = Write(p, x, o) /\ UNCHANGED snapshot
  BY Zenon DEF Track
<1>4. \A q \in Passes : todo'[q] = IF q = p THEN todo[p] \ {Min(todo[p])} ELSE todo[q]
  BY <1>1, Zenon DEF Track, Rest, IndexerTypeOK
<1>5. \A q \in Passes : overtaken'[q] =
                           IF q # p /\ store' # store THEN overtaken[q] \cup {x} ELSE overtaken[q]
  BY Zenon DEF Track
<1>6. \A q \in Passes : \A i \in todo[q] : Order[i] \in Transfers /\ Fresh(q, i)
  BY <1>1, Zenon DEF FreshInv, IndexerTypeOK, Transfers
<1> HIDE DEF o, x
<1>7. \A t \in Transfers : t # x => store'[t] = store[t]
  BY <1>1, <1>3, Zenon DEF Write, IndexerTypeOK
<1> HIDE DEF Fresh
<1>8. ASSUME NEW i \in todo'[p] PROVE Fresh(p, i)'
  <2>1. i \in todo[p] /\ i # Min(todo[p]) /\ i \in DOMAIN Order /\ Min(todo[p]) \in DOMAIN Order
    BY <1>1, <1>2, <1>4, <1>8, Zenon DEF IndexerTypeOK
  <2>2. Order[i] # x
    BY <1>2, <2>1, IndexerAssumption, Zenon
  <2>3. store'[Order[i]] = store[Order[i]] /\ overtaken'[p] = overtaken[p]
    BY <1>5, <1>6, <1>7, <2>1, <2>2, Zenon
  <2> QED BY <1>3, <1>6, <2>1, <2>3, Zenon DEF Fresh
<1>9. ASSUME NEW q \in Passes, q # p, NEW i \in todo'[q] PROVE Fresh(q, i)'
  <2>1. i \in todo[q] /\ Order[i] \in Transfers /\ Fresh(q, i)
    BY <1>4, <1>6, <1>9, Zenon
  <2>2. CASE store' = store
    BY <1>3, <1>5, <2>1, <2>2, Zenon DEF Fresh
  <2>3. CASE store' # store
    <3>1. overtaken'[q] = overtaken[q] \cup {x}
      BY <1>5, <1>9, <2>3, Zenon
    <3>2. CASE Order[i] = x
      BY <3>1, <3>2, Zenon DEF Fresh
    <3>3. CASE Order[i] # x
      BY <1>3, <1>7, <2>1, <3>1, <3>3, Zenon DEF Fresh
    <3> QED BY <3>2, <3>3
  <2> QED BY <2>2, <2>3
<1>10. \A q \in Passes : \A i \in todo'[q] : Fresh(q, i)'
  BY <1>8, <1>9, Zenon
<1> QED BY <1>1, <1>10, Zenon DEF FreshInv, Fresh

LEMMA FreshStep ==
    ASSUME FreshInv, [IndexerNext]_indexerVars
    PROVE  FreshInv'
<1>1. EarnedInv' /\ IndexerTypeOK
  BY EarnedStep, Zenon DEF FreshInv, EarnedInv
<1>2. ASSUME UNCHANGED <<store, snapshot, todo, overtaken>> PROVE FreshInv'
  BY <1>1, <1>2, Zenon DEF FreshInv
<1>3. ASSUME NEW p \in Passes, StartPass(p) PROVE FreshInv'
  <2>1. snapshot'[p] = store /\ UNCHANGED store
    BY <1>1, <1>3, Zenon DEF StartPass, IndexerTypeOK
  <2>2. \A q \in Passes : q # p =>
          snapshot'[q] = snapshot[q] /\ todo'[q] = todo[q] /\ overtaken'[q] = overtaken[q]
    BY <1>1, <1>3, Zenon DEF StartPass, IndexerTypeOK
  <2>3. ASSUME NEW q \in Passes, NEW i \in todo'[q]
        PROVE  Order[i] \in overtaken'[q] \/ store'[Order[i]] = snapshot'[q][Order[i]]
    <3>1. CASE q = p
      BY <2>1, <3>1, Zenon
    <3>2. CASE q # p
      <4>1. /\ snapshot'[q] = snapshot[q] /\ todo'[q] = todo[q]
            /\ overtaken'[q] = overtaken[q] /\ store' = store
        BY <2>1, <2>2, <3>2, Zenon
      <4>2. Order[i] \in overtaken[q] \/ store[Order[i]] = snapshot[q][Order[i]]
        BY <2>3, <4>1, Zenon DEF FreshInv
      <4> QED BY <4>1, <4>2
    <3> QED BY <3>1, <3>2
  <2> QED BY <1>1, <2>3, Zenon DEF FreshInv
<1>4. ASSUME NEW p \in Passes, todo[p] # {}, ObserveFails(p) PROVE FreshInv'
  <2>1. \A q \in Passes : todo'[q] \subseteq todo[q]
    BY <1>1, <1>4 DEF ObserveFails, AfterFailure, Rest, IndexerTypeOK
  <2>2. UNCHANGED <<store, snapshot, overtaken>>
    BY <1>4 DEF ObserveFails
  <2> QED BY <1>1, <2>1, <2>2, Zenon DEF FreshInv
<1>5. ASSUME NEW p \in Passes, NEW o \in SUBSET facts[Observed(p)], todo[p] # {},
             Track(p, o \cup Requirement(Observed(p)))
      PROVE  FreshInv'
  BY <1>5, TrackKeepsFresh
<1>6. \A t \in Transfers : (SourceMined(t) => FreshInv') /\ (Progress(t) => FreshInv')
  BY <1>2, Zenon DEF SourceMined, Progress
<1>7. CASE UNCHANGED indexerVars
  BY <1>2, <1>7, Zenon DEF indexerVars
<1> QED BY <1>3, <1>4, <1>5, <1>6, <1>7, IndexerStepCases, Zenon

Forward(r, s) == ~IsRegression(r.status, s.status) /\ (r.messageId => s.messageId)

LEMMA StayingIsForward ==
    ASSUME NEW r \in Records
    PROVE  Forward(r, r)
BY DEF Forward, IsRegression, RANK, Records, Statuses

LEMMA UpdatingIsForward ==
    ASSUME NEW r \in Records, NEW f, InOrder(f), NEW t, NEW seen \in SUBSET f
    PROVE  Forward(r, Updated(r, seen \cup Requirement(t)))
<1> DEFINE o == seen \cup Requirement(t)
<1>1. r.status \in Statuses /\ DeriveStatus(o) \in Statuses
  BY DerivedIsEarned, Zenon DEF Records
<1>2. ~IsRegression(r.status, AdvanceStatus(r.status, DeriveStatus(o)))
  BY <1>1, AdvanceIsNoRegression
<1> HIDE DEF IsRegression, o
<1>3. Forward(r, Updated(r, o))
  BY <1>2, Zenon DEF Forward, Updated
<1> QED BY <1>3 DEF o

\* The pass p writes the record of t, which another pass has written meanwhile.
Overtakes(p, t) ==
    todo[p] # {} /\ todo'[p] # todo[p] /\ Observed(p) = t /\ t \in overtaken[p]

LEMMA ForwardStep ==
    ASSUME FreshInv, [IndexerNext]_indexerVars
    PROVE  \A t \in Transfers : Forward(store[t], store'[t]) \/ \E p \in Passes : Overtakes(p, t)
<1> DEFINE Sound(t) == Forward(store[t], store'[t]) \/ \E p \in Passes : Overtakes(p, t)
<1>1. IndexerTypeOK
  BY Zenon DEF FreshInv, EarnedInv
<1>2. ASSUME UNCHANGED store PROVE \A t \in Transfers : Sound(t)
  BY <1>1, <1>2, StayingIsForward DEF IndexerTypeOK
<1>3. ASSUME NEW p \in Passes, NEW seen \in SUBSET facts[Observed(p)], todo[p] # {},
             Track(p, seen \cup Requirement(Observed(p)))
      PROVE  \A t \in Transfers : Sound(t)
  <2> DEFINE x == Observed(p)
             o == seen \cup Requirement(x)
  <2>1. x \in Transfers /\ x = Order[Min(todo[p])] /\ Min(todo[p]) \in todo[p]
    BY <1>1, <1>3, ObservedIsTracked
  <2>2. InOrder(facts[x]) /\ store[x] \in Records
    BY <1>1, <2>1, Zenon DEF FreshInv, EarnedInv, IndexerTypeOK
  <2>3. x \in overtaken[p] \/ Forward(store[x], Updated(snapshot[p][x], o))
    <3>1. x \in overtaken[p] \/ store[x] = snapshot[p][x]
      BY <2>1, Zenon DEF FreshInv
    <3>2. Forward(store[x], Updated(store[x], o))
      BY <1>3, <2>2, UpdatingIsForward
    <3> QED BY <3>1, <3>2, Zenon
  <2>4. store' = Write(p, x, o)
    BY <1>3, Zenon DEF Track
  <2>5. todo'[p] # todo[p]
    <3>1. todo'[p] = todo[p] \ {Min(todo[p])}
      BY <1>1, <1>3, Zenon DEF Track, Rest, IndexerTypeOK
    <3> QED BY <2>1, <3>1
  <2>6. ASSUME x \in overtaken[p] PROVE Sound(x)
    BY <1>3, <2>5, <2>6, Zenon DEF Overtakes
  <2> HIDE DEF o
  <2>7. ASSUME NEW t \in Transfers PROVE Sound(t)
    <3>1. store[t] \in Records
      BY <1>1, Zenon DEF IndexerTypeOK
    <3>2. store'[t] = store[t] \/ (t = x /\ store'[t] = Updated(snapshot[p][t], o))
      BY <1>1, <2>1, <2>4, Zenon DEF Write, IndexerTypeOK
    <3>3. CASE store'[t] = store[t]
      BY <3>1, <3>3, StayingIsForward, Zenon
    <3>4. CASE t = x /\ store'[t] = Updated(snapshot[p][t], o)
      BY <2>3, <2>6, <3>4, Zenon
    <3> QED BY <3>2, <3>3, <3>4
  <2> QED BY <2>7
<1>4. \A t \in Transfers : (SourceMined(t) => UNCHANGED store) /\ (Progress(t) => UNCHANGED store)
  BY Zenon DEF SourceMined, Progress
<1>5. \A p \in Passes : (StartPass(p) => UNCHANGED store) /\ (ObserveFails(p) => UNCHANGED store)
  BY Zenon DEF StartPass, ObserveFails
<1>6. UNCHANGED indexerVars => UNCHANGED store
  BY Zenon DEF indexerVars
<1> HIDE DEF Sound
<1>7. \A t \in Transfers : Sound(t)
  BY <1>2, <1>3, <1>4, <1>5, <1>6, IndexerStepCases, Zenon
<1> QED BY <1>7, Zenon DEF Sound

\* For any transfers and any number of overlapping passes: a status moves back,
\* or a message id is forgotten, only by a write of a record that another pass
\* has written since it was taken (trackPending, track).
THEOREM OvertakenTheorem == IndexerSpec => OnlyOvertakenRegress
<1>1. IndexerInit => FreshInv
  BY FreshInit
<1>2. FreshInv /\ [IndexerNext]_indexerVars => FreshInv'
  BY FreshStep
<1>3. FreshInv /\ [IndexerNext]_indexerVars =>
        [\A t \in Transfers :
            Regresses(t) => \E p \in Passes : /\ todo[p] # {} /\ todo'[p] # todo[p]
                                             /\ Observed(p) = t /\ t \in overtaken[p]]_indexerVars
  BY ForwardStep, Zenon DEF Forward, Regresses, Overtakes
<1> QED BY <1>1, <1>2, <1>3, PTL DEF IndexerSpec, OnlyOvertakenRegress
----------------------------------------------------------------------------
(* The check of the registry.                                              *)

Requests == {"reach", "chain id", "block", "domain", "done"}

Said == {"skipped", "unreachable", "unverified", "ok", "mismatch"}

RegistryTypeOK ==
    /\ turn \in Nat \ {0}
    /\ step \in [Chain -> Requests]
    /\ endpoint \in [Chain -> Nat]
    /\ lines \in [Chain -> SUBSET Said]
    /\ failed \in BOOLEAN

\* The lines of a chain, by how far its requests have come.
LinesTrue(c) ==
    /\ step[c] \in {"reach", "chain id", "block"} => lines[c] = {}
    /\ step[c] = "domain" => c \in Mailboxed /\ lines[c] = {IdLine(c)}
    /\ step[c] = "done" =>
          \/ lines[c] \in {{"skipped"}, {"unreachable"}}
          \/ c \in Mailboxed /\ lines[c] \in {{IdLine(c), DomainLine(c)}, {IdLine(c), "unreachable"}}
          \/ c \notin Mailboxed /\ lines[c] = {IdLine(c), PendingLine(c)}

\* The environments before the one being checked are done, and the check has
\* failed if one of their chains disagrees.
PastCounted ==
    /\ \A j \in DOMAIN Checked : j < turn => \A c \in ChainsOf[Checked[j]] : step[c] = "done"
    /\ failed <=> \E j \in DOMAIN Checked : j < turn /\ Disagree(Checked[j])
    /\ verdict \in {"OK", "disagrees"} => turn > Len(Checked) /\ (verdict = "OK" <=> ~failed)

RegistryInv ==
    /\ RegistryTypeOK
    /\ \A c \in Chain : LinesTrue(c)
    /\ PastCounted

LEMMA CheckedChains ==
    ASSUME NEW j \in DOMAIN Checked
    PROVE  ChainsOf[Checked[j]] \subseteq Chain
<1>1. Checked[j] \in DOMAIN ChainsOf
  BY LiveCheckAssumption
<1> QED BY <1>1, Zenon DEF Chain

LEMMA RegistryBegins ==
    ASSUME RegistryInit
    PROVE  RegistryInv
<1>1. RegistryTypeOK
  <2>1. 1 \in Nat \ {0} /\ 1 \in Nat
    BY SMT
  <2>2. failed \in BOOLEAN /\ endpoint \in [Chain -> Nat]
    BY <2>1, Zenon DEF RegistryInit
  <2>3. step \in [Chain -> Requests] /\ lines \in [Chain -> SUBSET Said]
    BY Zenon DEF RegistryInit, Requests
  <2> QED BY <2>1, <2>2, <2>3, Zenon DEF RegistryInit, RegistryTypeOK
<1>2. \A c \in Chain : LinesTrue(c)
  BY DEF RegistryInit, LinesTrue
<1>3. \A j \in DOMAIN Checked : ~(j < turn)
  BY LiveCheckAssumption DEF RegistryInit
<1>4. failed = FALSE /\ verdict \notin {"OK", "disagrees"}
  BY LiveCheckAssumption DEF RegistryInit
<1> QED BY <1>1, <1>2, <1>3, <1>4, Zenon DEF RegistryInv, PastCounted

\* A request that is answered, or not, moves one chain of the environment
\* being checked, which is not done: nothing that was counted changes.
LEMMA OneChainMoves ==
    ASSUME RegistryInv, NEW c \in Chain, NEW request \in Requests \ {"done"}, Awaits(c, request),
           NEW next \in Requests, NEW said \in SUBSET Said, Moves(c, next, said),
           \/ UNCHANGED endpoint
           \/ endpoint' = [endpoint EXCEPT ![c] = @ + 1],
           LinesTrue(c)'
    PROVE  RegistryInv'
<1>1. RegistryTypeOK
  BY DEF RegistryInv
<1>2. RegistryTypeOK'
  BY <1>1 DEF RegistryTypeOK, Moves
<1>3. \A d \in Chain : d # c => step'[d] = step[d] /\ lines'[d] = lines[d] /\ endpoint'[d] = endpoint[d]
  BY <1>1 DEF RegistryTypeOK, Moves
<1>4. \A d \in Chain : LinesTrue(d)'
  <2>1. ASSUME NEW d \in Chain, d # c PROVE LinesTrue(d)'
    <3>1. LinesTrue(d)
      BY DEF RegistryInv
    <3>2. step'[d] = step[d] /\ lines'[d] = lines[d] /\ endpoint'[d] = endpoint[d]
      BY <1>3, <2>1
    <3> QED BY <3>1, <3>2, Zenon DEF LinesTrue, IdLine, DomainLine, PendingLine, Live
  <2> QED BY <2>1
<1>5. step[c] # "done"
  BY DEF Awaits
<1>6. UNCHANGED <<turn, failed, verdict>>
  BY DEF Moves
<1>7. \A j \in DOMAIN Checked : j < turn => \A d \in ChainsOf[Checked[j]] :
         step'[d] = "done" /\ lines'[d] = lines[d]
  BY <1>3, <1>5, CheckedChains, Zenon DEF RegistryInv, PastCounted
<1>8. \A j \in DOMAIN Checked : j < turn => (Disagree(Checked[j])' <=> Disagree(Checked[j]))
  BY <1>7, Zenon DEF Disagree
<1>9. PastCounted'
  BY <1>6, <1>7, <1>8, Zenon DEF RegistryInv, PastCounted
<1> QED BY <1>2, <1>4, <1>9 DEF RegistryInv

\* One more environment is counted.
LEMMA EnvironmentCounted ==
    ASSUME RegistryInv, EnvironmentDone
    PROVE  RegistryInv'
<1>1. RegistryTypeOK /\ PastCounted /\ Len(Checked) \in Nat /\ DOMAIN Checked = 1..Len(Checked)
  BY LiveCheckAssumption DEF RegistryInv
<1>2. UNCHANGED <<step, endpoint, lines>> /\ turn' = turn + 1 /\ turn \in DOMAIN Checked
  BY <1>1 DEF EnvironmentDone, RegistryTypeOK
<1>3. \A j \in DOMAIN Checked : j < turn' <=> j < turn \/ j = turn
  BY <1>1, <1>2 DEF RegistryTypeOK
<1>4. failed' = (failed \/ Disagree(Checked[turn])) /\ \A c \in ChainsOf[Checked[turn]] : step[c] = "done"
  BY Zenon DEF EnvironmentDone, Reports
<1>5. RegistryTypeOK'
  <2>1. failed' \in BOOLEAN
    BY <1>1, <1>4, Zenon DEF RegistryTypeOK, Disagree
  <2>2. turn' \in Nat \ {0}
    BY <1>1, <1>2 DEF RegistryTypeOK
  <2> QED BY <1>1, <1>2, <2>1, <2>2, Zenon DEF RegistryTypeOK
<1>6. \A c \in Chain : LinesTrue(c)'
  BY <1>2, Zenon DEF RegistryInv, LinesTrue, IdLine, DomainLine, PendingLine, Live
<1>7. \A j \in DOMAIN Checked : Disagree(Checked[j])' <=> Disagree(Checked[j])
  BY <1>2, Zenon DEF Disagree
<1>8. \A j \in DOMAIN Checked : j < turn' => \A c \in ChainsOf[Checked[j]] : step'[c] = "done"
  BY <1>1, <1>2, <1>3, <1>4, Zenon DEF PastCounted
<1>9. failed' <=> \E j \in DOMAIN Checked : j < turn' /\ Disagree(Checked[j])'
  BY <1>1, <1>2, <1>3, <1>4, <1>7, Zenon DEF PastCounted
<1>10. verdict' \in {"OK", "disagrees"} => turn' > Len(Checked) /\ (verdict' = "OK" <=> ~failed')
  <2>1. verdict' = IF turn < Len(Checked) THEN Nobody ELSE IF failed' THEN "disagrees" ELSE "OK"
    BY Zenon DEF EnvironmentDone
  <2>2. CASE turn < Len(Checked)
    BY <2>1, <2>2, LiveCheckAssumption, Zenon
  <2>3. CASE ~(turn < Len(Checked))
    <3>1. turn' > Len(Checked)
      BY <1>1, <1>2, <2>3 DEF RegistryTypeOK
    <3>2. "OK" # "disagrees"
      OBVIOUS
    <3> QED BY <2>1, <2>3, <3>1, <3>2, Zenon
  <2> QED BY <2>2, <2>3
<1> QED BY <1>5, <1>6, <1>8, <1>9, <1>10, Zenon DEF RegistryInv, PastCounted

LEMMA RegistrySteps ==
    ASSUME RegistryInv, [RegistryNext]_registryVars
    PROVE  RegistryInv'
<1>1. ASSUME NEW c \in Chain, NoEndpoint(c) PROVE RegistryInv'
  <2>1. Awaits(c, "reach") /\ Moves(c, "done", {"skipped"}) /\ UNCHANGED endpoint
    BY <1>1 DEF NoEndpoint
  <2>2. LinesTrue(c)'
    BY <2>1 DEF LinesTrue, Awaits, Moves, RegistryInv, RegistryTypeOK
  <2> QED BY <2>1, <2>2, OneChainMoves DEF Requests, Said
<1>2. ASSUME NEW c \in Chain, Reached(c) PROVE RegistryInv'
  <2>1. CASE Moves(c, "chain id", {}) /\ UNCHANGED endpoint
    <3>1. Awaits(c, "reach")
      BY <1>2 DEF Reached
    <3>2. LinesTrue(c)'
      BY <2>1, <3>1 DEF LinesTrue, Awaits, Moves, RegistryInv, RegistryTypeOK
    <3> QED BY <2>1, <3>1, <3>2, {} \in SUBSET Said, OneChainMoves DEF Requests
  <2>2. CASE Moves(c, "done", {"unreachable"}) /\ endpoint' = [endpoint EXCEPT ![c] = @ + 1]
    <3>1. Awaits(c, "reach")
      BY <1>2 DEF Reached
    <3>2. LinesTrue(c)'
      BY <2>2, <3>1 DEF LinesTrue, Awaits, Moves, RegistryInv, RegistryTypeOK
    <3> QED BY <2>2, <3>1, <3>2, OneChainMoves DEF Requests, Said
  <2>3. CASE Moves(c, "reach", {}) /\ endpoint' = [endpoint EXCEPT ![c] = @ + 1]
    <3>1. Awaits(c, "reach")
      BY <1>2 DEF Reached
    <3>2. LinesTrue(c)'
      BY <2>3, <3>1 DEF LinesTrue, Awaits, Moves, RegistryInv, RegistryTypeOK
    <3> QED BY <2>3, <3>1, <3>2, {} \in SUBSET Said, OneChainMoves DEF Requests
  <2> QED BY <1>2, <2>1, <2>2, <2>3, Zenon DEF Reached
<1>3. ASSUME NEW c \in Chain, ReadChainId(c) PROVE RegistryInv'
  <2>1. Awaits(c, "chain id") /\ UNCHANGED endpoint
        /\ (Moves(c, "block", {}) \/ Moves(c, "done", {"unreachable"}))
    BY <1>3 DEF ReadChainId
  <2>2. step[c] = "chain id" /\ lines[c] = {}
    BY <2>1, Zenon DEF Awaits, RegistryInv, LinesTrue
  <2>3. \/ step'[c] = "block" /\ lines'[c] = {}
        \/ step'[c] = "done" /\ lines'[c] = {"unreachable"}
    BY <2>1, <2>2 DEF Moves, RegistryInv, RegistryTypeOK
  <2>4. LinesTrue(c)'
    BY <2>3 DEF LinesTrue
  <2> QED BY <2>1, <2>4, OneChainMoves DEF Requests, Said
<1>4. ASSUME NEW c \in Chain, ReadBlock(c) PROVE RegistryInv'
  <2> DEFINE id == IdLine(c)
             pending == PendingLine(c)
  <2>1. Awaits(c, "block") /\ UNCHANGED endpoint
        /\ \/ Moves(c, "done", {"unreachable"})
           \/ c \in Mailboxed /\ Moves(c, "domain", {id})
           \/ c \notin Mailboxed /\ Moves(c, "done", {id, pending})
    BY <1>4 DEF ReadBlock
  <2>2. id \in Said /\ pending \in Said
    BY DEF IdLine, PendingLine, Said
  <2>3. IdLine(c)' = id /\ PendingLine(c)' = pending
    BY <2>1 DEF IdLine, PendingLine, Live
  <2> HIDE DEF id, pending
  <2>4. lines[c] = {}
    BY <2>1, Zenon DEF Awaits, RegistryInv, LinesTrue
  <2>5. \/ step'[c] = "done" /\ lines'[c] = {"unreachable"}
        \/ c \in Mailboxed /\ step'[c] = "domain" /\ lines'[c] = {id}
        \/ c \notin Mailboxed /\ step'[c] = "done" /\ lines'[c] = {id, pending}
    BY <2>1, <2>4 DEF Moves, RegistryInv, RegistryTypeOK
  <2>6. LinesTrue(c)'
    BY <2>3, <2>5 DEF LinesTrue
  <2> QED BY <2>1, <2>2, <2>6, OneChainMoves DEF Requests, Said
<1>5. ASSUME NEW c \in Chain, ReadDomain(c) PROVE RegistryInv'
  <2> DEFINE id == IdLine(c)
  <2>1. PICK line \in {DomainLine(c), "unreachable"} : Moves(c, "done", {line})
    BY <1>5 DEF ReadDomain
  <2>2. Awaits(c, "domain") /\ UNCHANGED endpoint
    BY <1>5 DEF ReadDomain
  <2>3. {line} \in SUBSET Said
    BY DEF DomainLine, Said
  <2>4. IdLine(c)' = id /\ DomainLine(c)' = DomainLine(c)
    BY <2>2 DEF IdLine, DomainLine, Live
  <2>5. step'[c] = "done" /\ lines'[c] = lines[c] \cup {line} /\ step[c] = "domain" /\ LinesTrue(c)
    BY <2>1, <2>2 DEF Awaits, Moves, RegistryInv, RegistryTypeOK
  <2>6. c \in Mailboxed /\ lines[c] = {id}
    BY <2>5 DEF LinesTrue
  <2> HIDE DEF id
  <2>7. LinesTrue(c)'
    BY <2>4, <2>5, <2>6 DEF LinesTrue
  <2> QED BY <2>1, <2>2, <2>3, <2>7, OneChainMoves DEF Requests
<1>6. CASE EnvironmentDone
  BY <1>6, EnvironmentCounted
<1>7. CASE ArtifactsFail
  <2>1. UNCHANGED <<turn, step, endpoint, lines, failed>> /\ verdict' \notin {"OK", "disagrees"}
    BY <1>7 DEF ArtifactsFail
  <2>2. RegistryTypeOK' /\ \A c \in Chain : LinesTrue(c)'
    BY <2>1, Zenon DEF RegistryInv, RegistryTypeOK, LinesTrue, IdLine, DomainLine, PendingLine, Live
  <2> QED BY <2>1, <2>2, Zenon DEF RegistryInv, PastCounted, Disagree
<1>8. CASE UNCHANGED registryVars
  BY <1>8, Zenon DEF registryVars, RegistryInv, RegistryTypeOK, LinesTrue, IdLine, DomainLine,
                     PendingLine, Live, PastCounted, Disagree
<1> QED BY <1>1, <1>2, <1>3, <1>4, <1>5, <1>6, <1>7, <1>8, Zenon DEF RegistryNext
----------------------------------------------------------------------------
(* The monitor.                                                            *)

MonitorInv ==
    /\ worst \in 0..2
    /\ worst = 2 <=> "critical" \in read
    /\ exit # Nobody => (exit = 1 <=> worst = 2)

LEMMA MonitorSteps ==
    ASSUME MonitorInv, [MonitorNext]_monitorVars
    PROVE  MonitorInv'
<1>1. CASE ReadPrice
  BY <1>1, Zenon DEF ReadPrice, MonitorInv
<1>2. CASE ReadBalance
  <2>1. CASE UNCHANGED <<read, worst, exit>>
    BY <2>1, Zenon DEF MonitorInv
  <2>2. ASSUME NEW b \in Balances, NEW level, level = Level(Agents[at.agent], b),
               read' = read \cup {level}, worst' = Worse(level), UNCHANGED exit
        PROVE  MonitorInv'
    <3>1. level \in {"ok", "warning", "critical"}
      BY <2>2, Zenon DEF Level
    <3>2. worst' = IF level = "critical" THEN 2
                   ELSE IF level = "warning" /\ worst \in {0, 1} THEN 1 ELSE worst
      BY <2>2, <3>1 DEF Worse, MonitorInv
    <3>3. worst' \in 0..2 /\ (worst' = 2 <=> worst = 2 \/ level = "critical")
      BY <3>2 DEF MonitorInv
    <3>4. exit = Nobody
      BY <1>2 DEF ReadBalance, Running
    <3> QED BY <2>2, <3>3, <3>4, Zenon DEF MonitorInv
  <2> QED BY <1>2, <2>1, <2>2, Zenon DEF ReadBalance
<1>3. CASE MonitorExits
  <2>1. (exit' = 1 <=> worst = 2) /\ UNCHANGED <<worst, read>>
    BY <1>3 DEF MonitorExits
  <2> QED BY <2>1, Zenon DEF MonitorInv
<1>4. CASE UNCHANGED monitorVars
  BY <1>4, Zenon DEF monitorVars, MonitorInv
<1> QED BY <1>1, <1>2, <1>3, <1>4, Zenon DEF MonitorNext

\* Both scripts' verdicts are those of the answers that came, for any chains,
\* endpoints, agents and limits, whatever requests fail and in whatever order
\* the chains of an environment answer (checkChain, main, check-agent-balances).
THEOREM VerdictTheorem == LiveCheckSpec => []VerdictsAreFounded
<1> DEFINE next == \/ RegistryNext /\ UNCHANGED monitorVars
                   \/ MonitorNext /\ UNCHANGED registryVars
<1>1. RegistryInit /\ MonitorInit => RegistryInv /\ MonitorInv
  BY RegistryBegins DEF MonitorInit, MonitorInv
<1>2. RegistryInv /\ MonitorInv /\ [next]_<<registryVars, monitorVars>> => RegistryInv' /\ MonitorInv'
  BY RegistrySteps, MonitorSteps, Zenon
<1>3. ASSUME RegistryInv, MonitorInv PROVE VerdictsAreFounded
  <2>1. ASSUME verdict \in {"OK", "disagrees"}, NEW i \in DOMAIN Checked, NEW c \in ChainsOf[Checked[i]]
        PROVE  "mismatch" \notin lines[c] <=>
                 /\ lines[c] \cap {"ok", "mismatch"} # {} => Registered[c].id = Live(c).id
                 /\ (c \in Mailboxed /\ lines[c] \cap {"ok", "mismatch"} # {} /\ "unreachable" \notin lines[c])
                       => Registered[c].domain = Live(c).domain
    <3>1. turn > Len(Checked) /\ RegistryTypeOK
      BY <1>3, <2>1, Zenon DEF RegistryInv, PastCounted
    <3>2. i < turn
      BY <2>1, <3>1, LiveCheckAssumption DEF RegistryTypeOK
    <3>3. step[c] = "done" /\ c \in Chain
      BY <1>3, <2>1, <3>2, CheckedChains, Zenon DEF RegistryInv, PastCounted
    <3>4. \/ lines[c] \in {{"skipped"}, {"unreachable"}}
          \/ c \in Mailboxed /\ lines[c] \in {{IdLine(c), DomainLine(c)}, {IdLine(c), "unreachable"}}
          \/ c \notin Mailboxed /\ lines[c] = {IdLine(c), PendingLine(c)}
      BY <1>3, <3>3, Zenon DEF RegistryInv, LinesTrue
    <3> QED BY <3>4 DEF IdLine, DomainLine, PendingLine
  <2>2. ASSUME verdict \in {"OK", "disagrees"}
        PROVE  verdict = "OK" <=> \A i \in DOMAIN Checked : \A c \in ChainsOf[Checked[i]] : "mismatch" \notin lines[c]
    <3>1. turn > Len(Checked) /\ RegistryTypeOK /\ (verdict = "OK" <=> ~failed)
      BY <1>3, <2>2, Zenon DEF RegistryInv, PastCounted
    <3>2. \A i \in DOMAIN Checked : i < turn
      BY <3>1, LiveCheckAssumption DEF RegistryTypeOK
    <3> QED BY <1>3, <3>1, <3>2, Zenon DEF RegistryInv, PastCounted, Disagree
  <2>3. exit # Nobody => (exit = 1 <=> "critical" \in read)
    BY <1>3, Zenon DEF MonitorInv
  <2> QED BY <2>1, <2>2, <2>3, Zenon DEF VerdictsAreFounded
<1> QED BY <1>1, <1>2, <1>3, PTL DEF LiveCheckSpec
=============================================================================
