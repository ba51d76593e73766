---------------------------- MODULE RateLimiter ----------------------------
(***************************************************************************)
(* ArkBridgeRateLimiter: per-route transfer limits.  Every directed route  *)
(* has a cap per transaction and two token buckets, an hourly and a daily  *)
(* one, that refill linearly with the block timestamp.  Amounts are        *)
(* uint256: a projection whose product leaves that range reverts.          *)
(*                                                                         *)
(* The variable "window" is an observer, not contract storage: it measures *)
(* what a route moved since an arbitrary moment, which is what INV-11      *)
(* ("aggregate limits cannot be bypassed by splitting") is about.          *)
(***************************************************************************)
EXTENDS Integers

CONSTANTS
    Routes,        \* route identifiers (bytes32 in the contract)
    Amounts,       \* the transfer amounts tried
    LimitChoices,  \* the limit triples an operator may pass to setLimits
    HOUR,          \* length of the hourly window, 1 hours in the contract
    DAY,           \* length of the daily window, 1 days in the contract
    MaxUint,       \* largest uint256
    MaxTime        \* bound on the block timestamp

LimitRecords == [maxPerTransaction: Nat, maxHourly: Nat, maxDaily: Nat]

ASSUME LimiterAssumption ==
    /\ Amounts \subseteq Nat
    /\ LimitChoices \subseteq LimitRecords
    /\ HOUR \in Nat \ {0}
    /\ DAY \in Nat \ {0}
    /\ MaxUint \in Nat
    /\ MaxTime \in Nat

VARIABLES
    limits,  \* limits[r]: the configured RouteLimits, all zero when unset
    hourly,  \* hourly[r]: the hourly Bucket of r
    daily,   \* daily[r]: the daily Bucket of r
    now,     \* block.timestamp
    window   \* observer: what r moved since window[r].since, and its peak caps

limiterVars == <<limits, hourly, daily, now, window>>
----------------------------------------------------------------------------
NoLimits == [maxPerTransaction |-> 0, maxHourly |-> 0, maxDaily |-> 0]
EmptyBucket == [available |-> 0, updatedAt |-> 0]
Lesser(a, b) == IF a <= b THEN a ELSE b
Greater(a, b) == IF a >= b THEN a ELSE b

\* A route whose daily cap is zero has never been configured.
Configured(r) == limits[r].maxDaily # 0

ValidLimits(l) ==
    /\ l.maxPerTransaction # 0
    /\ l.maxHourly # 0
    /\ l.maxDaily # 0
    /\ l.maxPerTransaction <= l.maxHourly
    /\ l.maxHourly <= l.maxDaily

Elapsed(b) == now - b.updatedAt

\* What a bucket has earned back since it was last settled, rounded down.
Refill(b, capacity, period) == (capacity * Elapsed(b)) \div period

\* The bucket's contents as of now, without writing.
Projected(b, capacity, period) ==
    IF b.available >= capacity \/ Elapsed(b) >= period
      THEN capacity
      ELSE Lesser(capacity, b.available + Refill(b, capacity, period))

\* Checked arithmetic: the projection reverts when an intermediate value does
\* not fit.  A full or fully refilled bucket takes the early return instead.
ProjectionReverts(b, capacity, period) ==
    /\ b.available < capacity
    /\ Elapsed(b) > 0
    /\ Elapsed(b) < period
    /\ \/ capacity * Elapsed(b) > MaxUint
       \/ b.available + Refill(b, capacity, period) > MaxUint

SettleReverts(r, l) ==
    \/ ProjectionReverts(hourly[r], l.maxHourly, HOUR)
    \/ ProjectionReverts(daily[r], l.maxDaily, DAY)

Settled(b, capacity, period) ==
    [available |-> Projected(b, capacity, period), updatedAt |-> now]

\* Mutant of SettleLimits: settles at the rate in force until now.
SettleAtOldLimits(old, new) == old

\* The limits a settle reads.  setLimits stores the new limits before it
\* settles, so the elapsed time is credited at the NEW rate.
SettleLimits(old, new) == new

\* setLimits on a configured route: settle, then clamp to the new capacity.
Resettled(b, settleCap, newCap, period) ==
    LET s == Settled(b, settleCap, period)
    IN  [s EXCEPT !.available = Lesser(s.available, newCap)]

----------------------------------------------------------------------------
\* The observer, which remembers the largest caps in force during its window.
OpenedWindow(l) ==
    [since |-> now, moved |-> 0, peakHourly |-> l.maxHourly, peakDaily |-> l.maxDaily]

RaisedWindow(w, l) ==
    [w EXCEPT !.peakHourly = Greater(@, l.maxHourly),
              !.peakDaily  = Greater(@, l.maxDaily)]

LimiterInit ==
    /\ limits = [r \in Routes |-> NoLimits]
    /\ hourly = [r \in Routes |-> EmptyBucket]
    /\ daily = [r \in Routes |-> EmptyBucket]
    /\ now = 0
    /\ window = [r \in Routes |-> [since |-> 0, moved |-> 0, peakHourly |-> 0, peakDaily |-> 0]]

\* setLimits, first call for a route: both buckets start full.
FirstLimits(r, l) ==
    /\ ValidLimits(l)
    /\ ~Configured(r)
    /\ limits' = [limits EXCEPT ![r] = l]
    /\ hourly' = [hourly EXCEPT ![r] = [available |-> l.maxHourly, updatedAt |-> now]]
    /\ daily' = [daily EXCEPT ![r] = [available |-> l.maxDaily, updatedAt |-> now]]
    /\ window' = [window EXCEPT ![r] = RaisedWindow(@, l)]
    /\ UNCHANGED now

\* setLimits on a configured route.
Reconfigure(r, l) ==
    LET s == SettleLimits(limits[r], l)
    IN  /\ ValidLimits(l)
        /\ Configured(r)
        /\ ~SettleReverts(r, s)
        /\ limits' = [limits EXCEPT ![r] = l]
        /\ hourly' = [hourly EXCEPT ![r] = Resettled(@, s.maxHourly, l.maxHourly, HOUR)]
        /\ daily' = [daily EXCEPT ![r] = Resettled(@, s.maxDaily, l.maxDaily, DAY)]
        /\ window' = [window EXCEPT ![r] = RaisedWindow(@, l)]
        /\ UNCHANGED now

\* The checks of consume, in the order the contract makes them.
ConsumeAccepts(r, amount) ==
    /\ Configured(r)
    /\ amount <= limits[r].maxPerTransaction
    /\ ~SettleReverts(r, limits[r])
    /\ amount <= Projected(hourly[r], limits[r].maxHourly, HOUR)
    /\ amount <= Projected(daily[r], limits[r].maxDaily, DAY)

\* Mutant of Spent: the settlement is not timestamped.
SpentUnstamped(b, capacity, period, amount) ==
    [b EXCEPT !.available = Projected(b, capacity, period) - amount]

Spent(b, capacity, period, amount) ==
    LET s == Settled(b, capacity, period)
    IN  [s EXCEPT !.available = @ - amount]

Consume(r, amount) ==
    /\ ConsumeAccepts(r, amount)
    /\ hourly' = [hourly EXCEPT ![r] = Spent(@, limits[r].maxHourly, HOUR, amount)]
    /\ daily' = [daily EXCEPT ![r] = Spent(@, limits[r].maxDaily, DAY, amount)]
    /\ window' = [window EXCEPT ![r].moved = @ + amount]
    /\ UNCHANGED <<limits, now>>

\* The next block: its timestamp is larger.
Tick ==
    /\ now < MaxTime
    /\ now' = now + 1
    /\ UNCHANGED <<limits, hourly, daily, window>>

\* The observer starts measuring r from this moment on.
OpenWindow(r) ==
    /\ window' = [window EXCEPT ![r] = OpenedWindow(limits[r])]
    /\ UNCHANGED <<limits, hourly, daily, now>>

LimiterNext ==
    \/ \E r \in Routes, l \in LimitChoices : FirstLimits(r, l)
    \/ \E r \in Routes, l \in LimitChoices : Reconfigure(r, l)
    \/ \E r \in Routes, a \in Amounts : Consume(r, a)
    \/ \E r \in Routes : OpenWindow(r)
    \/ Tick

LimiterSpec == LimiterInit /\ [][LimiterNext]_limiterVars
----------------------------------------------------------------------------
\* available(): the largest transfer the route would accept right now.
AvailableReverts(r) == Configured(r) /\ SettleReverts(r, limits[r])

Available(r) ==
    IF Configured(r)
      THEN Lesser(limits[r].maxPerTransaction,
                  Lesser(Projected(hourly[r], limits[r].maxHourly, HOUR),
                         Projected(daily[r], limits[r].maxDaily, DAY)))
      ELSE 0
----------------------------------------------------------------------------
BucketRecords == [available: Nat, updatedAt: Nat]
WindowRecords == [since: Nat, moved: Nat, peakHourly: Nat, peakDaily: Nat]

\* Types, and what the storage may hold at all: no bucket is negative or above
\* its capacity, no bucket was settled in the future, and limits are either
\* unset or ordered per-transaction <= hourly <= daily.
LimiterTypeOK ==
    /\ limits \in [Routes -> LimitRecords]
    /\ hourly \in [Routes -> BucketRecords]
    /\ daily \in [Routes -> BucketRecords]
    /\ window \in [Routes -> WindowRecords]
    /\ now \in Nat
    /\ \A r \in Routes :
          /\ limits[r] = NoLimits \/ ValidLimits(limits[r])
          /\ hourly[r].available <= limits[r].maxHourly
          /\ daily[r].available <= limits[r].maxDaily
          /\ hourly[r].updatedAt <= now
          /\ daily[r].updatedAt <= now
          /\ window[r].since <= now

\* INV-11 for one window: since any moment, a route moves at most the largest
\* cap then in force plus what that cap refills over the elapsed time.
Bounded(moved, peak, elapsed, period) == period * moved <= peak * (period + elapsed)

\* INV-11, hourly and daily: however a transfer is split, however time advances
\* and however often the limits are raised or lowered in between (setLimits on
\* a live route must not wash consumption away).
AggregateLimitHolds ==
    \A r \in Routes :
        LET w == window[r]
        IN  /\ Bounded(w.moved, w.peakHourly, now - w.since, HOUR)
            /\ Bounded(w.moved, w.peakDaily, now - w.since, DAY)

\* The capacity shown to users is exact: an amount is accepted by consume if
\* and only if available() covers it, at every moment and for every limit that
\* binds (per transaction, hourly, daily), and available() reverts only when
\* consume would.
AdvertisedIsAccepted ==
    \A r \in Routes, a \in Amounts :
        ConsumeAccepts(r, a)
            <=> Configured(r) /\ ~AvailableReverts(r) /\ a <= Available(r)

\* The way out of an oversized limit: a route whose projection overflows can
\* always be given limits whose daily product fits, because setLimits settles
\* with the limits being set.
SmallLimitsAlwaysSettable ==
    \A r \in Routes, l \in LimitChoices :
        ValidLimits(l) /\ 2 * l.maxDaily * Greater(HOUR, DAY) <= MaxUint
            => ~SettleReverts(r, SettleLimits(limits[r], l))

\* What a bucket holds after a step, against what it held: no more than it had
\* to offer if its cap is not raised, and in no case more than it held when it
\* was last settled plus what the cap now in force refills since then.
EarnsNoMore(b, c, old, new, period) ==
    /\ new <= old => c.available <= Projected(b, old, period)
    /\ period * c.available <= period * b.available + new * Elapsed(b)

\* Setting limits gives nothing back that was consumed, at whatever moment: a
\* bucket whose cap stays or falls offers no more than before, and one whose
\* cap is raised is not filled up but credited with the time since its last
\* settlement, at the new rate - nothing at all if no time has passed.
ReconfiguringDoesNotRefill ==
    [][\A r \in Routes :
         Configured(r)
           => /\ EarnsNoMore(hourly[r], hourly'[r], limits[r].maxHourly, limits'[r].maxHourly, HOUR)
              /\ EarnsNoMore(daily[r], daily'[r], limits[r].maxDaily, limits'[r].maxDaily, DAY)]_limiterVars
=============================================================================
