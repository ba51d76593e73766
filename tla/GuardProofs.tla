---------------------------- MODULE GuardProofs ----------------------------
(***************************************************************************)
(* Proofs about RateLimiter and Guard for all routes, tokens, domains,     *)
(* callers, limits and amounts and every length of the two windows.  First *)
(* the limiter alone.  The guard implements it, so what is proved of the   *)
(* limiter holds of the guard under every interleaving with registrations, *)
(* pauses and caller changes; and it implements the gate, so what is       *)
(* proved of a bridge between such gates holds of one between guards.      *)
(***************************************************************************)
EXTENDS Guard, TLAPS
-----------------------------------------------------------------------------
(* The limiter.                                                            *)

\* Floor division by a positive number, multiplied back, never gains.
LEMMA FloorLoses ==
    ASSUME NEW n \in Nat, NEW p \in Nat \ {0}
    PROVE  /\ n \div p \in Nat
           /\ p * (n \div p) <= n
  BY SMTT(30)

\* The products the arithmetic below needs, one fact each.
LEMMA ProductIsNat ==
    ASSUME NEW a \in Nat, NEW b \in Nat
    PROVE  a * b \in Nat
  OBVIOUS

LEMMA ProductMonotone ==
    ASSUME NEW a \in Nat, NEW b \in Nat, NEW c \in Nat, a <= b
    PROVE  a * c <= b * c
  BY SMTT(30)

LEMMA ProductDistributes ==
    ASSUME NEW a \in Int, NEW b \in Int, NEW c \in Int
    PROVE  a * (b + c) = a * b + a * c
  BY SMTT(30)

LEMMA ProductCommutes ==
    ASSUME NEW a \in Int, NEW b \in Int
    PROVE  a * b = b * a
  BY SMTT(30)

\* What settling a bucket yields: never more than the capacity, and never more
\* than what it held plus the capacity's refill over the elapsed time.
LEMMA ProjectedBound ==
    ASSUME NEW b \in BucketRecords, NEW cap \in Nat, NEW p \in Nat \ {0},
           now \in Nat, b.updatedAt <= now
    PROVE  /\ Projected(b, cap, p) \in Nat
           /\ Projected(b, cap, p) <= cap
           /\ p * Projected(b, cap, p) <= p * b.available + cap * (now - b.updatedAt)
  <1> DEFINE e == now - b.updatedAt
             n == cap * e
             q == n \div p
  <1>1. e \in Nat /\ b.available \in Nat
    BY DEF BucketRecords
  <1>2. n \in Nat
    BY <1>1, ProductIsNat
  <1>3. q \in Nat /\ p * q <= n
    BY <1>2, FloorLoses
  <1> HIDE DEF n, q
  <1>4. Projected(b, cap, p) = IF b.available >= cap \/ e >= p
                                 THEN cap
                                 ELSE Lesser(cap, b.available + q)
    BY DEF Projected, Refill, Elapsed, n, q
  <1>5. p * b.available \in Nat /\ p * cap \in Nat
    BY <1>1, ProductIsNat
  <1>6. CASE b.available >= cap
    <2>1. p * cap <= p * b.available
      BY <1>1, <1>6, ProductMonotone, ProductCommutes
    <2> QED  BY <1>2, <1>4, <1>5, <1>6, <2>1 DEF n
  <1>7. CASE b.available < cap /\ e >= p
    <2>1. p * cap <= n
      <3>1. p * cap <= e * cap
        BY <1>1, <1>7, ProductMonotone
      <3> QED  BY <3>1, <1>1, ProductCommutes DEF n
    <2> QED  BY <1>1, <1>2, <1>4, <1>5, <1>7, <2>1 DEF n
  <1>8. CASE b.available < cap /\ e < p
    <2> DEFINE x == Lesser(cap, b.available + q)
    <2>1. x \in Nat /\ x <= cap /\ x <= b.available + q
      BY <1>1, <1>3 DEF Lesser
    <2>2. Projected(b, cap, p) = x
      BY <1>1, <1>4, <1>8
    <2> HIDE DEF x
    <2>3. p * x <= p * (b.available + q)
      BY <1>1, <1>3, <2>1, ProductMonotone, ProductCommutes
    <2>4. p * (b.available + q) = p * b.available + p * q
      BY <1>1, <1>3, ProductDistributes
    <2>5. p * x \in Nat /\ p * q \in Nat
      BY <1>3, <2>1, ProductIsNat
    <2> QED  BY <1>2, <1>3, <1>5, <2>1, <2>2, <2>3, <2>4, <2>5 DEF n
  <1> QED  BY <1>1, <1>6, <1>7, <1>8

----------------------------------------------------------------------------
(***************************************************************************)
(* AggregateLimitHolds says nothing of what a bucket still holds, so it is *)
(* not inductive.  The strengthening charges a window with what it moved   *)
(* AND with what the bucket could still release at its last settlement.    *)
(***************************************************************************)
BucketWithin(b, cap, w, peak, period) ==
    /\ b.available <= cap
    /\ cap <= peak
    /\ b.updatedAt < w.since => w.moved = 0
    /\ b.updatedAt >= w.since
         => period * (w.moved + b.available) <= peak * (period + (b.updatedAt - w.since))

\* The same with the types of everything involved, so that a lemma about one
\* bucket has one premise.
Healthy(b, cap, w, peak, period) ==
    /\ b \in BucketRecords
    /\ cap \in Nat
    /\ w \in WindowRecords
    /\ peak \in Nat
    /\ period \in Nat \ {0}
    /\ now \in Nat
    /\ w.since <= now
    /\ b.updatedAt <= now
    /\ BucketWithin(b, cap, w, peak, period)

\* The window v continues w under a new cap, and its peak has risen with it.
Continues(v, peak2, w, peak, cap) ==
    /\ v \in WindowRecords
    /\ v.moved = w.moved
    /\ v.since = w.since
    /\ peak2 \in Nat
    /\ cap \in Nat
    /\ peak <= peak2
    /\ cap <= peak2

LimiterInv ==
    /\ LimiterTypeOK
    /\ \A r \in Routes :
          /\ ~Configured(r) => window[r].moved = 0
          /\ hourly[r].updatedAt = daily[r].updatedAt
          /\ BucketWithin(hourly[r], limits[r].maxHourly, window[r], window[r].peakHourly, HOUR)
          /\ BucketWithin(daily[r], limits[r].maxDaily, window[r], window[r].peakDaily, DAY)

\* Settling a bucket keeps it within its window, also when the caps in force
\* change from "old" to "cap" at the same moment and the peak rises with them.
LEMMA SettleStaysWithin ==
    ASSUME NEW b \in BucketRecords, NEW old \in Nat, NEW cap \in Nat,
           NEW p \in Nat \ {0}, NEW w \in WindowRecords,
           NEW peak \in Nat, NEW peak2 \in Nat,
           now \in Nat, w.since <= now, b.updatedAt <= now, peak <= peak2, cap <= peak2,
           BucketWithin(b, old, w, peak, p)
    PROVE  p * (w.moved + Projected(b, cap, p)) <= peak2 * (p + (now - w.since))
  <1> DEFINE x == Projected(b, cap, p)
             u == b.updatedAt
             m == w.moved
             s == w.since
  <1>1. x \in Nat /\ x <= cap /\ p * x <= p * b.available + cap * (now - u)
    BY ProjectedBound DEF BucketWithin
  <1> HIDE DEF x
  <1>2. b.available \in Nat /\ u \in Nat /\ m \in Nat /\ s \in Nat
    BY DEF BucketRecords, WindowRecords
  <1>3. /\ p * (m + x) = p * m + p * x
        /\ p * (m + b.available) = p * m + p * b.available
        /\ p * m \in Nat /\ p * x \in Nat /\ p * b.available \in Nat
    BY <1>1, <1>2, ProductDistributes, ProductIsNat
  <1>4. CASE u < s
    <2>1. m = 0
      BY <1>4 DEF BucketWithin
    <2>2. x <= peak2
      BY <1>1
    <2>3. p * x <= peak2 * p
      BY <1>1, <2>2, ProductMonotone, ProductCommutes
    <2>4. peak2 * (p + (now - s)) = peak2 * p + peak2 * (now - s)
      BY <1>2, ProductDistributes
    <2>5. now - s \in Nat /\ peak2 * p \in Nat /\ peak2 * (now - s) \in Nat
      BY <1>2, ProductIsNat
    <2> QED  BY <1>1, <2>1, <2>3, <2>4, <2>5 DEF x
  <1>5. CASE u >= s
    <2> DEFINE d == u - s
               e == now - u
    <2>1. d \in Nat /\ e \in Nat /\ now - s = d + e
      BY <1>2, <1>5 DEF BucketWithin
    <2>2. p * m + p * b.available <= peak * (p + d)
      BY <1>3, <1>5 DEF BucketWithin
    <2> HIDE DEF d, e
    <2>3. p * x <= p * b.available + cap * e
      BY <1>1 DEF e
    <2>4. peak * (p + d) <= peak2 * (p + d)
      BY <2>1, ProductMonotone
    <2>5. cap * e <= peak2 * e
      BY <2>1, ProductMonotone
    <2>6. /\ p + d \in Nat /\ p + (d + e) = (p + d) + e
          /\ peak2 * ((p + d) + e) = peak2 * (p + d) + peak2 * e
      BY <2>1, ProductDistributes
    <2>7. /\ peak * (p + d) \in Nat /\ peak2 * (p + d) \in Nat
          /\ cap * e \in Nat /\ peak2 * e \in Nat
      BY <2>1, <2>6, ProductIsNat
    <2>8. p * m + p * x <= peak2 * (p + (d + e))
      BY <1>3, <2>2, <2>3, <2>4, <2>5, <2>6, <2>7
    <2> QED  BY <1>3, <2>1, <2>8 DEF x
  <1> QED  BY <1>2, <1>4, <1>5

\* The three ways a call leaves a bucket: freshly settled, settled with an
\* amount moved from the bucket to the window, or just filled.
LEMMA SpentStaysWithin ==
    ASSUME NEW b, NEW cap, NEW p, NEW w, NEW peak, NEW a \in Nat,
           Healthy(b, cap, w, peak, p),
           a <= Projected(b, cap, p)
    PROVE  /\ Spent(b, cap, p, a).updatedAt = now
           /\ Healthy(Spent(b, cap, p, a), cap, [w EXCEPT !.moved = @ + a], peak, p)
  <1> USE DEF Healthy
  <1> DEFINE x == Projected(b, cap, p)
             n == Spent(b, cap, p, a)
             v == [w EXCEPT !.moved = @ + a]
  <1>1. x \in Nat /\ x <= cap
    BY ProjectedBound DEF BucketWithin
  <1>2. p * (w.moved + x) <= peak * (p + (now - w.since))
    BY SettleStaysWithin DEF BucketWithin
  <1>3. n = [available |-> x - a, updatedAt |-> now]
    BY DEF Spent, Settled
  <1>4. /\ v \in WindowRecords /\ v.moved = w.moved + a /\ v.since = w.since
        /\ w.moved \in Nat /\ w.since \in Nat
    BY DEF WindowRecords
  <1> HIDE DEF x, n, v
  <1>5. n \in BucketRecords /\ n.available = x - a /\ n.updatedAt = now
    BY <1>1, <1>3 DEF BucketRecords, x
  <1>6. v.moved + n.available = w.moved + x
    BY <1>1, <1>4, <1>5
  <1>7. BucketWithin(n, cap, v, peak, p)
    BY <1>1, <1>2, <1>4, <1>5, <1>6 DEF BucketWithin
  <1>8. Healthy(n, cap, v, peak, p)
    BY <1>4, <1>5, <1>7
  <1> QED  BY <1>5, <1>8 DEF n, v

LEMMA ResettledStaysWithin ==
    ASSUME NEW b, NEW old, NEW cap, NEW p, NEW w, NEW v, NEW peak, NEW peak2,
           Healthy(b, old, w, peak, p),
           Continues(v, peak2, w, peak, cap)
    PROVE  /\ Resettled(b, cap, cap, p).updatedAt = now
           /\ Healthy(Resettled(b, cap, cap, p), cap, v, peak2, p)
  <1> USE DEF Healthy, Continues
  <1> DEFINE x == Projected(b, cap, p)
             n == Resettled(b, cap, cap, p)
  <1>1. x \in Nat /\ x <= cap
    BY ProjectedBound DEF BucketWithin
  <1>2. p * (w.moved + x) <= peak2 * (p + (now - w.since))
    BY SettleStaysWithin
  <1>3. n = [available |-> x, updatedAt |-> now]
    BY <1>1 DEF Resettled, Settled, Lesser
  <1> HIDE DEF x, n
  <1>4. n \in BucketRecords /\ n.available = x /\ n.updatedAt = now
    BY <1>1, <1>3 DEF BucketRecords
  <1>5. w.since \in Nat
    BY DEF WindowRecords
  <1>6. BucketWithin(n, cap, v, peak2, p)
    BY <1>1, <1>2, <1>4, <1>5 DEF BucketWithin
  <1>7. Healthy(n, cap, v, peak2, p)
    BY <1>4, <1>6
  <1> QED  BY <1>4, <1>7 DEF n

----------------------------------------------------------------------------
(* The inductive step, one lemma per action.                               *)

LEMMA LimiterInvInit == LimiterInit => LimiterInv
  <1> SUFFICES ASSUME LimiterInit PROVE LimiterInv
    OBVIOUS
  <1> USE LimiterAssumption DEF LimiterInit, NoLimits, EmptyBucket
  <1>1. LimiterTypeOK
    BY DEF LimiterTypeOK, LimitRecords, BucketRecords, WindowRecords
  <1>2. ASSUME NEW r \in Routes
        PROVE  /\ ~Configured(r) => window[r].moved = 0
               /\ hourly[r].updatedAt = daily[r].updatedAt
               /\ BucketWithin(hourly[r], limits[r].maxHourly, window[r], window[r].peakHourly, HOUR)
               /\ BucketWithin(daily[r], limits[r].maxDaily, window[r], window[r].peakDaily, DAY)
    BY DEF BucketWithin
  <1> QED  BY <1>1, <1>2 DEF LimiterInv

\* What the invariant says of one route.
LEMMA RouteFacts ==
    ASSUME LimiterInv, NEW r \in Routes
    PROVE  /\ now \in Nat
           /\ limits[r] \in LimitRecords
           /\ hourly[r] \in BucketRecords /\ hourly[r].updatedAt <= now
           /\ daily[r] \in BucketRecords /\ daily[r].updatedAt <= now
           /\ window[r] \in WindowRecords /\ window[r].since <= now
           /\ limits[r].maxHourly \in Nat /\ limits[r].maxDaily \in Nat
           /\ window[r].peakHourly \in Nat /\ window[r].peakDaily \in Nat
           /\ limits[r] = NoLimits \/ ValidLimits(limits[r])
           /\ Healthy(hourly[r], limits[r].maxHourly, window[r], window[r].peakHourly, HOUR)
           /\ Healthy(daily[r], limits[r].maxDaily, window[r], window[r].peakDaily, DAY)
  <1>1. /\ now \in Nat
        /\ limits[r] \in LimitRecords
        /\ hourly[r] \in BucketRecords /\ hourly[r].updatedAt <= now
        /\ daily[r] \in BucketRecords /\ daily[r].updatedAt <= now
        /\ window[r] \in WindowRecords /\ window[r].since <= now
        /\ limits[r] = NoLimits \/ ValidLimits(limits[r])
    BY DEF LimiterInv, LimiterTypeOK
  <1>2. /\ limits[r].maxHourly \in Nat /\ limits[r].maxDaily \in Nat
        /\ window[r].peakHourly \in Nat /\ window[r].peakDaily \in Nat
    BY <1>1 DEF LimitRecords, WindowRecords
  <1> QED  BY <1>1, <1>2, LimiterAssumption DEF LimiterInv, Healthy

\* A step that rewrites the storage of one route r and leaves the clock and
\* every other route alone keeps the invariant when the new values satisfy it.
LEMMA OneRouteStep ==
    ASSUME LimiterInv, NEW r \in Routes,
           NEW l \in LimitRecords, NEW h \in BucketRecords,
           NEW d \in BucketRecords, NEW w \in WindowRecords,
           limits' = [limits EXCEPT ![r] = l],
           hourly' = [hourly EXCEPT ![r] = h],
           daily' = [daily EXCEPT ![r] = d],
           window' = [window EXCEPT ![r] = w],
           now' = now,
           l = NoLimits \/ ValidLimits(l),
           h.updatedAt <= now, d.updatedAt = h.updatedAt, w.since <= now,
           l.maxDaily = 0 => w.moved = 0,
           BucketWithin(h, l.maxHourly, w, w.peakHourly, HOUR),
           BucketWithin(d, l.maxDaily, w, w.peakDaily, DAY)
    PROVE  LimiterInv'
  <1>1. /\ limits \in [Routes -> LimitRecords] /\ hourly \in [Routes -> BucketRecords]
        /\ daily \in [Routes -> BucketRecords] /\ window \in [Routes -> WindowRecords]
        /\ now \in Nat
    BY DEF LimiterInv, LimiterTypeOK
  <1>2. /\ limits' \in [Routes -> LimitRecords] /\ hourly' \in [Routes -> BucketRecords]
        /\ daily' \in [Routes -> BucketRecords] /\ window' \in [Routes -> WindowRecords]
        /\ now' \in Nat
    BY <1>1
  <1>3. ASSUME NEW q \in Routes
        PROVE  /\ limits'[q] = NoLimits \/ ValidLimits(limits'[q])
               /\ hourly'[q].available <= limits'[q].maxHourly
               /\ daily'[q].available <= limits'[q].maxDaily
               /\ hourly'[q].updatedAt <= now'
               /\ daily'[q].updatedAt <= now'
               /\ window'[q].since <= now'
               /\ limits'[q].maxDaily = 0 => window'[q].moved = 0
               /\ hourly'[q].updatedAt = daily'[q].updatedAt
               /\ BucketWithin(hourly'[q], limits'[q].maxHourly, window'[q], window'[q].peakHourly, HOUR)
               /\ BucketWithin(daily'[q], limits'[q].maxDaily, window'[q], window'[q].peakDaily, DAY)
    <2>1. CASE q = r
      <3>1. limits'[q] = l /\ hourly'[q] = h /\ daily'[q] = d /\ window'[q] = w
        BY <1>1, <2>1
      <3>2. h.available <= l.maxHourly /\ d.available <= l.maxDaily
        BY DEF BucketWithin
      <3> QED  BY <3>1, <3>2
    <2>2. CASE q # r
      <3>1. /\ limits'[q] = limits[q] /\ hourly'[q] = hourly[q]
            /\ daily'[q] = daily[q] /\ window'[q] = window[q]
        BY <1>1, <2>2
      <3> QED  BY <3>1 DEF LimiterInv, LimiterTypeOK, Configured
    <2> QED  BY <2>1, <2>2
  <1>4. LimiterTypeOK'
    BY <1>2, <1>3 DEF LimiterTypeOK, NoLimits, ValidLimits
  <1> QED  BY <1>3, <1>4 DEF LimiterInv, Configured

\* Raising the peaks of a window keeps the rest of it.
LEMMA RaisedWindowFacts ==
    ASSUME NEW w \in WindowRecords, NEW l \in LimitRecords
    PROVE  /\ Continues(RaisedWindow(w, l), RaisedWindow(w, l).peakHourly, w, w.peakHourly, l.maxHourly)
           /\ Continues(RaisedWindow(w, l), RaisedWindow(w, l).peakDaily, w, w.peakDaily, l.maxDaily)
  <1> DEFINE v == RaisedWindow(w, l)
             gh == Greater(w.peakHourly, l.maxHourly)
             gd == Greater(w.peakDaily, l.maxDaily)
  <1>1. /\ w.peakHourly \in Nat /\ w.peakDaily \in Nat
        /\ l.maxHourly \in Nat /\ l.maxDaily \in Nat
    BY DEF WindowRecords, LimitRecords
  <1>2. gh \in Nat /\ w.peakHourly <= gh /\ l.maxHourly <= gh
    BY <1>1 DEF Greater
  <1>3. gd \in Nat /\ w.peakDaily <= gd /\ l.maxDaily <= gd
    BY <1>1 DEF Greater
  <1> HIDE DEF gh, gd
  <1>4. v = [w EXCEPT !.peakHourly = gh, !.peakDaily = gd]
    BY DEF RaisedWindow, gh, gd
  <1>5. /\ v \in WindowRecords /\ v.moved = w.moved /\ v.since = w.since
        /\ v.peakHourly = gh /\ v.peakDaily = gd
    BY <1>2, <1>3, <1>4 DEF WindowRecords
  <1> HIDE DEF v
  <1>6. /\ Continues(v, v.peakHourly, w, w.peakHourly, l.maxHourly)
        /\ Continues(v, v.peakDaily, w, w.peakDaily, l.maxDaily)
    BY <1>1, <1>2, <1>3, <1>5 DEF Continues
  <1> QED  BY <1>6 DEF v

\* A bucket that starts full, in a window that moved nothing yet.
LEMMA FullBucketWithin ==
    ASSUME NEW cap \in Nat, NEW p \in Nat \ {0}, NEW w \in WindowRecords,
           NEW peak \in Nat, cap <= peak, now \in Nat, w.since <= now, w.moved = 0
    PROVE  /\ [available |-> cap, updatedAt |-> now] \in BucketRecords
           /\ BucketWithin([available |-> cap, updatedAt |-> now], cap, w, peak, p)
  <1> DEFINE d == now - w.since
  <1>1. d \in Nat
    BY DEF WindowRecords
  <1> HIDE DEF d
  <1>2. p * cap <= peak * p
    BY ProductMonotone, ProductCommutes
  <1>3. peak * (p + d) = peak * p + peak * d /\ peak * d \in Nat /\ peak * p \in Nat /\ p * cap \in Nat
    BY <1>1, ProductDistributes, ProductIsNat
  <1>4. p * (w.moved + cap) <= peak * (p + d)
    BY <1>2, <1>3
  <1> QED  BY <1>4 DEF BucketWithin, BucketRecords, d

LEMMA FirstLimitsStep ==
    ASSUME LimiterInv, NEW r \in Routes, NEW l \in LimitChoices, FirstLimits(r, l)
    PROVE  LimiterInv'
  <1> DEFINE w == window[r]
             v == RaisedWindow(w, l)
  <1>1. l \in LimitRecords /\ l.maxHourly \in Nat /\ l.maxDaily \in Nat
    BY LimiterAssumption DEF LimitRecords
  <1>2. w \in WindowRecords /\ w.since <= now /\ w.moved = 0 /\ now \in Nat
    BY RouteFacts DEF FirstLimits, LimiterInv
  <1>3. /\ v \in WindowRecords /\ v.moved = 0 /\ v.since <= now
        /\ v.peakHourly \in Nat /\ v.peakDaily \in Nat
        /\ l.maxHourly <= v.peakHourly /\ l.maxDaily <= v.peakDaily
    BY <1>1, <1>2, RaisedWindowFacts DEF Continues
  <1>4. window' = [window EXCEPT ![r] = v]
    BY DEF FirstLimits
  <1> HIDE DEF w, v
  <1>5. HOUR \in Nat \ {0} /\ DAY \in Nat \ {0}
    BY LimiterAssumption
  <1>6. /\ [available |-> l.maxHourly, updatedAt |-> now] \in BucketRecords
        /\ BucketWithin([available |-> l.maxHourly, updatedAt |-> now], l.maxHourly, v, v.peakHourly, HOUR)
    BY <1>1, <1>2, <1>3, <1>5, FullBucketWithin
  <1>7. /\ [available |-> l.maxDaily, updatedAt |-> now] \in BucketRecords
        /\ BucketWithin([available |-> l.maxDaily, updatedAt |-> now], l.maxDaily, v, v.peakDaily, DAY)
    BY <1>1, <1>2, <1>3, <1>5, FullBucketWithin
  <1>8. now <= now
    BY <1>2
  <1> QED  BY <1>1, <1>3, <1>4, <1>6, <1>7, <1>8, OneRouteStep DEF FirstLimits

LEMMA ReconfigureStep ==
    ASSUME LimiterInv, NEW r \in Routes, NEW l \in LimitChoices, Reconfigure(r, l)
    PROVE  LimiterInv'
  <1> DEFINE w == window[r]
             v == RaisedWindow(w, l)
             h == Resettled(hourly[r], l.maxHourly, l.maxHourly, HOUR)
             d == Resettled(daily[r], l.maxDaily, l.maxDaily, DAY)
  <1>1. l \in LimitRecords /\ l.maxHourly \in Nat /\ l.maxDaily \in Nat
    BY LimiterAssumption DEF LimitRecords
  <1>2. /\ w \in WindowRecords
        /\ Healthy(hourly[r], limits[r].maxHourly, w, w.peakHourly, HOUR)
        /\ Healthy(daily[r], limits[r].maxDaily, w, w.peakDaily, DAY)
    BY RouteFacts
  <1>3. /\ Continues(v, v.peakHourly, w, w.peakHourly, l.maxHourly)
        /\ Continues(v, v.peakDaily, w, w.peakDaily, l.maxDaily)
    BY <1>1, <1>2, RaisedWindowFacts
  <1>4. /\ limits' = [limits EXCEPT ![r] = l]
        /\ hourly' = [hourly EXCEPT ![r] = h]
        /\ daily' = [daily EXCEPT ![r] = d]
        /\ window' = [window EXCEPT ![r] = v]
        /\ now' = now
        /\ ValidLimits(l)
    BY DEF Reconfigure, SettleLimits
  <1>5. h.updatedAt = now /\ Healthy(h, l.maxHourly, v, v.peakHourly, HOUR)
    BY <1>2, <1>3, ResettledStaysWithin, Zenon
  <1>6. d.updatedAt = now /\ Healthy(d, l.maxDaily, v, v.peakDaily, DAY)
    BY <1>2, <1>3, ResettledStaysWithin, Zenon
  <1> HIDE DEF w, v, h, d
  <1>7. l.maxDaily # 0
    BY <1>4 DEF ValidLimits
  <1> QED  BY <1>1, <1>4, <1>5, <1>6, <1>7, OneRouteStep DEF Healthy

LEMMA ConsumeStep ==
    ASSUME LimiterInv, NEW r \in Routes, NEW a \in Amounts, Consume(r, a)
    PROVE  LimiterInv'
  <1> DEFINE w == window[r]
             v == [w EXCEPT !.moved = @ + a]
             l == limits[r]
             h == Spent(hourly[r], l.maxHourly, HOUR, a)
             d == Spent(daily[r], l.maxDaily, DAY, a)
  <1>1. a \in Nat
    BY LimiterAssumption
  <1>2. /\ Healthy(hourly[r], l.maxHourly, w, w.peakHourly, HOUR)
        /\ Healthy(daily[r], l.maxDaily, w, w.peakDaily, DAY)
        /\ l \in LimitRecords
        /\ l = NoLimits \/ ValidLimits(l)
    BY RouteFacts
  <1>3. /\ limits' = limits /\ now' = now
        /\ hourly' = [hourly EXCEPT ![r] = h]
        /\ daily' = [daily EXCEPT ![r] = d]
        /\ window' = [window EXCEPT ![r].moved = @ + a]
        /\ a <= Projected(hourly[r], l.maxHourly, HOUR)
        /\ a <= Projected(daily[r], l.maxDaily, DAY)
        /\ l.maxDaily # 0
    BY DEF Consume, ConsumeAccepts, Configured
  <1>4. limits' = [limits EXCEPT ![r] = l] /\ window' = [window EXCEPT ![r] = v]
    BY <1>3 DEF LimiterInv, LimiterTypeOK
  <1>5. h.updatedAt = now /\ Healthy(h, l.maxHourly, v, w.peakHourly, HOUR)
    BY <1>1, <1>2, <1>3, SpentStaysWithin, Zenon
  <1>6. d.updatedAt = now /\ Healthy(d, l.maxDaily, v, w.peakDaily, DAY)
    BY <1>1, <1>2, <1>3, SpentStaysWithin, Zenon
  <1>7. v.peakHourly = w.peakHourly /\ v.peakDaily = w.peakDaily
    BY <1>2 DEF Healthy, WindowRecords
  <1> HIDE DEF w, v, l, h, d
  <1> QED  BY <1>2, <1>3, <1>4, <1>5, <1>6, <1>7, OneRouteStep DEF Healthy

LEMMA TickStep ==
    ASSUME LimiterInv, Tick
    PROVE  LimiterInv'
  <1>1. now \in Nat /\ now' = now + 1
    BY DEF LimiterInv, LimiterTypeOK, Tick
  <1>2. LimiterTypeOK'
    <2>1. ASSUME NEW r \in Routes
          PROVE  /\ hourly[r].updatedAt <= now + 1
                 /\ daily[r].updatedAt <= now + 1
                 /\ window[r].since <= now + 1
      BY <1>1, RouteFacts DEF BucketRecords, WindowRecords
    <2> QED  BY <1>1, <2>1 DEF LimiterInv, LimiterTypeOK, Tick, NoLimits, ValidLimits
  <1> QED  BY <1>2 DEF LimiterInv, Tick, Configured

LEMMA OpenWindowStep ==
    ASSUME LimiterInv, NEW r \in Routes, OpenWindow(r)
    PROVE  LimiterInv'
  <1> DEFINE l == limits[r]
             v == OpenedWindow(l)
             h == hourly[r]
             d == daily[r]
  <1>1. /\ now \in Nat /\ l \in LimitRecords /\ l.maxHourly \in Nat /\ l.maxDaily \in Nat
        /\ h \in BucketRecords /\ h.updatedAt <= now
        /\ d \in BucketRecords /\ d.updatedAt <= now
        /\ l = NoLimits \/ ValidLimits(l)
    BY RouteFacts
  <1>2. /\ v \in WindowRecords /\ v.since = now /\ v.moved = 0
        /\ v.peakHourly = l.maxHourly /\ v.peakDaily = l.maxDaily
    BY <1>1 DEF OpenedWindow, WindowRecords
  <1>3. h.available <= l.maxHourly /\ d.available <= l.maxDaily
    BY DEF LimiterInv, LimiterTypeOK
  <1>4. /\ limits' = [limits EXCEPT ![r] = l]
        /\ hourly' = [hourly EXCEPT ![r] = h]
        /\ daily' = [daily EXCEPT ![r] = d]
        /\ window' = [window EXCEPT ![r] = v]
        /\ now' = now
    BY DEF OpenWindow, LimiterInv, LimiterTypeOK
  <1>8. d.updatedAt = h.updatedAt
    BY DEF LimiterInv
  <1> HIDE DEF l, v, h, d
  <1>5. ASSUME NEW b \in BucketRecords, NEW cap \in Nat, NEW p \in Nat \ {0},
               b.available <= cap, b.updatedAt <= now
        PROVE  BucketWithin(b, cap, v, cap, p)
    <2>1. b.available \in Nat /\ b.updatedAt \in Nat
      BY DEF BucketRecords
    <2>2. CASE b.updatedAt < now
      BY <1>1, <1>2, <1>5, <2>1, <2>2 DEF BucketWithin
    <2>3. CASE b.updatedAt = now
      <3>1. p * b.available <= cap * p
        BY <1>5, <2>1, ProductMonotone, ProductCommutes
      <3>2. v.moved + b.available = b.available /\ p + (b.updatedAt - v.since) = p
        BY <1>1, <1>2, <2>1, <2>3
      <3> QED  BY <1>1, <1>2, <1>5, <2>3, <3>1, <3>2 DEF BucketWithin
    <2> QED  BY <1>1, <1>5, <2>1, <2>2, <2>3
  <1>6. /\ BucketWithin(h, l.maxHourly, v, v.peakHourly, HOUR)
        /\ BucketWithin(d, l.maxDaily, v, v.peakDaily, DAY)
    BY <1>1, <1>2, <1>3, <1>5, LimiterAssumption
  <1>7. v.since <= now
    BY <1>1, <1>2
  <1> QED  BY <1>1, <1>2, <1>4, <1>6, <1>7, <1>8, OneRouteStep

LEMMA LimiterInvStep == LimiterInv /\ [LimiterNext]_limiterVars => LimiterInv'
  <1> SUFFICES ASSUME LimiterInv, [LimiterNext]_limiterVars PROVE LimiterInv'
    OBVIOUS
  <1>1. CASE LimiterNext
    BY <1>1, FirstLimitsStep, ReconfigureStep, ConsumeStep, OpenWindowStep, TickStep DEF LimiterNext
  <1>2. CASE UNCHANGED limiterVars
    BY <1>2 DEF limiterVars, LimiterInv, LimiterTypeOK, Configured, NoLimits, ValidLimits
  <1> QED  BY <1>1, <1>2

----------------------------------------------------------------------------
\* The inductive invariant holds in every behaviour of the limiter.
THEOREM LimiterInvariant == LimiterSpec => []LimiterInv
  <1> QED  BY LimiterInvInit, LimiterInvStep, PTL DEF LimiterSpec

\* Type correctness of ArkBridgeRateLimiter's storage: buckets never go below
\* zero or above their capacity, and are never settled in the future.
THEOREM LimiterTypeCorrect == LimiterSpec => []LimiterTypeOK
  <1>1. LimiterInv => LimiterTypeOK
    BY DEF LimiterInv
  <1> QED  BY <1>1, LimiterInvariant, PTL

\* What the strengthening says of the present: time passing without a
\* settlement only loosens the bound.
LEMMA WithinImpliesBounded ==
    ASSUME NEW b \in BucketRecords, NEW cap \in Nat, NEW p \in Nat \ {0},
           NEW w \in WindowRecords, NEW peak \in Nat,
           now \in Nat, w.since <= now, b.updatedAt <= now,
           BucketWithin(b, cap, w, peak, p)
    PROVE  Bounded(w.moved, peak, now - w.since, p)
  <1>1. p * (w.moved + Projected(b, cap, p)) <= peak * (p + (now - w.since))
    BY SettleStaysWithin DEF BucketWithin
  <1> DEFINE x == Projected(b, cap, p)
  <1>2. x \in Nat /\ w.moved \in Nat /\ w.since \in Nat
    BY ProjectedBound DEF WindowRecords
  <1> HIDE DEF x
  <1>3. /\ p * (w.moved + x) = p * w.moved + p * x
        /\ p * w.moved \in Nat /\ p * x \in Nat
        /\ peak * (p + (now - w.since)) \in Nat
    BY <1>2, ProductDistributes, ProductIsNat
  <1> QED  BY <1>1, <1>3 DEF Bounded, x

\* INV-11 for every set of routes, every sequence of limits, amounts and block
\* times, and every window length: since any moment, a route moves at most the
\* largest cap in force plus that cap's refill over the elapsed time.
THEOREM AggregateLimitTheorem == LimiterSpec => []AggregateLimitHolds
  <1>1. LimiterInv => AggregateLimitHolds
    <2> SUFFICES ASSUME LimiterInv, NEW r \in Routes
                 PROVE  /\ Bounded(window[r].moved, window[r].peakHourly, now - window[r].since, HOUR)
                        /\ Bounded(window[r].moved, window[r].peakDaily, now - window[r].since, DAY)
      BY DEF AggregateLimitHolds
    <2>1. /\ BucketWithin(hourly[r], limits[r].maxHourly, window[r], window[r].peakHourly, HOUR)
          /\ BucketWithin(daily[r], limits[r].maxDaily, window[r], window[r].peakDaily, DAY)
      BY DEF LimiterInv
    <2> QED  BY <2>1, RouteFacts, WithinImpliesBounded, LimiterAssumption
  <1> QED  BY <1>1, LimiterInvariant, PTL

\* available() and consume agree on every amount, for every limit and time.
THEOREM AdvertisedTheorem == LimiterSpec => []AdvertisedIsAccepted
  <1>1. LimiterInv => AdvertisedIsAccepted
    <2> SUFFICES ASSUME LimiterInv, NEW r \in Routes, NEW a \in Amounts
                 PROVE  ConsumeAccepts(r, a)
                          <=> Configured(r) /\ ~AvailableReverts(r) /\ a <= Available(r)
      BY DEF AdvertisedIsAccepted
    <2> DEFINE h == Projected(hourly[r], limits[r].maxHourly, HOUR)
               d == Projected(daily[r], limits[r].maxDaily, DAY)
               t == limits[r].maxPerTransaction
    <2>1. h \in Nat /\ d \in Nat
      BY RouteFacts, ProjectedBound, LimiterAssumption
    <2>2. t \in Nat /\ a \in Nat
      BY RouteFacts, LimiterAssumption DEF LimitRecords
    <2>3. Configured(r) => Available(r) = Lesser(t, Lesser(h, d))
      BY DEF Available
    <2>4. ConsumeAccepts(r, a) <=> /\ Configured(r)
                                   /\ a <= t
                                   /\ ~SettleReverts(r, limits[r])
                                   /\ a <= h
                                   /\ a <= d
      BY DEF ConsumeAccepts
    <2>5. AvailableReverts(r) <=> Configured(r) /\ SettleReverts(r, limits[r])
      BY DEF AvailableReverts
    <2> HIDE DEF h, d, t
    <2>6. a <= Lesser(t, Lesser(h, d)) <=> a <= t /\ a <= h /\ a <= d
      BY <2>1, <2>2 DEF Lesser
    <2> QED  BY <2>3, <2>4, <2>5, <2>6
  <1> QED  BY <1>1, LimiterInvariant, PTL

\* Floor division is monotone.
LEMMA FloorMonotone ==
    ASSUME NEW n \in Nat, NEW m \in Nat, NEW p \in Nat \ {0}, n <= m
    PROVE  n \div p <= m \div p
  BY SMTT(30)

\* Settling takes nothing from a bucket within its capacity, and under a
\* smaller capacity yields no more.
LEMMA ProjectedGrows ==
    ASSUME NEW b \in BucketRecords, NEW cap \in Nat, NEW p \in Nat \ {0},
           now \in Nat, b.updatedAt <= now
    PROVE  /\ b.available <= cap => b.available <= Projected(b, cap, p)
           /\ \A new \in Nat : new <= cap => Projected(b, new, p) <= Projected(b, cap, p)
  <1> DEFINE e == now - b.updatedAt
             q(c) == (c * e) \div p
  <1>1. e \in Nat /\ b.available \in Nat
    BY DEF BucketRecords
  <1>2. ASSUME NEW c \in Nat
        PROVE  /\ q(c) \in Nat
               /\ Projected(b, c, p) = IF b.available >= c \/ e >= p
                                         THEN c ELSE Lesser(c, b.available + q(c))
    <2>1. c * e \in Nat
      BY <1>1, ProductIsNat
    <2> QED  BY <2>1, FloorLoses DEF Projected, Refill, Elapsed
  <1>3. ASSUME NEW new \in Nat, new <= cap
        PROVE  q(new) <= q(cap)
    <2>1. new * e \in Nat /\ cap * e \in Nat /\ new * e <= cap * e
      BY <1>1, <1>3, ProductIsNat, ProductMonotone
    <2> QED  BY <2>1, FloorMonotone
  <1> HIDE DEF e, q
  <1>4. ASSUME b.available <= cap
        PROVE  b.available <= Projected(b, cap, p)
    BY <1>1, <1>2, <1>4 DEF Lesser
  <1>5. ASSUME NEW new \in Nat, new <= cap
        PROVE  Projected(b, new, p) <= Projected(b, cap, p)
    BY <1>1, <1>2, <1>3, <1>5 DEF Lesser
  <1> QED  BY <1>4, <1>5

\* What a transfer, a limit change and any other step leave in a bucket.
LEMMA SettlingEarnsNoMore ==
    ASSUME NEW b \in BucketRecords, NEW old \in Nat, NEW new \in Nat, NEW a \in Nat,
           NEW p \in Nat \ {0}, now \in Nat, b.updatedAt <= now
    PROVE  /\ b.available <= old => EarnsNoMore(b, b, old, old, p)
           /\ a <= Projected(b, old, p) => EarnsNoMore(b, Spent(b, old, p, a), old, old, p)
           /\ EarnsNoMore(b, Resettled(b, new, new, p), old, new, p)
  <1> DEFINE e == now - b.updatedAt
  <1>1. e \in Nat /\ e = Elapsed(b) /\ b.available \in Nat
    BY DEF BucketRecords, Elapsed
  <1>2. /\ old * e \in Nat /\ new * e \in Nat
        /\ p * b.available \in Nat
    BY <1>1, ProductIsNat
  <1>3. /\ Projected(b, old, p) \in Nat
        /\ p * Projected(b, old, p) <= p * b.available + old * e
    BY ProjectedBound
  <1>4. /\ Projected(b, new, p) \in Nat
        /\ Projected(b, new, p) <= new
        /\ p * Projected(b, new, p) <= p * b.available + new * e
    BY ProjectedBound
  <1> HIDE DEF e
  <1>5. ASSUME b.available <= old
        PROVE  EarnsNoMore(b, b, old, old, p)
    <2>1. b.available <= Projected(b, old, p)
      BY <1>5, ProjectedGrows
    <2> QED  BY <1>1, <1>2, <2>1 DEF EarnsNoMore
  <1>6. ASSUME a <= Projected(b, old, p)
        PROVE  EarnsNoMore(b, Spent(b, old, p, a), old, old, p)
    <2> DEFINE x == Projected(b, old, p)
    <2>1. Spent(b, old, p, a).available = x - a
      <3> HIDE DEF x
      <3>1. Settled(b, old, p) = [available |-> x, updatedAt |-> now]
        BY DEF Settled, x
      <3> QED  BY <3>1 DEF Spent
    <2> HIDE DEF x
    <2>2. x \in Nat /\ x - a \in Nat /\ x - a <= x
      BY <1>3, <1>6 DEF x
    <2>3. p * (x - a) <= p * x /\ p * (x - a) \in Nat /\ p * x \in Nat
      BY <2>2, ProductMonotone, ProductCommutes, ProductIsNat
    <2> QED  BY <1>1, <1>2, <1>3, <2>1, <2>2, <2>3 DEF EarnsNoMore, x
  <1>7. EarnsNoMore(b, Resettled(b, new, new, p), old, new, p)
    <2> DEFINE y == Projected(b, new, p)
    <2>1. Resettled(b, new, new, p).available = y
      <3> HIDE DEF y
      <3>1. Settled(b, new, p) = [available |-> y, updatedAt |-> now]
        BY DEF Settled, y
      <3>2. y \in Nat /\ y <= new
        BY <1>4 DEF y
      <3> QED  BY <3>1, <3>2 DEF Resettled, Lesser
    <2>2. new <= old => y <= Projected(b, old, p)
      BY ProjectedGrows
    <2> HIDE DEF y
    <2> QED  BY <1>1, <1>4, <2>1, <2>2 DEF EarnsNoMore, y
  <1> QED  BY <1>5, <1>6, <1>7

\* No step, setLimits included, gives back what was consumed.
THEOREM ReconfigureTheorem == LimiterSpec => ReconfiguringDoesNotRefill
  <1> DEFINE Earns(r) ==
        /\ EarnsNoMore(hourly[r], hourly'[r], limits[r].maxHourly, limits'[r].maxHourly, HOUR)
        /\ EarnsNoMore(daily[r], daily'[r], limits[r].maxDaily, limits'[r].maxDaily, DAY)
  <1>1. ASSUME LimiterInv, LimiterNext, NEW r \in Routes, Configured(r)
        PROVE  Earns(r)
    <2>1. /\ HOUR \in Nat \ {0} /\ DAY \in Nat \ {0} /\ now \in Nat
          /\ limits[r].maxHourly \in Nat /\ limits[r].maxDaily \in Nat
          /\ hourly[r] \in BucketRecords /\ daily[r] \in BucketRecords
          /\ hourly[r].updatedAt <= now /\ daily[r].updatedAt <= now
          /\ hourly[r].available <= limits[r].maxHourly
          /\ daily[r].available <= limits[r].maxDaily
      BY <1>1, LimiterAssumption DEF LimiterInv, LimiterTypeOK, LimitRecords
    <2>2. ASSUME hourly'[r] = hourly[r], daily'[r] = daily[r], limits'[r] = limits[r]
          PROVE  Earns(r)
      BY <2>1, <2>2, SettlingEarnsNoMore
    <2>3. ASSUME NEW q \in Routes, NEW l \in LimitChoices, FirstLimits(q, l)
          PROVE  Earns(r)
      <3>1. q # r
        BY <1>1, <2>3 DEF FirstLimits
      <3> QED  BY <1>1, <2>2, <2>3, <3>1 DEF FirstLimits, LimiterInv, LimiterTypeOK
    <2>4. ASSUME NEW q \in Routes, NEW l \in LimitChoices, Reconfigure(q, l)
          PROVE  Earns(r)
      <3>1. CASE q # r
        BY <1>1, <2>2, <2>4, <3>1 DEF Reconfigure, LimiterInv, LimiterTypeOK
      <3>2. CASE q = r
        <4>1. l.maxHourly \in Nat /\ l.maxDaily \in Nat
          BY LimiterAssumption DEF LimitRecords
        <4>2. /\ hourly'[r] = Resettled(hourly[r], l.maxHourly, l.maxHourly, HOUR)
              /\ daily'[r] = Resettled(daily[r], l.maxDaily, l.maxDaily, DAY)
              /\ limits'[r] = l
          BY <1>1, <2>4, <3>2 DEF Reconfigure, SettleLimits, LimiterInv, LimiterTypeOK
        <4> QED  BY <2>1, <4>1, <4>2, SettlingEarnsNoMore
      <3> QED  BY <3>1, <3>2
    <2>5. ASSUME NEW q \in Routes, NEW a \in Amounts, Consume(q, a)
          PROVE  Earns(r)
      <3>1. CASE q # r
        BY <1>1, <2>2, <2>5, <3>1 DEF Consume, LimiterInv, LimiterTypeOK
      <3>2. CASE q = r
        <4>1. a \in Nat
          BY LimiterAssumption
        <4>2. /\ hourly'[r] = Spent(hourly[r], limits[r].maxHourly, HOUR, a)
              /\ daily'[r] = Spent(daily[r], limits[r].maxDaily, DAY, a)
              /\ limits'[r] = limits[r]
              /\ a <= Projected(hourly[r], limits[r].maxHourly, HOUR)
              /\ a <= Projected(daily[r], limits[r].maxDaily, DAY)
          BY <1>1, <2>5, <3>2 DEF Consume, ConsumeAccepts, LimiterInv, LimiterTypeOK
        <4> QED  BY <2>1, <4>1, <4>2, SettlingEarnsNoMore
      <3> QED  BY <3>1, <3>2
    <2>6. ASSUME (\E q \in Routes : OpenWindow(q)) \/ Tick
          PROVE  Earns(r)
      BY <2>2, <2>6 DEF OpenWindow, Tick
    <2> QED  BY <1>1, <2>3, <2>4, <2>5, <2>6 DEF LimiterNext
  <1>2. LimiterInv /\ [LimiterNext]_limiterVars
          => [\A r \in Routes : Configured(r) => Earns(r)]_limiterVars
    BY <1>1
  <1> QED  BY <1>2, LimiterInvariant, PTL DEF LimiterSpec, ReconfiguringDoesNotRefill

-----------------------------------------------------------------------------
\* A capacity whose product with any elapsed time of its window fits, twice,
\* settles: neither the product nor the sum leaves uint256.
LEMMA SmallCapacitySettles ==
    ASSUME NEW b \in BucketRecords, NEW cap \in Nat, NEW p \in Nat \ {0}, NEW m \in Nat,
           NEW q \in Nat, p <= q, cap <= m, 2 * m * q <= MaxUint,
           now \in Nat, b.updatedAt <= now
    PROVE  ~ProjectionReverts(b, cap, p)
  <1> SUFFICES ASSUME b.available < cap, Elapsed(b) > 0, Elapsed(b) < p
               PROVE  /\ cap * Elapsed(b) <= MaxUint
                      /\ b.available + Refill(b, cap, p) <= MaxUint
    <2>1. /\ MaxUint \in Nat /\ b.available \in Nat /\ Elapsed(b) \in Nat
      BY LimiterAssumption DEF BucketRecords, Elapsed
    <2>2. cap * Elapsed(b) \in Nat
      BY <2>1, ProductIsNat
    <2>3. Refill(b, cap, p) \in Nat
      BY <2>2, FloorLoses DEF Refill
    <2> QED  BY <2>1, <2>2, <2>3 DEF ProjectionReverts
  <1> DEFINE e == Elapsed(b)
  <1>1. e \in Nat /\ e <= q /\ b.available \in Nat /\ MaxUint \in Nat
    BY LimiterAssumption DEF BucketRecords, Elapsed
  <1>2. Refill(b, cap, p) = (cap * e) \div p
    BY DEF Refill
  <1> HIDE DEF e
  <1>3. m * q \in Nat /\ 2 * m * q = m * q + m * q
    <2>1. m * q \in Nat
      BY ProductIsNat
    <2>2. \A x \in Nat : 2 * x = x + x
      OBVIOUS
    <2>3. (2 * m) * q = 2 * (m * q)
      BY SMTT(30)
    <2> QED  BY <2>1, <2>2, <2>3
  <1>4. cap * e \in Nat /\ cap * e <= m * q
    <2>1. cap * e <= m * e /\ e * m <= q * m
      BY <1>1, ProductMonotone
    <2>2. cap * e \in Nat /\ m * e \in Nat /\ m * e = e * m /\ q * m = m * q
      BY <1>1, ProductIsNat, ProductCommutes
    <2> QED  BY <2>1, <2>2, <1>3
  <1>5. (cap * e) \div p \in Nat /\ (cap * e) \div p <= cap * e
    <2> DEFINE n == cap * e
               d == n \div p
    <2>1. d \in Nat /\ p * d <= n
      BY <1>4, FloorLoses
    <2> HIDE DEF d
    <2>2. 1 * d <= p * d /\ p * d \in Nat
      BY <2>1, ProductMonotone, ProductIsNat
    <2>3. n \in Nat
      BY <1>4
    <2> HIDE DEF n
    <2>4. d <= n
      BY <2>1, <2>2, <2>3
    <2> QED  BY <2>1, <2>4 DEF d, n
  <1>6. b.available <= m * q
    <2>1. q >= 1 /\ m \in Nat
      OBVIOUS
    <2>2. 1 * m <= q * m /\ q * m = m * q
      BY <2>1, ProductMonotone, ProductCommutes
    <2> QED  BY <1>1, <1>3, <2>2
  <1>7. cap * e <= MaxUint
    BY <1>1, <1>3, <1>4
  <1>8. b.available + (cap * e) \div p <= MaxUint
    <2> DEFINE d == (cap * e) \div p
    <2>1. d \in Nat /\ d <= m * q
      BY <1>3, <1>4, <1>5
    <2> HIDE DEF d
    <2>2. b.available + d <= MaxUint
      BY <1>1, <1>3, <1>6, <2>1
    <2> QED  BY <2>2 DEF d
  <1> QED  BY <1>2, <1>7, <1>8 DEF e

\* The way out of an oversized limit is open in every reachable state and for
\* every window length: setLimits with limits whose daily product fits never
\* reverts, whatever the limits it replaces had come to.
THEOREM SettableTheorem == LimiterSpec => []SmallLimitsAlwaysSettable
  <1>1. LimiterInv => SmallLimitsAlwaysSettable
    <2> SUFFICES ASSUME LimiterInv, NEW r \in Routes, NEW l \in LimitChoices,
                        ValidLimits(l), 2 * l.maxDaily * Greater(HOUR, DAY) <= MaxUint
                 PROVE  ~SettleReverts(r, l)
      BY DEF SmallLimitsAlwaysSettable, SettleLimits
    <2>1. l.maxHourly \in Nat /\ l.maxDaily \in Nat /\ l.maxHourly <= l.maxDaily
      BY LimiterAssumption DEF LimitRecords, ValidLimits
    <2>2. HOUR \in Nat \ {0} /\ DAY \in Nat \ {0}
      BY LimiterAssumption
    <2>3. /\ Greater(HOUR, DAY) \in Nat
          /\ HOUR <= Greater(HOUR, DAY)
          /\ DAY <= Greater(HOUR, DAY)
      BY <2>2 DEF Greater
    <2>4. ~ProjectionReverts(hourly[r], l.maxHourly, HOUR)
      BY <2>1, <2>2, <2>3, RouteFacts, SmallCapacitySettles
    <2>5. ~ProjectionReverts(daily[r], l.maxDaily, DAY)
      BY <2>1, <2>2, <2>3, RouteFacts, SmallCapacitySettles
    <2> QED  BY <2>4, <2>5 DEF SettleReverts
  <1> QED  BY <1>1, LimiterInvariant, PTL
-----------------------------------------------------------------------------
(* The guard.                                                              *)

\* Every step of the guard is a step of the limiter or leaves it alone.
LEMMA GuardStepIsLimiterStep ==
    [GuardNext]_guardVars => [LimiterNext]_limiterVars
  <1> SUFFICES ASSUME [GuardNext]_guardVars PROVE [LimiterNext]_limiterVars
    OBVIOUS
  <1>1. CASE Authorizing
    BY <1>1 DEF Authorizing, AuthorizeTransfer, LimiterNext
  <1>2. CASE LimiterStep
    BY <1>2 DEF LimiterStep, LimiterNext
  <1>3. CASE ConfigStep
    BY <1>3 DEF ConfigStep, RegisterToken, DeregisterToken, RegisterRoute, DeregisterRoute,
                SetAuthorizedCaller, PauseScope, UnpauseScope
  <1>4. CASE UNCHANGED guardVars
    BY <1>4 DEF guardVars
  <1> QED  BY <1>1, <1>2, <1>3, <1>4 DEF GuardNext

\* The guard is the limiter's single entry point: registering, deregistering,
\* pausing and authorizing callers never give capacity back or take it.
THEOREM GuardImplementsLimiter == GuardSpec => ImplementsLimiter
  <1>1. GuardInit => LimiterInit
    BY DEF GuardInit
  <1> QED  BY <1>1, GuardStepIsLimiterStep, PTL DEF GuardSpec, LimiterSpec, ImplementsLimiter

\* INV-11 through the guard: no interleaving of transfers with configuration,
\* pausing and limit changes moves more than the caps and their refill allow.
THEOREM GuardAggregateLimit == GuardSpec => []AggregateLimitHolds
  <1> QED  BY GuardImplementsLimiter, AggregateLimitTheorem, PTL DEF ImplementsLimiter

\* The view and the assertion of the pause controller never disagree.
LEMMA PauseViewsAgree ==
    ASSUME NEW r, NEW t, NEW o, NEW d
    PROVE  AssertNotPaused(r, t, o, d) <=> ~IsPaused(r, t, o, d)
  <1> DEFINE order == CheckOrder(r, t, o, d)
  <1>1. /\ order[1] = GlobalScope /\ order[2] = RouteScope(r) /\ order[3] = TokenScope(t)
        /\ order[4] = ChainScope(o) /\ order[5] = ChainScope(d)
    BY DEF CheckOrder
  <1>2. \A i \in 1..5 : i = 1 \/ i = 2 \/ i = 3 \/ i = 4 \/ i = 5
    OBVIOUS
  <1>3. AssertNotPaused(r, t, o, d) <=> \A i \in 1..5 : order[i] \notin paused
    BY DEF AssertNotPaused
  <1> HIDE DEF order
  <1>4. AssertNotPaused(r, t, o, d) <=>
          /\ order[1] \notin paused /\ order[2] \notin paused /\ order[3] \notin paused
          /\ order[4] \notin paused /\ order[5] \notin paused
    BY <1>2, <1>3
  <1> QED  BY <1>1, <1>4 DEF IsPaused

\* INV-01, INV-02, INV-03, INV-12 and INV-15: value moves only on a registered
\* route, for its registered token, while nothing that covers it is paused.
THEOREM MovesTheorem == GuardSpec => MovesOnlyWhenUsable
  <1>1. ASSUME LimiterInv, GuardNext, NEW r \in Routes, window'[r].moved > window[r].moved
        PROVE  Usable(r)
    <2>1. CASE Authorizing
      <3>1. PICK caller \in Callers, q \in Routes, t \in Tokens, o \in Domains, a \in Amounts :
                AuthorizeTransfer(caller, q, t, o, a)
        BY <2>1 DEF Authorizing
      <3>2. q = r
        <4>1. window \in [Routes -> WindowRecords] /\ window[r].moved \in Nat
          BY <1>1 DEF LimiterInv, LimiterTypeOK, WindowRecords
        <4>2. q # r => window'[r] = window[r]
          BY <3>1, <4>1 DEF AuthorizeTransfer, Consume
        <4> QED  BY <1>1, <4>1, <4>2
      <3> QED  BY <3>1, <3>2, PauseViewsAgree DEF AuthorizeTransfer, Permits, Usable, RoutePaused
    <2>2. CASE LimiterStep
      <3>1. window \in [Routes -> WindowRecords] /\ window[r].moved \in Nat
        BY <1>1 DEF LimiterInv, LimiterTypeOK, WindowRecords
      <3>2. ASSUME NEW q \in Routes, NEW l, window' = [window EXCEPT ![q] = RaisedWindow(@, l)]
            PROVE  window'[r].moved = window[r].moved
        <4>1. RaisedWindow(window[r], l).moved = window[r].moved
          BY <3>1 DEF RaisedWindow, WindowRecords
        <4> QED  BY <3>1, <3>2, <4>1
      <3>3. ASSUME NEW q \in Routes, OpenWindow(q)
            PROVE  window'[r].moved <= window[r].moved
        <4>1. OpenedWindow(limits[q]).moved = 0
          BY DEF OpenedWindow
        <4> QED  BY <3>1, <3>3, <4>1 DEF OpenWindow
      <3>4. ~Tick
        BY <1>1, <3>1 DEF Tick
      <3>5. ASSUME NEW q \in Routes, NEW l \in LimitChoices, FirstLimits(q, l)
            PROVE  FALSE
        <4>1. window' = [window EXCEPT ![q] = RaisedWindow(@, l)]
          BY <3>5 DEF FirstLimits
        <4>2. window'[r].moved = window[r].moved
          BY <3>2, <4>1, Zenon
        <4> QED  BY <1>1, <3>1, <4>2
      <3>6. ASSUME NEW q \in Routes, NEW l \in LimitChoices, Reconfigure(q, l)
            PROVE  FALSE
        <4>1. window' = [window EXCEPT ![q] = RaisedWindow(@, l)]
          BY <3>6 DEF Reconfigure
        <4>2. window'[r].moved = window[r].moved
          BY <3>2, <4>1, Zenon
        <4> QED  BY <1>1, <3>1, <4>2
      <3>7. ASSUME NEW q \in Routes, OpenWindow(q)
            PROVE  FALSE
        <4>1. window'[r].moved <= window[r].moved
          BY <3>3, <3>7
        <4>2. window'[r].moved \in Nat
          BY <3>1, <3>7 DEF OpenWindow, OpenedWindow, WindowRecords
        <4> QED  BY <1>1, <3>1, <4>1, <4>2
      <3> QED  BY <2>2, <3>4, <3>5, <3>6, <3>7 DEF LimiterStep
    <2>3. CASE ConfigStep
      <3>1. window[r].moved \in Nat
        BY <1>1 DEF LimiterInv, LimiterTypeOK, WindowRecords
      <3> QED  BY <1>1, <2>3, <3>1 DEF ConfigStep, RegisterToken, DeregisterToken, RegisterRoute,
                  DeregisterRoute, SetAuthorizedCaller, PauseScope, UnpauseScope, limiterVars
    <2> QED  BY <1>1, <2>1, <2>2, <2>3 DEF GuardNext
  <1>2. LimiterInv /\ [GuardNext]_guardVars
          => [\A r \in Routes : window'[r].moved > window[r].moved => Usable(r)]_guardVars
    BY <1>1
  <1>3. GuardSpec => []LimiterInv
    BY GuardImplementsLimiter, LimiterInvariant, PTL DEF ImplementsLimiter
  <1> QED  BY <1>2, <1>3, PTL DEF GuardSpec, MovesOnlyWhenUsable

\* Type correctness of the guard and everything it composes.
THEOREM GuardTypeCorrect == GuardSpec => []GuardTypeOK
  <1> DEFINE T == /\ routes \in [Routes -> RouteRecords \cup {Unregistered}]
                  /\ tokens \subseteq Tokens
                  /\ authorizedCallers \subseteq Callers
                  /\ paused \subseteq Scopes
  <1>1. GuardInit => T
    BY DEF GuardInit, PauseInit
  <1>2. ASSUME T, [GuardNext]_guardVars
        PROVE  T'
    <2> USE <1>2
    <2>1. CASE Authorizing
      BY <2>1 DEF Authorizing, AuthorizeTransfer, configVars
    <2>2. CASE LimiterStep
      BY <2>2 DEF LimiterStep, configVars
    <2>3. CASE ConfigStep
      BY <2>3, GuardAssumption DEF ConfigStep, RegisterToken, DeregisterToken, RegisterRoute,
         DeregisterRoute, SetAuthorizedCaller, PauseScope, UnpauseScope, Pause, Unpause, configVars
    <2>4. CASE UNCHANGED guardVars
      BY <2>4 DEF guardVars, configVars
    <2> QED  BY <2>1, <2>2, <2>3, <2>4 DEF GuardNext
  <1>3. GuardSpec => []T
    BY <1>1, <1>2, PTL DEF GuardSpec
  <1>4. GuardSpec => []LimiterTypeOK
    BY GuardImplementsLimiter, LimiterTypeCorrect, PTL DEF ImplementsLimiter
  <1>5. T /\ LimiterTypeOK => GuardTypeOK
    BY DEF GuardTypeOK
  <1> QED  BY <1>3, <1>4, <1>5, PTL

\* availableCapacity is exact for every configuration: what users are shown is
\* what an authorized transfer of the route's own token gets through.
THEOREM CapacityTheorem == GuardSpec => []CapacityIsHonest
  <1>1. ASSUME GuardTypeOK, AdvertisedIsAccepted, LimiterInv
        PROVE  CapacityIsHonest
    <2> SUFFICES ASSUME NEW caller \in authorizedCallers, NEW r \in Routes, NEW a \in Amounts \ {0}
                 PROVE  (\E t \in Tokens, o \in Domains :
                            Permits(caller, r, t, o) /\ ConsumeAccepts(r, a))
                          <=> ~CapacityReverts(r) /\ a <= AvailableCapacity(r)
      BY DEF CapacityIsHonest
    <2>1. (\E t \in Tokens, o \in Domains : Permits(caller, r, t, o)) <=> Usable(r)
      <3>1. ASSUME NEW t \in Tokens, NEW o \in Domains, Permits(caller, r, t, o)
            PROVE  Usable(r)
        BY <3>1, PauseViewsAgree DEF Permits, Usable, RoutePaused
      <3>2. ASSUME Usable(r)
            PROVE  \E t \in Tokens, o \in Domains : Permits(caller, r, t, o)
        <4>1. routes[r].tokenId \in Tokens /\ routes[r].originDomain \in Domains
          BY <1>1, <3>2 DEF GuardTypeOK, Usable, Registered, RouteRecords
        <4>2. Permits(caller, r, routes[r].tokenId, routes[r].originDomain)
          BY <3>2, PauseViewsAgree DEF Permits, Usable, RoutePaused
        <4> QED  BY <4>1, <4>2
      <3> QED  BY <3>1, <3>2
    <2>2. a \in Nat /\ a > 0 /\ a \in Amounts
      BY LimiterAssumption
    <2>3. ConsumeAccepts(r, a) <=> Configured(r) /\ ~AvailableReverts(r) /\ a <= Available(r)
      BY <1>1, <2>2 DEF AdvertisedIsAccepted
    <2>4. ~Configured(r) => Available(r) = 0
      BY DEF Available
    <2>5. CASE Usable(r)
      BY <2>1, <2>2, <2>3, <2>4, <2>5 DEF CapacityReverts, AvailableCapacity
    <2>6. CASE ~Usable(r)
      BY <2>1, <2>2, <2>6 DEF AvailableCapacity
    <2> QED  BY <2>5, <2>6
  <1>2. GuardSpec => []AdvertisedIsAccepted /\ []LimiterInv
    BY GuardImplementsLimiter, AdvertisedTheorem, LimiterInvariant, PTL DEF ImplementsLimiter
  <1> QED  BY <1>1, <1>2, GuardTypeCorrect, PTL

-----------------------------------------------------------------------------
\* A bucket that was just settled projects to what it holds.
LEMMA JustSettled ==
    ASSUME NEW b \in BucketRecords, NEW cap \in Nat, NEW p \in Nat \ {0},
           now \in Nat, b.updatedAt = now, b.available <= cap
    PROVE  Projected(b, cap, p) = b.available
  <1>1. Elapsed(b) = 0 /\ b.available \in Nat
    BY DEF Elapsed, BucketRecords
  <1>2. Refill(b, cap, p) = 0
    <2>1. cap * 0 = 0 /\ 0 \div p = 0
      OBVIOUS
    <2> QED  BY <1>1, <2>1 DEF Refill
  <1> QED  BY <1>1, <1>2 DEF Projected, Lesser

SettledRoutes ==
    \A r \in Routes : hourly[r].updatedAt = now =>
        /\ Projected(hourly[r], limits[r].maxHourly, HOUR) = hourly[r].available
        /\ Projected(daily[r], limits[r].maxDaily, DAY) = daily[r].available

LEMMA SettledNow == LimiterInv => SettledRoutes
  <1> SUFFICES ASSUME LimiterInv, NEW r \in Routes, hourly[r].updatedAt = now
               PROVE  /\ Projected(hourly[r], limits[r].maxHourly, HOUR) = hourly[r].available
                      /\ Projected(daily[r], limits[r].maxDaily, DAY) = daily[r].available
    BY DEF SettledRoutes
  <1>1. /\ hourly[r].available <= limits[r].maxHourly
        /\ daily[r].available <= limits[r].maxDaily
        /\ daily[r].updatedAt = now
    BY DEF LimiterInv, LimiterTypeOK
  <1> QED  BY <1>1, RouteFacts, JustSettled, LimiterAssumption

LEMMA SettledAfter == (LimiterInv => SettledRoutes)'
  BY SettledNow, PTL

LEMMA AvailableType ==
    ASSUME LimiterInv, NEW r \in Routes
    PROVE  Available(r) \in Nat
  <1>1. /\ Projected(hourly[r], limits[r].maxHourly, HOUR) \in Nat
        /\ Projected(daily[r], limits[r].maxDaily, DAY) \in Nat
        /\ limits[r].maxPerTransaction \in Nat
    BY RouteFacts, ProjectedBound, LimiterAssumption DEF LimitRecords
  <1> QED  BY <1>1 DEF Available, Lesser

\* Drawing an amount lowers what is available by that amount at most: by less
\* when the cap per transaction was the one that bound.
LEMMA ConsumeLowers ==
    ASSUME LimiterInv, LimiterInv', NEW r \in Routes, NEW a \in Nat, Consume(r, a)
    PROVE  /\ a <= Available(r)
           /\ Available(r)' \in (Available(r) - a)..Available(r)
           /\ \A q \in Routes \ {r} : Available(q)' = Available(q)
  <1> DEFINE h == Projected(hourly[r], limits[r].maxHourly, HOUR)
             d == Projected(daily[r], limits[r].maxDaily, DAY)
             t == limits[r].maxPerTransaction
  <1>1. h \in Nat /\ d \in Nat /\ t \in Nat
    BY RouteFacts, ProjectedBound, LimiterAssumption DEF LimitRecords
  <1>2. Configured(r) /\ a <= t /\ a <= h /\ a <= d /\ UNCHANGED <<limits, now>>
    BY DEF Consume, ConsumeAccepts
  <1>3. /\ hourly'[r] = [available |-> h - a, updatedAt |-> now]
        /\ daily'[r] = [available |-> d - a, updatedAt |-> now]
    <2>1. r \in DOMAIN hourly /\ r \in DOMAIN daily
      BY DEF LimiterInv, LimiterTypeOK
    <2> QED  BY <2>1 DEF Consume, Spent, Settled
  <1>4. Available(r) = Lesser(t, Lesser(h, d))
    BY <1>2 DEF Available
  <1>5. Available(r)' = Lesser(t, Lesser(h - a, d - a))
    <2>1. hourly'[r].updatedAt = now' /\ hourly'[r].available = h - a /\ daily'[r].available = d - a
      BY <1>2, <1>3
    <2>2. /\ Projected(hourly[r], limits[r].maxHourly, HOUR)' = h - a
          /\ Projected(daily[r], limits[r].maxDaily, DAY)' = d - a
      BY <2>1, SettledAfter DEF SettledRoutes
    <2> HIDE DEF h, d
    <2> QED  BY <1>2, <2>2 DEF Available, Lesser, Configured
  <1>6. ASSUME NEW q \in Routes \ {r} PROVE Available(q)' = Available(q)
    <2>1. hourly'[q] = hourly[q] /\ daily'[q] = daily[q]
      BY DEF Consume, LimiterInv, LimiterTypeOK
    <2> QED
      BY <1>2, <2>1 DEF Available, Lesser, Configured, Projected, Refill, Elapsed
  <1> HIDE DEF h, d, t
  <1>7. a <= Available(r)
    BY <1>1, <1>2, <1>4 DEF Lesser
  <1>8. Available(r)' \in (Available(r) - a)..Available(r)
    BY <1>1, <1>2, <1>4, <1>5 DEF Lesser
  <1> QED  BY <1>6, <1>7, <1>8

\* An accepted transfer is one passage through the abstract gate.
LEMMA AuthorizeMaps ==
    ASSUME LimiterInv, LimiterInv', NEW caller, NEW r \in Routes, NEW t, NEW o,
           NEW a \in Amounts, AuthorizeTransfer(caller, r, t, o, a)
    PROVE  [AbstractGate!GateNext]_(AbstractGate!gateVars)
  <1>1. /\ Consume(r, a)
        /\ UNCHANGED <<routes, tokens, paused>>
        /\ a \in Nat
    BY LimiterAssumption DEF AuthorizeTransfer, configVars
  <1>2. Usable(r)
    BY PauseViewsAgree DEF AuthorizeTransfer, Permits, Usable, RoutePaused
  <1>3. \A q \in Routes : Usable(q)' <=> Usable(q)
    BY <1>1 DEF Usable, Registered, RoutePaused, IsPaused
  <1>4. /\ a <= Available(r)
        /\ Available(r)' \in (Available(r) - a)..Available(r)
        /\ \A q \in Routes \ {r} : Available(q)' = Available(q)
    BY <1>1, ConsumeLowers
  <1>5. window \in [Routes -> WindowRecords] /\ \A q \in Routes : window[q].moved \in Nat
    BY DEF LimiterInv, LimiterTypeOK, WindowRecords
  <1>6. \A q \in Routes : window'[q].moved = IF q = r THEN window[q].moved + a ELSE window[q].moved
    <2>1. window' = [window EXCEPT ![r].moved = @ + a]
      BY <1>1 DEF Consume
    <2> QED  BY <1>5, <2>1 DEF WindowRecords
  <1>7. CASE a = 0
    <2>1. \A q \in Routes : window'[q].moved = window[q].moved
      BY <1>5, <1>6, <1>7
    <2>2. AbstractGate!Operate
      BY <2>1 DEF AbstractGate!Operate
    <2> QED  BY <2>2 DEF AbstractGate!GateNext
  <1>8. CASE a # 0
    <2> DEFINE cap == [q \in Routes |-> AvailableCapacity(q)]
               gone == [q \in Routes |-> window[q].moved]
    <2>1. cap[r] = Available(r) /\ cap'[r] = Available(r)'
      BY <1>2, <1>3 DEF AvailableCapacity
    <2>2. \A q \in Routes \ {r} : cap'[q] = cap[q]
      BY <1>3, <1>4 DEF AvailableCapacity
    <2>3. gone' = [gone EXCEPT ![r] = @ + a]
      BY <1>6
    <2>4. AbstractGate!Pass(r, a)
      BY <1>4, <2>1, <2>2, <2>3 DEF AbstractGate!Pass
    <2>5. a \in 1..cap[r]
      BY <1>1, <1>4, <1>8, <2>1, AvailableType
    <2> QED  BY <2>4, <2>5 DEF AbstractGate!GateNext
  <1> QED  BY <1>7, <1>8

\* What operators and time do changes no count.
LEMMA OperatorsMap ==
    ASSUME LimiterInv,
           \/ ConfigStep
           \/ Tick
           \/ \E r \in Routes, l \in LimitChoices : FirstLimits(r, l) \/ Reconfigure(r, l)
    PROVE  AbstractGate!Operate
  <1>1. window \in [Routes -> WindowRecords]
    BY DEF LimiterInv, LimiterTypeOK
  <1>2. CASE ConfigStep
    BY <1>2 DEF ConfigStep, RegisterToken, DeregisterToken, RegisterRoute, DeregisterRoute,
                SetAuthorizedCaller, PauseScope, UnpauseScope, limiterVars, AbstractGate!Operate
  <1>3. CASE Tick
    BY <1>3 DEF Tick, AbstractGate!Operate
  <1>4. ASSUME NEW r \in Routes, NEW l \in LimitChoices, FirstLimits(r, l) \/ Reconfigure(r, l)
        PROVE  AbstractGate!Operate
    <2>1. window' = [window EXCEPT ![r] = RaisedWindow(@, l)]
      BY <1>4 DEF FirstLimits, Reconfigure
    <2>2. RaisedWindow(window[r], l).moved = window[r].moved
      BY <1>1 DEF RaisedWindow, WindowRecords
    <2>3. \A q \in Routes : window'[q].moved = window[q].moved
      BY <1>1, <2>1, <2>2
    <2> QED  BY <2>3 DEF AbstractGate!Operate
  <1> QED  BY <1>2, <1>3, <1>4

\* Starting an observation is the gate's recount.
LEMMA OpenWindowMaps ==
    ASSUME LimiterInv, NEW r \in Routes, OpenWindow(r), UNCHANGED <<configVars, paused>>
    PROVE  AbstractGate!Recount(r)
  <1>1. window \in [Routes -> WindowRecords] /\ window' = [window EXCEPT ![r] = OpenedWindow(limits[r])]
    BY DEF LimiterInv, LimiterTypeOK, OpenWindow
  <1>2. \A q \in Routes : window'[q].moved = IF q = r THEN 0 ELSE window[q].moved
    BY <1>1 DEF OpenedWindow
  <1>3. \A q \in Routes : AvailableCapacity(q)' = AvailableCapacity(q)
    BY DEF OpenWindow, configVars, AvailableCapacity, Usable, Registered, RoutePaused, IsPaused,
           Available, Lesser, Configured, Projected, Refill, Elapsed
  <1> QED  BY <1>2, <1>3 DEF AbstractGate!Recount

\* The guard keeps, for every configuration, the promise the bridge is verified
\* against: whatever passes a route was available on it a moment before, lowers
\* that by at most its amount, and lowers no other route.
THEOREM GuardImplementsGate == GuardSpec => ImplementsGate
  <1>1. GuardInit => AbstractGate!GateInit
    <2> SUFFICES ASSUME GuardInit PROVE AbstractGate!GateInit
      OBVIOUS
    <2>1. \A r \in Routes : ~Usable(r) /\ window[r].moved = 0
      BY DEF GuardInit, LimiterInit, Usable, Registered
    <2> QED  BY <2>1 DEF AbstractGate!GateInit, AvailableCapacity
  <1>2. ASSUME LimiterInv, [GuardNext]_guardVars
        PROVE  [AbstractGate!GateNext]_(AbstractGate!gateVars)
    <2>1. LimiterInv'
      BY <1>2, GuardStepIsLimiterStep, LimiterInvStep
    <2>2. CASE Authorizing
      BY <1>2, <2>1, <2>2, AuthorizeMaps DEF Authorizing
    <2>3. CASE LimiterStep
      <3>1. ASSUME NEW r \in Routes, OpenWindow(r) PROVE AbstractGate!GateNext
        <4>1. AbstractGate!Recount(r)
          BY <1>2, <2>3, <3>1, OpenWindowMaps DEF LimiterStep
        <4> QED  BY <4>1 DEF AbstractGate!GateNext
      <3>2. \/ \E r \in Routes : OpenWindow(r)
            \/ Tick
            \/ \E r \in Routes, l \in LimitChoices : FirstLimits(r, l) \/ Reconfigure(r, l)
        BY <2>3, Zenon DEF LimiterStep
      <3>3. ASSUME ~ \E r \in Routes : OpenWindow(r) PROVE AbstractGate!GateNext
        BY <1>2, <3>2, <3>3, OperatorsMap, Zenon DEF AbstractGate!GateNext
      <3> QED  BY <3>1, <3>3, Zenon
    <2>4. CASE ConfigStep
      BY <1>2, <2>4, OperatorsMap, Zenon DEF AbstractGate!GateNext
    <2>5. CASE UNCHANGED guardVars
      <3>1. \A q \in Routes : AvailableCapacity(q)' = AvailableCapacity(q)
        BY <2>5 DEF guardVars, limiterVars, configVars, AvailableCapacity, Usable, Registered,
           RoutePaused, IsPaused, Available, Lesser, Configured, Projected, Refill, Elapsed
      <3> QED  BY <2>5, <3>1 DEF guardVars, limiterVars, AbstractGate!gateVars
    <2> QED  BY <1>2, <2>2, <2>3, <2>4, <2>5, Zenon DEF GuardNext
  <1>3. GuardSpec => []LimiterInv
    BY GuardImplementsLimiter, LimiterInvariant, PTL DEF ImplementsLimiter
  <1> QED
    BY <1>1, <1>2, <1>3, PTL DEF GuardSpec, ImplementsGate, AbstractGate!GateSpec

\* The way out of an oversized limit stays open through the guard.
THEOREM GuardSettable == GuardSpec => []SmallLimitsAlwaysSettable
  <1> QED  BY GuardImplementsLimiter, SettableTheorem, PTL DEF ImplementsLimiter
=============================================================================
