--------------------------- MODULE ActivityProofs ---------------------------
(***************************************************************************)
(* What the web application tells of transfers, for any accounts,          *)
(* transfers, chains and errors: it shows an arrival only of what has      *)
(* arrived, says that nothing moved only if nothing did, lists only an     *)
(* account's own transfers, and forgets none that there is room for.  Lists *)
(* that are filtered bring in the pickers as well.                         *)
(***************************************************************************)
EXTENDS Activity, Picker, FiniteSetTheorems, TLAPS

----------------------------------------------------------------------------
(* The list of an account.                                                 *)

Rank(places, i) == Cardinality({j \in places : j <= i})

\* The places kept by a filter are counted without a gap: each is the k-th for
\* one k, and there is a k-th for each k up to their number.
LEMMA Ranks ==
    ASSUME NEW n \in Nat, NEW places \in SUBSET (1..n)
    PROVE  /\ Cardinality(places) \in Nat
           /\ \A i \in places : /\ Rank(places, i) \in 1..Cardinality(places)
                                /\ Rank(places, i) <= i
                                /\ Kth(places, Rank(places, i)) = i
           /\ \A k \in 1..Cardinality(places) : Kth(places, k) \in places
<1> DEFINE Upto(i) == {j \in places : j <= i}
           size == Cardinality(places)
<1>1. IsFiniteSet(places) /\ size \in Nat
  <2>1. IsFiniteSet(1..n)
    BY FS_Interval, SMT
  <2>2. IsFiniteSet(places)
    BY <2>1, FS_Subset, Zenon
  <2> QED BY <2>2, FS_CardinalityType, Zenon
<1> HIDE DEF size
<1>2. ASSUME NEW i \in places
      PROVE  /\ IsFiniteSet(Upto(i)) /\ i \in Upto(i)
             /\ Rank(places, i) \in 1..size /\ Rank(places, i) <= i
  <2>1. i \in Nat \ {0} /\ Upto(i) \in SUBSET places /\ Upto(i) \in SUBSET (1..i) /\ i \in Upto(i)
    <3>1. i \in 1..n /\ \A j \in places : j \in 1..n
      OBVIOUS
    <3>2. \A j \in Upto(i) : j \in places /\ j \in 1..i
      BY <3>1
    <3>3. i <= i
      BY <3>1
    <3>4. i \in Nat \ {0}
      BY <3>1
    <3> QED BY <3>2, <3>3, <3>4, Zenon
  <2> HIDE DEF Upto
  <2>2. IsFiniteSet(Upto(i)) /\ Cardinality(Upto(i)) <= size
    BY <1>1, <2>1, FS_Subset, Zenon DEF size
  <2>3. IsFiniteSet(1..i) /\ Cardinality(1..i) = i
    BY <2>1, FS_Interval
  <2>4. Cardinality(Upto(i)) <= i
    BY <2>1, <2>3, FS_Subset
  <2>5. Cardinality(Upto(i)) \in Nat /\ Cardinality(Upto(i)) # 0
    BY <2>1, <2>2, FS_CardinalityType, FS_EmptySet
  <2>6. Rank(places, i) = Cardinality(Upto(i))
    BY Zenon DEF Rank, Upto
  <2> QED BY <1>1, <2>1, <2>2, <2>4, <2>5, <2>6
<1>3. ASSUME NEW i \in places, NEW j \in places, i < j
      PROVE  Rank(places, i) # Rank(places, j)
  <2>1. Upto(i) \in SUBSET Upto(j) /\ j \notin Upto(i)
    <3>1. i \in 1..n /\ j \in 1..n /\ \A k \in places : k \in 1..n
      OBVIOUS
    <3>2. \A k \in places : k <= i => k <= j
      BY <1>3, <3>1
    <3>3. ~(j <= i)
      BY <1>3, <3>1
    <3> QED BY <3>2, <3>3, Zenon
  <2>2. IsFiniteSet(Upto(j)) /\ j \in Upto(j)
    BY <1>2
  <2>3. Rank(places, i) = Cardinality(Upto(i)) /\ Rank(places, j) = Cardinality(Upto(j))
    BY Zenon DEF Rank
  <2> HIDE DEF Upto
  <2>4. Cardinality(Upto(j)) = Cardinality(Upto(i)) => Upto(j) = Upto(i)
    BY <2>1, <2>2, FS_Subset
  <2> QED BY <2>1, <2>2, <2>3, <2>4
<1>4. \A i, j \in places : Rank(places, i) = Rank(places, j) => i = j
  <2>1. \A i, j \in places : i < j \/ j < i \/ i = j
    OBVIOUS
  <2> QED BY <1>3, <2>1, Zenon
<1>5. \A i \in places : Kth(places, Rank(places, i)) = i
  BY <1>4, Zenon DEF Kth, Rank
<1> DEFINE f == [i \in places |-> Rank(places, i)]
<1>6. f \in Injection(places, 1..size)
  <2>1. f \in [places -> 1..size]
    BY <1>2
  <2> QED BY <1>4, <2>1, Zenon DEF Injection, IsInjective
<1>7. IsFiniteSet(1..size) /\ Cardinality(1..size) = size
  BY <1>1, FS_Interval
<1>8. f \in Surjection(places, 1..size)
  <2> HIDE DEF f
  <2>1. size = Cardinality(places)
    BY DEF size
  <2> QED BY <1>6, <1>7, <2>1, FS_Injection
<1>9. \A k \in 1..size : \E i \in places : Rank(places, i) = k
  BY <1>8, Zenon DEF Surjection
<1>10. \A k \in 1..size : Kth(places, k) \in places
  BY <1>5, <1>9, Zenon
<1> QED BY <1>1, <1>2, <1>5, <1>10, Zenon DEF size

Entries == [tx : Transfers, messageId : BOOLEAN]

Lists == {list \in Seq(Entries) : Len(list) <= Cap}

LEMMA EntriesOfLists ==
    ASSUME NEW list \in Lists, NEW i \in DOMAIN list
    PROVE  list[i] \in Entries /\ list[i].tx \in Transfers /\ list[i].messageId \in BOOLEAN
<1>1. list \in Seq(Entries)
  BY DEF Lists
<1>2. list[i] \in Entries
  BY <1>1
<1> QED BY <1>2 DEF Entries

\* What is recorded is put first, and nothing is invented; what was listed is
\* still listed, unless it was the last of a full list.
LEMMA Recording ==
    ASSUME NEW list \in Lists, NEW record \in Entries
    PROVE  /\ Recorded(list, record) \in Lists
           /\ \A k \in DOMAIN Recorded(list, record) :
                 \/ Recorded(list, record)[k] = record
                 \/ \E i \in DOMAIN list : Recorded(list, record)[k] = list[i]
           /\ \A i \in DOMAIN list :
                 \/ \E j \in DOMAIN Recorded(list, record) : Recorded(list, record)[j].tx = list[i].tx
                 \/ i = Cap /\ Len(Recorded(list, record)) = Cap
<1> DEFINE others == {i \in DOMAIN list : list[i].tx # record.tx}
           size == Cardinality(others)
           length == IF size < Cap THEN 1 + size ELSE Cap
           whole == [k \in 1..length |-> IF k = 1 THEN record ELSE list[Kth(others, k - 1)]]
<1>1. /\ Len(list) \in Nat /\ Len(list) <= Cap /\ Cap \in Nat \ {0}
      /\ DOMAIN list = 1..Len(list)
      /\ \A i \in DOMAIN list : list[i] \in Entries
  BY ActivityAssumption DEF Lists
<1>2. others \in SUBSET (1..Len(list))
  BY <1>1
<1>3. \A i \in DOMAIN list : i \in others <=> list[i].tx # record.tx
  OBVIOUS
<1> HIDE DEF others
<1>5. /\ size \in Nat
      /\ \A i \in others : /\ Rank(others, i) \in 1..size
                           /\ Rank(others, i) <= i
                           /\ Kth(others, Rank(others, i)) = i
      /\ \A k \in 1..size : Kth(others, k) \in others
  BY <1>1, <1>2, Ranks
<1> HIDE DEF size
<1>6. length \in Nat /\ length <= Cap /\ 1 <= length /\ length <= 1 + size
      /\ (length < 1 + size => length = Cap)
  BY <1>1, <1>5
<1> HIDE DEF length
<1>7. \A k \in 1..length : k # 1 => k - 1 \in 1..size
  BY <1>5, <1>6
<1>4. Recorded(list, record) = whole
  <2>1. \A k \in 1..length : k # 1 => AtPlaces(list, others)[k - 1] = list[Kth(others, k - 1)]
    BY <1>7, Zenon DEF AtPlaces, size
  <2>2. Recorded(list, record) = [k \in 1..length |-> IF k = 1 THEN record ELSE AtPlaces(list, others)[k - 1]]
    BY Zenon DEF Recorded, length, size, others
  <2> QED BY <2>1, <2>2, Zenon
<1>8. \A k \in 1..length : whole[k] = record \/ \E i \in DOMAIN list : whole[k] = list[i]
  <2>1. \A k \in 1..length : k # 1 => Kth(others, k - 1) \in DOMAIN list
    BY <1>1, <1>2, <1>5, <1>7, Zenon
  <2> QED BY <2>1, Zenon
<1>9. whole \in [1..length -> Entries]
  <2>1. \A k \in 1..length : whole[k] \in Entries
    BY <1>1, <1>8, Zenon
  <2> QED BY <2>1
<1>10. Len(whole) = length /\ DOMAIN whole = 1..length /\ whole \in Seq(Entries)
  <2> HIDE DEF whole
  <2> QED BY <1>6, <1>9
<1>11. ASSUME NEW i \in DOMAIN list
       PROVE  (\E j \in 1..length : whole[j].tx = list[i].tx) \/ (i = Cap /\ length = Cap)
  <2>1. CASE i \notin others
    <3>1. list[i].tx = record.tx /\ 1 \in 1..length
      BY <1>3, <1>6, <2>1
    <3>2. whole[1] = record
      BY <3>1
    <3> QED BY <3>1, <3>2, Zenon
  <2>2. CASE i \in others
    <3> DEFINE r == Rank(others, i)
    <3>1. r \in 1..size /\ r <= i /\ Kth(others, r) = i
      BY <1>5, <2>2
    <3> HIDE DEF r
    <3>2. i \in Nat /\ i <= Cap
      BY <1>1
    <3>3. CASE r + 1 <= length
      <4>1. r + 1 \in 1..length /\ r + 1 # 1 /\ (r + 1) - 1 = r
        BY <1>6, <3>1, <3>3
      <4>2. whole[r + 1] = list[i]
        BY <3>1, <4>1
      <4> QED BY <4>1, <4>2, Zenon
    <3>4. CASE ~(r + 1 <= length)
      <4>1. i = Cap /\ length = Cap
        BY <1>1, <1>5, <1>6, <3>1, <3>2, <3>4
      <4> QED BY <4>1
    <3> QED BY <3>3, <3>4
  <2> QED BY <2>1, <2>2
<1> HIDE DEF whole
<1>12. whole \in Lists
  BY <1>6, <1>10 DEF Lists
<1> QED BY <1>4, <1>8, <1>10, <1>11, <1>12, Zenon
----------------------------------------------------------------------------
(* The invariant.                                                          *)

Calls == [tx : Transfers, wallet : Wallets, here : BOOLEAN]

Receipts == [tx : Transfers, messageId : BOOLEAN, to : Chains]

ActivityTypeOK ==
    /\ chain \in [Transfers -> {"unsent", "pending", "mined", "reverted", "delivered"}]
    /\ sender \in [Transfers -> Wallets \cup {None}]
    /\ stored \in [Wallets -> Lists]
    /\ wallet \in Wallets \cup {None}
    /\ page \in Pages
    /\ calls \subseteq Calls
    /\ error # None => error.tx \in Transfers
    /\ receipt \in {None} \cup Receipts
    /\ listed \in Lists
    /\ found \in BOOLEAN
    /\ answers \in [Queries -> {"none", "AWAITING_VERIFICATION", "DELIVERED"}]

\* Nothing is sent that nobody started.
SentWasStarted == \A t \in Transfers : sender[t] = None => chain[t] = "unsent"

\* There is one call of a transfer, of the account that started it.
CallsOwn ==
    /\ \A c \in calls : sender[c.tx] = c.wallet
    /\ \A c, d \in calls : c.tx = d.tx => c = d

\* The call that failed is over, and no other can send its transfer.
ErrorTrue ==
    error # None =>
        /\ sender[error.tx] # None
        /\ \A c \in calls : c.tx # error.tx
        /\ error.code \in NothingMoved => chain[error.tx] = "unsent"

TellsTrue(r) == r.messageId => Dispatched(r.tx)

StoredOwn ==
    \A w \in Wallets : \A i \in DOMAIN stored[w] :
        sender[stored[w][i].tx] = w /\ TellsTrue(stored[w][i])

ListedOwn ==
    \A i \in DOMAIN listed :
        wallet # None /\ sender[listed[i].tx] = wallet /\ TellsTrue(listed[i])

ReceiptTrue == receipt # None => TellsTrue(receipt)

PageTrue == page \in Transfers => Dispatched(page)

AnswersTrue ==
    \A t \in Transfers, c \in Chains : answers[StatusKey(t, c)] = "DELIVERED" => chain[t] = "delivered"

ActivityInv ==
    /\ ActivityTypeOK /\ SentWasStarted /\ CallsOwn /\ ErrorTrue /\ StoredOwn
    /\ ListedOwn /\ ReceiptTrue /\ PageTrue /\ AnswersTrue

LEMMA ActivityBegins ==
    ASSUME ActivityInit
    PROVE  ActivityInv
<1>1. <<>> \in Lists /\ DOMAIN <<>> = {}
  BY ActivityAssumption DEF Lists
<1>2. "bridge" \in Pages /\ "bridge" \notin Transfers
  BY ActivityAssumption DEF Pages
<1>3. \A t \in Transfers, c \in Chains : StatusKey(t, c) \in Queries
  BY DEF Queries
<1>4. "none" # "DELIVERED"
  OBVIOUS
<1>5. ActivityTypeOK
  BY <1>1, <1>2, Zenon DEF ActivityInit, ActivityTypeOK
<1>6. SentWasStarted /\ CallsOwn /\ ErrorTrue
  BY Zenon DEF ActivityInit, SentWasStarted, CallsOwn, ErrorTrue
<1>7. StoredOwn /\ ListedOwn /\ ReceiptTrue /\ PageTrue
  BY <1>1, <1>2, Zenon DEF ActivityInit, StoredOwn, ListedOwn, ReceiptTrue, PageTrue
<1>8. AnswersTrue
  BY <1>3, <1>4, Zenon DEF ActivityInit, AnswersTrue
<1> QED BY <1>5, <1>6, <1>7, <1>8 DEF ActivityInv

\* What happened stays so.
Grows ==
    \A t \in Transfers :
        /\ sender[t] # None => sender'[t] = sender[t]
        /\ Dispatched(t) => Dispatched(t)'
        /\ chain[t] = "delivered" => chain'[t] = "delivered"

\* What a step does not touch stays true as the chains move on.
LEMMA Frame ==
    ASSUME ActivityInv, Grows
    PROVE  /\ calls' \subseteq calls => CallsOwn'
           /\ UNCHANGED stored => StoredOwn'
           /\ UNCHANGED <<wallet, listed>> => ListedOwn'
           /\ UNCHANGED receipt => ReceiptTrue'
           /\ UNCHANGED page => PageTrue'
           /\ UNCHANGED answers => AnswersTrue'
           /\ UNCHANGED <<error, chain>> /\ calls' \subseteq calls => ErrorTrue'
<1>1. ActivityTypeOK /\ None \notin Wallets
  BY ActivityAssumption DEF ActivityInv
<1>2. \A r \in Entries \cup Receipts : TellsTrue(r) => TellsTrue(r)'
  <2>1. \A r \in Entries \cup Receipts : r.tx \in Transfers
    BY DEF Entries, Receipts
  <2> QED BY <2>1, Zenon DEF Grows, TellsTrue
<1>3. \A list \in Lists : \A i \in DOMAIN list : list[i] \in Entries /\ list[i].tx \in Transfers
  BY EntriesOfLists
<1>4. \A c \in calls : c.tx \in Transfers /\ c.wallet # None
  BY <1>1 DEF ActivityTypeOK, Calls
<1>5. ASSUME calls' \subseteq calls PROVE CallsOwn'
  BY <1>4, <1>5, Zenon DEF ActivityInv, CallsOwn, Grows
<1>6. ASSUME UNCHANGED stored PROVE StoredOwn'
  <2>1. \A w \in Wallets : stored[w] \in Lists /\ w # None
    BY <1>1, Zenon DEF ActivityTypeOK
  <2> QED BY <1>2, <1>3, <1>6, <2>1, Zenon DEF ActivityInv, StoredOwn, Grows
<1>7. ASSUME UNCHANGED <<wallet, listed>> PROVE ListedOwn'
  <2>1. listed \in Lists
    BY <1>1, Zenon DEF ActivityTypeOK
  <2> QED BY <1>2, <1>3, <1>7, <2>1, Zenon DEF ActivityInv, ListedOwn, Grows
<1>8. ASSUME UNCHANGED receipt PROVE ReceiptTrue'
  BY <1>1, <1>2, <1>8, Zenon DEF ActivityInv, ActivityTypeOK, ReceiptTrue
<1>9. ASSUME UNCHANGED page PROVE PageTrue'
  BY <1>9, Zenon DEF ActivityInv, PageTrue, Grows
<1>10. ASSUME UNCHANGED answers PROVE AnswersTrue'
  BY <1>10, Zenon DEF ActivityInv, AnswersTrue, Grows, StatusKey
<1>11. ASSUME UNCHANGED <<error, chain>>, calls' \subseteq calls PROVE ErrorTrue'
  BY <1>1, <1>11, Zenon DEF ActivityInv, ErrorTrue, Grows, ActivityTypeOK
<1> QED BY <1>5, <1>6, <1>7, <1>8, <1>9, <1>10, <1>11, Zenon
----------------------------------------------------------------------------
(* The steps.                                                              *)

\* A step of the application, one case per action.
LEMMA ActivityStepCases ==
    ASSUME [ActivityNext]_activityVars, NEW P,
           \A t \in Transfers : Start(t) => P,
           \A t \in Transfers : Mine(t) => P,
           \A t \in Transfers : Deliver(t) => P,
           \A call \in calls : Refused(call) => P,
           \A call \in calls : Sign(call) => P,
           \A call \in calls : LostAnswer(call) => P,
           \A call \in calls : Resolve(call) => P,
           CloseReceipt => P,
           \A p \in Pages : FollowLink(p) => P,
           \A p \in Pages : Load(p) => P,
           \A w \in Wallets \cup {None} : SwitchAccount(w) => P,
           \A f \in Followed, fresh \in BOOLEAN : Poll(f, fresh) => P,
           \A k \in Queries : Evict(k) => P,
           \A t \in Transfers, w \in Wallets : SentElsewhere(t, w) => P,
           UNCHANGED activityVars => P
    PROVE  P
BY Zenon DEF ActivityNext

LEMMA OfCalls ==
    ASSUME ActivityInv, NEW c \in calls
    PROVE  /\ c \in Calls /\ c.tx \in Transfers /\ c.wallet \in Wallets
           /\ sender[c.tx] = c.wallet /\ sender[c.tx] # None
<1>1. c \in Calls /\ sender[c.tx] = c.wallet
  BY Zenon DEF ActivityInv, ActivityTypeOK, CallsOwn
<1>2. c.tx \in Transfers /\ c.wallet \in Wallets
  BY <1>1 DEF Calls
<1> QED BY <1>1, <1>2, ActivityAssumption, Zenon

\* While the chains stand still and nobody starts anything.
LEMMA StandStill ==
    ASSUME ActivityInv, UNCHANGED <<chain, sender>>
    PROVE  Grows /\ SentWasStarted'
BY Zenon DEF ActivityInv, Grows, SentWasStarted, Dispatched

\* A call ends with an error.
LEMMA Throwing ==
    ASSUME ActivityInv, Grows, NEW call \in calls, NEW code, Throws(call, code),
           code \in NothingMoved => chain'[call.tx] = "unsent",
           \A t \in Transfers : t # call.tx => chain'[t] = chain[t]
    PROVE  ErrorTrue' /\ CallsOwn' /\ (error' # None => error'.tx \in Transfers)
<1>1. calls' = calls \ {call} /\ error' = IF call.here THEN [tx |-> call.tx, code |-> code] ELSE error
  BY Zenon DEF Throws
<1>2. CallsOwn'
  BY <1>1, Frame, Zenon
<1>3. call.tx \in Transfers /\ sender'[call.tx] # None
  BY OfCalls, Zenon DEF Grows
<1>4. \A c \in calls' : c.tx # call.tx
  BY <1>1, Zenon DEF ActivityInv, CallsOwn
<1>5. CASE call.here
  <2> DEFINE e == [tx |-> call.tx, code |-> code]
  <2>1. e.tx = call.tx /\ e.code = code
    OBVIOUS
  <2>2. error' = e
    BY <1>1, <1>5, Zenon
  <2> HIDE DEF e
  <2> QED BY <1>2, <1>3, <1>4, <2>1, <2>2, Zenon DEF ErrorTrue
<1>6. CASE ~call.here
  <2>1. error' = error
    BY <1>1, <1>6, Zenon
  <2>2. ASSUME error # None
        PROVE  /\ error.tx \in Transfers /\ error.tx # call.tx /\ sender[error.tx] # None
               /\ \A c \in calls : c.tx # error.tx
               /\ error.code \in NothingMoved => chain[error.tx] = "unsent"
    BY <2>2, Zenon DEF ActivityInv, ActivityTypeOK, ErrorTrue
  <2> QED BY <1>1, <1>2, <2>1, <2>2, Zenon DEF ErrorTrue, Grows
<1> QED BY <1>5, <1>6

\* An answer that did not come is no failure of the kind that moved nothing.
LEMMA LostIsNotNothing ==
    ASSUME NEW thrown \in AnswerLost
    PROVE  NormalizeError(thrown) \notin NothingMoved
<1>1. \A i \in DOMAIN Clues : Clues[i].mentions = "unreachable" => i = 7
  <2>1. DOMAIN Clues = 1..8
    BY DEF Clues
  <2>2. /\ Clues[1].mentions = "user rejected" /\ Clues[2].mentions = "allowance"
        /\ Clues[3].mentions = "funds" /\ Clues[4].mentions = "limit"
        /\ Clues[5].mentions = "paused" /\ Clues[6].mentions = "wrong network"
        /\ Clues[8].mentions = "reverted"
    BY DEF Clues
  <2>3. \A i \in 1..8 : i \in {1, 2, 3, 4, 5, 6, 8} \/ i = 7
    OBVIOUS
  <2> QED BY <2>1, <2>2, <2>3
<1>2. \A i \in Mentioned(thrown) : i = 7
  BY <1>1, Zenon DEF Mentioned, AnswerLost
<1>3. Mentioned(thrown) = {} \/ Mentioned(thrown) = {7}
  BY <1>2
<1>4. Clues[7].code = "RPC_UNAVAILABLE"
  BY DEF Clues
<1>5. (CHOOSE i \in {7} : \A j \in {7} : i <= j) = 7
  OBVIOUS
<1>6. NormalizeError(thrown) = "RPC_UNAVAILABLE"
  BY <1>3, <1>4, <1>5, Zenon DEF NormalizeError
<1> QED BY <1>6 DEF NothingMoved

\* A transfer is recorded for the account that started it.
LEMMA Recordings ==
    ASSUME ActivityInv, Grows, NEW w \in Wallets, NEW record \in Entries, sender'[record.tx] = w,
           TellsTrue(record)', stored' = Written(w, record)
    PROVE  stored' \in [Wallets -> Lists] /\ StoredOwn'
<1>1. stored \in [Wallets -> Lists] /\ None \notin Wallets
  BY ActivityAssumption DEF ActivityInv, ActivityTypeOK
<1>2. stored' = [stored EXCEPT ![w] = Recorded(stored[w], record)]
  BY Zenon DEF Written
<1>3. Recorded(stored[w], record) \in Lists
  BY <1>1, Recording
<1>4. stored' \in [Wallets -> Lists]
  BY <1>1, <1>2, <1>3
<1> DEFINE Own(r, v) == sender'[r.tx] = v /\ (r.messageId => chain'[r.tx] \in {"mined", "delivered"})
<1>5. \A v \in Wallets : \A i \in DOMAIN stored[v] : Own(stored[v][i], v)
  <2> SUFFICES ASSUME NEW v \in Wallets, NEW i \in DOMAIN stored[v]
               PROVE  Own(stored[v][i], v)
    OBVIOUS
  <2>1. stored[v][i].tx \in Transfers
    BY <1>1, EntriesOfLists
  <2>2. sender[stored[v][i].tx] = v /\ TellsTrue(stored[v][i])
    BY Zenon DEF ActivityInv, StoredOwn
  <2> QED BY <1>1, <2>1, <2>2, Zenon DEF Grows, TellsTrue, Dispatched
<1>6. \A k \in DOMAIN Recorded(stored[w], record) :
         \/ Recorded(stored[w], record)[k] = record
         \/ \E i \in DOMAIN stored[w] : Recorded(stored[w], record)[k] = stored[w][i]
  BY <1>1, Recording
<1>7. stored'[w] = Recorded(stored[w], record) /\ \A v \in Wallets : v # w => stored'[v] = stored[v]
  BY <1>1, <1>2
<1>8. Own(record, w)
  BY Zenon DEF TellsTrue, Dispatched
<1>9. \A v \in Wallets : \A k \in DOMAIN stored'[v] : Own(stored'[v][k], v)
  <2> HIDE DEF Own
  <2>1. \A v \in Wallets : v # w => \A k \in DOMAIN stored'[v] : Own(stored'[v][k], v)
    BY <1>5, <1>7, Zenon
  <2>2. ASSUME NEW k \in DOMAIN stored'[w] PROVE Own(stored'[w][k], w)
    <3>1. \/ stored'[w][k] = record
          \/ \E i \in DOMAIN stored[w] : stored'[w][k] = stored[w][i]
      BY <1>6, <1>7
    <3>2. CASE stored'[w][k] = record
      BY <1>8, <3>2, Zenon
    <3>3. CASE \E i \in DOMAIN stored[w] : stored'[w][k] = stored[w][i]
      BY <1>5, <3>3, Zenon
    <3> QED BY <3>1, <3>2, <3>3
  <2> QED BY <2>1, <2>2, Zenon
<1>10. StoredOwn'
  BY <1>9, Zenon DEF StoredOwn, TellsTrue, Dispatched
<1> QED BY <1>4, <1>10

LEMMA StartKeeps ==
    ASSUME ActivityInv, NEW t \in Transfers, Start(t)
    PROVE  ActivityInv'
<1>1. ActivityTypeOK /\ wallet \in Wallets /\ None \notin Wallets
  BY ActivityAssumption, Zenon DEF Start, ActivityInv, ActivityTypeOK
<1> DEFINE call == [tx |-> t, wallet |-> wallet, here |-> TRUE]
<1>2. call \in Calls /\ call.tx = t /\ call.wallet = wallet
  BY <1>1 DEF Calls
<1> HIDE DEF call
<1>3. /\ sender[t] = None /\ sender' = [sender EXCEPT ![t] = wallet]
      /\ calls' = calls \cup {call} /\ error' = None
      /\ UNCHANGED <<chain, stored, wallet, page, listed, found, receipt, answers>>
  BY DEF Start, viewVars, call
<1>4. sender' \in [Transfers -> Wallets \cup {None}] /\ sender'[t] = wallet
      /\ \A u \in Transfers : u # t => sender'[u] = sender[u]
  BY <1>1, <1>3 DEF ActivityTypeOK
<1>5. ActivityTypeOK'
  BY <1>1, <1>2, <1>3, <1>4, Zenon DEF ActivityTypeOK
<1>6. Grows
  BY <1>3, <1>4, Zenon DEF Grows, Dispatched
<1>7. SentWasStarted'
  BY <1>1, <1>3, <1>4, Zenon DEF SentWasStarted, ActivityInv
<1>8. \A c \in calls : c.tx \in Transfers /\ c.tx # t /\ sender[c.tx] = c.wallet
  BY <1>3, OfCalls, Zenon
<1>9. CallsOwn'
  BY <1>2, <1>3, <1>4, <1>8, Zenon DEF CallsOwn, ActivityInv
<1>10. ErrorTrue'
  BY <1>3, Zenon DEF ErrorTrue
<1> QED BY <1>3, <1>5, <1>6, <1>7, <1>9, <1>10, Frame, Zenon DEF ActivityInv

LEMMA RefusedKeeps ==
    ASSUME ActivityInv, NEW call \in calls, Refused(call)
    PROVE  ActivityInv'
<1>1. chain[call.tx] = "unsent"
      /\ UNCHANGED <<chain, sender, stored, wallet, page, listed, found, receipt, answers>>
  BY DEF Refused, Unsigned, viewVars
<1>2. PICK code : Throws(call, code)
  BY Zenon DEF Refused
<1>3. Grows /\ SentWasStarted'
  BY <1>1, StandStill
<1>4. ErrorTrue' /\ CallsOwn' /\ (error' # None => error'.tx \in Transfers)
  BY <1>1, <1>2, <1>3, Throwing, Zenon
<1>5. calls' \subseteq calls
  BY <1>2 DEF Throws
<1>6. ActivityTypeOK'
  BY <1>1, <1>4, <1>5, Zenon DEF ActivityInv, ActivityTypeOK
<1> QED BY <1>1, <1>3, <1>4, <1>6, Frame, Zenon DEF ActivityInv

\* The wallet sends the transfer of a call.
LEMMA Sending ==
    ASSUME ActivityInv, NEW call \in calls, Unsigned(call),
           chain' = [chain EXCEPT ![call.tx] = "pending"], UNCHANGED sender
    PROVE  /\ Grows /\ SentWasStarted'
           /\ chain' \in [Transfers -> {"unsent", "pending", "mined", "reverted", "delivered"}]
           /\ \A t \in Transfers : t # call.tx => chain'[t] = chain[t]
<1>1. call.tx \in Transfers /\ sender[call.tx] # None /\ chain[call.tx] = "unsent"
  BY OfCalls, Zenon DEF Unsigned
<1>2. chain \in [Transfers -> {"unsent", "pending", "mined", "reverted", "delivered"}]
  BY DEF ActivityInv, ActivityTypeOK
<1>3. \A t \in Transfers : t # call.tx => chain'[t] = chain[t]
  BY <1>2
<1>4. chain' \in [Transfers -> {"unsent", "pending", "mined", "reverted", "delivered"}]
  BY <1>2
<1>5. "unsent" \notin {"mined", "delivered"}
  OBVIOUS
<1>6. Grows /\ SentWasStarted'
  BY <1>1, <1>3, <1>5, Zenon DEF Grows, SentWasStarted, Dispatched, ActivityInv
<1> QED BY <1>3, <1>4, <1>6

LEMMA SignKeeps ==
    ASSUME ActivityInv, NEW call \in calls, Sign(call)
    PROVE  ActivityInv'
<1>1. Unsigned(call) /\ chain' = [chain EXCEPT ![call.tx] = "pending"]
      /\ UNCHANGED <<sender, stored, wallet, page, listed, found, calls, error, receipt, answers>>
  BY DEF Sign, viewVars, formVars
<1>2. /\ Grows /\ SentWasStarted'
      /\ chain' \in [Transfers -> {"unsent", "pending", "mined", "reverted", "delivered"}]
      /\ \A t \in Transfers : t # call.tx => chain'[t] = chain[t]
  BY <1>1, Sending
<1>3. ActivityTypeOK'
  BY <1>1, <1>2, Zenon DEF ActivityInv, ActivityTypeOK
<1>4. ErrorTrue'
  BY <1>1, <1>2, Zenon DEF ErrorTrue, ActivityInv, ActivityTypeOK
<1> QED BY <1>1, <1>2, <1>3, <1>4, Frame, Zenon DEF ActivityInv

LEMMA LostKeeps ==
    ASSUME ActivityInv, NEW call \in calls, LostAnswer(call)
    PROVE  ActivityInv'
<1>1. Unsigned(call) /\ chain' = [chain EXCEPT ![call.tx] = "pending"]
      /\ UNCHANGED <<sender, stored, wallet, page, listed, found, receipt, answers>>
  BY DEF LostAnswer, viewVars
<1>2. /\ Grows /\ SentWasStarted'
      /\ chain' \in [Transfers -> {"unsent", "pending", "mined", "reverted", "delivered"}]
      /\ \A t \in Transfers : t # call.tx => chain'[t] = chain[t]
  BY <1>1, Sending
<1>3. PICK thrown \in AnswerLost : Throws(call, NormalizeError(thrown))
  BY Zenon DEF LostAnswer
<1>4. ErrorTrue' /\ CallsOwn' /\ (error' # None => error'.tx \in Transfers)
  BY <1>2, <1>3, LostIsNotNothing, Throwing, Zenon
<1>5. calls' \subseteq calls
  BY <1>3 DEF Throws
<1>6. ActivityTypeOK'
  BY <1>1, <1>2, <1>4, <1>5, Zenon DEF ActivityInv, ActivityTypeOK
<1> QED BY <1>1, <1>2, <1>4, <1>6, Frame, Zenon DEF ActivityInv

LEMMA ResolveKeeps ==
    ASSUME ActivityInv, NEW call \in calls, Resolve(call)
    PROVE  ActivityInv'
<1>1. calls' = calls \ {call} /\ UNCHANGED <<chain, sender, wallet, page, listed, found, error, answers>>
  BY DEF Resolve, viewVars
<1>2. Grows /\ SentWasStarted'
  BY <1>1, StandStill
<1>3. PICK messageId \in {FALSE, Dispatched(call.tx)}, to \in Chains :
         /\ stored' \in {stored, Written(Account(call), [tx |-> call.tx, messageId |-> messageId])}
         /\ receipt' = IF call.here THEN [tx |-> call.tx, messageId |-> messageId, to |-> to]
                       ELSE receipt
  BY Zenon DEF Resolve
<1> DEFINE record == [tx |-> call.tx, messageId |-> messageId]
           shown == [tx |-> call.tx, messageId |-> messageId, to |-> to]
<1>4. call.tx \in Transfers /\ call.wallet \in Wallets /\ sender'[call.tx] = call.wallet
  BY <1>1, OfCalls
<1>5. messageId \in BOOLEAN /\ (messageId => Dispatched(call.tx)')
  <2>1. Dispatched(call.tx) \in BOOLEAN
    BY DEF Dispatched
  <2>2. CASE messageId = FALSE
    BY <2>2, Zenon
  <2>3. CASE messageId = Dispatched(call.tx)
    <3>1. Dispatched(call.tx)' = Dispatched(call.tx)
      BY <1>1, Zenon DEF Dispatched
    <3> QED BY <2>1, <2>3, <3>1, Zenon
  <2> QED BY <2>2, <2>3, Zenon
<1>6. record \in Entries /\ record.tx = call.tx /\ record.messageId = messageId
  BY <1>4, <1>5 DEF Entries
<1>7. shown \in Receipts /\ shown.tx = call.tx /\ shown.messageId = messageId
  BY <1>4, <1>5 DEF Receipts
<1>8. stored' = stored \/ stored' = Written(call.wallet, record)
  BY <1>3, Zenon DEF Account
<1>9. receipt' = shown \/ receipt' = receipt
  BY <1>3, Zenon
<1> HIDE DEF record, shown
<1>10. ASSUME stored' = Written(call.wallet, record)
       PROVE  stored' \in [Wallets -> Lists] /\ StoredOwn'
  <2>1. PICK entry \in Entries : entry = record
    BY <1>6
  <2>2. TellsTrue(entry)'
    BY <1>5, <1>6, <2>1, Zenon DEF TellsTrue, Dispatched
  <2> QED BY <1>2, <1>4, <1>6, <1>10, <2>1, <2>2, Recordings, Zenon
<1>11. stored' \in [Wallets -> Lists] /\ StoredOwn'
  BY <1>2, <1>8, <1>10, Frame, Zenon DEF ActivityInv, ActivityTypeOK
<1>12. receipt' \in {None} \cup Receipts /\ ReceiptTrue'
  <2>1. CASE receipt' = receipt
    BY <1>2, <2>1, Frame, Zenon DEF ActivityInv, ActivityTypeOK
  <2>2. CASE receipt' = shown
    BY <1>5, <1>7, <2>2, Zenon DEF ReceiptTrue, TellsTrue, Dispatched
  <2> QED BY <1>9, <2>1, <2>2
<1>13. calls' \subseteq calls
  BY <1>1
<1>14. ActivityTypeOK'
  BY <1>1, <1>11, <1>12, <1>13, Zenon DEF ActivityInv, ActivityTypeOK
<1> QED BY <1>1, <1>2, <1>11, <1>12, <1>13, <1>14, Frame, Zenon DEF ActivityInv

LEMMA CloseKeeps ==
    ASSUME ActivityInv, CloseReceipt
    PROVE  ActivityInv'
<1>1. receipt' = None
      /\ UNCHANGED <<chain, sender, stored, wallet, page, listed, found, calls, error, answers>>
  BY DEF CloseReceipt, viewVars
<1>2. Grows /\ SentWasStarted'
  BY <1>1, StandStill
<1>3. ActivityTypeOK' /\ ReceiptTrue'
  BY <1>1, Zenon DEF ActivityInv, ActivityTypeOK, ReceiptTrue
<1> QED BY <1>1, <1>2, <1>3, Frame, Zenon DEF ActivityInv

\* The records kept for an account are its own.
LEMMA Listing ==
    ASSUME ActivityInv, NEW w \in Wallets \cup {None}
    PROVE  /\ ListTransfers(w) \in Lists
           /\ \A i \in DOMAIN ListTransfers(w) :
                 /\ w # None /\ sender[ListTransfers(w)[i].tx] = w
                 /\ TellsTrue(ListTransfers(w)[i])
<1>1. <<>> \in Lists /\ DOMAIN <<>> = {}
  BY ActivityAssumption DEF Lists
<1>2. CASE w = None
  BY <1>1, <1>2, Zenon DEF ListTransfers
<1>3. CASE w # None
  BY <1>3, Zenon DEF ListTransfers, ActivityInv, ActivityTypeOK, StoredOwn
<1> QED BY <1>2, <1>3

\* A list that is shown or emptied, while nothing else moves.
LEMMA Relisting ==
    ASSUME ActivityInv, UNCHANGED <<chain, sender>>, wallet' \in Wallets \cup {None},
           listed' = ListTransfers(wallet') \/ listed' = <<>>
    PROVE  listed' \in Lists /\ ListedOwn'
<1>1. <<>> \in Lists /\ DOMAIN <<>> = {}
  BY ActivityAssumption DEF Lists
<1>2. CASE listed' = <<>>
  BY <1>1, <1>2, Zenon DEF ListedOwn
<1>3. CASE listed' = ListTransfers(wallet')
  <2> SUFFICES ASSUME NEW w \in Wallets \cup {None}, w = wallet',
                      NEW list, list = ListTransfers(w), list = listed'
               PROVE  list \in Lists /\ ListedOwn'
    BY <1>3, Zenon
  <2>1. list \in Lists
        /\ \A i \in DOMAIN list : w # None /\ sender[list[i].tx] = w /\ TellsTrue(list[i])
    BY Listing, Zenon
  <2> QED BY <2>1, Zenon DEF ListedOwn, TellsTrue, Dispatched
<1> QED BY <1>2, <1>3

\* A page that appears: what it lists is the account's, and the page of a
\* transfer is one whose message is on its way.
LEMMA Appearing ==
    ASSUME ActivityInv, UNCHANGED <<chain, sender, stored, wallet>>, NEW p \in Pages, Appears(p),
           p \in Transfers => Dispatched(p)
    PROVE  /\ ErrorTrue' /\ ListedOwn' /\ ReceiptTrue' /\ PageTrue'
           /\ page' \in Pages /\ listed' \in Lists /\ found' \in BOOLEAN
           /\ error' = None /\ receipt' = None
<1>1. error' = None /\ receipt' = None /\ page' = p
  BY DEF Appears
<1>2. ErrorTrue' /\ ReceiptTrue'
  BY <1>1, Zenon DEF ErrorTrue, ReceiptTrue
<1>3. PageTrue'
  BY <1>1, Zenon DEF PageTrue, Dispatched
<1>4. wallet' \in Wallets \cup {None}
  BY DEF ActivityInv, ActivityTypeOK
<1>5. listed' = ListTransfers(wallet') \/ listed' = <<>>
  BY Zenon DEF Appears
<1>6. listed' \in Lists /\ ListedOwn'
  BY <1>4, <1>5, Relisting
<1>7. found' \in BOOLEAN
  BY DEF Appears
<1> QED BY <1>1, <1>2, <1>3, <1>6, <1>7

LEMMA FollowKeeps ==
    ASSUME ActivityInv, NEW p \in Pages, FollowLink(p)
    PROVE  ActivityInv'
<1>1. Appears(p) /\ UNCHANGED <<chain, sender, stored, wallet, answers>>
      /\ calls' = {[c EXCEPT !.here = FALSE] : c \in calls}
  BY DEF FollowLink
<1>2. Grows /\ SentWasStarted'
  BY <1>1, StandStill
<1>3. p \in Transfers => Dispatched(p)
  BY Zenon DEF FollowLink, ActivityInv, ListedOwn, TellsTrue
<1>4. /\ ErrorTrue' /\ ListedOwn' /\ ReceiptTrue' /\ PageTrue'
      /\ page' \in Pages /\ listed' \in Lists /\ found' \in BOOLEAN
      /\ error' = None /\ receipt' = None
  BY <1>1, <1>3, Appearing
<1>5. \A c \in calls : [c EXCEPT !.here = FALSE] \in Calls
                       /\ [c EXCEPT !.here = FALSE].tx = c.tx
                       /\ [c EXCEPT !.here = FALSE].wallet = c.wallet
  <2>1. \A c \in calls : c \in Calls
    BY OfCalls
  <2> QED BY <2>1 DEF Calls
<1>6. \A d \in calls' : \E c \in calls : d = [c EXCEPT !.here = FALSE] /\ d.tx = c.tx /\ d.wallet = c.wallet
  BY <1>1, <1>5, Zenon
<1>7. calls' \subseteq Calls
  BY <1>5, <1>6, Zenon
<1>8. CallsOwn'
  <2>1. ASSUME NEW d \in calls' PROVE sender'[d.tx] = d.wallet
    <3>1. PICK c \in calls : d.tx = c.tx /\ d.wallet = c.wallet
      BY <1>6
    <3>2. sender[c.tx] = c.wallet
      BY OfCalls
    <3> QED BY <1>1, <3>1, <3>2
  <2>2. ASSUME NEW d \in calls', NEW e \in calls', d.tx = e.tx PROVE d = e
    <3>1. PICK c \in calls : d = [c EXCEPT !.here = FALSE] /\ d.tx = c.tx
      BY <1>6, Zenon
    <3>2. PICK b \in calls : e = [b EXCEPT !.here = FALSE] /\ e.tx = b.tx
      BY <1>6, Zenon
    <3>3. c = b
      BY <2>2, <3>1, <3>2, Zenon DEF CallsOwn, ActivityInv
    <3> QED BY <3>1, <3>2, <3>3, Zenon
  <2> QED BY <2>1, <2>2, Zenon DEF CallsOwn
<1>9. ActivityTypeOK'
  BY <1>1, <1>4, <1>7, Zenon DEF ActivityInv, ActivityTypeOK
<1> QED BY <1>1, <1>2, <1>4, <1>8, <1>9, Frame, Zenon DEF ActivityInv

LEMMA LoadKeeps ==
    ASSUME ActivityInv, NEW p \in Pages, Load(p)
    PROVE  ActivityInv'
<1>1. Appears(p) /\ UNCHANGED <<chain, sender, stored, wallet>> /\ calls' = {}
      /\ answers' = [k \in Queries |-> "none"] /\ (p \in Transfers => Dispatched(p))
  BY DEF Load
<1>2. Grows /\ SentWasStarted'
  BY <1>1, StandStill
<1>3. /\ ErrorTrue' /\ ListedOwn' /\ ReceiptTrue' /\ PageTrue'
      /\ page' \in Pages /\ listed' \in Lists /\ found' \in BOOLEAN
      /\ error' = None /\ receipt' = None
  BY <1>1, Appearing
<1>4. answers' \in [Queries -> {"none", "AWAITING_VERIFICATION", "DELIVERED"}] /\ AnswersTrue'
  <2>1. \A t \in Transfers, c \in Chains : StatusKey(t, c) \in Queries
    BY DEF Queries
  <2>2. \A t \in Transfers, c \in Chains : answers'[StatusKey(t, c)] # "DELIVERED"
    BY <1>1, <2>1
  <2> QED BY <1>1, <2>2, Zenon DEF AnswersTrue, StatusKey
<1>5. CallsOwn' /\ calls' \subseteq Calls
  BY <1>1, Zenon DEF CallsOwn
<1>6. ActivityTypeOK'
  BY <1>1, <1>3, <1>4, <1>5, Zenon DEF ActivityInv, ActivityTypeOK
<1> QED BY <1>1, <1>2, <1>3, <1>4, <1>5, <1>6, Frame, Zenon DEF ActivityInv

LEMMA SwitchKeeps ==
    ASSUME ActivityInv, NEW w \in Wallets \cup {None}, SwitchAccount(w)
    PROVE  ActivityInv'
<1>1. wallet' = w /\ UNCHANGED <<chain, sender, stored, page, found, calls, error, receipt, answers>>
  BY DEF SwitchAccount, formVars
<1>2. Grows /\ SentWasStarted'
  BY <1>1, StandStill
<1>3. listed' = ListTransfers(wallet') \/ listed' = <<>>
  BY <1>1, Zenon DEF SwitchAccount
<1>4. listed' \in Lists /\ ListedOwn'
  BY <1>1, <1>3, Relisting
<1>5. ActivityTypeOK'
  BY <1>1, <1>4, Zenon DEF ActivityInv, ActivityTypeOK
<1> QED BY <1>1, <1>2, <1>4, <1>5, Frame, Zenon DEF ActivityInv

LEMMA PollKeeps ==
    ASSUME ActivityInv, NEW f \in Followed, NEW fresh \in BOOLEAN, Poll(f, fresh)
    PROVE  ActivityInv'
<1> DEFINE t == f[1]
           c == f[2]
           answer == IF fresh /\ c = Destination[t] /\ chain[t] = "delivered"
                     THEN "DELIVERED" ELSE "AWAITING_VERIFICATION"
<1>1. f \in Transfers \X Chains
  BY DEF Followed
<1>2. t \in Transfers /\ c \in Chains
  BY <1>1
<1>3. answers' = [answers EXCEPT ![StatusKey(t, c)] = answer]
      /\ UNCHANGED <<chain, sender, stored, wallet, page, listed, found, calls, error, receipt>>
  BY Zenon DEF Poll, viewVars, formVars
<1>4. answer \in {"none", "AWAITING_VERIFICATION", "DELIVERED"}
      /\ (answer = "DELIVERED" => chain[t] = "delivered")
  OBVIOUS
<1> HIDE DEF t, c, answer
<1>5. Grows /\ SentWasStarted'
  BY <1>3, StandStill
<1>6. answers \in [Queries -> {"none", "AWAITING_VERIFICATION", "DELIVERED"}]
  BY DEF ActivityInv, ActivityTypeOK
<1>7. answers' \in [Queries -> {"none", "AWAITING_VERIFICATION", "DELIVERED"}]
  BY <1>3, <1>4, <1>6
<1>8. AnswersTrue'
  <2>1. ASSUME NEW u \in Transfers, NEW d \in Chains, answers'[<<u, d>>] = "DELIVERED"
        PROVE  chain'[u] = "delivered"
    <3>1. <<u, d>> \in Queries
      BY DEF Queries, StatusKey
    <3>2. CASE u = t /\ d = c
      BY <1>3, <1>4, <1>6, <2>1, <3>1, <3>2 DEF StatusKey
    <3>3. CASE ~(u = t /\ d = c)
      <4>1. <<u, d>> # <<t, c>>
        BY <3>3
      <4>2. answers[<<u, d>>] = "DELIVERED"
        BY <1>3, <1>6, <2>1, <3>1, <4>1 DEF StatusKey
      <4> QED BY <1>3, <4>2, Zenon DEF ActivityInv, AnswersTrue, StatusKey
    <3> QED BY <3>2, <3>3
  <2> QED BY <2>1, Zenon DEF AnswersTrue, StatusKey
<1>9. ActivityTypeOK'
  BY <1>3, <1>7, Zenon DEF ActivityInv, ActivityTypeOK
<1> QED BY <1>3, <1>5, <1>8, <1>9, Frame, Zenon DEF ActivityInv

LEMMA EvictKeeps ==
    ASSUME ActivityInv, NEW k \in Queries, Evict(k)
    PROVE  ActivityInv'
<1>1. answers' = [answers EXCEPT ![k] = "none"]
      /\ UNCHANGED <<chain, sender, stored, wallet, page, listed, found, calls, error, receipt>>
  BY DEF Evict, viewVars, formVars
<1>2. Grows /\ SentWasStarted'
  BY <1>1, StandStill
<1>3. answers \in [Queries -> {"none", "AWAITING_VERIFICATION", "DELIVERED"}]
  BY DEF ActivityInv, ActivityTypeOK
<1>4. answers' \in [Queries -> {"none", "AWAITING_VERIFICATION", "DELIVERED"}]
      /\ \A j \in Queries : answers'[j] = "DELIVERED" => answers[j] = "DELIVERED"
  BY <1>1, <1>3
<1>5. AnswersTrue'
  <2>1. \A t \in Transfers, c \in Chains : <<t, c>> \in Queries
    BY DEF Queries, StatusKey
  <2> QED BY <1>1, <1>4, <2>1, Zenon DEF ActivityInv, AnswersTrue, StatusKey
<1>6. ActivityTypeOK'
  BY <1>1, <1>4, Zenon DEF ActivityInv, ActivityTypeOK
<1> QED BY <1>1, <1>2, <1>5, <1>6, Frame, Zenon DEF ActivityInv

\* The chains carry a transfer on that was sent.
LEMMA ChainsKeep ==
    ASSUME ActivityInv, NEW t \in Transfers, Mine(t) \/ Deliver(t)
    PROVE  ActivityInv'
<1>1. PICK status \in {"mined", "reverted", "delivered"} :
         /\ chain' = [chain EXCEPT ![t] = status]
         /\ chain[t] = "pending" \/ (chain[t] = "mined" /\ status = "delivered")
         /\ UNCHANGED <<sender, stored, wallet, page, listed, found, calls, error, receipt, answers>>
  BY Zenon DEF Mine, Deliver, viewVars, formVars
<1>2. chain \in [Transfers -> {"unsent", "pending", "mined", "reverted", "delivered"}]
  BY DEF ActivityInv, ActivityTypeOK
<1>3. chain' \in [Transfers -> {"unsent", "pending", "mined", "reverted", "delivered"}]
      /\ chain'[t] = status /\ \A u \in Transfers : u # t => chain'[u] = chain[u]
  BY <1>1, <1>2
<1>4. Grows
  <2>1. chain[t] # "delivered" /\ (Dispatched(t) => Dispatched(t)')
    BY <1>1, <1>3 DEF Dispatched
  <2> QED BY <1>1, <1>3, <2>1, Zenon DEF Grows, Dispatched
<1>5. chain[t] # "unsent"
  BY <1>1
<1>6. SentWasStarted'
  BY <1>1, <1>3, <1>5, Zenon DEF ActivityInv, SentWasStarted
<1>7. ErrorTrue'
  BY <1>1, <1>3, <1>5, Zenon DEF ActivityInv, ActivityTypeOK, ErrorTrue
<1>8. ActivityTypeOK'
  BY <1>1, <1>3, Zenon DEF ActivityInv, ActivityTypeOK
<1> QED BY <1>1, <1>4, <1>6, <1>7, <1>8, Frame, Zenon DEF ActivityInv

LEMMA ElsewhereKeeps ==
    ASSUME ActivityInv, NEW t \in Transfers, NEW w \in Wallets, SentElsewhere(t, w)
    PROVE  ActivityInv'
<1>1. /\ sender[t] = None /\ sender' = [sender EXCEPT ![t] = w]
      /\ UNCHANGED <<wallet, page, listed, found, calls, error, receipt, answers>>
  BY DEF SentElsewhere, viewVars, formVars
<1>2. PICK messageId \in BOOLEAN :
         /\ chain' = [chain EXCEPT ![t] = IF messageId THEN "mined" ELSE "pending"]
         /\ stored' = Written(w, [tx |-> t, messageId |-> messageId])
  BY Zenon DEF SentElsewhere
<1>3. chain \in [Transfers -> {"unsent", "pending", "mined", "reverted", "delivered"}]
      /\ sender \in [Transfers -> Wallets \cup {None}] /\ None \notin Wallets /\ chain[t] = "unsent"
  BY <1>1, ActivityAssumption, Zenon DEF ActivityInv, ActivityTypeOK, SentWasStarted
<1>4. /\ chain' \in [Transfers -> {"unsent", "pending", "mined", "reverted", "delivered"}]
      /\ chain'[t] = IF messageId THEN "mined" ELSE "pending"
      /\ \A u \in Transfers : u # t => chain'[u] = chain[u]
  <2>1. (IF messageId THEN "mined" ELSE "pending") \in {"mined", "pending"}
    BY Zenon
  <2> QED BY <1>2, <1>3, <2>1
<1>5. /\ sender' \in [Transfers -> Wallets \cup {None}] /\ sender'[t] = w
      /\ \A u \in Transfers : u # t => sender'[u] = sender[u]
  BY <1>1, <1>3
<1>6. Grows
  <2>1. chain[t] # "delivered" /\ ~Dispatched(t)
    BY <1>3 DEF Dispatched
  <2> QED BY <1>1, <1>4, <1>5, <2>1, Zenon DEF Grows, Dispatched
<1>7. SentWasStarted'
  BY <1>3, <1>4, <1>5, Zenon DEF ActivityInv, SentWasStarted
<1>8. ErrorTrue'
  BY <1>1, <1>4, <1>5, Zenon DEF ActivityInv, ActivityTypeOK, ErrorTrue
<1>9. PICK record \in Entries : record = [tx |-> t, messageId |-> messageId]
  BY DEF Entries
<1>10. record.tx = t /\ record.messageId = messageId
  BY <1>9
<1>11. TellsTrue(record)'
  <2>1. messageId => chain'[t] \in {"mined", "delivered"}
    BY <1>4, Zenon
  <2> QED BY <1>10, <2>1, Zenon DEF TellsTrue, Dispatched
<1>12. stored' \in [Wallets -> Lists] /\ StoredOwn'
  BY <1>2, <1>5, <1>6, <1>9, <1>10, <1>11, Recordings, Zenon
<1>13. ActivityTypeOK'
  BY <1>1, <1>4, <1>5, <1>12, Zenon DEF ActivityInv, ActivityTypeOK
<1> QED BY <1>1, <1>6, <1>7, <1>8, <1>12, <1>13, Frame, Zenon DEF ActivityInv

LEMMA ActivityStep ==
    ASSUME ActivityInv, [ActivityNext]_activityVars
    PROVE  ActivityInv'
<1>1. CASE UNCHANGED activityVars
  <2>1. UNCHANGED <<chain, sender, stored, wallet, page, listed, found, calls, error, receipt, answers>>
    BY <1>1 DEF activityVars, viewVars, formVars
  <2>2. ActivityTypeOK' /\ Grows /\ SentWasStarted'
    BY <2>1, StandStill, Zenon DEF ActivityInv, ActivityTypeOK
  <2> QED BY <2>1, <2>2, Frame, Zenon DEF ActivityInv
<1> QED BY <1>1, ActivityStepCases, StartKeeps, RefusedKeeps, SignKeeps, LostKeeps, ResolveKeeps,
           CloseKeeps, FollowKeeps, LoadKeeps, SwitchKeeps, PollKeeps, EvictKeeps, ChainsKeep,
           ElsewhereKeeps, Zenon

LEMMA ActivityAlways == ActivitySpec => []ActivityInv
BY ActivityBegins, ActivityStep, PTL DEF ActivitySpec
----------------------------------------------------------------------------
(* What the application tells.                                             *)

\* A step is shown as reached only of a transfer that has come so far, for any
\* accounts, transfers and chains (the receipt, the page of a transfer).
THEOREM ArrivedTheorem == ActivitySpec => []ArrivedIsTrue
<1>1. ASSUME ActivityInv PROVE ArrivedIsTrue
  <2>1. ASSUME receipt # None
        PROVE  /\ StageIndex(ReceiptStatus) >= 2 => Dispatched(receipt.tx)
               /\ StageIndex(ReceiptStatus) = 5 => chain[receipt.tx] = "delivered"
    <3>1. receipt \in Receipts /\ TellsTrue(receipt)
      BY <1>1, <2>1, Zenon DEF ActivityInv, ActivityTypeOK, ReceiptTrue
    <3>2. receipt.tx \in Transfers /\ receipt.to \in Chains /\ receipt.messageId \in BOOLEAN
      BY <3>1 DEF Receipts
    <3>3. CASE ~receipt.messageId
      <4>1. ReceiptStatus = "SOURCE_CONFIRMED"
        BY <3>3, Zenon DEF ReceiptStatus
      <4>2. StageIndex("SOURCE_CONFIRMED") = 1
        BY DEF StageIndex
      <4> QED BY <4>1, <4>2
    <3>4. CASE receipt.messageId
      <4>1. Dispatched(receipt.tx)
        BY <3>1, <3>4 DEF TellsTrue
      <4> DEFINE answer == answers[StatusKey(receipt.tx, receipt.to)]
      <4>2. answer \in {"none", "AWAITING_VERIFICATION", "DELIVERED"}
        <5>1. StatusKey(receipt.tx, receipt.to) \in Queries
          BY <3>2 DEF Queries
        <5>2. answers \in [Queries -> {"none", "AWAITING_VERIFICATION", "DELIVERED"}]
          BY <1>1, Zenon DEF ActivityInv, ActivityTypeOK
        <5> HIDE DEF Queries
        <5> QED BY <5>1, <5>2
      <4>3. answer = "DELIVERED" => chain[receipt.tx] = "delivered"
        BY <1>1, <3>2, Zenon DEF ActivityInv, AnswersTrue
      <4>4. ReceiptStatus = IF answer = "none" THEN "MESSAGE_DISPATCHED" ELSE answer
        BY <3>4, Zenon DEF ReceiptStatus, Shown
      <4> HIDE DEF answer
      <4>5. ReceiptStatus \in {"MESSAGE_DISPATCHED", "AWAITING_VERIFICATION"} \/ answer = "DELIVERED"
        BY <4>2, <4>4
      <4>6. StageIndex("MESSAGE_DISPATCHED") = 2 /\ StageIndex("AWAITING_VERIFICATION") = 3
        BY DEF StageIndex
      <4> QED BY <4>1, <4>3, <4>5, <4>6
    <3> QED BY <3>2, <3>3, <3>4
  <2>2. ASSUME page \in Transfers
        PROVE  Dispatched(page) /\ (DetailStatus = "DELIVERED" => chain[page] = "delivered")
    <3>1. Dispatched(page)
      BY <1>1, <2>2 DEF ActivityInv, PageTrue
    <3>2. Destination[page] \in Chains
      BY <2>2, ActivityAssumption
    <3>3. "MESSAGE_DISPATCHED" # "DELIVERED"
      OBVIOUS
    <3>4. DetailStatus = "DELIVERED" => answers[StatusKey(page, Destination[page])] = "DELIVERED"
      BY <3>3, Zenon DEF DetailStatus, Shown
    <3> QED BY <1>1, <2>2, <3>1, <3>2, <3>4, Zenon DEF ActivityInv, AnswersTrue
  <2> QED BY <2>1, <2>2, Zenon DEF ArrivedIsTrue
<1> QED BY <1>1, ActivityAlways, PTL

\* "No assets were moved" is said only of a call that sent nothing, for any
\* errors of the wallet and the nodes (normalizeError, BridgeForm).
THEOREM NothingMovedTheorem == ActivitySpec => []SaysNothingMoved
<1>1. ActivityInv => SaysNothingMoved
  BY Zenon DEF ActivityInv, ErrorTrue, SaysNothingMoved
<1> QED BY <1>1, ActivityAlways, PTL

\* The activity page lists the transfers of the account connected and no
\* other's, whatever tabs write to the storage (listTransfers, recordTransfer).
THEOREM OwnTheorem == ActivitySpec => []OwnHistoryOnly
<1>1. ActivityInv => OwnHistoryOnly
  BY Zenon DEF ActivityInv, ListedOwn, OwnHistoryOnly
<1> QED BY <1>1, ActivityAlways, PTL

\* Whoever writes keeps every record of every account, but for the last of a
\* full list (recordTransfer).
THEOREM HistoryTheorem == ActivitySpec => HistoryIsKept
<1> DEFINE Kept ==
      \A w \in Wallets : \A i \in DOMAIN stored[w] :
          \/ \E j \in DOMAIN stored'[w] : stored'[w][j].tx = stored[w][i].tx
          \/ i = Cap /\ Len(stored'[w]) = Cap
<1>1. ASSUME ActivityInv, NEW w \in Wallets, NEW record \in Entries, stored' = Written(w, record)
      PROVE  Kept
  <2>1. stored \in [Wallets -> Lists] /\ stored[w] \in Lists
    BY <1>1 DEF ActivityInv, ActivityTypeOK
  <2>2. stored' = [stored EXCEPT ![w] = Recorded(stored[w], record)]
    BY <1>1, Zenon DEF Written
  <2>3. stored'[w] = Recorded(stored[w], record) /\ \A v \in Wallets : v # w => stored'[v] = stored[v]
    BY <2>1, <2>2
  <2> SUFFICES ASSUME NEW v \in Wallets, NEW i \in DOMAIN stored[v]
               PROVE  \/ \E j \in DOMAIN stored'[v] : stored'[v][j].tx = stored[v][i].tx
                      \/ i = Cap /\ Len(stored'[v]) = Cap
    BY Zenon
  <2>4. CASE v # w
    BY <2>3, <2>4, Zenon
  <2>5. CASE v = w
    <3>1. \/ \E j \in DOMAIN Recorded(stored[w], record) : Recorded(stored[w], record)[j].tx = stored[w][i].tx
          \/ i = Cap /\ Len(Recorded(stored[w], record)) = Cap
      BY <2>1, <2>5, Recording
    <3> QED BY <2>3, <2>5, <3>1
  <2> QED BY <2>4, <2>5
<1>2. ASSUME ActivityInv, NEW call \in calls, Resolve(call)
      PROVE  stored' = stored \/ Kept
  <2>1. PICK messageId \in {FALSE, Dispatched(call.tx)} :
           stored' \in {stored, Written(Account(call), [tx |-> call.tx, messageId |-> messageId])}
    BY <1>2, Zenon DEF Resolve
  <2>2. call.tx \in Transfers /\ Account(call) \in Wallets
    BY <1>2, OfCalls, Zenon DEF Account
  <2>3. Dispatched(call.tx) \in BOOLEAN
    BY DEF Dispatched
  <2>4. messageId \in BOOLEAN
    BY <2>3
  <2>5. [tx |-> call.tx, messageId |-> messageId] \in Entries
    BY <2>2, <2>4 DEF Entries
  <2> HIDE DEF Kept
  <2> QED BY <1>1, <1>2, <2>1, <2>2, <2>5, Zenon
<1>3. ASSUME ActivityInv, NEW t \in Transfers, NEW w \in Wallets, SentElsewhere(t, w)
      PROVE  Kept
  <2>1. PICK messageId \in BOOLEAN : stored' = Written(w, [tx |-> t, messageId |-> messageId])
    BY <1>3, Zenon DEF SentElsewhere
  <2>2. [tx |-> t, messageId |-> messageId] \in Entries
    BY DEF Entries
  <2> HIDE DEF Kept
  <2> QED BY <1>1, <1>3, <2>1, <2>2, Zenon
<1>4. ActivityInv /\ [ActivityNext]_activityVars => [Kept]_stored
  <2> HIDE DEF Kept
  <2> SUFFICES ASSUME ActivityInv, [ActivityNext]_activityVars
               PROVE  stored' = stored \/ Kept
    BY Zenon
  <2>1. /\ \A t \in Transfers : (Start(t) => stored' = stored) /\ (Mine(t) => stored' = stored)
                                 /\ (Deliver(t) => stored' = stored)
        /\ \A call \in calls : (Refused(call) => stored' = stored) /\ (Sign(call) => stored' = stored)
                                /\ (LostAnswer(call) => stored' = stored)
        /\ CloseReceipt => stored' = stored
        /\ \A p \in Pages : (FollowLink(p) => stored' = stored) /\ (Load(p) => stored' = stored)
        /\ \A w \in Wallets \cup {None} : SwitchAccount(w) => stored' = stored
        /\ \A f \in Followed, fresh \in BOOLEAN : Poll(f, fresh) => stored' = stored
        /\ \A k \in Queries : Evict(k) => stored' = stored
        /\ UNCHANGED activityVars => stored' = stored
    BY Zenon DEF Start, Mine, Deliver, Refused, Sign, LostAnswer, CloseReceipt, FollowLink, Load,
                 SwitchAccount, Poll, Evict, activityVars
  <2> QED BY <1>2, <1>3, <2>1, ActivityStepCases, Zenon
<1> QED BY <1>4, ActivityAlways, PTL DEF ActivitySpec, HistoryIsKept
----------------------------------------------------------------------------
(* The pickers of the bridge card, whose lists are filtered too.           *)

Selections ==
    [source : {r.source : r \in Offered}, destination : {r.destination : r \in Offered},
     asset : {r.asset : r \in Offered}]

SelectionOK == selection \in Selections

LEMMA OfferedAreSelections == Offered \subseteq Selections
<1>1. ASSUME NEW r \in Offered PROVE r \in Selections
  <2>1. r = [source |-> r.source, destination |-> r.destination, asset |-> r.asset]
    BY PickerAssumption
  <2> QED BY <2>1 DEF Selections
<1> QED BY <1>1

\* What is left of the list of assets is on offer where the card stands.
LEMMA FilteredIsOffered ==
    ASSUME NEW i \in DOMAIN Filtered
    PROVE  [selection EXCEPT !.asset = Filtered[i]] \in Offered
<1> DEFINE kept == {j \in DOMAIN Assets :
                       [selection EXCEPT !.asset = Assets[j]] \in Offered /\ Finds(query, Assets[j])}
<1>1. Filtered = [k \in 1..Cardinality(kept) |-> Assets[Kth(kept, k)]]
  BY Zenon DEF Filtered, AtPlaces
<1>2. Len(Assets) \in Nat /\ kept \in SUBSET (1..Len(Assets))
  BY PickerAssumption
<1>3. \A j \in kept : [selection EXCEPT !.asset = Assets[j]] \in Offered
  OBVIOUS
<1> HIDE DEF kept
<1>4. \A k \in 1..Cardinality(kept) : Kth(kept, k) \in kept
  BY <1>2, Ranks, Zenon
<1>5. i \in 1..Cardinality(kept)
  BY <1>1
<1>6. Filtered[i] = Assets[Kth(kept, i)]
  BY <1>1, <1>5
<1> QED BY <1>3, <1>4, <1>5, <1>6

Resolves ==
    \/ selection' \in Offered
    \/ selection' = [selection EXCEPT !.destination = selection'.destination]
    \/ UNCHANGED selection

\* Each pick is of what its panel offers; only a destination is picked alone.
LEMMA PickerStep ==
    ASSUME SelectionOK, [PickerNext]_pickerVars
    PROVE  SelectionOK' /\ Resolves
<1>1. UNCHANGED selection => SelectionOK' /\ Resolves
  BY Zenon DEF SelectionOK, Selections, Resolves
<1>2. selection' \in Offered => SelectionOK' /\ Resolves
  BY OfferedAreSelections, Zenon DEF SelectionOK, Selections, Resolves
<1>3. ASSUME NEW p \in Pickers, Open(p) \/ Dismiss(p) \/ Escape(p) \/ AnimationEnds(p)
      PROVE  UNCHANGED selection
  BY <1>3, Zenon DEF Open, Dismiss, Escape, AnimationEnds
<1>4. ASSUME NEW p \in Pickers, NEW q \in Searches, SearchNetworks(p, q)
      PROVE  UNCHANGED selection
  BY <1>4, Zenon DEF SearchNetworks
<1>5. ASSUME NEW q \in Searches, SearchAssets(q) PROVE UNCHANGED selection
  BY <1>5, Zenon DEF SearchAssets
<1>6. Highlight \/ Remount => UNCHANGED selection
  BY Zenon DEF Highlight, Remount
<1>7. ASSUME NEW i, PickAsset(i) PROVE selection' \in Offered
  BY <1>7, FilteredIsOffered DEF PickAsset
<1>8. ASSUME NEW i, PointAt(i) PROVE UNCHANGED selection
  BY <1>8, Zenon DEF PointAt
<1>9. ASSUME NEW p, NEW c, PickSource(p, c) PROVE selection' \in Offered
  BY <1>9, Zenon DEF PickSource
<1>10. ASSUME NEW c, PickDestination(c) PROVE SelectionOK' /\ Resolves
  <2>1. selection' = [selection EXCEPT !.destination = c] /\ c \in Matches("destination")
    BY <1>10, Zenon DEF PickDestination
  <2>2. c \in {r.destination : r \in Offered}
    BY <2>1 DEF Matches, Networks
  <2>3. SelectionOK' /\ selection'.destination = c
    BY <2>1, <2>2 DEF SelectionOK, Selections
  <2> QED BY <2>1, <2>3 DEF Resolves
<1>11. UNCHANGED pickerVars => UNCHANGED selection
  BY Zenon DEF pickerVars
<1> QED
  BY <1>1, <1>2, <1>3, <1>4, <1>5, <1>6, <1>7, <1>8, <1>9, <1>10, <1>11, Zenon DEF PickerNext, Enter

\* Whatever was searched, highlighted and picked, for any routes and assets:
\* only another destination leaves a combination without a route (changeSource,
\* SearchList).
THEOREM PickedTheorem == PickerSpec => PickedResolves
<1>1. PickerInit => SelectionOK
  BY OfferedAreSelections DEF PickerInit, SelectionOK
<1>2. SelectionOK /\ [PickerNext]_pickerVars
        => [\/ selection' \in Offered
            \/ selection' = [selection EXCEPT !.destination = selection'.destination]]_selection
  BY PickerStep, Zenon DEF Resolves
<1>3. SelectionOK /\ [PickerNext]_pickerVars => SelectionOK'
  BY PickerStep
<1> QED BY <1>1, <1>2, <1>3, PTL DEF PickerSpec, PickedResolves

\* A panel that is shown though its state is closed is on its way out.
ClosingIsTimed == \A p \in Pickers : p \in modal /\ p \notin opened => p \in timers

\* Being told to close leaves a panel shown only with a timer running.
LEMMA ClosesTimed ==
    ASSUME ClosingIsTimed, NEW p, Closes(p)
    PROVE  ClosingIsTimed'
<1>1. CASE p \notin opened
  BY <1>1 DEF Closes, ClosingIsTimed, Pickers
<1>2. CASE p \in opened /\ Reduced
  BY <1>2 DEF Closes, ClosingIsTimed, Pickers
<1>3. CASE p \in opened /\ ~Reduced
  BY <1>3 DEF Closes, ClosingIsTimed, Pickers
<1> QED BY <1>1, <1>2, <1>3

\* What keeps the page inert after it was dismissed goes when a timer ends,
\* however the panels were dismissed, escaped and opened before (Dialog): the
\* state in which nothing but a reload would free the page is not reached.
THEOREM TimedTheorem == PickerSpec => []ClosingIsTimed
<1>1. PickerInit => ClosingIsTimed
  BY DEF PickerInit, ClosingIsTimed
<1>2. ASSUME ClosingIsTimed, [PickerNext]_pickerVars
      PROVE  ClosingIsTimed'
  <2>1. UNCHANGED <<opened, modal, timers>> => ClosingIsTimed'
    BY <1>2, Zenon DEF ClosingIsTimed, Pickers
  <2>2. UNCHANGED dialogVars => ClosingIsTimed'
    BY <2>1, Zenon DEF dialogVars
  <2>3. ASSUME NEW p \in Pickers, Open(p) PROVE ClosingIsTimed'
    BY <1>2, <2>3 DEF Open, ClosingIsTimed, Pickers
  <2>4. ASSUME NEW p \in Pickers, Escape(p) PROVE ClosingIsTimed'
    BY <1>2, <2>4 DEF Escape, ClosingIsTimed, Pickers
  <2>5. ASSUME NEW p \in Pickers, AnimationEnds(p) PROVE ClosingIsTimed'
    BY <1>2, <2>5 DEF AnimationEnds, ClosingIsTimed, Pickers
  <2>6. ASSUME NEW p \in Pickers, Dismiss(p) PROVE ClosingIsTimed'
    BY <1>2, <2>6, ClosesTimed DEF Dismiss
  <2>7. ASSUME NEW p \in Pickers, NEW q \in Searches, SearchNetworks(p, q) PROVE UNCHANGED dialogVars
    BY <2>7, Zenon DEF SearchNetworks
  <2>8. ASSUME NEW q \in Searches, SearchAssets(q) PROVE UNCHANGED dialogVars
    BY <2>8, Zenon DEF SearchAssets
  <2>9. Highlight => UNCHANGED dialogVars
    BY Zenon DEF Highlight
  <2>10. ASSUME NEW i, PointAt(i) PROVE UNCHANGED dialogVars
    BY <2>10, Zenon DEF PointAt
  <2>11. ASSUME NEW i, PickAsset(i) PROVE ClosingIsTimed'
    BY <1>2, <2>11, ClosesTimed, Zenon DEF PickAsset
  <2>12. ASSUME NEW p, NEW c, PickSource(p, c) PROVE ClosingIsTimed'
    BY <1>2, <2>2, <2>12, ClosesTimed, Zenon DEF PickSource
  <2>13. ASSUME NEW c, PickDestination(c) PROVE ClosingIsTimed'
    BY <1>2, <2>13, ClosesTimed, Zenon DEF PickDestination
  <2>14. UNCHANGED pickerVars => UNCHANGED dialogVars
    BY Zenon DEF pickerVars
  <2>15. Remount => ClosingIsTimed'
    BY DEF Remount, ClosingIsTimed, Pickers
  <2> QED
    BY <1>2, <2>2, <2>3, <2>4, <2>5, <2>6, <2>7, <2>8, <2>9, <2>10, <2>11, <2>12, <2>13, <2>14, <2>15,
       Zenon DEF PickerNext, Enter
<1> QED BY <1>1, <1>2, PTL DEF PickerSpec
=============================================================================
