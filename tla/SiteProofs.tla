----------------------------- MODULE SiteProofs -----------------------------
(***************************************************************************)
(* Proofs about two parts of the site around a transfer: the amount of the *)
(* card, for any assets, decimals, balances and texts, and the header's    *)
(* menu.                                                                   *)
(*                                                                         *)
(* What a conversion computes is defined by recursion over the digits of a *)
(* text.  Induction is needed as a fact about sets only: a set that holds  *)
(* zero and, with a number, the next holds every number, because the least *)
(* number outside would have a predecessor inside.                         *)
(***************************************************************************)
EXTENDS Header, AmountField, FiniteSetTheorems, SequenceTheorems, WellFoundedInduction, TLAPS

\* A set of numbers has a least one.
LEMMA LeastExists ==
    ASSUME NEW S \in SUBSET Nat, S # {}
    PROVE  \E x \in S : \A y \in S : x <= y
<1> DEFINE R == OpToRel(<, Nat)
<1>1. IsWellFoundedOn(R, Nat)
  BY NatLessThanWellFounded
<1>2. \A x, y \in Nat : <<x, y>> \in R <=> x < y
  BY Zenon DEF OpToRel
<1> HIDE DEF R
<1>3. PICK x \in S : \A y \in S : ~(<<y, x>> \in R)
  BY <1>1, WFMin, Zenon
<1>4. \A y \in S : ~(y < x)
  BY <1>2, <1>3, Zenon
<1>5. \A y \in S : x <= y
  BY <1>4
<1> QED BY <1>5

\* Induction over the numbers, as a fact about sets.
LEMMA Induction ==
    ASSUME NEW T, 0 \in T, \A i \in Nat : i \in T => i + 1 \in T
    PROVE  Nat \subseteq T
<1> DEFINE S == Nat \ T
<1>1. SUFFICES ASSUME S # {} PROVE FALSE
  OBVIOUS
<1>2. PICK x \in S : \A y \in S : x <= y
  <2> HIDE DEF S
  <2>1. S \in SUBSET Nat
    BY DEF S
  <2> QED BY <1>1, <2>1, LeastExists
<1>3. x \in Nat /\ x # 0
  OBVIOUS
<1>4. x - 1 \in Nat /\ x - 1 \notin S
  BY <1>2, <1>3
<1>5. x - 1 \in T /\ (x - 1) + 1 = x
  BY <1>3, <1>4
<1>6. x \in T
  BY <1>4, <1>5
<1> QED BY <1>6

\* f and h begin with the same value and go on from equal ones to equal ones.
Together(f, h, n) == f[0] = h[0] /\ \A i \in 1..n : f[i - 1] = h[i - 1] => f[i] = h[i]

LEMMA Agreement ==
    ASSUME NEW n \in Nat, NEW f, NEW h, Together(f, h, n)
    PROVE  \A i \in 0..n : f[i] = h[i]
<1> DEFINE T == {i \in Nat : i <= n => f[i] = h[i]}
<1>1. 0 \in T
  BY DEF Together
<1>2. ASSUME NEW i \in Nat, i \in T PROVE i + 1 \in T
  <2>1. CASE i + 1 <= n
    <3>1. i <= n /\ f[i] = h[i]
      BY <1>2, <2>1
    <3>2. i + 1 \in 1..n /\ (i + 1) - 1 = i
      BY <2>1
    <3>3. f[i + 1] = h[i + 1]
      BY <3>1, <3>2 DEF Together
    <3> QED BY <3>3
  <2>2. CASE ~(i + 1 <= n)
    BY <2>2
  <2> QED BY <2>1, <2>2
<1>3. Nat \subseteq T
  <2> HIDE DEF T
  <2> QED BY <1>1, <1>2, Induction, Zenon
<1> QED BY <1>3

\* f starts with b and goes on by the steps of g.
Iterates(f, S, b, g) == f \in [Nat -> S] /\ f[0] = b /\ \A i \in Nat : f[i + 1] = g[i][f[i]]

\* What a recursive definition over the numbers needs.
LEMMA Iteration ==
    ASSUME NEW S, NEW b \in S, NEW g \in [Nat -> [S -> S]]
    PROVE  \E f : Iterates(f, S, b, g)
<1> DEFINE Upto(n, f) == /\ f \in [0..n -> S] /\ f[0] = b
                         /\ \A i \in 0..(n - 1) : f[i + 1] = g[i][f[i]]
           T == {n \in Nat : \E f : Upto(n, f)}
<1>1. 0 \in T
  <2>1. Upto(0, [i \in 0..0 |-> b])
    OBVIOUS
  <2> QED BY <2>1, Zenon
<1>2. ASSUME NEW n \in Nat, n \in T PROVE n + 1 \in T
  <2>1. PICK f : Upto(n, f)
    BY <1>2
  <2> DEFINE h == [i \in 0..(n + 1) |-> IF i = n + 1 THEN g[n][f[n]] ELSE f[i]]
  <2>2. \A i \in 0..n : h[i] = f[i] /\ f[i] \in S
    BY <2>1
  <2>3. h[n + 1] = g[n][f[n]] /\ g[n][f[n]] \in S
    BY <2>1
  <2>4. h \in [0..(n + 1) -> S]
    <3> DEFINE e(i) == IF i = n + 1 THEN g[n][f[n]] ELSE f[i]
    <3>1. ASSUME NEW i \in 0..(n + 1) PROVE e(i) \in S
      <4>1. i # n + 1 => i \in 0..n
        OBVIOUS
      <4> QED BY <2>1, <2>3, <4>1
    <3> HIDE DEF e
    <3>2. [i \in 0..(n + 1) |-> e(i)] \in [0..(n + 1) -> S]
      BY <3>1, Zenon
    <3> QED BY <3>2, Zenon DEF e
  <2>5. h[0] = b
    BY <2>1, <2>2
  <2>6. ASSUME NEW i \in 0..((n + 1) - 1) PROVE h[i + 1] = g[i][h[i]]
    <3>1. CASE i = n
      BY <2>2, <2>3, <3>1
    <3>2. CASE i # n
      <4>1. i \in 0..(n - 1) /\ i + 1 \in 0..n /\ i \in 0..n
        BY <3>2
      <4> HIDE DEF h
      <4> QED BY <2>1, <2>2, <4>1
    <3> QED BY <3>1, <3>2
  <2> HIDE DEF h
  <2>7. Upto(n + 1, h)
    BY <2>4, <2>5, <2>6
  <2> QED BY <2>7
<1>3. \A n \in Nat : \E f : Upto(n, f)
  <2>1. Nat \subseteq T
    <3> HIDE DEF T
    <3> QED BY <1>1, <1>2, Induction, Zenon
  <2> QED BY <2>1
<1> DEFINE F(n) == CHOOSE f : Upto(n, f)
<1>4. \A n \in Nat : Upto(n, F(n))
  <2> HIDE DEF Upto
  <2> QED BY <1>3, Zenon
<1> HIDE DEF F
<1>5. ASSUME NEW n \in Nat PROVE F(n + 1)[n] = F(n)[n]
  <2> DEFINE f == F(n)
             h == F(n + 1)
  <2>1. Upto(n, f) /\ Upto(n + 1, h)
    BY <1>4
  <2> HIDE DEF f, h
  <2>2. f[0] = h[0]
    BY <2>1
  <2>3. ASSUME NEW i \in 1..n, f[i - 1] = h[i - 1] PROVE f[i] = h[i]
    <3>1. i - 1 \in 0..(n - 1) /\ i - 1 \in 0..((n + 1) - 1) /\ (i - 1) + 1 = i
      OBVIOUS
    <3> QED BY <2>1, <2>3, <3>1
  <2>4. Together(f, h, n)
    BY <2>2, <2>3 DEF Together
  <2>5. \A i \in 0..n : f[i] = h[i]
    BY <2>4, Agreement
  <2> QED BY <2>5 DEF f, h
<1> DEFINE e == [n \in Nat |-> F(n)[n]]
<1>6. e \in [Nat -> S]
  BY <1>4
<1>7. e[0] = b
  BY <1>4
<1>8. ASSUME NEW i \in Nat PROVE e[i + 1] = g[i][e[i]]
  <2>1. F(i + 1)[i + 1] = g[i][F(i + 1)[i]]
    <3>1. Upto(i + 1, F(i + 1))
      BY <1>4
    <3>2. i \in 0..((i + 1) - 1)
      OBVIOUS
    <3> QED BY <3>1, <3>2
  <2> QED BY <1>5, <2>1
<1> HIDE DEF e
<1> QED BY <1>6, <1>7, <1>8 DEF Iterates
-----------------------------------------------------------------------------
(* The powers of ten.                                                      *)

\* 10n ** BigInt(n) is what its definition says: it exists, and is a number.
LEMMA Units ==
    /\ Unit \in [Nat -> Nat]
    /\ Unit[0] = 1
    /\ \A n \in Nat : Unit[n + 1] = 10 * Unit[n]
<1> DEFINE IsUnit(u) == u = [n \in Nat |-> IF n = 0 THEN 1 ELSE 10 * u[n - 1]]
           g == [i \in Nat |-> [s \in Nat |-> 10 * s]]
<1>1. \E u : IsUnit(u)
  <2>1. g \in [Nat -> [Nat -> Nat]] /\ 1 \in Nat
    OBVIOUS
  <2>2. PICK u : Iterates(u, Nat, 1, g)
    <3> HIDE DEF g
    <3> QED BY <2>1, Iteration, Zenon
  <2>3. \A n \in Nat : u[n] = IF n = 0 THEN 1 ELSE 10 * u[n - 1]
    <3> SUFFICES ASSUME NEW n \in Nat, n # 0 PROVE u[n] = 10 * u[n - 1]
      BY <2>2 DEF Iterates
    <3>1. n - 1 \in Nat /\ (n - 1) + 1 = n
      OBVIOUS
    <3>2. u[n] = g[n - 1][u[n - 1]]
      BY <2>2, <3>1 DEF Iterates
    <3> QED BY <2>2, <3>1, <3>2 DEF Iterates
  <2>4. u = [n \in Nat |-> u[n]]
    BY <2>2 DEF Iterates
  <2> QED BY <2>3, <2>4
<1>2. IsUnit(Unit)
  <2>1. Unit = CHOOSE u : IsUnit(u)
    BY Zenon DEF Unit
  <2> HIDE DEF IsUnit
  <2> QED BY <1>1, <2>1, Zenon
<1>3. \A n \in Nat : Unit[n] = IF n = 0 THEN 1 ELSE 10 * Unit[n - 1]
  BY <1>2
<1> DEFINE T == {n \in Nat : Unit[n] \in Nat}
<1>4. Nat \subseteq T
  <2>1. 0 \in T
    BY <1>3
  <2>2. ASSUME NEW i \in Nat, i \in T PROVE i + 1 \in T
    <3>1. i + 1 \in Nat /\ i + 1 # 0 /\ (i + 1) - 1 = i
      OBVIOUS
    <3>2. Unit[i + 1] = 10 * Unit[i]
      BY <1>3, <3>1
    <3> QED BY <2>2, <3>1, <3>2
  <2> HIDE DEF T
  <2> QED BY <2>1, <2>2, Induction, Zenon
<1>5. DOMAIN Unit = Nat /\ Unit = [n \in Nat |-> Unit[n]]
  BY <1>2
<1>6. \A n \in Nat : Unit[n + 1] = 10 * Unit[n]
  <2> SUFFICES ASSUME NEW n \in Nat PROVE Unit[n + 1] = 10 * Unit[n]
    OBVIOUS
  <2>1. n + 1 \in Nat /\ n + 1 # 0 /\ (n + 1) - 1 = n
    OBVIOUS
  <2> QED BY <1>3, <2>1
<1>7. Unit \in [Nat -> Nat]
  BY <1>4, <1>5
<1> QED BY <1>3, <1>6, <1>7

\* A power of ten is positive, and larger than its exponent.
LEMMA UnitPositive == \A n \in Nat : Unit[n] \in Nat \ {0} /\ n < Unit[n]
<1> DEFINE T == {n \in Nat : Unit[n] \in Nat \ {0} /\ n < Unit[n]}
<1>1. 0 \in T
  BY Units
<1>2. ASSUME NEW n \in Nat, n \in T PROVE n + 1 \in T
  BY <1>2, Units
<1>3. Nat \subseteq T
  <2> HIDE DEF T
  <2> QED BY <1>1, <1>2, Induction, Zenon
<1> QED BY <1>3

\* Products, for the solver, which multiplies no variables of itself.
LEMMA ProductAssociates ==
    ASSUME NEW a \in Int, NEW b \in Int, NEW c \in Int
    PROVE  a * (b * c) = (a * b) * c
BY SMTT(30)

LEMMA ProductCommutes ==
    ASSUME NEW a \in Int, NEW b \in Int
    PROVE  a * b = b * a /\ a * b \in Int
BY SMTT(30)

LEMMA ProductDistributes ==
    ASSUME NEW a \in Int, NEW b \in Int, NEW c \in Int
    PROVE  /\ a * (b + c) = a * b + a * c
           /\ a * (b - c) = a * b - a * c
           /\ (b + c) * a = b * a + c * a
BY SMTT(30)

LEMMA ProductMonotone ==
    ASSUME NEW a \in Nat, NEW b \in Nat, NEW c \in Nat, a <= b
    PROVE  a * c <= b * c /\ a * c \in Nat
BY SMTT(30)

\* The powers of a sum are the product of the powers.
LEMMA UnitSum == \A a, b \in Nat : Unit[a + b] = Unit[a] * Unit[b]
<1> SUFFICES ASSUME NEW a \in Nat PROVE \A b \in Nat : Unit[a + b] = Unit[a] * Unit[b]
  OBVIOUS
<1> DEFINE T == {b \in Nat : Unit[a + b] = Unit[a] * Unit[b]}
<1>1. 0 \in T
  BY Units
<1>2. ASSUME NEW b \in Nat, b \in T PROVE b + 1 \in T
  <2>1. Unit[a + b] = Unit[a] * Unit[b] /\ Unit[a] \in Int /\ Unit[b] \in Int
    BY <1>2, Units
  <2>2. a + b \in Nat /\ a + (b + 1) = (a + b) + 1
    OBVIOUS
  <2>3. Unit[a + (b + 1)] = 10 * Unit[a + b] /\ Unit[b + 1] = 10 * Unit[b]
    BY <2>2, Units
  <2>4. 10 * (Unit[a] * Unit[b]) = Unit[a] * (10 * Unit[b])
    <3> DEFINE x == Unit[a]
               y == Unit[b]
    <3>1. x \in Int /\ y \in Int
      BY <2>1
    <3> HIDE DEF x, y
    <3>2. 10 * (x * y) = x * (10 * y)
      BY <3>1, SMTT(30)
    <3> QED BY <3>2 DEF x, y
  <2> QED BY <2>1, <2>3, <2>4
<1>3. Nat \subseteq T
  <2> HIDE DEF T
  <2> QED BY <1>1, <1>2, Induction, Zenon
<1> QED BY <1>3

\* Of two powers, the one with the larger exponent is no smaller.
LEMMA UnitMonotone ==
    ASSUME NEW a \in Nat, NEW b \in Nat, a <= b
    PROVE  Unit[a] <= Unit[b]
<1>1. b - a \in Nat /\ a + (b - a) = b
  OBVIOUS
<1>2. Unit[b] = Unit[a] * Unit[b - a]
  BY <1>1, UnitSum
<1> DEFINE x == Unit[a]
           y == Unit[b - a]
<1>3. x \in Nat /\ y \in Nat \ {0}
  BY <1>1, UnitPositive
<1> HIDE DEF x, y
<1>4. 1 * x <= y * x /\ y * x = x * y
  BY <1>3, ProductMonotone, ProductCommutes
<1> QED BY <1>2, <1>3, <1>4 DEF x, y

-----------------------------------------------------------------------------
(* Division.                                                               *)

\* Quotient and remainder, by any positive number.
LEMMA Division ==
    ASSUME NEW n \in Nat, NEW p \in Nat \ {0}
    PROVE  /\ n \div p \in Nat /\ n % p \in Nat /\ n % p < p
           /\ n = p * (n \div p) + (n % p)
<1>1. n \div p \in Nat
  BY SMTT(30)
<1>2. n % p \in Nat /\ n % p < p
  BY SMTT(30)
<1>3. n = p * (n \div p) + (n % p)
  BY SMTT(30)
<1> QED BY <1>1, <1>2, <1>3

\* There is but one quotient with a remainder that is smaller than the divisor.
LEMMA Quotient ==
    ASSUME NEW n \in Nat, NEW p \in Nat \ {0}, NEW q \in Nat, NEW r \in Nat, r < p, n = p * q + r
    PROVE  n \div p = q /\ n % p = r
<1> DEFINE c == n \div p
           e == n % p
<1>1. c \in Nat /\ e \in Nat /\ e < p /\ n = p * c + e
  BY Division
<1> HIDE DEF c, e
<1>2. ~(q < c)
  <2> SUFFICES ASSUME q < c PROVE FALSE
    OBVIOUS
  <2>1. (q + 1) * p <= c * p
    BY <1>1, ProductMonotone
  <2>2. (q + 1) * p = q * p + 1 * p
    BY ProductDistributes
  <2>3. q * p = p * q /\ c * p = p * c /\ p * q \in Int /\ p * c \in Int
    BY <1>1, ProductCommutes
  <2> QED BY <1>1, <2>1, <2>2, <2>3
<1>3. ~(c < q)
  <2> SUFFICES ASSUME c < q PROVE FALSE
    OBVIOUS
  <2>1. (c + 1) * p <= q * p
    BY <1>1, ProductMonotone
  <2>2. (c + 1) * p = c * p + 1 * p
    BY <1>1, ProductDistributes
  <2>3. q * p = p * q /\ c * p = p * c /\ p * q \in Int /\ p * c \in Int
    BY <1>1, ProductCommutes
  <2> QED BY <1>1, <2>1, <2>2, <2>3
<1>4. c = q
  BY <1>1, <1>2, <1>3
<1>5. e = r
  BY <1>1, <1>4, ProductCommutes
<1> QED BY <1>4, <1>5 DEF c, e

\* Dividing by ten once more.
LEMMA DivideAgain ==
    ASSUME NEW n \in Nat, NEW p \in Nat \ {0}
    PROVE  n \div p = 10 * (n \div (10 * p)) + ((n \div p) % 10)
<1> DEFINE c == n \div p
           q == c \div 10
           e == c % 10
           r == n % p
<1>1. c \in Nat /\ r \in Nat /\ r < p /\ n = p * c + r
  BY Division
<1>2. q \in Nat /\ e \in 0..9 /\ c = 10 * q + e
  <2> HIDE DEF c
  <2> QED BY <1>1
<1> HIDE DEF c, q, e, r
<1>3. n = (10 * p) * q + (p * e + r) /\ p * e + r \in Nat /\ p * e + r < 10 * p
  <2>1. p * (10 * q + e) = p * (10 * q) + p * e
    BY <1>2, ProductDistributes
  <2>2. p * (10 * q) = (p * 10) * q /\ p * 10 = 10 * p
    BY <1>2, ProductAssociates
  <2>3. e * p <= 9 * p /\ e * p \in Nat /\ e * p = p * e
    BY <1>2, ProductMonotone, ProductCommutes
  <2>4. (10 * p) * q \in Int
    BY <1>2, ProductCommutes
  <2> QED BY <1>1, <1>2, <2>1, <2>2, <2>3, <2>4
<1>4. n \div (10 * p) = q
  <2> DEFINE s == p * e + r
  <2>1. s \in Nat /\ 10 * p \in Nat \ {0} /\ s < 10 * p /\ n = (10 * p) * q + s
    BY <1>3
  <2> DEFINE P == 10 * p
  <2>2. P \in Nat \ {0} /\ s < P /\ n = P * q + s
    BY <2>1
  <2> HIDE DEF s, P
  <2>3. n \div P = q
    BY <1>2, <2>1, <2>2, Quotient
  <2> QED BY <2>3 DEF P
<1>5. c = 10 * (n \div (10 * p)) + e
  BY <1>2, <1>4
<1> QED BY <1>5 DEF c, e
-----------------------------------------------------------------------------
(* What a text of digits says.                                             *)

\* v[i] is what the first i digits of t say.
Reads(v, t) == v[0] = 0 /\ \A i \in 1..Len(t) : v[i] = 10 * v[i - 1] + t[i]

\* A text of digits can be read from the left.
LEMMA ReadingExists ==
    ASSUME NEW t \in Seq(0..9)
    PROVE  \E v : v = [i \in 0..Len(t) |-> IF i = 0 THEN 0 ELSE 10 * v[i - 1] + t[i]]
<1> DEFINE g == [i \in Nat |-> [s \in Nat |-> IF i < Len(t) THEN 10 * s + t[i + 1] ELSE s]]
<1>1. Len(t) \in Nat /\ \A i \in 1..Len(t) : t[i] \in 0..9
  BY LenProperties
<1>2. g \in [Nat -> [Nat -> Nat]] /\ 0 \in Nat
  <2>1. ASSUME NEW i \in Nat, i < Len(t) PROVE t[i + 1] \in Nat
    <3>1. i + 1 \in 1..Len(t)
      BY <1>1, <2>1
    <3> QED BY <1>1, <3>1
  <2> QED BY <2>1
<1>3. PICK u : Iterates(u, Nat, 0, g)
  <2> HIDE DEF g
  <2> QED BY <1>2, Iteration, Zenon
<1> DEFINE v == [i \in 0..Len(t) |-> u[i]]
<1>4. ASSUME NEW i \in 1..Len(t) PROVE v[i] = 10 * v[i - 1] + t[i]
  <2>1. i - 1 \in Nat /\ (i - 1) + 1 = i /\ i - 1 < Len(t) /\ i \in 0..Len(t) /\ i - 1 \in 0..Len(t)
    BY <1>1
  <2>2. u[i - 1] \in Nat
    BY <1>3, <2>1 DEF Iterates
  <2>3. u[(i - 1) + 1] = g[i - 1][u[i - 1]]
    BY <1>3, <2>1 DEF Iterates
  <2>4. u[i] = 10 * u[i - 1] + t[i]
    BY <2>1, <2>2, <2>3
  <2> QED BY <2>1, <2>4
<1>5. v[0] = 0
  BY <1>1, <1>3 DEF Iterates
<1>6. v = [i \in 0..Len(t) |-> v[i]]
  OBVIOUS
<1> HIDE DEF v
<1>7. ASSUME NEW i \in 0..Len(t) PROVE v[i] = IF i = 0 THEN 0 ELSE 10 * v[i - 1] + t[i]
  <2>1. i # 0 => i \in 1..Len(t)
    BY <1>1
  <2> QED BY <1>4, <1>5, <2>1
<1>8. v = [i \in 0..Len(t) |-> IF i = 0 THEN 0 ELSE 10 * v[i - 1] + t[i]]
  BY <1>6, <1>7
<1> QED BY <1>8

\* BigInt() of a text of digits: a number, and the only one its digits say.
LEMMA ValueReads ==
    ASSUME NEW t \in Seq(0..9)
    PROVE  \E v : Reads(v, t) /\ Value(t) = v[Len(t)] /\ \A i \in 0..Len(t) : v[i] \in Nat
<1> DEFINE IsValue(v) == v = [i \in 0..Len(t) |-> IF i = 0 THEN 0 ELSE 10 * v[i - 1] + t[i]]
           v == CHOOSE w : IsValue(w)
<1>1. Len(t) \in Nat /\ \A i \in 1..Len(t) : t[i] \in 0..9
  BY LenProperties
<1>2. IsValue(v)
  <2>1. \E w : IsValue(w)
    BY ReadingExists, Zenon
  <2> HIDE DEF IsValue
  <2> QED BY <2>1, Zenon
<1>3. Value(t) = v[Len(t)]
  BY Zenon DEF Value
<1> HIDE DEF v
<1>4. v[0] = 0 /\ \A i \in 1..Len(t) : v[i] = 10 * v[i - 1] + t[i]
  BY <1>1, <1>2
<1> HIDE DEF IsValue
<1> DEFINE T == {i \in Nat : i <= Len(t) => v[i] \in Nat}
<1>5. 0 \in T
  BY <1>4
<1>6. ASSUME NEW i \in Nat, i \in T PROVE i + 1 \in T
  <2>1. CASE i + 1 <= Len(t)
    <3>1. i + 1 \in 1..Len(t) /\ (i + 1) - 1 = i /\ i <= Len(t)
      BY <1>1, <2>1
    <3>2. v[i] \in Nat /\ t[i + 1] \in 0..9 /\ v[i + 1] = 10 * v[i] + t[i + 1]
      BY <1>1, <1>4, <1>6, <3>1
    <3>3. v[i + 1] \in Nat
      <4> DEFINE x == v[i]
                 y == t[i + 1]
      <4>1. x \in Nat /\ y \in 0..9
        BY <3>2
      <4> HIDE DEF x, y
      <4>2. 10 * x + y \in Nat
        BY <4>1
      <4> QED BY <3>2, <4>2, Zenon DEF x, y
    <3> QED BY <3>3
  <2>2. CASE ~(i + 1 <= Len(t))
    BY <2>2
  <2> QED BY <2>1, <2>2
<1>7. Nat \subseteq T
  <2> HIDE DEF T
  <2> QED BY <1>5, <1>6, Induction, Zenon
<1>8. \A i \in 0..Len(t) : v[i] \in Nat
  BY <1>1, <1>7
<1> QED BY <1>3, <1>4, <1>8 DEF Reads

\* Whatever reads the digits as Value does is its reading.
LEMMA ValueIs ==
    ASSUME NEW t \in Seq(0..9), NEW w, Reads(w, t)
    PROVE  Value(t) = w[Len(t)] /\ Value(t) \in Nat
<1>1. Len(t) \in Nat
  BY LenProperties
<1>2. PICK v : Reads(v, t) /\ Value(t) = v[Len(t)] /\ \A i \in 0..Len(t) : v[i] \in Nat
  BY ValueReads
<1>3. Together(v, w, Len(t))
  BY <1>2 DEF Reads, Together
<1>4. \A i \in 0..Len(t) : v[i] = w[i]
  BY <1>1, <1>3, Agreement, Zenon
<1> QED BY <1>1, <1>2, <1>4

\* Digits followed by others say what they say, moved to the left, and the
\* others.
LEMMA ValueOfBoth ==
    ASSUME NEW s \in Seq(0..9), NEW t \in Seq(0..9)
    PROVE  /\ s \o t \in Seq(0..9) /\ Value(s) \in Nat /\ Value(t) \in Nat
           /\ Value(s \o t) = Value(s) * Unit[Len(t)] + Value(t)
<1> DEFINE n == Len(s)
           m == Len(t)
<1>1. n \in Nat /\ m \in Nat
  BY LenProperties
<1>2. PICK v : Reads(v, s) /\ Value(s) = v[n] /\ \A i \in 0..n : v[i] \in Nat
  BY ValueReads
<1>3. PICK u : Reads(u, t) /\ Value(t) = u[m] /\ \A i \in 0..m : u[i] \in Nat
  BY ValueReads
<1>4. /\ s \o t \in Seq(0..9) /\ Len(s \o t) = n + m
      /\ \A i \in 1..(n + m) : (s \o t)[i] = IF i <= n THEN s[i] ELSE t[i - n]
  BY ConcatProperties
<1>5. \A i \in 1..m : t[i] \in 0..9
  BY LenProperties
<1> DEFINE w == [i \in 0..(n + m) |-> IF i <= n THEN v[i] ELSE v[n] * Unit[i - n] + u[i - n]]
<1>6. v[n] \in Nat /\ v[n] = v[n] * Unit[0] + u[0]
  <2>1. v[n] \in Nat
    BY <1>1, <1>2
  <2>2. u[0] = 0 /\ Unit[0] = 1
    BY <1>3, Units DEF Reads
  <2>3. v[n] = v[n] * 1 + 0
    BY <2>1
  <2> QED BY <2>1, <2>2, <2>3
<1>7. \A i \in 0..n : w[i] = v[i]
  BY <1>1
<1>8. \A j \in 0..m : w[n + j] = v[n] * Unit[j] + u[j]
  <2> SUFFICES ASSUME NEW j \in 0..m PROVE w[n + j] = v[n] * Unit[j] + u[j]
    OBVIOUS
  <2>1. j = 0 => w[n + j] = v[n]
    BY <1>1
  <2>2. j # 0 => n + j \in 0..(n + m) /\ ~(n + j <= n) /\ (n + j) - n = j
    BY <1>1
  <2>3. j # 0 => w[n + j] = v[n] * Unit[j] + u[j]
    BY <2>2
  <2> QED BY <1>6, <2>1, <2>3
<1> HIDE DEF w
<1>9. w[0] = 0
  BY <1>1, <1>2, <1>7 DEF Reads
<1>10. ASSUME NEW i \in 1..(n + m) PROVE w[i] = 10 * w[i - 1] + (s \o t)[i]
  <2>1. CASE i <= n
    <3>1. i \in 1..n /\ i \in 0..n /\ i - 1 \in 0..n
      BY <1>1, <2>1
    <3>2. v[i] = 10 * v[i - 1] + s[i]
      BY <1>2, <3>1 DEF Reads
    <3> QED BY <1>4, <1>7, <2>1, <3>1, <3>2
  <2>2. CASE ~(i <= n)
    <3> DEFINE j == i - n
    <3>1. j \in 1..m /\ j \in 0..m /\ j - 1 \in 0..m /\ n + j = i /\ n + (j - 1) = i - 1 /\ j - 1 \in Nat
      BY <1>1, <2>2
    <3>2. (s \o t)[i] = t[j]
      BY <1>4, <2>2
    <3> HIDE DEF j
    <3>3. w[i] = v[n] * Unit[j] + u[j] /\ w[i - 1] = v[n] * Unit[j - 1] + u[j - 1]
      BY <1>8, <3>1
    <3>4. u[j] = 10 * u[j - 1] + t[j] /\ t[j] \in 0..9 /\ u[j - 1] \in Nat
      BY <1>3, <1>5, <3>1 DEF Reads
    <3>5. Unit[j] = 10 * Unit[j - 1] /\ Unit[j - 1] \in Nat
      <4>1. j = (j - 1) + 1
        BY <3>1
      <4> QED BY <3>1, <4>1, Units
    <3>6. v[n] * Unit[j] = 10 * (v[n] * Unit[j - 1]) /\ v[n] * Unit[j - 1] \in Int
      <4> DEFINE x == v[n]
                 y == Unit[j - 1]
      <4>1. x \in Int /\ y \in Int
        BY <1>6, <3>5
      <4> HIDE DEF x, y
      <4>2. x * (10 * y) = 10 * (x * y) /\ x * y \in Int
        BY <4>1, SMTT(30)
      <4> QED BY <3>5, <4>2 DEF x, y
    <3> DEFINE a == v[n] * Unit[j - 1]
    <3>7. a \in Int /\ w[i] = 10 * a + u[j] /\ w[i - 1] = a + u[j - 1]
      BY <3>3, <3>6
    <3> HIDE DEF a
    <3>8. w[i] = 10 * w[i - 1] + t[j]
      <4> DEFINE x == u[j - 1]
                 d == t[j]
      <4>1. x \in Int
        BY <3>4
      <4> HIDE DEF x, d
      <4>8. d \in 0..9
        BY <3>4, Zenon DEF d
      <4>3. d \in Int
        BY <4>8
      <4> USE DEF x, d
      <4>4. w[i - 1] = a + x
        BY <3>7
      <4>5. u[j] = 10 * x + d
        BY <3>4
      <4>6. w[i] = 10 * a + u[j]
        BY <3>7
      <4>7. w[i] = 10 * a + (10 * x + d)
        BY <4>5, <4>6
      <4> HIDE DEF x, d
      <4>2. 10 * a + (10 * x + d) = 10 * (a + x) + d
        BY <3>7, <4>1, <4>3
      <4> QED BY <4>2, <4>4, <4>7 DEF d
    <3> QED BY <3>2, <3>8
  <2> QED BY <2>1, <2>2
<1>11. Reads(w, s \o t)
  BY <1>4, <1>9, <1>10 DEF Reads
<1>12. Value(s \o t) = w[n + m]
  BY <1>4, <1>11, ValueIs
<1>13. w[n + m] = v[n] * Unit[m] + u[m]
  BY <1>1, <1>8
<1>14. Value(s) \in Nat /\ Value(t) \in Nat
  BY <1>1, <1>2, <1>3
<1> QED BY <1>2, <1>3, <1>4, <1>12, <1>13, <1>14

\* Zeros say nothing.
LEMMA ValueOfZeros ==
    ASSUME NEW t \in Seq(0..9), \A i \in 1..Len(t) : t[i] = 0
    PROVE  Value(t) = 0
<1> DEFINE w == [i \in 0..Len(t) |-> 0]
<1>1. Len(t) \in Nat
  BY LenProperties
<1>2. Reads(w, t)
  BY <1>1 DEF Reads
<1>3. w[Len(t)] = 0
  BY <1>1
<1> QED BY <1>2, <1>3, ValueIs

\* Padding is zeros, as many as asked for, if any.
LEMMA ZerosAre ==
    ASSUME NEW n \in Int
    PROVE  /\ Zeros(n) \in Seq(0..9)
           /\ Len(Zeros(n)) = IF n <= 0 THEN 0 ELSE n
           /\ Value(Zeros(n)) = 0
<1>1. CASE n <= 0
  <2>1. Zeros(n) = <<>>
    BY <1>1 DEF Zeros
  <2>2. <<>> \in Seq(0..9) /\ Len(<<>>) = 0
    BY EmptySeq
  <2>3. \A i \in 1..0 : <<>>[i] = 0
    OBVIOUS
  <2> QED BY <1>1, <2>1, <2>2, <2>3, ValueOfZeros
<1>2. CASE ~(n <= 0)
  <2> DEFINE z == [i \in 1..n |-> 0]
  <2>1. n \in Nat /\ Zeros(n) = z
    BY <1>2 DEF Zeros
  <2>2. z \in Seq(0..9) /\ Len(z) = n /\ \A i \in 1..n : z[i] = 0
    BY <2>1
  <2> HIDE DEF z
  <2>3. Value(z) = 0
    BY <2>2, ValueOfZeros
  <2> QED BY <1>2, <2>1, <2>2, <2>3
<1> QED BY <1>1, <1>2

\* As many digits as the number needs, and they say it.
LEMMA DigitsAre ==
    ASSUME NEW n \in Nat
    PROVE  /\ Digits(n) \in Seq(0..9) /\ Len(Digits(n)) \in Nat \ {0}
           /\ Value(Digits(n)) = n
           /\ \A d \in Nat \ {0} : n < Unit[d] => Len(Digits(n)) <= d
<1> DEFINE Suffices(k) == n < Unit[k] /\ (k > 1 => Unit[k - 1] <= n)
           length == CHOOSE k \in 1..(n + 1) : Suffices(k)
           digits == [i \in 1..length |-> (n \div Unit[length - i]) % 10]
<1>1. \E k \in 1..(n + 1) : Suffices(k)
  <2> DEFINE S == {k \in Nat \ {0} : n < Unit[k]}
  <2>1. n + 1 \in S
    <3>1. n + 1 \in Nat \ {0} /\ n + 1 < Unit[n + 1] /\ Unit[n + 1] \in Nat
      BY UnitPositive
    <3> QED BY <3>1
  <2>2. S \in SUBSET Nat /\ S # {}
    BY <2>1
  <2>3. PICK k \in S : \A j \in S : k <= j
    <3> HIDE DEF S
    <3> QED BY <2>2, LeastExists
  <2>4. k \in 1..(n + 1) /\ n < Unit[k]
    BY <2>1, <2>3
  <2>5. ASSUME k > 1 PROVE Unit[k - 1] <= n
    <3>1. k - 1 \in Nat \ {0} /\ k - 1 \notin S
      BY <2>3, <2>4, <2>5
    <3>2. Unit[k - 1] \in Nat
      BY <3>1, UnitPositive
    <3> QED BY <3>1, <3>2
  <2> QED BY <2>4, <2>5
<1>2. length \in 1..(n + 1) /\ Suffices(length)
  <2> HIDE DEF Suffices
  <2> QED BY <1>1, Zenon
<1>3. Digits(n) = digits
  BY Zenon DEF Digits
<1> HIDE DEF length
<1>4. length \in Nat \ {0} /\ n < Unit[length] /\ (length > 1 => Unit[length - 1] <= n)
  BY <1>2
<1>5. ASSUME NEW i \in 0..length
      PROVE  /\ length - i \in Nat /\ Unit[length - i] \in Nat \ {0}
             /\ n \div Unit[length - i] \in Nat
  <2>1. length - i \in Nat
    BY <1>4
  <2>2. Unit[length - i] \in Nat \ {0}
    BY <2>1, UnitPositive
  <2> QED BY <2>1, <2>2, Division
<1>6. \A i \in 1..length : (n \div Unit[length - i]) % 10 \in 0..9
  <2> SUFFICES ASSUME NEW i \in 1..length PROVE (n \div Unit[length - i]) % 10 \in 0..9
    OBVIOUS
  <2> DEFINE c == n \div Unit[length - i]
  <2>1. i \in 0..length
    BY <1>4
  <2>2. c \in Nat
    BY <1>5, <2>1
  <2> HIDE DEF c
  <2>3. c % 10 \in 0..9
    BY <2>2
  <2> QED BY <2>3 DEF c
<1>7. digits \in Seq(0..9) /\ Len(digits) = length
  BY <1>4, <1>6
<1> DEFINE w == [i \in 0..length |-> n \div Unit[length - i]]
<1>8. w[0] = 0
  <2> DEFINE p == Unit[length]
  <2>1. p \in Nat \ {0} /\ n < p
    BY <1>4, UnitPositive
  <2> HIDE DEF p
  <2>2. n = p * 0 + n
    BY <2>1
  <2>3. n \div p = 0
    BY <2>1, <2>2, Quotient
  <2>4. w[0] = n \div Unit[length]
    BY <1>4
  <2> QED BY <2>3, <2>4 DEF p
<1>9. ASSUME NEW i \in 1..length PROVE w[i] = 10 * w[i - 1] + digits[i]
  <2> DEFINE p == Unit[length - i]
  <2>1. i \in 0..length /\ i - 1 \in 0..length /\ length - i \in Nat /\ length - (i - 1) = (length - i) + 1
    BY <1>4
  <2>2. p \in Nat \ {0} /\ Unit[length - (i - 1)] = 10 * p
    BY <1>5, <2>1, Units
  <2>3. n \div p = 10 * (n \div (10 * p)) + ((n \div p) % 10)
    BY <2>2, DivideAgain
  <2>4. w[i] = n \div p /\ w[i - 1] = n \div Unit[length - (i - 1)] /\ digits[i] = (n \div p) % 10
    BY <2>1
  <2>5. w[i - 1] = n \div (10 * p)
    BY <2>2, <2>4
  <2> HIDE DEF w, p, digits
  <2> QED BY <2>3, <2>4, <2>5
<1>10. w[length] = n
  <2>1. w[length] = n \div Unit[0]
    BY <1>4
  <2>2. n = 1 * n + 0
    OBVIOUS
  <2>3. n \div 1 = n
    BY <2>2, Quotient
  <2> QED BY <2>1, <2>3, Units
<1> HIDE DEF w, digits
<1>11. Value(digits) = n
  <2>1. Reads(w, digits)
    BY <1>7, <1>8, <1>9 DEF Reads
  <2> QED BY <1>7, <1>10, <2>1, ValueIs
<1>12. ASSUME NEW d \in Nat \ {0}, n < Unit[d] PROVE length <= d
  <2> SUFFICES ASSUME d < length PROVE FALSE
    BY <1>4
  <2>1. length > 1 /\ length - 1 \in Nat /\ d <= length - 1
    BY <1>4
  <2>2. Unit[d] <= Unit[length - 1] /\ Unit[d] \in Nat /\ Unit[length - 1] \in Nat
    BY <2>1, UnitMonotone, UnitPositive
  <2> QED BY <1>4, <1>12, <2>1, <2>2
<1> QED BY <1>3, <1>4, <1>7, <1>11, <1>12

\* Shortening keeps the first digits; without a limit it drops only zeros.
LEMMA ShortenedSplits ==
    ASSUME NEW f \in Seq(0..9), NEW max \in Nat
    PROVE  /\ Shortened(f, max) \in Seq(0..9) /\ Len(Shortened(f, max)) <= max
           /\ \E rest \in Seq(0..9) :
                 f = Shortened(f, max) \o rest /\ (Len(f) <= max => Value(rest) = 0)
<1> DEFINE m == IF Len(f) > max THEN max ELSE Len(f)
           kept == SubSeq(f, 1, m)
           ends == {0} \cup {i \in DOMAIN kept : kept[i] # 0}
           Last(i) == \A j \in ends : j <= i
           e == CHOOSE i \in ends : Last(i)
           q == SubSeq(kept, 1, e)
           rest == [i \in 1..(Len(f) - e) |-> f[e + i]]
<1>1. Len(f) \in Nat /\ \A i \in 1..Len(f) : f[i] \in 0..9
  BY LenProperties
<1>2. m \in Nat /\ m <= Len(f) /\ m <= max /\ (Len(f) <= max => m = Len(f))
  BY <1>1
<1>3. Shortened(f, max) = q
  BY Zenon DEF Shortened
<1> HIDE DEF m
<1>4. kept \in Seq(0..9) /\ Len(kept) = m /\ DOMAIN kept = 1..m /\ \A i \in 1..m : kept[i] = f[i]
  <2>1. \A i \in 1..m : f[i] \in 0..9
    BY <1>1, <1>2
  <2>2. /\ kept \in Seq(0..9) /\ Len(kept) = IF 1 <= m THEN (m - 1) + 1 ELSE 0
        /\ \A i \in 1..((m - 1) + 1) : kept[i] = f[(1 + i) - 1]
    BY <1>2, <2>1, SubSeqProperties
  <2>3. Len(kept) = m
    BY <1>2, <2>2
  <2>4. DOMAIN kept = 1..Len(kept)
    BY <2>2, LenProperties
  <2>5. \A i \in 1..m : (1 + i) - 1 = i /\ i \in 1..((m - 1) + 1)
    BY <1>2
  <2> HIDE DEF kept
  <2> QED BY <2>2, <2>3, <2>4, <2>5
<1> HIDE DEF kept
<1>5. ends \in SUBSET (0..m) /\ 0 \in ends
  BY <1>2, <1>4
<1>6. \A i \in 1..m : i \notin ends => f[i] = 0
  BY <1>4
<1> HIDE DEF ends
<1>7. \E i \in ends : Last(i)
  <2> DEFINE S == {m - i : i \in ends}
  <2>1. S \in SUBSET Nat /\ S # {}
    BY <1>2, <1>5
  <2>2. PICK x \in S : \A y \in S : x <= y
    <3> HIDE DEF S
    <3> QED BY <2>1, LeastExists
  <2>3. PICK i \in ends : x = m - i
    OBVIOUS
  <2>4. \A j \in ends : j \in 0..m /\ m - j \in S
    BY <1>5
  <2>5. ASSUME NEW j \in ends PROVE j <= i
    <3>1. m - i <= m - j
      BY <2>2, <2>3, <2>4
    <3>2. i \in 0..m /\ j \in 0..m
      BY <2>4
    <3> QED BY <1>2, <3>1, <3>2
  <2> QED BY <2>5
<1>8. e \in ends /\ Last(e)
  <2> HIDE DEF Last
  <2> QED BY <1>7, Zenon
<1> HIDE DEF e
<1>9. e \in 0..m /\ \A i \in (e + 1)..m : f[i] = 0
  <2>1. e \in 0..m
    BY <1>5, <1>8
  <2>2. ASSUME NEW i \in (e + 1)..m PROVE f[i] = 0
    <3>1. i \in 1..m /\ ~(i <= e)
      BY <1>2, <2>1
    <3> QED BY <1>6, <1>8, <3>1
  <2> QED BY <2>1, <2>2
<1>10. q \in Seq(0..9) /\ Len(q) = e /\ \A i \in 1..e : q[i] = f[i]
  <2>1. \A i \in 1..e : kept[i] \in 0..9 /\ kept[i] = f[i]
    <3>1. \A i \in 1..e : i \in 1..m /\ i \in 1..Len(f)
      BY <1>2, <1>9
    <3> QED BY <1>1, <1>4, <3>1
  <2>2. /\ q \in Seq(0..9) /\ Len(q) = IF 1 <= e THEN (e - 1) + 1 ELSE 0
        /\ \A i \in 1..((e - 1) + 1) : q[i] = kept[(1 + i) - 1]
    BY <1>9, <2>1, SubSeqProperties
  <2>3. Len(q) = e
    BY <1>2, <1>9, <2>2
  <2>4. \A i \in 1..e : (1 + i) - 1 = i /\ i \in 1..((e - 1) + 1)
    BY <1>9
  <2> HIDE DEF q
  <2> QED BY <2>1, <2>2, <2>3, <2>4
<1> HIDE DEF q
<1>11. /\ rest \in Seq(0..9) /\ Len(rest) = Len(f) - e
       /\ \A i \in 1..(Len(f) - e) : rest[i] = f[e + i]
  <2>1. Len(f) - e \in Nat
    BY <1>1, <1>2, <1>9
  <2>2. \A i \in 1..(Len(f) - e) : e + i \in 1..Len(f)
    BY <1>1, <1>2, <1>9
  <2>3. \A i \in 1..(Len(f) - e) : f[e + i] \in 0..9
    BY <1>1, <2>2
  <2> QED BY <2>1, <2>3
<1> HIDE DEF rest
<1>12. f = q \o rest
  <2>1. /\ q \o rest \in Seq(0..9) /\ Len(q \o rest) = e + (Len(f) - e)
        /\ \A i \in 1..(e + (Len(f) - e)) : (q \o rest)[i] = IF i <= e THEN q[i] ELSE rest[i - e]
    <3>1. /\ q \o rest \in Seq(0..9) /\ Len(q \o rest) = Len(q) + Len(rest)
          /\ \A i \in 1..(Len(q) + Len(rest)) : (q \o rest)[i] = IF i <= Len(q) THEN q[i] ELSE rest[i - Len(q)]
      BY <1>10, <1>11, ConcatProperties, Zenon
    <3> QED BY <1>10, <1>11, <3>1
  <2>2. e + (Len(f) - e) = Len(f)
    BY <1>1, <1>2, <1>9
  <2>3. ASSUME NEW i \in 1..Len(f) PROVE f[i] = (q \o rest)[i]
    <3>1. CASE i <= e
      BY <1>10, <2>1, <2>2, <3>1
    <3>2. CASE ~(i <= e)
      <4>1. i - e \in 1..(Len(f) - e) /\ e + (i - e) = i
        BY <1>1, <1>2, <1>9, <3>2
      <4> QED BY <1>11, <2>1, <2>2, <3>2, <4>1
    <3> QED BY <3>1, <3>2
  <2>4. Len(f) = Len(q \o rest)
    BY <2>1, <2>2
  <2> QED BY <2>1, <2>3, <2>4, SeqEqual
<1>13. ASSUME Len(f) <= max PROVE Value(rest) = 0
  <2>1. m = Len(f)
    BY <1>2, <1>13
  <2>2. \A i \in 1..Len(rest) : e + i \in (e + 1)..m /\ i \in 1..(Len(f) - e)
    BY <1>1, <1>9, <1>11, <2>1
  <2>3. \A i \in 1..Len(rest) : rest[i] = 0
    BY <1>9, <1>11, <2>2
  <2> QED BY <1>11, <2>3, ValueOfZeros
<1>14. Len(q) <= max
  BY <1>2, <1>9, <1>10
<1> QED BY <1>3, <1>10, <1>11, <1>12, <1>13, <1>14
-----------------------------------------------------------------------------
(* The commas.                                                             *)

\* k[i] is what the first i symbols of t leave without their commas.
Strips(k, t) ==
    k[0] = <<>> /\ \A i \in 1..Len(t) : k[i] = IF t[i] = Comma THEN k[i - 1] ELSE Append(k[i - 1], t[i])

\* A text can be stripped from the left.
LEMMA StrippingExists ==
    ASSUME NEW A, NEW t \in Seq(A)
    PROVE  \E k : k = [i \in 0..Len(t) |->
                          IF i = 0 THEN <<>> ELSE IF t[i] = Comma THEN k[i - 1] ELSE Append(k[i - 1], t[i])]
<1> DEFINE Step(s, x) == IF x = Comma THEN s ELSE Append(s, x)
           g == [i \in Nat |-> [s \in Seq(A) |-> IF i < Len(t) THEN Step(s, t[i + 1]) ELSE s]]
<1>1. Len(t) \in Nat /\ \A i \in 1..Len(t) : t[i] \in A
  BY LenProperties
<1>2. g \in [Nat -> [Seq(A) -> Seq(A)]] /\ <<>> \in Seq(A)
  <2>1. ASSUME NEW i \in Nat, i < Len(t), NEW s \in Seq(A) PROVE Step(s, t[i + 1]) \in Seq(A)
    <3>1. i + 1 \in 1..Len(t)
      BY <1>1, <2>1
    <3>2. t[i + 1] \in A
      BY <1>1, <3>1
    <3>3. Append(s, t[i + 1]) \in Seq(A)
      BY <2>1, <3>2, AppendProperties
    <3> QED BY <2>1, <3>3
  <2> HIDE DEF Step
  <2>2. g \in [Nat -> [Seq(A) -> Seq(A)]]
    BY <2>1
  <2> QED BY <2>2, EmptySeq
<1>3. PICK u : Iterates(u, Seq(A), <<>>, g)
  <2> HIDE DEF g
  <2> QED BY <1>2, Iteration, Zenon
<1> DEFINE k == [i \in 0..Len(t) |-> u[i]]
<1>4. ASSUME NEW i \in 1..Len(t) PROVE k[i] = Step(k[i - 1], t[i])
  <2>1. i - 1 \in Nat /\ (i - 1) + 1 = i /\ i - 1 < Len(t) /\ i \in 0..Len(t) /\ i - 1 \in 0..Len(t)
    BY <1>1
  <2>2. u[i - 1] \in Seq(A)
    BY <1>3, <2>1 DEF Iterates
  <2>3. u[(i - 1) + 1] = g[i - 1][u[i - 1]]
    BY <1>3, <2>1 DEF Iterates
  <2> HIDE DEF Step
  <2>4. u[i] = Step(u[i - 1], t[i])
    BY <2>1, <2>2, <2>3
  <2> QED BY <2>1, <2>4
<1>5. k[0] = <<>>
  BY <1>1, <1>3 DEF Iterates
<1>6. k = [i \in 0..Len(t) |-> k[i]]
  OBVIOUS
<1> HIDE DEF k
<1>7. ASSUME NEW i \in 0..Len(t) PROVE k[i] = IF i = 0 THEN <<>> ELSE Step(k[i - 1], t[i])
  <2>1. i # 0 => i \in 1..Len(t)
    BY <1>1
  <2> QED BY <1>4, <1>5, <2>1, Zenon
<1>8. k = [i \in 0..Len(t) |-> IF i = 0 THEN <<>> ELSE Step(k[i - 1], t[i])]
  <2> HIDE DEF Step
  <2> QED BY <1>6, <1>7
<1> QED BY <1>8, Zenon

LEMMA StrippedStrips ==
    ASSUME NEW A, NEW t \in Seq(A)
    PROVE  \E k : Strips(k, t) /\ Stripped(t) = k[Len(t)] /\ \A i \in 0..Len(t) : k[i] \in Seq(A)
<1> DEFINE Step(s, x) == IF x = Comma THEN s ELSE Append(s, x)
           IsStripping(k) == k = [i \in 0..Len(t) |->
                          IF i = 0 THEN <<>> ELSE IF t[i] = Comma THEN k[i - 1] ELSE Append(k[i - 1], t[i])]
           k == CHOOSE h : IsStripping(h)
<1>1. Len(t) \in Nat /\ \A i \in 1..Len(t) : t[i] \in A
  BY LenProperties
<1>2. IsStripping(k)
  <2>1. \E h : IsStripping(h)
    BY StrippingExists, Zenon
  <2> HIDE DEF IsStripping
  <2> QED BY <2>1, Zenon
<1>3. Stripped(t) = k[Len(t)]
  BY Zenon DEF Stripped
<1> HIDE DEF k
<1>4. k[0] = <<>> /\ \A i \in 1..Len(t) : k[i] = Step(k[i - 1], t[i])
  <2>1. k = [i \in 0..Len(t) |-> IF i = 0 THEN <<>> ELSE Step(k[i - 1], t[i])]
    BY <1>2
  <2> HIDE DEF Step, IsStripping
  <2>2. \A i \in 1..Len(t) : i \in 0..Len(t) /\ i # 0
    BY <1>1
  <2> QED BY <1>1, <2>1, <2>2
<1> HIDE DEF IsStripping
<1> DEFINE T == {i \in Nat : i <= Len(t) => k[i] \in Seq(A)}
<1>5. 0 \in T
  BY <1>4, EmptySeq
<1>6. ASSUME NEW i \in Nat, i \in T PROVE i + 1 \in T
  <2>1. CASE i + 1 <= Len(t)
    <3>1. i + 1 \in 1..Len(t) /\ (i + 1) - 1 = i /\ i <= Len(t)
      BY <1>1, <2>1
    <3>2. k[i] \in Seq(A) /\ t[i + 1] \in A
      BY <1>1, <1>6, <3>1
    <3>3. Append(k[i], t[i + 1]) \in Seq(A)
      BY <3>2, AppendProperties
    <3>4. k[i + 1] = Step(k[i], t[i + 1])
      BY <1>4, <3>1
    <3>5. k[i + 1] \in Seq(A)
      BY <3>2, <3>3, <3>4, Zenon
    <3> QED BY <3>5
  <2>2. CASE ~(i + 1 <= Len(t))
    BY <2>2
  <2> QED BY <2>1, <2>2
<1>7. Nat \subseteq T
  <2> HIDE DEF T
  <2> QED BY <1>5, <1>6, Induction, Zenon
<1>8. \A i \in 0..Len(t) : k[i] \in Seq(A)
  BY <1>1, <1>7
<1> QED BY <1>3, <1>4, <1>8, Zenon DEF Strips

\* The symbols of t that are no commas are those of r, in their order: up to
\* the i-th of t there are c[i].
Counts(c, t, r) ==
    /\ c \in [0..Len(t) -> 0..Len(r)]
    /\ c[0] = 0 /\ c[Len(t)] = Len(r)
    /\ \A i \in 1..Len(t) :
          \/ t[i] = Comma /\ c[i] = c[i - 1]
          \/ t[i] # Comma /\ c[i] = c[i - 1] + 1 /\ t[i] = r[c[i]]

\* Whatever keeps what is no comma, in its order, is the text stripped.
LEMMA StrippedIs ==
    ASSUME NEW A, NEW t \in Seq(A), NEW r \in Seq(A), NEW c, Counts(c, t, r)
    PROVE  Stripped(t) = r
<1> DEFINE kept == [i \in 0..Len(t) |-> SubSeq(r, 1, c[i])]
<1>1. Len(t) \in Nat /\ Len(r) \in Nat /\ \A i \in 1..Len(r) : r[i] \in A
  BY LenProperties
<1>2. PICK k : Strips(k, t) /\ Stripped(t) = k[Len(t)]
  BY StrippedStrips, Zenon
<1>3. kept[0] = <<>> /\ kept[Len(t)] = r
  <2>1. SubSeq(r, 1, 0) = <<>>
    BY SubSeqEmpty
  <2>2. SubSeq(r, 1, Len(r)) = r
    BY SubSeqFull
  <2> QED BY <1>1, <2>1, <2>2 DEF Counts
<1>4. ASSUME NEW i \in 1..Len(t) PROVE kept[i] = IF t[i] = Comma THEN kept[i - 1] ELSE Append(kept[i - 1], t[i])
  <2>1. i \in 0..Len(t) /\ i - 1 \in 0..Len(t)
    BY <1>1
  <2>2. kept[i] = SubSeq(r, 1, c[i]) /\ kept[i - 1] = SubSeq(r, 1, c[i - 1])
    BY <2>1
  <2> HIDE DEF kept
  <2>3. CASE t[i] = Comma
    BY <2>2, <2>3 DEF Counts
  <2>4. CASE t[i] # Comma
    <3> DEFINE n == c[i]
    <3>1. n \in 1..Len(r) /\ c[i - 1] = n - 1 /\ t[i] = r[n]
      <4>1. c[i] = c[i - 1] + 1 /\ t[i] = r[c[i]]
        BY <2>4 DEF Counts
      <4>2. c[i] \in 0..Len(r) /\ c[i - 1] \in 0..Len(r)
        BY <2>1 DEF Counts
      <4> QED BY <1>1, <4>1, <4>2
    <3> HIDE DEF n
    <3>2. SubSeq(r, 1, n) = SubSeq(r, 1, n - 1) \o <<r[n]>>
      <4>1. 1 \in 1..Len(r) /\ n \in 1..Len(r)
        BY <1>1, <3>1
      <4> QED BY <4>1, SubSeqRecursiveSecond
    <3>3. SubSeq(r, 1, n - 1) \in Seq(A)
      <4>1. \A j \in 1..(n - 1) : r[j] \in A
        BY <1>1, <3>1
      <4>2. n - 1 \in Int
        BY <3>1
      <4> QED BY <4>1, <4>2, SubSeqProperties
    <3>4. Append(SubSeq(r, 1, n - 1), r[n]) = SubSeq(r, 1, n - 1) \o <<r[n]>>
      BY <1>1, <3>1, <3>3, AppendIsConcat
    <3> QED BY <2>2, <2>4, <3>1, <3>2, <3>4 DEF n
  <2> QED BY <2>3, <2>4
<1> HIDE DEF kept
<1>5. Together(k, kept, Len(t))
  BY <1>2, <1>3, <1>4 DEF Strips, Together
<1>6. \A i \in 0..Len(t) : k[i] = kept[i]
  <2> DEFINE n == Len(t)
  <2>1. n \in Nat /\ Together(k, kept, n)
    BY <1>1, <1>5
  <2> HIDE DEF n
  <2>2. \A i \in 0..n : k[i] = kept[i]
    BY <2>1, Agreement
  <2> QED BY <2>2 DEF n
<1> QED BY <1>1, <1>2, <1>3, <1>6

\* How many of n digits stand before or at a place, counted from the right,
\* when every fourth place is a comma's.
Standing(n, place) == n - (place - place \div 4)

\* Where the digits of a grouped number stand.
LEMMA Standings ==
    ASSUME NEW n \in Nat \ {0}
    PROVE  LET length == n + (n - 1) \div 3
           IN  /\ length \in Nat \ {0} /\ Standing(n, length) = 0 /\ Standing(n, 0) = n
               /\ \A p \in 0..(length - 1) :
                     /\ Standing(n, p) \in 1..n /\ Standing(n, p + 1) \in 0..n
                     /\ p % 4 = 3 => Standing(n, p) = Standing(n, p + 1)
                     /\ p % 4 # 3 => Standing(n, p) = Standing(n, p + 1) + 1
<1> DEFINE a == (n - 1) \div 3
           length == n + a
<1>1. a \in Nat /\ 3 * a <= n - 1 /\ n - 1 <= 3 * a + 2
  OBVIOUS
<1> HIDE DEF a
<1>2. length \in Nat \ {0} /\ length \div 4 = a
  BY <1>1
<1>3. Standing(n, length) = 0 /\ Standing(n, 0) = n
  BY <1>1, <1>2 DEF Standing
<1>4. ASSUME NEW p \in 0..(length - 1)
      PROVE  /\ Standing(n, p) \in 1..n /\ Standing(n, p + 1) \in 0..n
             /\ p % 4 = 3 => Standing(n, p) = Standing(n, p + 1)
             /\ p % 4 # 3 => Standing(n, p) = Standing(n, p + 1) + 1
  <2> DEFINE c == p \div 4
             e == p % 4
  <2>1. c \in Nat /\ e \in 0..3 /\ p = 4 * c + e /\ p \in Nat
    BY <1>1
  <2>2. p - c \in 0..(n - 1)
    <3> HIDE DEF c, e
    <3>1. p - c = 3 * c + e
      BY <2>1
    <3>2. 4 * c + e <= n + a - 1
      BY <1>1, <2>1
    <3>3. 3 * c + e <= n - 1
      BY <1>1, <2>1, <3>2
    <3> QED BY <2>1, <3>1, <3>3
  <2>3. CASE e = 3
    <3>1. (p + 1) \div 4 = c + 1
      BY <2>1, <2>3
    <3> HIDE DEF c, e
    <3> QED BY <2>1, <2>2, <2>3, <3>1 DEF Standing, c, e
  <2>4. CASE e # 3
    <3>1. (p + 1) \div 4 = c
      BY <2>1, <2>4
    <3> HIDE DEF c, e
    <3> QED BY <2>1, <2>2, <2>4, <3>1 DEF Standing, c, e
  <2> QED BY <2>3, <2>4
<1> QED BY <1>2, <1>3, <1>4 DEF a

\* What formatAmount() writes an amount with.
Marks == (0..9) \cup {Point, Comma}

\* Digits are neither commas nor points.
LEMMA DigitsAreMarks ==
    ASSUME NEW t \in Seq(0..9)
    PROVE  t \in Seq(Marks) /\ \A i \in 1..Len(t) : t[i] \in 0..9 /\ t[i] # Comma /\ t[i] # Point
<1>1. t \in Seq(Marks)
  BY SeqMonotonic DEF Marks
<1>2. \A i \in 1..Len(t) : t[i] \in 0..9
  BY LenProperties
<1> QED BY <1>1, <1>2, AmountFieldAssumption

\* Texts of marks joined.
LEMMA MarksJoin ==
    \A a, b \in Seq(Marks) :
        /\ a \o b \in Seq(Marks) /\ Len(a \o b) = Len(a) + Len(b)
        /\ \A i \in 1..(Len(a) + Len(b)) : (a \o b)[i] = IF i <= Len(a) THEN a[i] ELSE b[i - Len(a)]
  BY ConcatProperties, Zenon

\* In whichever order.
LEMMA MarksAssociate ==
    ASSUME NEW a \in Seq(Marks), NEW b \in Seq(Marks), NEW c \in Seq(Marks)
    PROVE  (a \o b) \o c = a \o (b \o c)
<1> DEFINE A == Marks
<1>1. a \in Seq(A) /\ b \in Seq(A) /\ c \in Seq(A)
  OBVIOUS
<1> HIDE DEF A
<1> QED BY <1>1, ConcatAssociative

\* parseAmount() strips what formatAmount() puts between the digits, and no
\* more: "refusing our own output would be a round-trip that fails".
LEMMA GroupedStrips ==
    ASSUME NEW w \in Seq(0..9), Len(w) \in Nat \ {0},
           NEW u \in Seq(Marks), \A i \in 1..Len(u) : u[i] # Comma
    PROVE  /\ Grouped(w) \in Seq(Marks)
           /\ Stripped(Grouped(w) \o u) = w \o u
<1> DEFINE n == Len(w)
           m == Len(u)
           length == n + (n - 1) \div 3
           Mark(i) == IF (length - i) % 4 = 3 THEN Comma ELSE w[Standing(n, length - i)]
           grouped == [i \in 1..length |-> Mark(i)]
           text_ == grouped \o u
           r == w \o u
           c == [i \in 0..(length + m) |-> IF i <= length THEN Standing(n, length - i) ELSE n + (i - length)]
<1>1. n \in Nat \ {0} /\ m \in Nat /\ (\A i \in 1..n : w[i] \in 0..9) /\ \A i \in 1..m : u[i] \in Marks
  BY LenProperties
<1>2. Grouped(w) = grouped
  BY Zenon DEF Grouped, Standing
<1>3. /\ length \in Nat \ {0} /\ Standing(n, length) = 0 /\ Standing(n, 0) = n
      /\ \A p \in 0..(length - 1) :
            /\ Standing(n, p) \in 1..n /\ Standing(n, p + 1) \in 0..n
            /\ p % 4 = 3 => Standing(n, p) = Standing(n, p + 1)
            /\ p % 4 # 3 => Standing(n, p) = Standing(n, p + 1) + 1
  BY <1>1, Standings, Zenon
<1> HIDE DEF length, n, m
<1>4. \A i \in 1..length : Mark(i) \in Marks
  <2> SUFFICES ASSUME NEW i \in 1..length PROVE Mark(i) \in Marks
    OBVIOUS
  <2>1. length - i \in 0..(length - 1)
    BY <1>3
  <2>2. w[Standing(n, length - i)] \in 0..9
    BY <1>1, <1>3, <2>1
  <2> QED BY <2>2 DEF Marks
<1>5. grouped \in Seq(Marks) /\ Len(grouped) = length /\ \A i \in 1..length : grouped[i] = Mark(i)
  <2> HIDE DEF Mark, grouped
  <2>1. grouped = [i \in 1..length |-> Mark(i)]
    BY Zenon DEF grouped
  <2>2. length \in Nat
    BY <1>3
  <2>3. grouped \in [1..length -> Marks] /\ \A i \in 1..length : grouped[i] = Mark(i)
    BY <1>4, <2>1, Zenon
  <2>4. grouped \in Seq(Marks)
    <3> DEFINE A == Marks
    <3>1. grouped \in [1..length -> A]
      BY <2>3, Zenon
    <3> HIDE DEF A
    <3>2. grouped \in Seq(A)
      BY <2>2, <3>1, SeqDef
    <3> QED BY <3>2, Zenon DEF A
  <2>5. Len(grouped) = length
    BY <2>2, <2>3, <2>4
  <2> QED BY <2>3, <2>4, <2>5, Zenon
<1> HIDE DEF grouped
<1>6. /\ text_ \in Seq(Marks) /\ Len(text_) = length + m
      /\ \A i \in 1..(length + m) : text_[i] = IF i <= length THEN grouped[i] ELSE u[i - length]
  BY <1>5, MarksJoin, Zenon DEF m
<1>7. w \in Seq(Marks)
  BY DigitsAreMarks
<1>8. /\ r \in Seq(Marks) /\ Len(r) = n + m
      /\ \A i \in 1..(n + m) : r[i] = IF i <= n THEN w[i] ELSE u[i - n]
  BY <1>7, MarksJoin, Zenon DEF m, n
<1>9. ASSUME NEW i \in 0..length PROVE c[i] = Standing(n, length - i) /\ c[i] \in 0..n
  <2>1. i = 0 => Standing(n, length - i) \in 0..n
    BY <1>1, <1>3
  <2>2. i # 0 => length - i \in 0..(length - 1)
    BY <1>3
  <2>3. i # 0 => Standing(n, length - i) \in 0..n
    BY <1>1, <1>3, <2>2
  <2>4. i \in 0..(length + m) /\ i <= length
    BY <1>1, <1>3
  <2> QED BY <2>1, <2>3, <2>4
<1>10. ASSUME NEW j \in 1..m PROVE c[length + j] = n + j
  <2>1. length + j \in 0..(length + m) /\ ~(length + j <= length) /\ (length + j) - length = j
    BY <1>1, <1>3
  <2> QED BY <2>1
<1>11. c \in [0..(length + m) -> 0..(n + m)]
  <2>1. ASSUME NEW i \in 0..(length + m) PROVE c[i] \in 0..(n + m)
    <3>1. CASE i <= length
      <4>1. i \in 0..length
        BY <1>1, <1>3, <3>1
      <4>2. c[i] \in 0..n
        BY <1>9, <4>1
      <4> QED BY <1>1, <4>2
    <3>2. CASE ~(i <= length)
      <4>1. i - length \in 1..m /\ length + (i - length) = i
        BY <1>1, <1>3, <3>2
      <4>2. c[i] = n + (i - length)
        BY <1>10, <4>1
      <4> QED BY <1>1, <4>1, <4>2
    <3> QED BY <3>1, <3>2
  <2>2. c = [i \in 0..(length + m) |-> c[i]]
    OBVIOUS
  <2> HIDE DEF c
  <2> QED BY <2>1, <2>2
<1> HIDE DEF c
<1>12. c[0] = 0 /\ c[length + m] = n + m
  <2>1. 0 \in 0..length /\ length \in 0..length /\ length - 0 = length /\ length - length = 0
    BY <1>3
  <2>2. c[0] = 0 /\ c[length] = n
    BY <1>3, <1>9, <2>1
  <2>3. m # 0 => c[length + m] = n + m
    BY <1>1, <1>10
  <2> QED BY <1>1, <1>3, <2>2, <2>3
<1>13. ASSUME NEW i \in 1..(length + m)
       PROVE  \/ text_[i] = Comma /\ c[i] = c[i - 1]
              \/ text_[i] # Comma /\ c[i] = c[i - 1] + 1 /\ text_[i] = r[c[i]]
  <2>1. CASE i <= length
    <3> DEFINE p == length - i
    <3>1. p \in 0..(length - 1) /\ i \in 0..length /\ i - 1 \in 0..length /\ length - (i - 1) = p + 1 /\ i \in 1..length
      BY <1>1, <1>3, <2>1
    <3>2. c[i] = Standing(n, p) /\ c[i - 1] = Standing(n, p + 1)
      BY <1>9, <3>1
    <3>3. text_[i] = IF p % 4 = 3 THEN Comma ELSE w[Standing(n, p)]
      BY <1>5, <1>6, <2>1, <3>1
    <3> HIDE DEF p
    <3>4. CASE p % 4 = 3
      BY <1>3, <3>1, <3>2, <3>3, <3>4
    <3>5. CASE p % 4 # 3
      <4>1. c[i] \in 1..n /\ c[i] = c[i - 1] + 1 /\ text_[i] = w[c[i]]
        BY <1>3, <3>1, <3>2, <3>3, <3>5
      <4>2. w[c[i]] # Comma
        BY <4>1, DigitsAreMarks DEF n
      <4>3. r[c[i]] = w[c[i]]
        <5>1. c[i] \in 1..(n + m) /\ c[i] <= n
          BY <1>1, <4>1
        <5> QED BY <1>8, <5>1
      <4> QED BY <4>1, <4>2, <4>3
    <3> QED BY <3>4, <3>5
  <2>2. CASE ~(i <= length)
    <3> DEFINE j == i - length
    <3>1. j \in 1..m /\ i = length + j /\ n + j \in 1..(n + m) /\ ~(n + j <= n) /\ (n + j) - n = j
      BY <1>1, <1>3, <2>2
    <3>2. text_[i] = u[j] /\ r[n + j] = u[j] /\ u[j] # Comma
      BY <1>6, <1>8, <2>2, <3>1 DEF m
    <3>3. c[i] = n + j
      BY <1>10, <3>1
    <3>4. c[i - 1] = n + (j - 1)
      <4>1. CASE j = 1
        <5>1. i - 1 = length /\ length \in 0..length /\ length - length = 0
          BY <1>3, <3>1, <4>1
        <5>2. c[i - 1] = n
          BY <1>3, <1>9, <5>1
        <5> QED BY <1>1, <4>1, <5>2
      <4>2. CASE j # 1
        <5>1. j - 1 \in 1..m /\ i - 1 = length + (j - 1)
          BY <1>1, <1>3, <3>1, <4>2
        <5> HIDE DEF j
        <5> QED BY <1>10, <5>1
      <4> QED BY <4>1, <4>2
    <3>5. n + j = (n + (j - 1)) + 1
      BY <1>1, <3>1
    <3> HIDE DEF j
    <3> QED BY <3>2, <3>3, <3>4, <3>5
  <2> QED BY <2>1, <2>2
<1> HIDE DEF text_, r
<1>14. Stripped(text_) = r
  <2>1. Counts(c, text_, r)
    BY <1>6, <1>8, <1>11, <1>12, <1>13 DEF Counts
  <2> QED BY <1>6, <1>8, <2>1, StrippedIs, Zenon
<1> QED BY <1>2, <1>5, <1>14 DEF text_, r
-----------------------------------------------------------------------------
(* What a text says.                                                       *)

\* A numeral has one point at most, and digits on both sides of it.
LEMMA PartsAreDigits ==
    ASSUME NEW A, NEW t \in Seq(A), IsNumeral(t)
    PROVE  Whole(t) \in Seq(0..9) /\ Fraction(t) \in Seq(0..9)
<1> DEFINE n == Len(t)
           points == Points(t)
           p == CHOOSE i \in points : TRUE
<1>1. n \in Nat /\ DOMAIN t = 1..n
  BY LenProperties
<1>2. points \in SUBSET (1..n)
  BY <1>1 DEF Points
<1>3. \A i \in 1..n : i \notin points => t[i] \in 0..9
  BY <1>1 DEF IsNumeral
<1>4. Cardinality(points) <= 1
  BY DEF IsNumeral
<1>5. Whole(t) = SubSeq(t, 1, IF points = {} THEN n ELSE p - 1)
  BY Zenon DEF Whole
<1>6. Fraction(t) = SubSeq(t, Len(Whole(t)) + 2, n)
  BY Zenon DEF Fraction
<1>7. CASE points = {}
  <2>1. Whole(t) = SubSeq(t, 1, n)
    BY <1>5, <1>7
  <2>2. \A i \in 1..n : t[i] \in 0..9
    BY <1>3, <1>7
  <2> HIDE DEF n
  <2>3. Whole(t) \in Seq(0..9) /\ Len(Whole(t)) = IF 1 <= n THEN (n - 1) + 1 ELSE 0
    BY <1>1, <2>1, <2>2, SubSeqProperties
  <2>4. Len(Whole(t)) = n
    BY <1>1, <2>3
  <2>5. Fraction(t) = <<>>
    BY <1>1, <1>6, <2>4, SubSeqEmpty
  <2>6. <<>> \in Seq(0..9)
    BY EmptySeq
  <2> QED BY <2>3, <2>5, <2>6
<1>8. CASE points # {}
  <2>1. p \in points
    <3> HIDE DEF points
    <3> QED BY <1>8, Zenon
  <2>2. Whole(t) = SubSeq(t, 1, p - 1)
    BY <1>5, <1>8
  <2> HIDE DEF p, n
  <2>3. IsFiniteSet(points)
    BY <1>1, <1>2, FS_Interval, FS_Subset
  <2>4. points = {p}
    <3>1. {p} \in SUBSET points
      BY <2>1
    <3>2. Cardinality({p}) = 1
      BY FS_Singleton
    <3> HIDE DEF points
    <3>3. Cardinality({p}) <= Cardinality(points) /\ (Cardinality(points) = Cardinality({p}) => points = {p})
      BY <2>3, <3>1, FS_Subset
    <3>4. Cardinality(points) \in Nat
      BY <2>3, FS_CardinalityType
    <3> QED BY <1>4, <3>2, <3>3, <3>4
  <2>5. p \in 1..n /\ \A i \in 1..n : i # p => t[i] \in 0..9
    BY <1>2, <1>3, <2>4
  <2>6. Whole(t) \in Seq(0..9) /\ Len(Whole(t)) = p - 1
    <3>1. \A i \in 1..(p - 1) : t[i] \in 0..9
      BY <1>1, <2>5
    <3>2. Whole(t) \in Seq(0..9) /\ Len(Whole(t)) = IF 1 <= p - 1 THEN ((p - 1) - 1) + 1 ELSE 0
      BY <2>2, <2>5, <3>1, SubSeqProperties
    <3> QED BY <1>1, <2>5, <3>2
  <2>7. Fraction(t) \in Seq(0..9)
    <3>1. Len(Whole(t)) + 2 = p + 1
      BY <1>1, <2>5, <2>6
    <3>2. \A i \in (p + 1)..n : t[i] \in 0..9
      BY <1>1, <2>5
    <3>3. SubSeq(t, p + 1, n) \in Seq(0..9)
      BY <1>1, <2>5, <3>2, SubSeqProperties
    <3> QED BY <1>6, <3>1, <3>3
  <2> QED BY <2>6, <2>7
<1> QED BY <1>7, <1>8

\* Digits alone are a numeral without a fraction.
LEMMA PartsOfDigits ==
    ASSUME NEW w \in Seq(0..9)
    PROVE  IsNumeral(w) /\ Whole(w) = w /\ Fraction(w) = <<>>
<1>1. Len(w) \in Nat /\ DOMAIN w = 1..Len(w) /\ \A i \in 1..Len(w) : w[i] \in 0..9 /\ w[i] # Point
  BY LenProperties, DigitsAreMarks
<1>2. Points(w) = {}
  BY <1>1 DEF Points
<1>3. IsNumeral(w)
  <2>1. Cardinality({}) = 0
    BY FS_EmptySet
  <2> QED BY <1>1, <1>2, <2>1 DEF IsNumeral
<1>4. Whole(w) = w
  <2>1. SubSeq(w, 1, Len(w)) = w
    BY SubSeqFull
  <2> QED BY <1>2, <2>1 DEF Whole
<1>5. Fraction(w) = <<>>
  <2>1. SubSeq(w, Len(w) + 2, Len(w)) = <<>>
    BY <1>1, SubSeqEmpty
  <2> QED BY <1>4, <2>1 DEF Fraction
<1> QED BY <1>3, <1>4, <1>5

\* What lies before and after a point.
LEMMA PartIs ==
    ASSUME NEW t, NEW a \in Nat \ {0}, NEW b \in Nat, a <= b + 1,
           NEW q \in Seq(0..9), Len(q) = (b - a) + 1, \A i \in 1..Len(q) : t[(a + i) - 1] = q[i]
    PROVE  SubSeq(t, a, b) = q
<1> DEFINE s == SubSeq(t, a, b)
<1>1. \A i \in 1..Len(q) : q[i] \in 0..9
  BY LenProperties
<1>2. ASSUME NEW i \in a..b PROVE t[i] \in 0..9
  <2> DEFINE j == (i - a) + 1
  <2>1. j \in 1..Len(q) /\ (a + j) - 1 = i
    OBVIOUS
  <2> HIDE DEF j
  <2> QED BY <1>1, <2>1
<1>3. /\ s \in Seq(0..9) /\ Len(s) = IF a <= b THEN (b - a) + 1 ELSE 0
      /\ \A i \in 1..((b - a) + 1) : s[i] = t[(a + i) - 1]
  <2>1. a \in Int /\ b \in Int
    OBVIOUS
  <2> QED BY <1>2, <2>1, SubSeqProperties
<1> HIDE DEF s
<1>4. Len(s) = Len(q)
  BY <1>3
<1>5. s = q
  BY <1>3, <1>4, SeqEqual
<1> QED BY <1>5 DEF s

\* Digits on both sides of a point are a numeral with these parts.
LEMMA PartsOfBoth ==
    ASSUME NEW w \in Seq(0..9), NEW q \in Seq(0..9), NEW t, t = w \o (<<Point>> \o q)
    PROVE  IsNumeral(t) /\ Whole(t) = w /\ Fraction(t) = q
<1> DEFINE n == Len(w)
           m == Len(q)
           u == <<Point>> \o q
<1>1. n \in Nat /\ m \in Nat
  BY LenProperties
<1>2. /\ w \in Seq(Marks) /\ (\A i \in 1..n : w[i] \in 0..9 /\ w[i] # Point)
      /\ q \in Seq(Marks) /\ (\A i \in 1..m : q[i] \in 0..9 /\ q[i] # Point)
  BY DigitsAreMarks
<1>3. <<Point>> \in Seq(Marks) /\ Len(<<Point>>) = 1 /\ <<Point>>[1] = Point
  BY DEF Marks
<1> HIDE DEF n, m
<1>4. /\ u \in Seq(Marks) /\ Len(u) = 1 + m
      /\ \A i \in 1..(1 + m) : u[i] = IF i <= 1 THEN <<Point>>[i] ELSE q[i - 1]
  BY <1>2, <1>3, ConcatProperties DEF m
<1> HIDE DEF u
<1>5. /\ t \in Seq(Marks) /\ Len(t) = n + (1 + m)
      /\ \A i \in 1..(n + (1 + m)) : t[i] = IF i <= n THEN w[i] ELSE u[i - n]
  <2>1. t = w \o u
    BY DEF u
  <2>2. /\ w \o u \in Seq(Marks) /\ Len(w \o u) = Len(w) + Len(u)
        /\ \A i \in 1..(Len(w) + Len(u)) : (w \o u)[i] = IF i <= Len(w) THEN w[i] ELSE u[i - Len(w)]
    BY <1>2, <1>4, ConcatProperties, Zenon
  <2> QED BY <1>4, <2>1, <2>2 DEF n
<1> DEFINE p == n + 1
<1>6. p \in 1..Len(t) /\ t[p] = Point
  <2>1. n + 1 \in 1..(n + (1 + m)) /\ ~(n + 1 <= n) /\ (n + 1) - n = 1 /\ 1 \in 1..(1 + m)
    BY <1>1
  <2>2. t[n + 1] = u[1]
    BY <1>5, <2>1
  <2>3. u[1] = Point
    BY <1>3, <1>4, <2>1
  <2> QED BY <1>5, <2>1, <2>2, <2>3
<1>7. \A i \in 1..n : t[i] = w[i]
  <2>1. \A i \in 1..n : i \in 1..(n + (1 + m)) /\ i <= n
    BY <1>1
  <2> QED BY <1>5, <2>1
<1>8. ASSUME NEW i \in 1..m PROVE t[p + i] = q[i] /\ p + i \in 1..Len(t)
  <2>1. p + i \in 1..(n + (1 + m)) /\ ~(p + i <= n) /\ (p + i) - n = 1 + i /\ 1 + i \in 1..(1 + m) /\ ~(1 + i <= 1) /\ (1 + i) - 1 = i
    BY <1>1
  <2>2. t[p + i] = u[1 + i]
    BY <1>5, <2>1
  <2>3. u[1 + i] = q[i]
    BY <1>4, <2>1
  <2> QED BY <1>5, <2>1, <2>2, <2>3
<1>9. \A i \in 1..Len(t) : i # p => t[i] \in 0..9 /\ t[i] # Point
  <2> SUFFICES ASSUME NEW i \in 1..Len(t), i # p PROVE t[i] \in 0..9 /\ t[i] # Point
    OBVIOUS
  <2>1. CASE i <= n
    <3>1. i \in 1..n
      BY <1>1, <2>1
    <3> QED BY <1>2, <1>7, <3>1
  <2>2. CASE ~(i <= n)
    <3> DEFINE j == i - p
    <3>1. j \in 1..m /\ p + j = i
      BY <1>1, <1>5, <2>2
    <3> HIDE DEF j, p
    <3>2. t[p + j] = q[j]
      BY <1>8, <3>1
    <3> QED BY <1>2, <3>1, <3>2
  <2> QED BY <2>1, <2>2
<1>10. Points(t) = {p}
  <2>1. DOMAIN t = 1..Len(t)
    BY <1>5, LenProperties
  <2> HIDE DEF p
  <2> QED BY <1>6, <1>9, <2>1 DEF Points
<1>11. IsNumeral(t)
  <2>1. Cardinality({p}) = 1
    BY FS_Singleton
  <2>2. DOMAIN t = 1..Len(t)
    BY <1>5, LenProperties
  <2> HIDE DEF p
  <2>3. Cardinality(Points(t)) = 1
    BY <1>10, <2>1
  <2>4. Cardinality(Points(t)) <= 1
    BY <2>3
  <2>5. \A i \in DOMAIN t \ Points(t) : t[i] \in 0..9
    BY <1>9, <1>10, <2>2
  <2> QED BY <2>4, <2>5 DEF IsNumeral
<1>12. Whole(t) = w
  <2>1. Whole(t) = SubSeq(t, 1, p - 1)
    <3>1. (CHOOSE i \in {p} : TRUE) = p
      OBVIOUS
    <3> HIDE DEF p
    <3> QED BY <1>10, <3>1 DEF Whole
  <2>2. p - 1 = n
    BY <1>1
  <2>3. \A i \in 1..n : (1 + i) - 1 = i
    BY <1>1
  <2>4. \A i \in 1..Len(w) : t[(1 + i) - 1] = w[i]
    BY <1>7, <2>3 DEF n
  <2>5. 1 \in Nat \ {0} /\ n \in Nat /\ 1 <= n + 1 /\ Len(w) = (n - 1) + 1
    BY <1>1 DEF n
  <2>6. SubSeq(t, 1, n) = w
    BY <2>4, <2>5, PartIs
  <2> QED BY <2>1, <2>2, <2>6
<1>13. Fraction(t) = q
  <2> DEFINE s == SubSeq(t, p + 1, Len(t))
  <2>1. Fraction(t) = s
    <3>1. Len(w) + 2 = p + 1
      BY <1>1 DEF n
    <3> QED BY <1>12, <3>1 DEF Fraction
  <2>2. /\ p + 1 \in Nat \ {0} /\ Len(t) \in Nat /\ p + 1 <= Len(t) + 1
        /\ Len(q) = (Len(t) - (p + 1)) + 1
    BY <1>1, <1>5 DEF m
  <2>3. \A i \in 1..m : ((p + 1) + i) - 1 = p + i
    BY <1>1
  <2>4. \A i \in 1..Len(q) : t[((p + 1) + i) - 1] = q[i]
    BY <1>8, <2>3 DEF m
  <2>5. SubSeq(t, p + 1, Len(t)) = q
    <3> HIDE DEF p
    <3> QED BY <2>2, <2>4, PartIs
  <2> QED BY <2>1, <2>5
<1> QED BY <1>11, <1>12, <1>13
-----------------------------------------------------------------------------
(* There and back.                                                         *)

\* The amount of a numeral is what its digits say, moved to the left.
LEMMA ParseOfNumeral ==
    ASSUME NEW t, NEW d \in Nat, NEW w \in Seq(0..9), NEW q \in Seq(0..9),
           IsNumeral(Stripped(t)), Whole(Stripped(t)) = w, Fraction(Stripped(t)) = q, Len(q) <= d
    PROVE  ParseAmount(t, d) = Value(w \o q) * Unit[d - Len(q)] /\ ParseAmount(t, d) \in Nat
<1> DEFINE k == d - Len(q)
           z == Zeros(k)
<1>1. Len(q) \in Nat /\ k \in Nat
  BY LenProperties
<1>2. ParseAmount(t, d) = Value((w \o q) \o z)
  BY <1>1 DEF ParseAmount
<1> HIDE DEF k
<1>3. z \in Seq(0..9) /\ Len(z) = k /\ Value(z) = 0
  BY <1>1, ZerosAre
<1> HIDE DEF z
<1>4. w \o q \in Seq(0..9)
  BY ConcatProperties
<1> DEFINE wq == w \o q
<1>5. wq \in Seq(0..9)
  BY <1>4
<1> HIDE DEF wq
<1>6. Value(wq) \in Nat /\ Value(wq \o z) = Value(wq) * Unit[k] + Value(z)
  BY <1>3, <1>5, ValueOfBoth
<1> DEFINE x == Value(wq)
           y == Unit[k]
<1>7. x \in Nat /\ y \in Nat /\ Value(wq \o z) = x * y + 0
  BY <1>1, <1>3, <1>6, UnitPositive
<1> HIDE DEF x, y
<1>8. x * y \in Nat /\ x * y + 0 = x * y
  BY <1>7, ProductMonotone
<1> QED BY <1>2, <1>7, <1>8 DEF wq, x, y, k

\* "Truncating here would silently send less than the user typed": whatever the
\* text, its amount is the number it says, if it has one.
LEMMA ParseIsExact ==
    ASSUME NEW A, NEW t \in Seq(A), NEW d \in Nat, ParseAmount(t, d) # Malformed
    PROVE  LET s == Stripped(t)
           IN  /\ ParseAmount(t, d) \in Nat
               /\ ParseAmount(t, d) * Unit[Len(Fraction(s))] = Value(Whole(s) \o Fraction(s)) * Unit[d]
<1> DEFINE s == Stripped(t)
           w == Whole(s)
           q == Fraction(s)
           k == d - Len(q)
<1>1. IsNumeral(s) /\ ~(Len(q) > d)
  BY DEF ParseAmount
<1>2. s \in Seq(A)
  <2>1. PICK k_ : Stripped(t) = k_[Len(t)] /\ \A i \in 0..Len(t) : k_[i] \in Seq(A)
    BY StrippedStrips, Zenon
  <2>2. Len(t) \in 0..Len(t)
    BY LenProperties
  <2> QED BY <2>1, <2>2, Zenon
<1>3. w \in Seq(0..9) /\ q \in Seq(0..9)
  <2> HIDE DEF s
  <2> QED BY <1>1, <1>2, PartsAreDigits
<1>4. Len(q) \in Nat /\ Len(q) <= d
  <2>1. Len(q) \in Nat
    <3> HIDE DEF q
    <3> QED BY <1>3, LenProperties
  <2> HIDE DEF q
  <2> QED BY <1>1, <2>1
<1>5. ParseAmount(t, d) = Value(w \o q) * Unit[k] /\ ParseAmount(t, d) \in Nat
  BY <1>1, <1>3, <1>4, ParseOfNumeral
<1>6. Value(w \o q) \in Nat
  <2> HIDE DEF w, q
  <2>1. w \o q \in Seq(0..9)
    BY <1>3, ConcatProperties
  <2> DEFINE wq == w \o q
  <2>2. wq \in Seq(0..9)
    BY <2>1
  <2> HIDE DEF wq
  <2>3. Value(wq) \in Nat
    BY <2>2, ValueOfBoth
  <2> QED BY <2>3 DEF wq
<1>7. k \in Nat /\ k + Len(q) = d
  <2> HIDE DEF q
  <2> QED BY <1>4
<1>8. Unit[d] = Unit[k] * Unit[Len(q)]
  <2> HIDE DEF q, k
  <2> QED BY <1>4, <1>7, UnitSum
<1> DEFINE x == Value(w \o q)
           y == Unit[k]
           u == Unit[Len(q)]
<1>9. x \in Int /\ y \in Int /\ u \in Int
  <2> HIDE DEF q, k, w
  <2> QED BY <1>4, <1>6, <1>7, Units
<1>10. ParseAmount(t, d) * u = (x * y) * u /\ x * Unit[d] = x * (y * u)
  <2> HIDE DEF q, w, x
  <2> QED BY <1>5, <1>8 DEF x
<1> HIDE DEF x, y, u, k
<1>11. x * (y * u) = (x * y) * u
  BY <1>9, ProductAssociates
<1>12. ParseAmount(t, d) * u = x * Unit[d]
  BY <1>10, <1>11
<1> QED BY <1>5, <1>12 DEF x, u

\* s is n, with d decimals: w and no more than max digits q of what is left, or
\* all that matter.
Says(s, w, q, n, d, max) ==
    /\ s \in Seq(Marks) /\ IsNumeral(s) /\ Whole(s) = w /\ Fraction(s) = q
    /\ Len(q) <= max /\ Value(w) = n \div Unit[d]
    /\ Value(q) * Unit[d - Len(q)] <= n % Unit[d]
    /\ max = d => Value(q) * Unit[d - Len(q)] = n % Unit[d]

\* What is left of a formatted amount without its commas.
LEMMA FormatStrips ==
    ASSUME NEW n \in Nat, NEW d \in Nat, NEW max \in 0..d
    PROVE  \E w, q \in Seq(0..9) : Says(Stripped(FormatAmount(n, d, max)), w, q, n, d, max)
<1> DEFINE unit == Unit[d]
           rest == n % unit
           w == Digits(n \div unit)
           g == Digits(rest)
           z == Zeros(d - Len(g))
           f == z \o g
           q == Shortened(f, max)
           whole == Grouped(w)
           written == IF q = <<>> THEN whole ELSE (whole \o <<Point>>) \o q
           s == Stripped(FormatAmount(n, d, max))
           k == d - Len(q)
<1>1. unit \in Nat \ {0} /\ n \div unit \in Nat /\ rest \in Nat /\ rest < unit
  <2>1. unit \in Nat \ {0}
    BY UnitPositive
  <2> HIDE DEF unit
  <2> QED BY <2>1, Division
<1>2. FormatAmount(n, d, max) = written
  BY Zenon DEF FormatAmount
<1>3. w \in Seq(0..9) /\ Len(w) \in Nat \ {0} /\ Value(w) = n \div unit
  <2> DEFINE c == n \div unit
  <2>1. c \in Nat
    BY <1>1
  <2> HIDE DEF c, unit
  <2>2. Digits(c) \in Seq(0..9) /\ Len(Digits(c)) \in Nat \ {0} /\ Value(Digits(c)) = c
    BY <2>1, DigitsAre
  <2> QED BY <2>2 DEF c
<1> HIDE DEF w
<1>4. g \in Seq(0..9) /\ Len(g) \in Nat \ {0} /\ Value(g) = rest /\ (d # 0 => Len(g) <= d)
  <2> HIDE DEF rest
  <2>1. g \in Seq(0..9) /\ Len(g) \in Nat \ {0} /\ Value(g) = rest
    BY <1>1, DigitsAre
  <2>2. d # 0 => Len(g) <= d
    BY <1>1, DigitsAre
  <2> QED BY <2>1, <2>2
<1> HIDE DEF g, rest
<1>5. z \in Seq(0..9) /\ Value(z) = 0 /\ Len(z) = IF d - Len(g) <= 0 THEN 0 ELSE d - Len(g)
  <2> DEFINE p == d - Len(g)
  <2>1. p \in Int
    BY <1>4
  <2> HIDE DEF p
  <2>2. Zeros(p) \in Seq(0..9) /\ Value(Zeros(p)) = 0 /\ Len(Zeros(p)) = IF p <= 0 THEN 0 ELSE p
    BY <2>1, ZerosAre
  <2> QED BY <2>2 DEF p
<1> HIDE DEF z
<1>6. f \in Seq(0..9) /\ Len(f) = Len(z) + Len(g) /\ Value(f) = rest
  <2>1. Len(f) = Len(z) + Len(g)
    BY <1>4, <1>5, ConcatProperties
  <2>2. f \in Seq(0..9) /\ Value(f) = Value(z) * Unit[Len(g)] + Value(g)
    BY <1>4, <1>5, ValueOfBoth
  <2> DEFINE y == Unit[Len(g)]
  <2>3. y \in Nat
    BY <1>4, UnitPositive
  <2>4. Value(f) = 0 * y + rest
    BY <1>4, <1>5, <2>2
  <2> HIDE DEF y, f
  <2>5. 0 * y + rest = rest
    BY <1>1, <2>3
  <2> QED BY <2>1, <2>2, <2>4, <2>5
<1>7. d # 0 => Len(f) = d
  <2> HIDE DEF f
  <2> QED BY <1>4, <1>5, <1>6
<1> HIDE DEF f
<1>8. q \in Seq(0..9) /\ Len(q) \in Nat /\ Len(q) <= max
  <2>1. max \in Nat
    OBVIOUS
  <2>2. q \in Seq(0..9) /\ Len(q) <= max
    BY <1>6, <2>1, ShortenedSplits
  <2> HIDE DEF q
  <2> QED BY <2>2, LenProperties
<1>9. PICK r \in Seq(0..9) : f = q \o r /\ (Len(f) <= max => Value(r) = 0)
  <2>1. max \in Nat
    OBVIOUS
  <2> QED BY <1>6, <2>1, ShortenedSplits
<1> HIDE DEF q
<1>10. k \in Nat /\ Unit[k] \in Nat /\ Value(q) \in Nat /\ Value(r) \in Nat
  <2>1. k \in Nat
    BY <1>8
  <2> HIDE DEF k
  <2> QED BY <1>8, <1>9, <2>1, UnitPositive, ValueOfBoth
<1>11. Value(q) * Unit[k] <= rest /\ (max = d => Value(q) * Unit[k] = rest)
  <2>1. CASE d = 0
    <3>1. Unit[d] = 1
      BY <2>1, Units
    <3>2. rest = 0
      BY <1>1, <3>1
    <3>3. \A i \in 1..Len(q) : q[i] = 0
      BY <1>8, <2>1
    <3>4. Value(q) = 0
      BY <1>8, <3>3, ValueOfZeros
    <3> DEFINE y == Unit[k]
    <3>5. y \in Nat
      BY <1>10
    <3> HIDE DEF y
    <3>6. 0 * y = 0
      BY <3>5
    <3> QED BY <3>2, <3>4, <3>6 DEF y
  <2>2. CASE d # 0
    <3>1. Len(q \o r) = Len(q) + Len(r) /\ Len(r) \in Nat
      BY <1>8, <1>9, ConcatProperties, LenProperties
    <3>2. Len(r) = k
      BY <1>7, <1>8, <1>9, <2>2, <3>1
    <3>3. Value(q \o r) = Value(q) * Unit[Len(r)] + Value(r)
      BY <1>8, <1>9, ValueOfBoth
    <3>4. rest = Value(q) * Unit[k] + Value(r)
      BY <1>6, <1>9, <3>2, <3>3
    <3>5. max = d => Value(r) = 0
      BY <1>7, <1>9, <2>2
    <3> DEFINE v == Value(q) * Unit[k]
    <3>6. v \in Int
      <4> DEFINE x == Value(q)
                 y == Unit[k]
      <4>1. x \in Int /\ y \in Int
        BY <1>10
      <4> HIDE DEF x, y
      <4>2. x * y \in Int
        BY <4>1, ProductCommutes
      <4> QED BY <4>2 DEF x, y
    <3>7. rest = v + Value(r)
      BY <3>4
    <3> HIDE DEF v
    <3>8. v <= rest /\ (max = d => v = rest)
      BY <1>10, <3>5, <3>6, <3>7
    <3> QED BY <3>8 DEF v
  <2> QED BY <2>1, <2>2
<1>12. s \in Seq(Marks) /\ IsNumeral(s) /\ Whole(s) = w /\ Fraction(s) = q
  <2>1. w \in Seq(Marks) /\ q \in Seq(Marks) /\ \A i \in 1..Len(q) : q[i] # Comma
    BY <1>3, <1>8, DigitsAreMarks
  <2>2. CASE q = <<>>
    <3> DEFINE u == <<>>
    <3>1. u \in Seq(Marks) /\ \A i \in 1..Len(u) : u[i] # Comma
      BY <2>1, <2>2
    <3> HIDE DEF u
    <3>2. whole \in Seq(Marks) /\ Stripped(whole \o u) = w \o u
      BY <1>3, <3>1, GroupedStrips
    <3> HIDE DEF whole
    <3>3. whole \o u = whole /\ w \o u = w
      BY <2>1, <3>2, ConcatEmptySeq DEF u
    <3>4. s = w
      BY <1>2, <2>2, <3>2, <3>3
    <3>5. IsNumeral(w) /\ Whole(w) = w /\ Fraction(w) = <<>>
      BY <1>3, PartsOfDigits
    <3> HIDE DEF s
    <3> QED BY <2>1, <2>2, <3>4, <3>5
  <2>3. CASE q # <<>>
    <3> DEFINE point == <<Point>>
               u == point \o q
    <3>1. point \in Seq(Marks) /\ Len(point) = 1 /\ point[1] # Comma
      BY AmountFieldAssumption DEF Marks
    <3> HIDE DEF point
    <3>2. /\ u \in Seq(Marks) /\ Len(u) = Len(point) + Len(q)
          /\ \A i \in 1..(Len(point) + Len(q)) : u[i] = IF i <= Len(point) THEN point[i] ELSE q[i - Len(point)]
      BY <2>1, <3>1, ConcatProperties, Zenon
    <3> HIDE DEF u
    <3>3. ASSUME NEW i \in 1..Len(u) PROVE u[i] # Comma
      <4>1. CASE i <= 1
        <5>1. i = 1 /\ i \in 1..(Len(point) + Len(q)) /\ i <= Len(point)
          BY <1>8, <3>1, <3>2, <4>1
        <5>2. u[i] = point[1]
          BY <3>2, <5>1
        <5> QED BY <3>1, <5>2
      <4>2. CASE ~(i <= 1)
        <5>1. i - 1 \in 1..Len(q) /\ i \in 1..(Len(point) + Len(q)) /\ ~(i <= Len(point))
          BY <1>8, <3>1, <3>2, <4>2
        <5>2. u[i] = q[i - 1]
          BY <3>1, <3>2, <5>1
        <5> QED BY <2>1, <5>1, <5>2
      <4> QED BY <4>1, <4>2
    <3>4. whole \in Seq(Marks) /\ Stripped(whole \o u) = w \o u
      BY <1>3, <3>2, <3>3, GroupedStrips
    <3> HIDE DEF whole
    <3>5. (whole \o point) \o q = whole \o u
      <4>1. (whole \o point) \o q = whole \o (point \o q)
        <5>1. q \in Seq(Marks) /\ whole \in Seq(Marks)
          BY <2>1, <3>4
        <5> QED BY <3>1, <5>1, MarksAssociate, Zenon
      <4> QED BY <4>1 DEF u
    <3>6. s = w \o u
      BY <1>2, <2>3, <3>4, <3>5 DEF point
    <3>7. s \in Seq(Marks)
      <4>1. w \o u \in Seq(Marks)
        BY <2>1, <3>2, ConcatProperties
      <4> QED BY <3>6, <4>1
    <3>8. s = w \o (<<Point>> \o q)
      BY <3>6 DEF u, point
    <3> HIDE DEF s
    <3>9. IsNumeral(s) /\ Whole(s) = w /\ Fraction(s) = q
      BY <1>3, <1>8, <3>8, PartsOfBoth
    <3> QED BY <3>7, <3>9
  <2> QED BY <2>2, <2>3
<1>13. Value(w) = n \div Unit[d] /\ Value(q) * Unit[k] <= n % Unit[d] /\ (max = d => Value(q) * Unit[k] = n % Unit[d])
  BY <1>3, <1>11 DEF rest
<1> HIDE DEF s
<1>14. /\ s \in Seq(Marks) /\ IsNumeral(s) /\ Whole(s) = w /\ Fraction(s) = q
       /\ Len(q) <= max /\ Value(w) = n \div Unit[d]
       /\ Value(q) * Unit[k] <= n % Unit[d]
       /\ max = d => Value(q) * Unit[k] = n % Unit[d]
  BY <1>8, <1>12, <1>13, Zenon
<1>15. Says(s, w, q, n, d, max)
  BY <1>14, Zenon DEF Says, k
<1> QED BY <1>3, <1>8, <1>15, Zenon DEF s

\* A formatted amount, commas included, parses to itself, and, shortened, to no
\* more.
LEMMA FormatParses ==
    ASSUME NEW n \in Nat, NEW d \in Nat, NEW max \in 0..d
    PROVE  /\ ParseAmount(FormatAmount(n, d, max), d) <= n
           /\ max = d => ParseAmount(FormatAmount(n, d, max), d) = n
<1> DEFINE t == FormatAmount(n, d, max)
           s == Stripped(t)
           p == ParseAmount(t, d)
<1>0. PICK w \in Seq(0..9), q \in Seq(0..9) : Says(s, w, q, n, d, max)
  BY FormatStrips, Zenon
<1> HIDE DEF t
<1>1. /\ IsNumeral(s) /\ Whole(s) = w /\ Fraction(s) = q
      /\ Len(q) <= max /\ Value(w) = n \div Unit[d]
      /\ Value(q) * Unit[d - Len(q)] <= n % Unit[d]
      /\ max = d => Value(q) * Unit[d - Len(q)] = n % Unit[d]
  BY <1>0, Zenon DEF Says
<1>2. Len(q) \in Nat /\ Len(q) <= d
  BY <1>1, LenProperties
<1>3. p = Value(w \o q) * Unit[d - Len(q)]
  <2>1. IsNumeral(s) /\ Whole(s) = w /\ Fraction(s) = q /\ Len(q) <= d
    BY <1>1, <1>2
  <2> QED BY <2>1, ParseOfNumeral, Zenon
<1>4. Value(w \o q) = Value(w) * Unit[Len(q)] + Value(q)
  BY ValueOfBoth
<1> DEFINE k == d - Len(q)
           x == Value(w)
           y == Unit[Len(q)]
           v == Value(q)
           u == Unit[k]
           c == n \div Unit[d]
           r == n % Unit[d]
<1>5. k \in Nat /\ Len(q) + k = d
  BY <1>2
<1>6. Unit[d] = y * u /\ x \in Int /\ y \in Int /\ v \in Int /\ u \in Int
  <2>1. x \in Nat /\ v \in Nat
    BY ValueOfBoth
  <2> HIDE DEF k
  <2>2. Unit[Len(q) + k] = y * u /\ y \in Nat /\ u \in Nat
    BY <1>2, <1>5, UnitSum, UnitPositive
  <2> QED BY <1>5, <2>1, <2>2
<1>7. Unit[d] \in Nat \ {0} /\ c \in Nat /\ r \in Nat /\ n = Unit[d] * c + r
  <2> DEFINE unit == Unit[d]
  <2>1. unit \in Nat \ {0}
    BY UnitPositive
  <2> HIDE DEF unit
  <2>2. n \div unit \in Nat /\ n % unit \in Nat /\ n = unit * (n \div unit) + (n % unit)
    BY <2>1, Division
  <2> QED BY <2>1, <2>2 DEF unit
<1>8. x = c /\ v * u <= r /\ (max = d => v * u = r)
  BY <1>1
<1>9. p = (x * y + v) * u
  BY <1>3, <1>4
<1> HIDE DEF x, y, v, u, c, r, k, p
<1>10. x * y \in Int /\ v * u \in Int
  BY <1>6, ProductCommutes
<1>11. (x * y + v) * u = (x * y) * u + v * u
  BY <1>6, <1>10, ProductDistributes
<1>12. (x * y) * u = x * (y * u) /\ y * u \in Int
  BY <1>6, ProductAssociates, ProductCommutes
<1>13. x * (y * u) = (y * u) * x
  BY <1>6, <1>12, ProductCommutes
<1>14. n = (y * u) * x + r
  BY <1>6, <1>7, <1>8
<1> DEFINE a == (y * u) * x
           b == v * u
<1>15. a \in Int /\ b \in Int /\ p = a + b /\ n = a + r /\ b <= r /\ (max = d => b = r)
  <2>1. a \in Int
    BY <1>6, <1>12, ProductCommutes
  <2>2. p = a + b
    BY <1>9, <1>11, <1>12, <1>13
  <2> QED BY <1>8, <1>10, <1>14, <2>1, <2>2
<1> HIDE DEF a, b
<1>16. p <= n /\ (max = d => p = n)
  <2>1. r \in Int
    BY <1>7
  <2> QED BY <1>15, <2>1
<1> QED BY <1>16 DEF p, t

\* INV-10: a conversion creates no value, and says what it loses.
LEMMA ConversionsReturn ==
    ASSUME NEW n \in Nat, NEW from \in Nat, NEW to \in Nat
    PROVE  LET result == ConvertDecimals(n, from, to)
               returned == ConvertDecimals(result.amount, to, from)
           IN  /\ returned.amount + result.remainder = n /\ returned.remainder = 0
               /\ result.amount \in Nat /\ result.remainder \in Nat
<1>1. CASE to >= from
  <2> DEFINE u == Unit[to - from]
             a == n * u
  <2>1. u \in Nat \ {0}
    <3>1. to - from \in Nat
      BY <1>1
    <3> QED BY <3>1, UnitPositive
  <2>2. ConvertDecimals(n, from, to) = [amount |-> a, remainder |-> 0]
    BY <1>1, Zenon DEF ConvertDecimals
  <2>3. CASE to = from
    <3>1. u = 1
      <4>1. to - from = 0
        BY <2>3
      <4> QED BY <4>1, Units
    <3>2. a = n
      BY <3>1
    <3>3. ConvertDecimals(a, to, from) = [amount |-> a * Unit[from - to], remainder |-> 0]
      BY <2>3 DEF ConvertDecimals
    <3>4. Unit[from - to] = 1
      <4>1. from - to = 0
        BY <2>3
      <4> QED BY <4>1, Units
    <3>5. ConvertDecimals(a, to, from) = [amount |-> n, remainder |-> 0]
      BY <3>2, <3>3, <3>4
    <3> HIDE DEF a, u
    <3> QED BY <2>2, <3>2, <3>5
  <2>4. CASE to # from
    <3>1. ~(from >= to)
      BY <1>1, <2>4
    <3>2. ConvertDecimals(a, to, from) = [amount |-> a \div u, remainder |-> a - (a \div u) * u]
      BY <3>1, Zenon DEF ConvertDecimals
    <3> HIDE DEF u
    <3>3. a \in Nat /\ a = u * n + 0
      BY <2>1, ProductMonotone, ProductCommutes
    <3> HIDE DEF a
    <3>4. a \div u = n
      BY <2>1, <3>3, Quotient
    <3>5. a - n * u = 0
      <4>1. a = n * u
        BY DEF a
      <4> QED BY <3>3, <4>1
    <3> QED BY <2>2, <3>2, <3>3, <3>4, <3>5
  <2> QED BY <2>3, <2>4
<1>2. CASE ~(to >= from)
  <2> DEFINE u == Unit[from - to]
             c == n \div u
             lost == n - c * u
  <2>1. u \in Nat \ {0}
    <3>1. from - to \in Nat
      BY <1>2
    <3> QED BY <3>1, UnitPositive
  <2>2. ConvertDecimals(n, from, to) = [amount |-> c, remainder |-> lost]
    BY <1>2, Zenon DEF ConvertDecimals
  <2>3. ConvertDecimals(c, to, from) = [amount |-> c * u, remainder |-> 0]
    <3>1. from >= to
      BY <1>2
    <3> QED BY <3>1, Zenon DEF ConvertDecimals
  <2> HIDE DEF u
  <2>4. c \in Nat /\ n % u \in Nat /\ n = u * c + (n % u)
    BY <2>1, Division
  <2> HIDE DEF c
  <2>5. u * c = c * u /\ c * u \in Int
    BY <2>1, <2>4, ProductCommutes
  <2> DEFINE b == c * u
             e == n % u
  <2>6. b \in Int /\ e \in Nat /\ n = b + e /\ lost = n - b
    BY <2>4, <2>5
  <2> HIDE DEF b, e, lost
  <2>7. b + lost = n /\ lost \in Nat
    BY <2>6
  <2> QED BY <2>2, <2>3, <2>4, <2>7 DEF b
<1> QED BY <1>1, <1>2
-----------------------------------------------------------------------------
(* The field.                                                              *)

\* What can stand in it, and what is held.
AmountTypeOK ==
    /\ text \in Seq(Marks \cup Keys)
    /\ held \in DOMAIN Decimals

\* Every key, Max, flip and receipt keeps the field a text of the symbols typed.
LEMMA AmountStep == AmountTypeOK /\ [AmountNext]_amountVars => AmountTypeOK'
<1> DEFINE A == Marks \cup Keys
<1> SUFFICES ASSUME AmountTypeOK, [AmountNext]_amountVars PROVE AmountTypeOK'
  OBVIOUS
<1>1. text \in Seq(A) /\ held \in DOMAIN Decimals
  BY DEF AmountTypeOK
<1> HIDE DEF A
<1>2. ASSUME NEW key \in Keys, TypeKey(key) PROVE text' \in Seq(A) /\ held' = held
  <2>1. text' = Append(text, key) /\ held' = held /\ key \in A
    BY <1>2 DEF TypeKey, A
  <2> QED BY <1>1, <2>1, AppendProperties
<1>3. CASE Erase
  <2>1. text' = SubSeq(text, 1, Len(text) - 1) /\ held' = held
    BY <1>3 DEF Erase
  <2>2. Len(text) \in Nat /\ \A i \in 1..Len(text) : text[i] \in A
    BY <1>1, LenProperties
  <2>3. \A i \in 1..(Len(text) - 1) : text[i] \in A
    BY <2>2
  <2>4. SubSeq(text, 1, Len(text) - 1) \in Seq(A)
    BY <2>2, <2>3, SubSeqProperties
  <2>5. text' \in Seq(A)
    BY <2>1, <2>4
  <2> QED BY <1>1, <2>1, <2>5 DEF AmountTypeOK, A
<1>4. CASE PressMax
  <2> DEFINE n == Balance[held]
             d == Decimals[held]
  <2>1. text' = Stripped(FormatAmount(n, d, d)) /\ held' = held
    BY <1>4 DEF PressMax
  <2>2. n \in Nat /\ d \in Nat
    BY <1>1, AmountFieldAssumption
  <2> HIDE DEF n, d
  <2>3. d \in 0..d
    BY <2>2
  <2>4. Stripped(FormatAmount(n, d, d)) \in Seq(Marks)
    BY <2>2, <2>3, FormatStrips, Zenon DEF Says
  <2>5. text' \in Seq(A)
    BY <2>1, <2>4, SeqMonotonic DEF A
  <2> QED BY <1>1, <2>1, <2>5 DEF AmountTypeOK, A
<1>5. CASE ClearAmount
  <2>1. text' = <<>> /\ held' = held
    BY <1>5 DEF ClearAmount
  <2> QED BY <1>1, <2>1, EmptySeq DEF AmountTypeOK, A
<1>6. ASSUME NEW r \in DOMAIN Decimals, Hold(r) PROVE AmountTypeOK'
  BY <1>1, <1>6, Zenon DEF Hold, AmountTypeOK, A
<1>7. CASE UNCHANGED amountVars
  BY <1>1, <1>7, Zenon DEF amountVars, AmountTypeOK, A
<1>8. ASSUME NEW key \in Keys, TypeKey(key) PROVE AmountTypeOK'
  BY <1>1, <1>2, <1>8, Zenon DEF AmountTypeOK, A
<1> QED BY <1>3, <1>4, <1>5, <1>6, <1>7, <1>8, Zenon DEF AmountNext

\* In every state the field can be in, for any assets, decimals, balances and
\* keys: the amount that the card goes on with is the number the text says,
\* or none, and neither formatting nor converting it gains or loses (amounts.ts).
THEOREM AmountsTheorem == AmountSpec => []AmountsAreExact
<1>1. AmountInit => AmountTypeOK
  BY EmptySeq DEF AmountInit, AmountTypeOK
<1>2. AmountTypeOK => AmountsAreExact
  <2> SUFFICES ASSUME AmountTypeOK PROVE AmountsAreExact
    OBVIOUS
  <2> DEFINE d == Decimals[held]
             s == Stripped(text)
  <2>1. d \in Nat /\ Balance[held] \in Nat /\ text \in Seq(Marks \cup Keys)
        /\ \A r \in DOMAIN Decimals : Decimals[r] \in Nat
    BY AmountFieldAssumption DEF AmountTypeOK
  <2>2. Amount = IF ParseAmount(text, d) = Malformed THEN 0 ELSE ParseAmount(text, d)
    BY Zenon DEF Amount
  <2> HIDE DEF d
  <2>3. ParseAmount(text, d) # Malformed =>
           /\ ParseAmount(text, d) \in Nat
           /\ ParseAmount(text, d) * Unit[Len(Fraction(s))] = Value(Whole(s) \o Fraction(s)) * Unit[d]
    BY <2>1, ParseIsExact, Zenon
  <2> HIDE DEF s
  <2>4. Amount \in Nat
    BY <2>2, <2>3
  <2>5. ParseAmount(text, d) # Malformed =>
           Amount * Unit[Len(Fraction(s))] = Value(Whole(s) \o Fraction(s)) * Unit[d]
    BY <2>2, <2>3, Zenon
  <2>6. ASSUME NEW n \in {Amount, Balance[held]}
        PROVE  /\ ParseAmount(FormatAmount(n, d, d), d) = n
               /\ \A max \in 0..d : ParseAmount(FormatAmount(n, d, max), d) <= n
               /\ \A r \in DOMAIN Decimals :
                     LET result == ConvertDecimals(n, d, Decimals[r])
                         returned == ConvertDecimals(result.amount, Decimals[r], d)
                     IN  returned.amount + result.remainder = n /\ returned.remainder = 0
    <3>1. n \in Nat /\ d \in 0..d
      BY <2>1, <2>4, <2>6
    <3>2. ParseAmount(FormatAmount(n, d, d), d) = n
      BY <2>1, <3>1, FormatParses, Zenon
    <3>3. \A max \in 0..d : ParseAmount(FormatAmount(n, d, max), d) <= n
      BY <2>1, <3>1, FormatParses, Zenon
    <3>4. ASSUME NEW r \in DOMAIN Decimals
          PROVE  LET result == ConvertDecimals(n, d, Decimals[r])
                     returned == ConvertDecimals(result.amount, Decimals[r], d)
                 IN  returned.amount + result.remainder = n /\ returned.remainder = 0
      BY <2>1, <3>1, ConversionsReturn, Zenon
    <3> QED BY <3>2, <3>3, <3>4
  <2> QED BY <2>5, <2>6 DEF AmountsAreExact, d, s
<1> QED BY <1>1, <1>2, AmountStep, PTL DEF AmountSpec
-----------------------------------------------------------------------------
(* The header.                                                             *)

\* While the timer that closes a menu runs, the pointer is over none.
TimedIsLeft == leaving => pointer = Nowhere

\* Whatever was clicked, followed or dismissed between, and whichever links and
\* menus there are: the delayed closing never takes away a menu that the
\* pointer has come back to, or gone on to (SiteHeader.tsx).
THEOREM HoverTheorem == HeaderSpec => HoverHolds
<1>1. HeaderInit => TimedIsLeft
  BY DEF HeaderInit, TimedIsLeft
<1>2. TimedIsLeft /\ [HeaderNext]_headerVars => TimedIsLeft'
  <2> SUFFICES ASSUME TimedIsLeft, [HeaderNext]_headerVars PROVE TimedIsLeft'
    OBVIOUS
  <2>1. UNCHANGED <<leaving, pointer>> => TimedIsLeft'
    BY Zenon DEF TimedIsLeft
  <2>2. ASSUME NEW m \in Menus, PointerEnters(m) PROVE TimedIsLeft'
    BY <2>2, Zenon DEF PointerEnters, TimedIsLeft
  <2>3. PointerLeaves => TimedIsLeft'
    BY Zenon DEF PointerLeaves, TimedIsLeft
  <2>4. TimerEnds => TimedIsLeft'
    BY Zenon DEF TimerEnds, TimedIsLeft
  <2>5. ASSUME NEW m \in Menus, Toggle(m) PROVE UNCHANGED <<leaving, pointer>>
    BY <2>5, Zenon DEF Toggle
  <2>6. ToggleDrawer \/ CloseAll \/ FocusLeaves => UNCHANGED <<leaving, pointer>>
    BY Zenon DEF ToggleDrawer, CloseAll, FocusLeaves
  <2>7. ASSUME NEW p \in Paths, FollowLink(p) \/ FollowDrawerLink(p) \/ Navigate(p)
        PROVE  UNCHANGED <<leaving, pointer>>
    BY <2>7, Zenon DEF FollowLink, FollowDrawerLink, Navigate
  <2>8. UNCHANGED headerVars => UNCHANGED <<leaving, pointer>>
    BY Zenon DEF headerVars
  <2> QED BY <2>1, <2>2, <2>3, <2>4, <2>5, <2>6, <2>7, <2>8, Zenon DEF HeaderNext
<1>3. TimedIsLeft => (leaving /\ ~leaving' /\ menu' = Nowhere => pointer = Nowhere)
  BY DEF TimedIsLeft
<1> QED BY <1>1, <1>2, <1>3, PTL DEF HeaderSpec, HoverHolds
=============================================================================
