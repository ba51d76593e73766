----------------------------- MODULE AmountField -----------------------------
(***************************************************************************)
(* The amount of the card: a text, typed, pasted or filled in with the     *)
(* balance, that stays while the asset and its networks change, and the    *)
(* conversions between it and the base units of what is selected, which    *)
(* are integers of any size.                                               *)
(***************************************************************************)
EXTENDS Integers, Sequences, FiniteSets

CONSTANTS
    Decimals,   \* Decimals[r]: the decimals of representation r, an asset on a chain
    Balance,    \* Balance[r]: the account's, in base units
    Keys,       \* the symbols typed: digits, Point, Comma, and others
    MaxLength,  \* of a typed text
    Point, Comma,
    Malformed   \* parseAmount() throws

ASSUME AmountFieldAssumption ==
    /\ Decimals \in [DOMAIN Decimals -> Nat]
    /\ Balance \in [DOMAIN Decimals -> Nat]
    /\ Point # Comma /\ {Point, Comma} \cap (0..9) = {}
    /\ Malformed \notin Nat

VARIABLES text, held  \* what the field says; the representation that is selected

amountVars == <<text, held>>
----------------------------------------------------------------------------
(* The conversions.                                                        *)

\* None where there is nothing to pad.
Zeros(n) == IF n <= 0 THEN <<>> ELSE [i \in 1..n |-> 0]

\* 10n ** BigInt(n).
Unit[n \in Nat] == IF n = 0 THEN 1 ELSE 10 * Unit[n - 1]

\* BigInt() of a text of digits, and back: as many of them as n needs.
Value(digits) ==
    LET v[i \in 0..Len(digits)] == IF i = 0 THEN 0 ELSE 10 * v[i - 1] + digits[i]
    IN  v[Len(digits)]

Digits(n) ==
    LET length == CHOOSE k \in 1..(n + 1) : n < Unit[k] /\ (k > 1 => Unit[k - 1] <= n)
    IN  [i \in 1..length |-> (n \div Unit[length - i]) % 10]

\* A text without its commas.
Stripped(t) ==
    LET kept[i \in 0..Len(t)] ==
            IF i = 0 THEN <<>> ELSE IF t[i] = Comma THEN kept[i - 1] ELSE Append(kept[i - 1], t[i])
    IN  kept[Len(t)]

Points(t) == {i \in DOMAIN t : t[i] = Point}

IsNumeral(t) == Cardinality(Points(t)) <= 1 /\ \A i \in DOMAIN t \ Points(t) : t[i] \in 0..9

Whole(t) == SubSeq(t, 1, IF Points(t) = {} THEN Len(t) ELSE (CHOOSE i \in Points(t) : TRUE) - 1)

Fraction(t) == SubSeq(t, Len(Whole(t)) + 2, Len(t))

\* Mutant of ParseAmount: decimals that the asset does not have are cut off.
ParseAmountCut(t, decimals) ==
    LET s == Stripped(t)
        fraction == SubSeq(Fraction(s), 1, IF Len(Fraction(s)) < decimals THEN Len(Fraction(s)) ELSE decimals)
    IN  IF ~IsNumeral(s) THEN Malformed
        ELSE Value(Whole(s) \o fraction \o Zeros(decimals - Len(fraction)))

\* "Truncating here would silently send less than the user typed."
ParseAmount(t, decimals) ==
    LET s == Stripped(t)
    IN  IF ~IsNumeral(s) \/ Len(Fraction(s)) > decimals THEN Malformed
        ELSE Value(Whole(s) \o Fraction(s) \o Zeros(decimals - Len(Fraction(s))))

\* The first max decimals of a fraction, without the zeros at its end.
Shortened(fraction, max) ==
    LET kept == SubSeq(fraction, 1, IF Len(fraction) > max THEN max ELSE Len(fraction))
        ends == {0} \cup {i \in DOMAIN kept : kept[i] # 0}
    IN  SubSeq(kept, 1, CHOOSE i \in ends : \A j \in ends : j <= i)

\* A comma before every third digit from the right: of the places, counted
\* from there, every fourth.
Grouped(digits) ==
    LET n == Len(digits)
        length == n + (n - 1) \div 3
    IN  [i \in 1..length |->
            LET place == length - i
            IN  IF place % 4 = 3 THEN Comma ELSE digits[n - (place - place \div 4)]]

FormatAmount(n, decimals, max) ==
    LET fraction == Digits(n % Unit[decimals])
        shown == Shortened(Zeros(decimals - Len(fraction)) \o fraction, max)
        whole == Grouped(Digits(n \div Unit[decimals]))
    IN  IF shown = <<>> THEN whole ELSE whole \o <<Point>> \o shown

ConvertDecimals(n, from, to) ==
    IF to >= from THEN [amount |-> n * Unit[to - from], remainder |-> 0]
    ELSE LET divisor == Unit[from - to]
         IN  [amount |-> n \div divisor, remainder |-> n - (n \div divisor) * divisor]
----------------------------------------------------------------------------
(* The field.                                                              *)

\* What the card goes on with: a text that does not parse is no amount.
Amount ==
    LET n == ParseAmount(text, Decimals[held]) IN IF n = Malformed THEN 0 ELSE n

AmountInit == text = <<>> /\ held \in DOMAIN Decimals

TypeKey(key) ==
    /\ Len(text) < MaxLength
    /\ text' = Append(text, key)
    /\ UNCHANGED held

Erase ==
    /\ text # <<>>
    /\ text' = SubSeq(text, 1, Len(text) - 1)
    /\ UNCHANGED held

\* The button beside the balance.
PressMax ==
    /\ text' = Stripped(FormatAmount(Balance[held], Decimals[held], Decimals[held]))
    /\ UNCHANGED held

\* Any change of the selection, and the flip: the same asset may have other
\* decimals on the other chain.
Hold(r) ==
    /\ held' = r
    /\ UNCHANGED text

\* A receipt is closed.
ClearAmount ==
    /\ text' = <<>>
    /\ UNCHANGED held

AmountNext ==
    \/ \E key \in Keys : TypeKey(key)
    \/ Erase \/ PressMax \/ ClearAmount
    \/ \E r \in DOMAIN Decimals : Hold(r)

AmountSpec == AmountInit /\ [][AmountNext]_amountVars
----------------------------------------------------------------------------
\* "A float anywhere in this path silently loses precision" (amounts.ts): of
\* whatever the field says, and whatever was selected when it was filled in,
\* the amount is the number that it says, or none; a formatted amount, commas
\* included, parses to itself, and, shortened, to no more; and a conversion to
\* other decimals creates no value and loses what it says (INV-10).
AmountsAreExact ==
    LET d == Decimals[held]
        s == Stripped(text)
    IN  /\ ParseAmount(text, d) # Malformed =>
              Amount * Unit[Len(Fraction(s))] = Value(Whole(s) \o Fraction(s)) * Unit[d]
        /\ \A n \in {Amount, Balance[held]} :
              /\ ParseAmount(FormatAmount(n, d, d), d) = n
              /\ \A max \in 0..d : ParseAmount(FormatAmount(n, d, max), d) <= n
              /\ \A r \in DOMAIN Decimals :
                    LET result == ConvertDecimals(n, d, Decimals[r])
                        returned == ConvertDecimals(result.amount, Decimals[r], d)
                    IN  returned.amount + result.remainder = n /\ returned.remainder = 0
=============================================================================
