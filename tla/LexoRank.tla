------------------------------ MODULE LexoRank ------------------------------
(***************************************************************************)
(* The rank keys of src/backend/src/utils/lexoRank.ts.  A key is a string  *)
(* over an ordered alphabet, compared as a string; here it is the sequence *)
(* of its digits.  The empty string, which the code passes for "no bound"  *)
(* and which is the default of the rank columns, is NoKey; an operator     *)
(* that throws returns NoKey, which it never returns as a result.          *)
(***************************************************************************)
EXTENDS Naturals, Sequences

CONSTANTS
    Base,       \* size of the alphabet (62)
    MaxDepth    \* MAX_DEPTH (64)

ASSUME RankAssumption == /\ Base \in Nat /\ Base >= 2
                         /\ MaxDepth \in Nat /\ MaxDepth >= 1

Digits == 0 .. (Base - 1)
NoKey == << >>
Keys == Seq(Digits) \ {NoKey}

\* String comparison.  With "<=" in place of "=" for the digits before i the
\* relation is the same, and no least differing digit has to be found to show
\* that a pair is in it.
Less(a, b) ==
    \E i \in 1 .. Len(b) :
        /\ \A j \in 1 .. (i - 1) : j <= Len(a) /\ a[j] <= b[j]
        /\ i > Len(a) \/ a[i] < b[i]

Digit(key, i) == IF i <= Len(key) THEN key[i] ELSE 0

\* The upper bound no longer constrains digit n: there is none, or an earlier
\* digit of the result is already below it.
Open(before, after, n) ==
    \/ after = NoKey
    \/ \E j \in 1 .. (n - 1) : Digit(before, j) < Digit(after, j)

\* The `hi` of the loop at digit n.
Upper(before, after, n) ==
    IF Open(before, after, n) THEN Base ELSE Digit(after, n)

\* There is a digit strictly between the bounds at position n.
Roomy(before, after, n) == Upper(before, after, n) > Digit(before, n) + 1

\* The digit at which the loop returns; it gives up beyond MaxDepth + 1.
Splits(before, after, n) ==
    /\ n \in 1 .. (MaxDepth + 1)
    /\ Roomy(before, after, n)
    /\ \A m \in 1 .. (n - 1) : ~Roomy(before, after, m)

Midway(before, after, n) ==
    [i \in 1 .. n |->
        IF i < n THEN Digit(before, i)
        ELSE (Digit(before, n) + Upper(before, after, n)) \div 2]

RankBetween(before, after) ==
    LET splits == {n \in 1 .. (MaxDepth + 1) : Splits(before, after, n)}
        inverted == before # NoKey /\ after # NoKey /\ ~Less(before, after)
    IN  IF inverted \/ splits = {} THEN NoKey
        ELSE Midway(before, after, CHOOSE n \in splits : TRUE)

RankAfter(last) ==
    IF last = NoKey THEN RankBetween(NoKey, NoKey)
    ELSE IF last[Len(last)] < Base - 1
    THEN [last EXCEPT ![Len(last)] = @ + 1]
    ELSE IF Len(last) >= MaxDepth THEN NoKey
    ELSE Append(last, 0)

\* Keys that seed an empty list, for less than Base * Base rows (the code goes
\* on to Base * Base, where its step is 0 and every key the same).  Its Math.min
\* never bites: count * step is below Base, or Base * Base.
RankSequence(count) ==
    IF count <= Base - 2
    THEN LET step == Base \div (count + 1)
         IN  [i \in 1 .. count |-> << i * step >>]
    ELSE LET step == (Base * Base) \div (count + 1)
         IN  [i \in 1 .. count |-> << (i * step) \div Base, (i * step) % Base >>]

RankForPosition(position) ==
    LET v == position + 1
    IN  << (v \div (Base * Base)) % Base, (v \div Base) % Base, v % Base >>

=============================================================================
