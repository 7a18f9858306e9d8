------------------------- MODULE PlaylistRanksProofs ------------------------
(***************************************************************************)
(* Proofs about the rank keys (LexoRank) and about the playlist whose rows *)
(* they order (PlaylistRanks).                                             *)
(***************************************************************************)
EXTENDS PlaylistRanks, FiniteSetTheorems, FunctionTheorems, SequenceTheorems,
        WellFoundedInduction, TLAPS

-----------------------------------------------------------------------------
(* The order of keys.                                                      *)

\* No key sorts before itself.
LEMMA LessIrreflexive == ASSUME NEW a \in Seq(Digits) PROVE ~Less(a, a)
  <1>1. \A i \in 1 .. Len(a) : a[i] \in Nat
    BY RankAssumption DEF Digits
  <1> QED BY <1>1 DEF Less

LEMMA LessTransitive ==
    ASSUME NEW a \in Seq(Digits), NEW b \in Seq(Digits), NEW c \in Seq(Digits),
           Less(a, b), Less(b, c)
    PROVE  Less(a, c)
  <1> USE RankAssumption
  <1>1. /\ \A i \in 1 .. Len(a) : a[i] \in Nat
        /\ \A i \in 1 .. Len(b) : b[i] \in Nat
        /\ \A i \in 1 .. Len(c) : c[i] \in Nat
    BY DEF Digits
  <1>2. PICK i \in 1 .. Len(b) : /\ \A j \in 1 .. (i - 1) : j <= Len(a) /\ a[j] <= b[j]
                                 /\ i > Len(a) \/ a[i] < b[i]
    BY DEF Less
  <1>3. PICK k \in 1 .. Len(c) : /\ \A j \in 1 .. (k - 1) : j <= Len(b) /\ b[j] <= c[j]
                                 /\ k > Len(b) \/ b[k] < c[k]
    BY DEF Less
  <1>4. CASE i < k
    <2>1. i \in 1 .. Len(c) /\ b[i] <= c[i]
      BY <1>3, <1>4
    <2>2. \A j \in 1 .. (i - 1) : j <= Len(a) /\ a[j] <= c[j]
      <3> TAKE j \in 1 .. (i - 1)
      <3>1. j <= Len(a) /\ a[j] <= b[j]
        BY <1>2
      <3>2. j <= Len(b) /\ b[j] <= c[j] /\ j <= Len(c)
        BY <1>3, <1>4
      <3> QED BY <1>1, <3>1, <3>2
    <2>3. i > Len(a) \/ a[i] < c[i]
      BY <1>1, <1>2, <2>1
    <2> QED BY <2>1, <2>2, <2>3 DEF Less
  <1>5. CASE k <= i
    <2>1. \A j \in 1 .. (k - 1) : j <= Len(a) /\ a[j] <= c[j]
      <3> TAKE j \in 1 .. (k - 1)
      <3>1. j <= Len(a) /\ a[j] <= b[j]
        BY <1>2, <1>5
      <3>2. j <= Len(b) /\ b[j] <= c[j] /\ j <= Len(c)
        BY <1>3
      <3> QED BY <1>1, <3>1, <3>2
    <2>2. k <= Len(b) /\ b[k] < c[k]
      BY <1>2, <1>3, <1>5
    <2>3. k > Len(a) \/ a[k] < c[k]
      BY <1>1, <1>2, <1>5, <2>2
    <2> QED BY <2>1, <2>3 DEF Less
  <1> QED BY <1>4, <1>5

\* The empty string sorts before every key and behind none.
LEMMA NoKeyFirst == ASSUME NEW a \in Seq(Digits)
                    PROVE  /\ a # NoKey => Less(NoKey, a)
                           /\ ~Less(a, NoKey)
  <1>1. a # NoKey => Len(a) >= 1
    BY DEF NoKey
  <1> QED BY <1>1 DEF Less, NoKey

\* A set of numbers that is not empty has a least one.
LEMMA LeastNumber ==
    ASSUME NEW S, S \subseteq Nat, S # {}
    PROVE  \E m \in S : \A k \in S : m <= k
  <1>1. IsWellFoundedOn(OpToRel(<, Nat), Nat)
    BY NatLessThanWellFounded
  <1>2. PICK m \in S : \A k \in S : ~(<< k, m >> \in OpToRel(<, Nat))
    BY <1>1, WFMin
  <1>3. \A k \in S : ~(k < m)
    BY <1>2 DEF OpToRel
  <1> QED BY <1>3

\* Of two different keys one sorts before the other.
LEMMA LessTotal ==
    ASSUME NEW a \in Seq(Digits), NEW b \in Seq(Digits), a # b
    PROVE  Less(a, b) \/ Less(b, a)
  <1> DEFINE apart == {i \in Nat : /\ i \in 1 .. Len(a) \/ i \in 1 .. Len(b)
                                   /\ i \in 1 .. Len(a) /\ i \in 1 .. Len(b) => a[i] # b[i]}
  <1>1. /\ \A i \in 1 .. Len(a) : a[i] \in Nat
        /\ \A i \in 1 .. Len(b) : b[i] \in Nat
        /\ Len(a) \in Nat /\ Len(b) \in Nat
    BY RankAssumption DEF Digits
  <1>2. apart # {}
    <2>1. CASE Len(a) = Len(b)
      <3>1. \E i \in 1 .. Len(a) : a[i] # b[i]
        BY <2>1
      <3> QED BY <2>1, <3>1
    <2>2. CASE Len(a) < Len(b)
      <3>1. Len(b) \in apart
        BY <1>1, <2>2
      <3> QED BY <3>1
    <2>3. CASE Len(a) > Len(b)
      <3>1. Len(a) \in apart
        BY <1>1, <2>3
      <3> QED BY <3>1
    <2> QED BY <1>1, <2>1, <2>2, <2>3
  <1>3. PICK i \in apart : \A k \in apart : i <= k
    <2>1. apart \subseteq Nat
      OBVIOUS
    <2> HIDE DEF apart
    <2> QED BY <1>2, <2>1, LeastNumber
  <1>4. \A j \in 1 .. (i - 1) : j <= Len(a) /\ j <= Len(b) /\ a[j] = b[j]
    <2> TAKE j \in 1 .. (i - 1)
    <2>1. j \in Nat /\ j \notin apart /\ j < i /\ i \in Nat
      BY <1>3
    <2>2. j <= Len(a) \/ j <= Len(b)
      BY <1>1, <1>3, <2>1
    <2> QED BY <1>1, <2>1, <2>2
  <1>5. CASE i > Len(a)
    <2>1. i \in 1 .. Len(b)
      BY <1>1, <1>3, <1>5
    <2> QED BY <1>1, <1>4, <1>5, <2>1 DEF Less
  <1>6. CASE i > Len(b)
    <2>1. i \in 1 .. Len(a)
      BY <1>1, <1>3, <1>6
    <2> QED BY <1>1, <1>4, <1>6, <2>1 DEF Less
  <1>7. CASE i \in 1 .. Len(a) /\ i \in 1 .. Len(b)
    <2>1. a[i] < b[i] \/ b[i] < a[i]
      BY <1>1, <1>3, <1>7
    <2>2. /\ \A j \in 1 .. (i - 1) : j <= Len(a) /\ a[j] <= b[j]
          /\ \A j \in 1 .. (i - 1) : j <= Len(b) /\ b[j] <= a[j]
      BY <1>1, <1>4
    <2>3. a[i] < b[i] => Less(a, b)
      BY <1>7, <2>2 DEF Less
    <2>4. b[i] < a[i] => Less(b, a)
      BY <1>7, <2>2 DEF Less
    <2> QED BY <2>1, <2>3, <2>4
  <1>8. i \in Nat /\ (i \in 1 .. Len(a) \/ i \in 1 .. Len(b))
    BY <1>3
  <1>9. i > Len(a) \/ i > Len(b) \/ (i \in 1 .. Len(a) /\ i \in 1 .. Len(b))
    BY <1>1, <1>8
  <1> QED BY <1>5, <1>6, <1>7, <1>9

LEMMA DigitIsDigit == ASSUME NEW key \in Seq(Digits), NEW i \in Nat \ {0}
                      PROVE  Digit(key, i) \in Digits /\ Digit(key, i) \in Nat
  BY RankAssumption DEF Digit, Digits

\* What rankBetween returns lies strictly between its bounds, an absent bound
\* being no constraint: "A key strictly between before and after".
THEOREM StrictlyBetween ==
    ASSUME NEW before \in Seq(Digits), NEW after \in Seq(Digits),
           RankBetween(before, after) # NoKey
    PROVE  /\ RankBetween(before, after) \in Keys
           /\ Less(before, RankBetween(before, after))
           /\ after # NoKey => Less(RankBetween(before, after), after)
  <1> USE RankAssumption
  <1> DEFINE rank == RankBetween(before, after)
  <1>1. PICK n \in 1 .. (MaxDepth + 1) : /\ Splits(before, after, n)
                                         /\ rank = Midway(before, after, n)
    <2> DEFINE splits == {n \in 1 .. (MaxDepth + 1) : Splits(before, after, n)}
    <2>1. splits # {} /\ rank = Midway(before, after, CHOOSE n \in splits : TRUE)
      BY DEF RankBetween
    <2> QED BY <2>1
  <1>2. after # NoKey => Less(before, after)
    BY NoKeyFirst DEF RankBetween
  <1> DEFINE low == Digit(before, n)
             up == Upper(before, after, n)
             mid == (low + up) \div 2
  <1>3. low \in Nat /\ up \in Nat /\ up <= Base /\ up > low + 1
    BY <1>1, DigitIsDigit DEF Upper, Splits, Roomy, Digits
  <1>4. mid \in Nat /\ low < mid /\ mid < up
    <2> HIDE DEF low, up
    <2> QED BY <1>3
  <1>5. mid \in Digits
    <2> HIDE DEF mid, up
    <2> QED BY <1>3, <1>4 DEF Digits
  <1>6. /\ rank \in Keys /\ Len(rank) = n
        /\ \A i \in 1 .. (n - 1) : rank[i] = Digit(before, i)
        /\ rank[n] = mid
    <2> HIDE DEF mid
    <2>1. rank = [i \in 1 .. n |-> IF i < n THEN Digit(before, i) ELSE mid]
      BY <1>1 DEF Midway, mid
    <2>2. \A i \in 1 .. n : (IF i < n THEN Digit(before, i) ELSE mid) \in Digits
      BY <1>5, DigitIsDigit
    <2> HIDE DEF rank
    <2>3. rank \in [1 .. n -> Digits]
      BY <2>1, <2>2
    <2>4. rank \in Seq(Digits) /\ Len(rank) = n
      BY <2>3
    <2> QED BY <2>1, <2>4 DEF Keys, NoKey
  <1> HIDE DEF rank, mid
  <1>7. Less(before, rank)
    <2>1. CASE n <= Len(before)
      <3>1. \A j \in 1 .. (n - 1) : j <= Len(before) /\ before[j] <= rank[j]
        BY <1>6, <2>1, DigitIsDigit DEF Digit
      <3>2. before[n] < rank[n]
        BY <1>4, <1>6, <2>1 DEF Digit
      <3> QED BY <1>6, <3>1, <3>2 DEF Less
    <2>2. CASE n > Len(before)
      <3> DEFINE i == Len(before) + 1
      <3>1. i \in 1 .. Len(rank) /\ i > Len(before)
        BY <1>6, <2>2
      <3>2. \A j \in 1 .. (i - 1) : j <= Len(before) /\ before[j] <= rank[j]
        BY <1>6, <2>2, DigitIsDigit DEF Digit
      <3> QED BY <3>1, <3>2 DEF Less
    <2> QED BY <2>1, <2>2
  <1>8. ASSUME after # NoKey PROVE Less(rank, after)
    <2>1. PICK w \in 1 .. Len(after) :
            /\ \A j \in 1 .. (w - 1) : j <= Len(before) /\ before[j] <= after[j]
            /\ w > Len(before) \/ before[w] < after[w]
      BY <1>2, <1>8 DEF Less
    <2>2. \A i \in 1 .. (n - 1) : rank[i] = Digit(before, i) /\ rank[i] \in Nat
      BY <1>6, DigitIsDigit
    <2>3. \A j \in 1 .. (w - 1) : /\ j <= Len(after) /\ after[j] = Digit(after, j)
                                  /\ Digit(before, j) <= Digit(after, j)
      BY <2>1 DEF Digit
    <2>4. \A i \in 1 .. Len(after) : after[i] \in Nat /\ after[i] = Digit(after, i)
      BY DEF Digit, Digits
    <2>5. \A i \in Nat : i > Len(before) => Digit(before, i) = 0
      BY DEF Digit
    \* Position w decides if before goes that far; beyond it before is all zeros.
    <2>6. w <= Len(before) => Digit(before, w) < Digit(after, w)
      BY <2>1 DEF Digit
    <2>7. CASE \E j \in 1 .. (n - 1) : Digit(before, j) < Digit(after, j)
      <3>1. PICK j \in 1 .. (n - 1) : Digit(before, j) < Digit(after, j)
        BY <2>7
      <3>2. j <= Len(after)
        BY <3>1, DigitIsDigit DEF Digit
      <3>3. CASE j <= w \/ w > Len(before)
        <4>1. \A i \in 1 .. (j - 1) : i <= Len(rank) /\ rank[i] <= after[i]
          <5> TAKE i \in 1 .. (j - 1)
          <5>1. i <= Len(rank) /\ rank[i] = Digit(before, i) /\ i <= Len(after)
            BY <1>6, <3>2
          <5>2. CASE i < w
            BY <2>3, <5>1, <5>2
          <5>3. CASE i >= w
            <6>1. i > Len(before)
              BY <3>3, <5>3
            <6> QED BY <2>4, <2>5, <5>1, <6>1
          <5> QED BY <5>2, <5>3
        <4>2. rank[j] < after[j]
          BY <2>2, <2>4, <3>1, <3>2
        <4> QED BY <3>2, <4>1, <4>2 DEF Less
      <3>4. CASE w < j /\ w <= Len(before)
        <4>1. \A i \in 1 .. (w - 1) : i <= Len(rank) /\ rank[i] <= after[i]
          BY <1>6, <2>2, <2>3, <3>4
        <4>2. rank[w] < after[w]
          BY <2>2, <2>4, <2>6, <3>4
        <4> QED BY <4>1, <4>2 DEF Less
      <3> QED BY <3>3, <3>4
    <2>8. CASE ~\E j \in 1 .. (n - 1) : Digit(before, j) < Digit(after, j)
      <3>1. up = Digit(after, n)
        BY <1>8, <2>8 DEF Upper, Open
      <3>2. n \in 1 .. Len(after) /\ rank[n] < after[n]
        <4> HIDE DEF up
        <4>1. Digit(after, n) > 0
          BY <1>3, <1>4, <3>1
        <4>2. n <= Len(after)
          BY <4>1 DEF Digit
        <4> QED BY <1>4, <1>6, <2>4, <3>1, <4>2
      <3>3. \A i \in 1 .. (n - 1) : i <= Len(rank) /\ rank[i] <= after[i]
        <4> TAKE i \in 1 .. (n - 1)
        <4>1. i <= Len(rank) /\ rank[i] = Digit(before, i) /\ i <= Len(after)
          BY <1>6, <3>2
        <4>2. CASE i < w
          BY <2>3, <4>1, <4>2
        <4>3. CASE i >= w
          <5>1. w > Len(before)
            BY <2>6, <2>8, <4>3
          <5>2. i > Len(before)
            BY <4>3, <5>1
          <5> QED BY <2>4, <2>5, <4>1, <5>2
        <4> QED BY <4>2, <4>3
      <3> QED BY <3>2, <3>3 DEF Less
    <2> QED BY <2>7, <2>8
  <1> QED BY <1>6, <1>7, <1>8 DEF rank

\* What rankAfter returns sorts after the key it continues.
THEOREM AppendedLast ==
    ASSUME NEW last \in Seq(Digits), RankAfter(last) # NoKey
    PROVE  RankAfter(last) \in Keys /\ Less(last, RankAfter(last))
  <1> USE RankAssumption
  <1> DEFINE n == Len(last)
  <1>1. CASE last = NoKey
    <2>1. NoKey \in Seq(Digits) /\ RankAfter(last) = RankBetween(NoKey, NoKey)
      BY <1>1 DEF RankAfter, NoKey
    <2> QED BY <1>1, <2>1, StrictlyBetween
  <1>2. CASE last # NoKey /\ last[n] < Base - 1
    <2>1. n \in 1 .. Len(last) /\ last[n] \in Digits
      BY <1>2 DEF NoKey
    <2>2. last[n] + 1 \in Digits
      BY <1>2, <2>1 DEF Digits
    <2> DEFINE key == [last EXCEPT ![n] = @ + 1]
    <2>3. RankAfter(last) = key
      BY <1>2 DEF RankAfter
    <2>4. /\ key \in Seq(Digits) /\ Len(key) = n /\ key[n] = last[n] + 1
          /\ \A j \in 1 .. (n - 1) : key[j] = last[j]
      BY <2>1, <2>2
    <2> HIDE DEF key
    <2>5. key # NoKey
      BY <2>1, <2>4 DEF NoKey
    <2>6. \A j \in 1 .. (n - 1) : j <= Len(last) /\ last[j] <= key[j]
      BY <2>4 DEF Digits
    <2>7. last[n] < key[n]
      BY <2>1, <2>4 DEF Digits
    <2> QED BY <2>1, <2>3, <2>4, <2>5, <2>6, <2>7 DEF Less, Keys
  <1>3. CASE last # NoKey /\ ~(last[n] < Base - 1)
    <2> DEFINE key == Append(last, 0)
    <2>1. RankAfter(last) = key
      BY <1>3 DEF RankAfter
    <2>2. /\ key \in Seq(Digits) /\ Len(key) = n + 1
          /\ \A j \in 1 .. n : key[j] = last[j]
      BY DEF Digits
    <2> HIDE DEF key
    <2>3. key # NoKey
      BY <2>2 DEF NoKey
    <2>4. \A j \in 1 .. n : j <= Len(last) /\ last[j] <= key[j]
      BY <2>2 DEF Digits
    <2>5. n + 1 \in 1 .. Len(key) /\ n + 1 > Len(last) /\ (n + 1) - 1 = n
      BY <2>2
    <2>6. Less(last, key)
      BY <2>4, <2>5 DEF Less
    <2> QED BY <2>1, <2>2, <2>3, <2>6 DEF Keys
  <1> QED BY <1>1, <1>2, <1>3

-----------------------------------------------------------------------------
(* Keys written down at once.                                              *)

LEMMA DivMod ==
    ASSUME NEW a \in Nat, NEW b \in Nat \ {0}
    PROVE  /\ a \div b \in Nat /\ a % b \in 0 .. (b - 1)
           /\ a = b * (a \div b) + (a % b)
  OBVIOUS

\* Multiples of a step grow, and those below count + 1 stay below the span.
LEMMA Multiples ==
    ASSUME NEW span \in Nat, NEW count \in Nat, count + 1 <= span,
           NEW i \in 1 .. count, NEW j \in 1 .. count
    PROVE  LET step == span \div (count + 1)
           IN  /\ i * step \in Nat /\ i * step < span
               /\ i < j => i * step < j * step
  <1> DEFINE step == span \div (count + 1)
  <1>1. step \in Nat /\ (count + 1) * step <= span /\ step >= 1
    <2>1. /\ step \in Nat /\ span % (count + 1) \in 0 .. count
          /\ span = (count + 1) * step + (span % (count + 1))
      <3>1. count + 1 \in Nat \ {0} /\ (count + 1) - 1 = count
        OBVIOUS
      <3> QED BY <3>1, DivMod
    <2> HIDE DEF step
    <2>2. step # 0
      BY <2>1
    <2>3. (count + 1) * step \in Nat
      BY <2>1
    <2> QED BY <2>1, <2>2, <2>3
  <1> HIDE DEF step
  <1>2. i * step \in Nat /\ i * step + step <= (count + 1) * step
    BY <1>1
  <1>3. i < j => i * step + step <= j * step
    BY <1>1
  <1>4. j * step \in Nat /\ (count + 1) * step \in Nat
    BY <1>1
  <1>5. i * step < span
    BY <1>1, <1>2, <1>4
  <1>6. i < j => i * step < j * step
    BY <1>1, <1>2, <1>3, <1>4
  <1> QED BY <1>2, <1>5, <1>6 DEF step

LEMMA TwoDigits ==
    ASSUME NEW v \in Nat, NEW w \in Nat, v < w, w < Base * Base
    PROVE  /\ << w \div Base, w % Base >> \in Keys
           /\ << v \div Base, v % Base >> \in Keys
           /\ Less(<< v \div Base, v % Base >>, << w \div Base, w % Base >>)
  <1> USE RankAssumption
  <1> DEFINE a == v \div Base  b == v % Base  c == w \div Base  d == w % Base
  <1>1. /\ a \in Nat /\ b \in 0 .. (Base - 1) /\ v = Base * a + b
        /\ c \in Nat /\ d \in 0 .. (Base - 1) /\ w = Base * c + d
    <2>1. Base \in Nat \ {0}
      OBVIOUS
    <2>2. a \in Nat /\ b \in 0 .. (Base - 1) /\ v = Base * a + b
      BY <2>1, DivMod
    <2>3. c \in Nat /\ d \in 0 .. (Base - 1) /\ w = Base * c + d
      BY <2>1, DivMod
    <2> HIDE DEF a, b, c, d
    <2> QED BY <2>2, <2>3
  <1> HIDE DEF a, b, c, d
  <1>2. a < Base /\ c < Base
    BY <1>1
  <1>3. a < c \/ (a = c /\ b < d)
    BY <1>1
  <1>4. << a, b >> \in Keys /\ << c, d >> \in Keys
    BY <1>1, <1>2 DEF Keys, Digits, NoKey
  <1>5. Less(<< a, b >>, << c, d >>)
    <2> DEFINE x == << a, b >>  y == << c, d >>
    <2>1. Len(x) = 2 /\ Len(y) = 2 /\ x[1] = a /\ x[2] = b /\ y[1] = c /\ y[2] = d
      OBVIOUS
    <2> HIDE DEF x, y
    <2>2. CASE a < c
      <3>1. 1 \in 1 .. Len(y) /\ \A j \in 1 .. (1 - 1) : j <= Len(x) /\ x[j] <= y[j]
        BY <2>1
      <3> QED BY <2>1, <2>2, <3>1 DEF Less
    <2>3. CASE a = c /\ b < d
      <3>1. 2 \in 1 .. Len(y) /\ \A j \in 1 .. (2 - 1) : j <= Len(x) /\ x[j] <= y[j]
        BY <1>1, <2>1, <2>3
      <3> QED BY <2>1, <2>3, <3>1 DEF Less
    <2> QED BY <1>3, <2>2, <2>3 DEF x, y
  <1> QED BY <1>4, <1>5 DEF a, b, c, d

\* The block that seeds an empty list is increasing, so its keys are distinct.
THEOREM SequenceIncreases ==
    ASSUME NEW count \in Nat \ {0}, count < Base * Base
    PROVE  LET ranks == RankSequence(count)
           IN  /\ ranks \in Seq(Keys) /\ Len(ranks) = count
               /\ \A i, j \in 1 .. count : i < j => Less(ranks[i], ranks[j])
  <1> USE RankAssumption
  <1> DEFINE ranks == RankSequence(count)
  <1>1. CASE count <= Base - 2
    <2> DEFINE step == Base \div (count + 1)
    <2>1. ranks = [i \in 1 .. count |-> << i * step >>]
      BY <1>1 DEF RankSequence
    <2>2. \A i, j \in 1 .. count : /\ i * step \in Digits
                                   /\ i < j => i * step < j * step
      BY <1>1, Multiples DEF Digits
    <2> HIDE DEF step, ranks
    <2>3. \A i \in 1 .. count : << i * step >> \in Keys
      BY <2>2 DEF Keys, NoKey
    <2>4. ranks \in Seq(Keys) /\ Len(ranks) = count
      BY <2>1, <2>3
    <2>5. ASSUME NEW i \in 1 .. count, NEW j \in 1 .. count, i < j
          PROVE  Less(ranks[i], ranks[j])
      <3>1. i * step < j * step
        BY <2>2, <2>5
      <3>2. Less(<< i * step >>, << j * step >>)
        <4> DEFINE x == << i * step >>  y == << j * step >>
        <4>1. Len(x) = 1 /\ Len(y) = 1 /\ x[1] = i * step /\ y[1] = j * step
          OBVIOUS
        <4> HIDE DEF x, y
        <4>2. 1 \in 1 .. Len(y) /\ \A k \in 1 .. (1 - 1) : k <= Len(x) /\ x[k] <= y[k]
          BY <4>1
        <4>3. Less(x, y)
          BY <3>1, <4>1, <4>2 DEF Less
        <4> QED BY <4>3 DEF x, y
      <3> QED BY <2>1, <3>2
    <2> QED BY <2>4, <2>5 DEF ranks
  <1>2. CASE ~(count <= Base - 2)
    <2> DEFINE span == Base * Base
               step == span \div (count + 1)
    <2>1. ranks = [i \in 1 .. count |-> << (i * step) \div Base, (i * step) % Base >>]
      BY <1>2 DEF RankSequence
    <2>2. span \in Nat /\ count + 1 <= span
      OBVIOUS
    <2>3. \A i, j \in 1 .. count : /\ i * step \in Nat /\ i * step < span
                                   /\ i < j => i * step < j * step
      BY <2>2, Multiples
    <2> HIDE DEF step, ranks
    <2>4. ASSUME NEW i \in 1 .. count, NEW j \in 1 .. count, i < j
          PROVE  Less(<< (i * step) \div Base, (i * step) % Base >>,
                      << (j * step) \div Base, (j * step) % Base >>)
      BY <2>3, <2>4, TwoDigits
    <2>5. ASSUME NEW i \in 1 .. count
          PROVE  << (i * step) \div Base, (i * step) % Base >> \in Keys
      <3>1. i * step \in Nat /\ i * step < Base * Base
        BY <2>3
      <3>2. Base \in Nat \ {0} /\ Base * Base \in Nat
        OBVIOUS
      <3> DEFINE v == i * step  a == v \div Base  b == v % Base
      <3> HIDE DEF v
      <3>3. v \in Nat /\ v < Base * Base
        BY <3>1 DEF v
      <3>4. a \in Nat /\ b \in 0 .. (Base - 1) /\ v = Base * a + b
        BY <3>2, <3>3, DivMod
      <3> HIDE DEF a, b
      <3>5. a < Base
        BY <3>3, <3>4
      <3>6. << a, b >> \in Keys
        BY <3>4, <3>5 DEF Keys, Digits, NoKey
      <3> QED BY <3>6 DEF a, b, v
    <2>6. ranks \in Seq(Keys) /\ Len(ranks) = count
      <3> DEFINE Pair(i) == << (i * step) \div Base, (i * step) % Base >>
      <3>1. ranks = [i \in 1 .. count |-> Pair(i)] /\ \A i \in 1 .. count : Pair(i) \in Keys
        BY <2>1, <2>5
      <3> HIDE DEF Pair
      <3> QED BY <3>1
    <2> QED BY <2>1, <2>4, <2>6 DEF ranks
  <1> QED BY <1>1, <1>2

LEMMA QuotientUnique ==
    ASSUME NEW d \in Nat \ {0}, NEW q \in Nat, NEW p \in Nat,
           NEW r \in 0 .. (d - 1), NEW s \in 0 .. (d - 1), d * q + r = d * p + s
    PROVE  q = p
  <1>1. ASSUME q < p PROVE FALSE
    <2>1. d * q + d <= d * p /\ d * q \in Nat /\ d * p \in Nat
      BY <1>1
    <2> QED BY <2>1
  <1>2. ASSUME p < q PROVE FALSE
    <2>1. d * p + d <= d * q /\ d * q \in Nat /\ d * p \in Nat
      BY <1>2
    <2> QED BY <2>1
  <1> QED BY <1>1, <1>2

\* The three digits of a number below Base cubed.
LEMMA ThreeDigits ==
    ASSUME NEW v \in Nat, v < Base * (Base * Base)
    PROVE  /\ (v \div (Base * Base)) % Base \in Digits
           /\ (v \div Base) % Base \in Digits
           /\ v % Base \in Digits
           /\ v = Base * (Base * ((v \div (Base * Base)) % Base) + ((v \div Base) % Base))
                    + (v % Base)
  <1> USE RankAssumption
  <1> DEFINE square == Base * Base
             a == v \div square
             b == v \div Base
             c == v % Base
             f == b \div Base
             g == b % Base
  <1>0. Base \in Nat \ {0} /\ square \in Nat \ {0}
    OBVIOUS
  <1>1. b \in Nat /\ c \in 0 .. (Base - 1) /\ v = Base * b + c
    BY <1>0, DivMod
  <1>2. f \in Nat /\ g \in 0 .. (Base - 1) /\ b = Base * f + g
    <2> HIDE DEF b
    <2> QED BY <1>0, <1>1, DivMod
  <1>3. a \in Nat /\ v % square \in 0 .. (square - 1) /\ v = square * a + (v % square)
    <2> HIDE DEF square
    <2> QED BY <1>0, DivMod
  <1> HIDE DEF a, b, c, f, g
  <1>4. Base * g + c \in 0 .. (square - 1) /\ v = square * f + (Base * g + c)
    <2>1. Base * g <= Base * (Base - 1) /\ Base * g \in Nat
      BY <1>2
    <2>2. Base * (Base - 1) = square - Base
      OBVIOUS
    <2>3. Base * g + c \in 0 .. (square - 1)
      BY <1>0, <1>1, <2>1, <2>2
    <2>4. v = Base * (Base * f + g) + c
      BY <1>1, <1>2
    <2> QED BY <1>1, <1>2, <2>3, <2>4
  <1>5. a = f
    <2> DEFINE r == Base * g + c
    <2>1. r \in 0 .. (square - 1) /\ square * a + (v % square) = square * f + r
      BY <1>3, <1>4
    <2> HIDE DEF r, square
    <2> QED BY <1>0, <1>2, <1>3, <2>1, QuotientUnique
  <1>6. a \in 0 .. (Base - 1)
    <2>1. square * a <= v /\ v < square * Base /\ square * a \in Nat
      BY <1>0, <1>3
    <2>2. a >= Base => square * a >= square * Base
      BY <1>0, <1>3
    <2> QED BY <1>0, <1>3, <2>1, <2>2
  <1>7. a % Base = a
    BY <1>6
  <1>8. /\ a % Base \in Digits /\ g \in Digits /\ c \in Digits
        /\ v = Base * (Base * (a % Base) + g) + c
    BY <1>1, <1>2, <1>5, <1>6, <1>7 DEF Digits
  <1> QED BY <1>8 DEF a, b, c, g

\* An import's keys are distinct for positions below Base cubed.
LEMMA PositionsDiffer ==
    ASSUME NEW p \in Nat, NEW q \in Nat,
           p + 1 < Base * (Base * Base), q + 1 < Base * (Base * Base)
    PROVE  /\ RankForPosition(p) \in Keys
           /\ RankForPosition(p) = RankForPosition(q) => p = q
  <1> DEFINE Top(v) == (v \div (Base * Base)) % Base
             Middle(v) == (v \div Base) % Base
             Low(v) == v % Base
  <1>1. \A v \in {p + 1, q + 1} :
            /\ Top(v) \in Digits /\ Middle(v) \in Digits /\ Low(v) \in Digits
            /\ v = Base * (Base * Top(v) + Middle(v)) + Low(v)
    <2> TAKE v \in {p + 1, q + 1}
    <2>1. v \in Nat /\ v < Base * (Base * Base)
      OBVIOUS
    <2> HIDE DEF Top, Middle, Low
    <2>2. /\ Top(v) \in Digits /\ Middle(v) \in Digits /\ Low(v) \in Digits
          /\ v = Base * (Base * Top(v) + Middle(v)) + Low(v)
      BY <2>1, ThreeDigits DEF Top, Middle, Low
    <2> QED BY <2>2
  <1>2. /\ RankForPosition(p) = << Top(p + 1), Middle(p + 1), Low(p + 1) >>
        /\ RankForPosition(q) = << Top(q + 1), Middle(q + 1), Low(q + 1) >>
    BY DEF RankForPosition
  <1> HIDE DEF Top, Middle, Low
  <1>3. RankForPosition(p) \in Keys
    BY <1>1, <1>2 DEF Keys, NoKey
  <1>4. RankForPosition(p) = RankForPosition(q) => p + 1 = q + 1
    BY <1>1, <1>2
  <1> QED BY <1>3, <1>4

-----------------------------------------------------------------------------
(* Lists made of a set and a strict order of its elements.                *)

StrictOrder(S, R) ==
    /\ \A a \in S : << a, a >> \notin R
    /\ \A a, b, c \in S : << a, b >> \in R /\ << b, c >> \in R => << a, c >> \in R
    /\ \A a, b \in S : a # b => << a, b >> \in R \/ << b, a >> \in R

Preceding(S, R, x) == {b \in S : << b, x >> \in R}

Listing(S, R) ==
    LET place == [x \in S |-> Cardinality(Preceding(S, R, x)) + 1]
    IN  [i \in 1 .. Cardinality(S) |-> CHOOSE x \in S : place[x] = i]

\* The elements stand in their order, each behind as many as sort before it.
LEMMA ListingInOrder ==
    ASSUME NEW S, IsFiniteSet(S), NEW R, StrictOrder(S, R)
    PROVE  /\ Listing(S, R) \in Seq(S) /\ Len(Listing(S, R)) = Cardinality(S)
           /\ \A x \in S : \E i \in 1 .. Cardinality(S) : Listing(S, R)[i] = x
           /\ \A i \in 1 .. Cardinality(S) :
                i = Cardinality(Preceding(S, R, Listing(S, R)[i])) + 1
           /\ \A i, j \in 1 .. Cardinality(S) :
                i < j <=> << Listing(S, R)[i], Listing(S, R)[j] >> \in R
  <1> DEFINE n == Cardinality(S)
             place == [x \in S |-> Cardinality(Preceding(S, R, x)) + 1]
             list == Listing(S, R)
  <1>0. n \in Nat
    BY FS_CardinalityType
  <1>1. ASSUME NEW x \in S
        PROVE  IsFiniteSet(Preceding(S, R, x)) /\ Cardinality(Preceding(S, R, x)) \in Nat
    <2>1. Preceding(S, R, x) \in SUBSET S
      BY DEF Preceding
    <2>2. IsFiniteSet(Preceding(S, R, x))
      BY <2>1, FS_Subset
    <2> QED BY <2>2, FS_CardinalityType
  <1>2. ASSUME NEW x \in S
        PROVE  /\ IsFiniteSet(Preceding(S, R, x) \cup {x})
               /\ Cardinality(Preceding(S, R, x) \cup {x}) = Cardinality(Preceding(S, R, x)) + 1
    <2>1. x \notin Preceding(S, R, x)
      BY DEF StrictOrder, Preceding
    <2> QED BY <1>1, <2>1, FS_AddElement
  <1>3. \A x \in S : place[x] \in 1 .. n
    <2> TAKE x \in S
    <2>1. Preceding(S, R, x) \cup {x} \in SUBSET S
      BY DEF Preceding
    <2>2. Cardinality(Preceding(S, R, x) \cup {x}) <= n
      BY <2>1, FS_Subset
    <2> QED BY <1>0, <1>1, <1>2, <2>2
  <1>4. ASSUME NEW x \in S, NEW y \in S, << x, y >> \in R
        PROVE  place[x] < place[y]
    <2>1. Preceding(S, R, x) \cup {x} \in SUBSET Preceding(S, R, y)
      BY <1>4 DEF StrictOrder, Preceding
    <2>2. IsFiniteSet(Preceding(S, R, y))
      BY <1>1
    <2>3. Cardinality(Preceding(S, R, x) \cup {x}) <= Cardinality(Preceding(S, R, y))
      BY <2>1, <2>2, FS_Subset
    <2> QED BY <1>1, <1>2, <2>3
  <1> HIDE DEF place
  <1>5. place \in Injection(S, 1 .. n)
    <2>1. place \in [S -> 1 .. n]
      BY <1>3 DEF place
    <2>2. \A x, y \in S : place[x] = place[y] => x = y
      <3> TAKE x, y \in S
      <3>1. place[x] \in Nat /\ place[y] \in Nat
        BY <1>0, <1>3
      <3>2. x # y => place[x] < place[y] \/ place[y] < place[x]
        BY <1>4 DEF StrictOrder
      <3> QED BY <3>1, <3>2
    <2> QED BY <2>1, <2>2 DEF Injection, IsInjective
  <1>6. place \in Surjection(S, 1 .. n)
    <2>1. IsFiniteSet(1 .. n) /\ Cardinality(1 .. n) = n
      <3>1. IsFiniteSet(1 .. n) /\ Cardinality(1 .. n) = IF 1 > n THEN 0 ELSE n - 1 + 1
        BY <1>0, FS_Interval
      <3> QED BY <1>0, <3>1
    <2> QED BY <1>5, <2>1, FS_Injection
  <1>7. \A i \in 1 .. n : \E x \in S : place[x] = i
    BY <1>6 DEF Surjection
  <1>8. list = [i \in 1 .. n |-> CHOOSE x \in S : place[x] = i]
    BY DEF Listing, place
  <1> HIDE DEF list
  <1>9. \A i \in 1 .. n : list[i] \in S /\ place[list[i]] = i
    BY <1>7, <1>8
  <1>10. list \in Seq(S) /\ Len(list) = n
    <2>1. list \in [1 .. n -> S]
      BY <1>8, <1>9
    <2> QED BY <1>0, <2>1
  <1>11. \A x \in S : list[place[x]] = x /\ place[x] \in 1 .. n
    BY <1>3, <1>5, <1>9 DEF Injection, IsInjective
  <1>12. \A i, j \in 1 .. n : i < j <=> << list[i], list[j] >> \in R
    <2> TAKE i, j \in 1 .. n
    <2>1. << list[i], list[j] >> \in R => i < j
      BY <1>4, <1>9
    <2>2. << list[j], list[i] >> \in R => j < i
      BY <1>4, <1>9
    <2>3. i < j => list[i] # list[j]
      BY <1>0, <1>9
    <2> QED BY <1>0, <1>9, <2>1, <2>2, <2>3 DEF StrictOrder
  <1>13. \A i \in 1 .. n : i = Cardinality(Preceding(S, R, list[i])) + 1
    BY <1>9 DEF place
  <1> QED BY <1>10, <1>11, <1>12, <1>13 DEF list

\* l lists the rows of S by their ranks, which are distinct.
Sorts(l, S, rank) ==
    /\ IsFiniteSet(S) /\ l \in Seq(S) /\ Len(l) = Cardinality(S)
    /\ \A x \in S : rank[x] \in Seq(Digits)
    /\ \A x \in S : \E i \in 1 .. Len(l) : l[i] = x
    /\ \A i \in 1 .. Len(l) : i = Cardinality({x \in S : Less(rank[x], rank[l[i]])}) + 1
    /\ \A i, j \in 1 .. Len(l) : i < j <=> Less(rank[l[i]], rank[l[j]])

\* Such a list has the rows of S, once each, and their ranks tell which is before which.
LEMMA SortedByRank ==
    ASSUME NEW l, NEW S, NEW rank, Sorts(l, S, rank)
    PROVE  /\ Order!RowsOf(l) = S /\ Order!Distinct(l)
           /\ \A a, b \in S : Order!Before(l, a, b) <=> Less(rank[a], rank[b])
  <1>1. DOMAIN l = 1 .. Len(l) /\ Len(l) \in Nat /\ \A i \in 1 .. Len(l) : l[i] \in S
    BY DEF Sorts
  <1>2. Order!RowsOf(l) = S
    BY <1>1 DEF Sorts, Order!RowsOf
  <1>3. Order!Distinct(l)
    <2> SUFFICES ASSUME NEW i \in 1 .. Len(l), NEW j \in 1 .. Len(l), l[i] = l[j]
                 PROVE  i = j
      BY <1>1 DEF Order!Distinct
    <2>1. ~(i < j) /\ ~(j < i)
      BY LessIrreflexive, <1>1 DEF Sorts
    <2> QED BY <1>1, <2>1
  <1>4. ASSUME NEW a \in S, NEW b \in S
        PROVE  Order!Before(l, a, b) <=> Less(rank[a], rank[b])
    <2>1. Order!Before(l, a, b) => Less(rank[a], rank[b])
      BY <1>1 DEF Sorts, Order!Before
    <2>2. PICK i, j \in 1 .. Len(l) : l[i] = a /\ l[j] = b
      BY DEF Sorts
    <2>3. Less(rank[a], rank[b]) => i < j
      BY <2>2 DEF Sorts
    <2> QED BY <1>1, <2>1, <2>2, <2>3 DEF Order!Before
  <1> QED BY <1>2, <1>3, <1>4

\* A row that moves leaves the others in their order.
LEMMA OneMoves ==
    ASSUME NEW l, NEW m, NEW S, NEW r, NEW q, Sorts(l, S, r), Sorts(m, S, q),
           NEW row \in S, \A x \in S \ {row} : q[x] = r[x]
    PROVE  Order!Moved(row, l, m)
  <1>1. /\ Order!RowsOf(l) = S /\ Order!RowsOf(m) = S
        /\ \A a, b \in S : Order!Before(l, a, b) <=> Less(r[a], r[b])
        /\ \A a, b \in S : Order!Before(m, a, b) <=> Less(q[a], q[b])
    BY SortedByRank
  <1> QED BY <1>1 DEF Order!Moved, Order!SameOrder

\* And so do rows that go.
LEMMA SomeGo ==
    ASSUME NEW l, NEW m, NEW S, NEW T, NEW r, NEW q, Sorts(l, S, r), Sorts(m, T, q),
           T \subseteq S, \A x \in T : q[x] = r[x]
    PROVE  Order!Removed(l, m)
  <1>1. /\ Order!RowsOf(l) = S /\ Order!RowsOf(m) = T
        /\ \A a, b \in S : Order!Before(l, a, b) <=> Less(r[a], r[b])
        /\ \A a, b \in T : Order!Before(m, a, b) <=> Less(q[a], q[b])
    BY SortedByRank
  <1> QED BY <1>1 DEF Order!Removed, Order!SameOrder

\* Rows with ranks above all others go to the end.
LEMMA SomeFollow ==
    ASSUME NEW l, NEW m, NEW S, NEW T, NEW r, NEW q, Sorts(l, S, r), Sorts(m, T, q),
           S \subseteq T, S # T, \A x \in S : q[x] = r[x],
           \A x \in S, y \in T \ S : Less(r[x], q[y])
    PROVE  Order!Added(l, m)
  <1>1. Len(l) \in Nat /\ Len(m) \in Nat /\ Len(l) < Len(m)
    <2>1. Len(l) = Cardinality(S) /\ Len(m) = Cardinality(T) /\ Len(l) \in Nat /\ Len(m) \in Nat
      BY DEF Sorts
    <2>2. IsFiniteSet(T)
      BY DEF Sorts
    <2>3. Cardinality(S) <= Cardinality(T) /\ Cardinality(S) # Cardinality(T)
      BY <2>2, FS_Subset
    <2> QED BY <2>1, <2>3
  <1>2. ASSUME NEW i \in 1 .. Len(l) PROVE m[i] = l[i]
    <2>1. l[i] \in S /\ l[i] \in T
      BY DEF Sorts
    <2>2. {x \in T : Less(q[x], q[l[i]])} = {x \in S : Less(r[x], r[l[i]])}
      <3>1. ASSUME NEW y \in T \ S, Less(q[y], r[l[i]]) PROVE FALSE
        <4>1. Less(r[l[i]], q[y]) /\ q[y] \in Seq(Digits) /\ r[l[i]] \in Seq(Digits)
          BY <2>1 DEF Sorts
        <4> QED BY <3>1, <4>1, LessTransitive, LessIrreflexive
      <3> QED BY <2>1, <3>1
    <2>3. PICK k \in 1 .. Len(m) : m[k] = l[i]
      BY <2>1 DEF Sorts
    <2>4. k = Cardinality({x \in T : Less(q[x], q[l[i]])}) + 1
      BY <2>3 DEF Sorts
    <2>5. i = Cardinality({x \in S : Less(r[x], r[l[i]])}) + 1
      BY DEF Sorts
    <2> QED BY <2>2, <2>3, <2>4, <2>5
  <1>3. DOMAIN l = 1 .. Len(l)
    BY DEF Sorts
  <1> QED BY <1>1, <1>2, <1>3 DEF Order!Added

\* A row with a rank below all others goes to the front.
LEMMA OneLeads ==
    ASSUME NEW l, NEW m, NEW S, NEW T, NEW r, NEW q, Sorts(l, S, r), Sorts(m, T, q),
           NEW row, row \notin S, T = S \cup {row}, \A x \in S : q[x] = r[x],
           \A x \in S : Less(q[row], r[x])
    PROVE  Order!StoodIn(row, l, m)
  <1>1. Len(l) \in Nat /\ Len(m) \in Nat /\ Len(m) = Len(l) + 1
    <2>1. Len(l) = Cardinality(S) /\ Len(m) = Cardinality(T) /\ Len(l) \in Nat /\ Len(m) \in Nat
      BY DEF Sorts
    <2>2. IsFiniteSet(S)
      BY DEF Sorts
    <2>3. Cardinality(T) = Cardinality(S) + 1
      BY <2>2, FS_AddElement
    <2> QED BY <2>1, <2>3
  <1>2. q[row] \in Seq(Digits) /\ row \in T
    BY DEF Sorts
  <1>3. m[1] = row
    <2> DEFINE before == {x \in T : Less(q[x], q[row])}
    <2>1. before = {}
      <3>1. ASSUME NEW x \in S PROVE ~Less(q[x], q[row])
        <4>1. r[x] \in Seq(Digits) /\ q[x] = r[x] /\ Less(q[row], r[x])
          BY DEF Sorts
        <4> QED BY <1>2, <4>1, LessTransitive, LessIrreflexive
      <3> QED BY <1>2, <3>1, LessIrreflexive
    <2>2. PICK k \in 1 .. Len(m) : m[k] = row
      BY <1>2 DEF Sorts
    <2>3. k = Cardinality(before) + 1
      BY <2>2 DEF Sorts
    <2> HIDE DEF before
    <2>4. k = 1
      BY <2>1, <2>3, FS_EmptySet
    <2> QED BY <2>2, <2>4
  <1>4. ASSUME NEW i \in 1 .. Len(l) PROVE m[i + 1] = l[i]
    <2>1. l[i] \in S /\ l[i] \in T
      BY DEF Sorts
    <2> DEFINE before == {x \in S : Less(r[x], r[l[i]])}
    <2>2. {x \in T : Less(q[x], q[l[i]])} = before \cup {row}
      BY <2>1
    <2>3. IsFiniteSet(before) /\ Cardinality(before) \in Nat
      <3>1. IsFiniteSet(S) /\ before \in SUBSET S
        BY DEF Sorts
      <3> HIDE DEF before
      <3>2. IsFiniteSet(before)
        BY <3>1, FS_Subset
      <3> QED BY <3>2, FS_CardinalityType
    <2>4. Cardinality(before \cup {row}) = Cardinality(before) + 1
      <3>1. row \notin before
        OBVIOUS
      <3> HIDE DEF before
      <3> QED BY <2>3, <3>1, FS_AddElement
    <2>5. PICK k \in 1 .. Len(m) : m[k] = l[i]
      BY <2>1 DEF Sorts
    <2>6. k = Cardinality({x \in T : Less(q[x], q[l[i]])}) + 1
      BY <2>5 DEF Sorts
    <2>7. i = Cardinality(before) + 1
      BY DEF Sorts
    <2> HIDE DEF before
    <2>8. k = i + 1
      BY <2>2, <2>3, <2>4, <2>6, <2>7
    <2> QED BY <2>5, <2>8
  <1>5. m = << row >> \o l
    <2>1. l \in Seq(T) /\ m \in Seq(T) /\ << row >> \in Seq(T) /\ << row >> \o l \in Seq(T)
      BY <1>2 DEF Sorts
    <2>2. Len(<< row >> \o l) = Len(l) + 1
      BY <1>1, <2>1
    <2>3. ASSUME NEW i \in 1 .. Len(m) PROVE m[i] = (<< row >> \o l)[i]
      <3>1. CASE i = 1
        BY <1>3, <2>1, <3>1
      <3>2. CASE i # 1
        <4>1. i - 1 \in 1 .. Len(l) /\ (i - 1) + 1 = i
          BY <1>1, <3>2
        <4>2. (<< row >> \o l)[i] = l[i - 1]
          BY <1>1, <2>1, <4>1
        <4> QED BY <1>4, <4>1, <4>2
      <3> QED BY <3>1, <3>2
    <2> DEFINE n == << row >> \o l
    <2>4. n \in Seq(T) /\ Len(n) = Len(m) /\ \A i \in 1 .. Len(m) : m[i] = n[i]
      BY <1>1, <2>1, <2>2, <2>3
    <2> HIDE DEF n
    <2>5. m = n
      BY <2>1, <2>4, SeqEqual
    <2> QED BY <2>5 DEF n
  <1>6. row \notin Order!RowsOf(l)
    BY SortedByRank
  <1> QED BY <1>5, <1>6 DEF Order!StoodIn

-----------------------------------------------------------------------------
(* The inductive invariant.                                                *)

\* Only the holder of the lock is in a transaction.
LockOwner == \A r \in Requests : InTransaction(r) => holder = r

\* What an add knows stays true while it holds the lock: its tracks are not in
\* the playlist, no rank is above the last one it read, and the ranks it has
\* made grow from there.
AddFits(r) ==
    /\ req[r].pc \in {"reading", "ranking"} =>
         req[r].todo \in Lists /\ \A i \in DOMAIN req[r].todo : ~Present(req[r].todo[i])
    /\ req[r].pc = "ranking" =>
         /\ Len(req[r].ranks) <= Len(req[r].todo)
         /\ \A k \in KeysBut(Absent) : ~Less(req[r].last, k)
         /\ \A i \in DOMAIN req[r].ranks : Less(req[r].last, req[r].ranks[i])
         /\ \A i, j \in DOMAIN req[r].ranks : i < j => Less(req[r].ranks[i], req[r].ranks[j])

\* And a move: its anchor keeps the rank it read unless it is removed, and the
\* new rank is free and the first behind the anchor.
MoveFits(r) ==
    /\ req[r].pc \in {"moving", "placing"} =>
         /\ req[r].row \in Tracks
         /\ IF req[r].anchor = Absent THEN req[r].last = NoKey
            ELSE Present(req[r].anchor) => item[req[r].anchor] = req[r].last
    /\ req[r].pc = "placing" =>
         /\ Len(req[r].ranks) = 1
         /\ Less(req[r].last, req[r].ranks[1])
         /\ req[r].ranks[1] \notin KeysBut(req[r].row)
         /\ \A k \in KeysBut(req[r].row) : Less(req[r].last, k) => ~Less(k, req[r].ranks[1])

Fits == \A r \in Requests : AddFits(r) /\ MoveFits(r)

IInv == TypeOK /\ LockOwner /\ Fits /\ DistinctRanks

-----------------------------------------------------------------------------
Pcs == {"idle", "reading", "ranking", "moving", "placing"}

\* A request that takes a step remembers what it did not change.
LEMMA RequestUpdated ==
    ASSUME NEW q \in RequestStates, NEW pc \in Pcs,
           NEW last \in Seq(Digits), NEW ranks \in Seq(Keys)
    PROVE  /\ [q EXCEPT !.pc = pc, !.last = last, !.ranks = ranks] \in RequestStates
           /\ [q EXCEPT !.ranks = ranks] \in RequestStates
           /\ [q EXCEPT !.pc = pc, !.ranks = ranks] \in RequestStates
  <1> DEFINE T == Lists \cup {<< >>}
             L == Seq(Digits)
             R == Seq(Keys)
             A == Tracks \cup {Absent}
  <1>1. RequestStates = [pc : Pcs, todo : T, last : L, ranks : R, row : A, anchor : A]
    BY DEF RequestStates, Pcs
  <1>2. last \in L /\ ranks \in R
    OBVIOUS
  <1> HIDE DEF T, L, R, A
  <1> QED BY <1>1, <1>2

\* And one that begins, only what it begins with.
LEMMA IdleUpdated ==
    ASSUME NEW todo \in Lists \cup {<< >>}, NEW row \in Tracks \cup {Absent},
           NEW anchor \in Tracks \cup {Absent}, NEW last \in Seq(Digits)
    PROVE  /\ Idle \in RequestStates
           /\ [Idle EXCEPT !.pc = "reading", !.todo = todo] \in RequestStates
           /\ [Idle EXCEPT !.pc = "moving", !.row = row, !.anchor = anchor, !.last = last]
                 \in RequestStates
  <1> DEFINE T == Lists \cup {<< >>}
             L == Seq(Digits)
             R == Seq(Keys)
             A == Tracks \cup {Absent}
  <1>1. RequestStates = [pc : Pcs, todo : T, last : L, ranks : R, row : A, anchor : A]
    BY DEF RequestStates, Pcs
  <1>2. /\ last \in L /\ todo \in T /\ row \in A /\ anchor \in A
        /\ << >> \in T /\ NoKey \in L /\ << >> \in R /\ Absent \in A
        /\ "idle" \in Pcs /\ "reading" \in Pcs /\ "moving" \in Pcs
    BY DEF NoKey, Pcs
  <1> HIDE DEF T, L, R, A
  <1> QED BY <1>1, <1>2 DEF Idle

LEMMA IdleTyped == Idle \in RequestStates
  <1>1. /\ NoKey \in Seq(Digits) /\ Absent \in Tracks \cup {Absent}
        /\ << >> \in Lists \cup {<< >>}
    BY DEF NoKey
  <1> QED BY <1>1, IdleUpdated

LEMMA ListsAreSequences ==
    ASSUME NEW s \in Lists
    PROVE  /\ s \in Seq(Tracks) /\ Len(s) \in 1 .. MaxAdd /\ DOMAIN s = 1 .. Len(s)
           /\ \A i, j \in DOMAIN s : s[i] = s[j] => i = j
  <1>1. PICK n \in 1 .. MaxAdd : s \in [1 .. n -> Tracks]
    BY DEF Lists
  <1>2. n \in Nat
    BY PlaylistAssumption
  <1> QED BY <1>1, <1>2 DEF Lists

\* Every rank is a sequence of digits.
LEMMA RanksAreKeys ==
    ASSUME TypeOK, NEW t
    PROVE  KeysBut(t) \subseteq Seq(Digits)
  BY DEF TypeOK, KeysBut, ItemKeysBut, PendingKeys, Keys, Names

\* The rows of others are left alone or removed, or get no rank.
Shrinks == /\ \A t \in Tracks : item'[t] \in {item[t], Absent}
           /\ \A n \in Names : pending'[n] \in {pending[n], Absent, NoKey}

LEMMA KeysShrink ==
    ASSUME Shrinks, NEW t
    PROVE  KeysBut(t)' \subseteq KeysBut(t) \cup {NoKey}
  BY DEF Shrinks, KeysBut, ItemKeysBut, PendingKeys

\* Who takes no lock disturbs nobody who holds it.
LEMMA UnlockedStep ==
    ASSUME IInv, Shrinks, UNCHANGED << holder, req >>
    PROVE  LockOwner' /\ Fits'
  <1>1. LockOwner'
    BY DEF IInv, LockOwner, InTransaction
  <1>2. ASSUME NEW r \in Requests PROVE AddFits(r)' /\ MoveFits(r)'
    <2>1. /\ AddFits(r) /\ MoveFits(r) /\ req'[r] = req[r]
          /\ req[r].last \in Seq(Digits) /\ req[r].ranks \in Seq(Keys)
          /\ req[r].todo \in Lists \cup {<< >>} /\ req[r].anchor \in Tracks \cup {Absent}
      BY <1>2 DEF IInv, TypeOK, RequestStates, Fits
    <2>2. ~Less(req[r].last, NoKey)
      BY <2>1, NoKeyFirst
    <2>3. \A t \in Tracks : Present(t)' => Present(t) /\ item'[t] = item[t]
      BY DEF Shrinks, Present
    <2>4. AddFits(r)'
      <3>1. req[r].pc \in {"reading", "ranking"} =>
              \A i \in DOMAIN req[r].todo : ~Present(req[r].todo[i])'
        BY <2>1, <2>3, ListsAreSequences DEF AddFits
      <3>2. req[r].pc = "ranking" => \A k \in KeysBut(Absent)' : ~Less(req[r].last, k)
        BY <2>1, <2>2, KeysShrink DEF AddFits
      <3> QED BY <2>1, <3>1, <3>2 DEF AddFits, Present
    <2>5. MoveFits(r)'
      <3>1. ASSUME req[r].pc = "placing"
            PROVE  /\ req[r].ranks[1] \notin KeysBut(req[r].row)'
                   /\ \A k \in KeysBut(req[r].row)' :
                        Less(req[r].last, k) => ~Less(k, req[r].ranks[1])
        <4>1. req[r].ranks[1] # NoKey
          BY <2>1, <3>1 DEF MoveFits, Keys
        <4> QED BY <2>1, <2>2, <3>1, <4>1, KeysShrink DEF MoveFits
      <3>2. req[r].anchor # Absent /\ Present(req[r].anchor)'
              => Present(req[r].anchor) /\ item'[req[r].anchor] = item[req[r].anchor]
        BY <2>1, <2>3
      <3> QED BY <2>1, <3>1, <3>2 DEF MoveFits, Present
    <2> QED BY <2>4, <2>5
  <1> QED BY <1>1, <1>2 DEF Fits

\* A request that acts under the lock is the only one in a transaction, so it
\* has only itself to look after.
LEMMA LockedStep ==
    ASSUME IInv, NEW r \in Requests, holder \in {r, NoOne},
           \A s \in Requests \ {r} : req'[s] = req[s],
           holder' \in {r, NoOne}, InTransaction(r)' => holder' = r,
           AddFits(r)', MoveFits(r)'
    PROVE  LockOwner' /\ Fits'
  <1>1. ASSUME NEW s \in Requests \ {r}
        PROVE  req'[s] = req[s] /\ req[s].pc = "idle"
    BY <1>1, PlaylistAssumption DEF IInv, TypeOK, RequestStates, LockOwner, InTransaction
  <1>2. LockOwner'
    BY <1>1 DEF LockOwner, InTransaction
  <1>3. \A s \in Requests \ {r} : AddFits(s)' /\ MoveFits(s)'
    BY <1>1 DEF AddFits, MoveFits
  <1> QED BY <1>2, <1>3 DEF Fits

-----------------------------------------------------------------------------
\* A playlist starts with the distinct keys of an import.
THEOREM InitInv == Init => IInv
  <1> SUFFICES ASSUME Init PROVE IInv
    OBVIOUS
  <1> USE RankAssumption, PlaylistAssumption
  <1>0. PICK known \in SUBSET Names :
          \E pos \in [known -> 0 .. (Cardinality(Names) - 1)] :
            /\ \A m, n \in known : pos[m] = pos[n] => m = n
            /\ item = [t \in Tracks |->
                         IF t \in known THEN RankForPosition(pos[t]) ELSE Absent]
            /\ pending = [n \in Names |->
                            IF n \in known \ Tracks THEN RankForPosition(pos[n]) ELSE Absent]
    BY DEF Init
  <1>1. PICK pos \in [known -> 0 .. (Cardinality(Names) - 1)] :
          /\ \A m, n \in known : pos[m] = pos[n] => m = n
          /\ item = [t \in Tracks |->
                       IF t \in known THEN RankForPosition(pos[t]) ELSE Absent]
          /\ pending = [n \in Names |->
                          IF n \in known \ Tracks THEN RankForPosition(pos[n]) ELSE Absent]
    BY <1>0
  <1>2. Cardinality(Names) \in Nat /\ Cardinality(Names) < Base * (Base * Base)
    <2>1. IsFiniteSet(Names)
      BY FS_Union DEF Names
    <2> QED BY <2>1, FS_CardinalityType DEF Names
  <1>3. /\ \A n \in known : RankForPosition(pos[n]) \in Keys
        /\ \A m, n \in known : RankForPosition(pos[m]) = RankForPosition(pos[n]) => m = n
    <2>1. \A n \in known : pos[n] \in Nat /\ pos[n] + 1 < Base * (Base * Base)
      <3> DEFINE cube == Base * (Base * Base)
      <3>1. cube \in Nat /\ Cardinality(Names) < cube
        BY <1>2
      <3> HIDE DEF cube
      <3>2. \A n \in known : pos[n] \in Nat /\ pos[n] + 1 < cube
        BY <1>1, <1>2, <3>1
      <3> QED BY <3>2 DEF cube
    <2>2. \A n \in known : RankForPosition(pos[n]) \in Keys
      BY <2>1, PositionsDiffer
    <2>3. \A m, n \in known : RankForPosition(pos[m]) = RankForPosition(pos[n]) => m = n
      BY <1>1, <2>1, PositionsDiffer
    <2> QED BY <2>2, <2>3
  <1>4. /\ item \in [Tracks -> Keys \cup {Absent}]
        /\ pending \in [Names -> Seq(Digits) \cup {Absent}]
    BY <1>1, <1>3 DEF Keys
  <1>5. TypeOK
    BY <1>4 DEF Init, TypeOK, RequestStates, Idle, NoScan, NoKey
  <1>6. \A r \in Requests : req[r].pc = "idle"
    BY DEF Init, Idle
  <1>7. LockOwner /\ Fits
    BY <1>6 DEF LockOwner, InTransaction, Fits, AddFits, MoveFits
  <1>8. DistinctRanks
    BY <1>1, <1>3 DEF DistinctRanks, Present, Keys, Names
  <1> QED BY <1>5, <1>7, <1>8 DEF IInv

-----------------------------------------------------------------------------
(* Adding.                                                                 *)

LEMMA AddBeginKeeps ==
    ASSUME IInv, NEW r \in Requests, NEW fresh \in Lists, AddBegin(r, fresh)
    PROVE  IInv'
  <1> USE PlaylistAssumption
  <1>1. /\ req'[r] = [Idle EXCEPT !.pc = "reading", !.todo = fresh]
        /\ \A s \in Requests \ {r} : req'[s] = req[s]
    BY DEF IInv, TypeOK, AddBegin
  <1>2. TypeOK'
    <2>1. [Idle EXCEPT !.pc = "reading", !.todo = fresh] \in RequestStates
      <3>1. NoKey \in Seq(Digits) /\ Absent \in Tracks \cup {Absent}
        BY DEF NoKey
      <3> QED BY <3>1, IdleUpdated
    <2> QED BY <2>1 DEF IInv, TypeOK, AddBegin, rows
  <1>3. AddFits(r)' /\ MoveFits(r)'
    BY <1>1 DEF AddBegin, AddFits, MoveFits, Idle, rows, Present
  <1>4. LockOwner' /\ Fits'
    BY <1>1, <1>3, LockedStep DEF AddBegin, LockFree
  <1>5. DistinctRanks'
    BY DEF IInv, DistinctRanks, AddBegin, rows, Present
  <1> QED BY <1>2, <1>4, <1>5 DEF IInv

LEMMA AddReadKeeps ==
    ASSUME IInv, NEW r \in Requests, NEW last \in KeysBut(Absent) \cup {NoKey},
           AddRead(r, last)
    PROVE  IInv'
  <1> USE RankAssumption, PlaylistAssumption
  <1> DEFINE todo == req[r].todo
             ranks == IF last = NoKey THEN RankSequence(Len(todo)) ELSE << >>
  <1>1. /\ req[r].pc = "reading" /\ IsMaxRank(last) /\ UNCHANGED rows
        /\ req' = [req EXCEPT ![r] = [@ EXCEPT !.pc = "ranking", !.last = last, !.ranks = ranks]]
        /\ UNCHANGED << library, holder, scan >>
    BY DEF AddRead
  <1>2. /\ todo \in Lists /\ \A i \in DOMAIN todo : ~Present(todo[i])
        /\ holder = r
    BY <1>1 DEF IInv, Fits, AddFits, LockOwner, InTransaction
  <1>3. last \in Seq(Digits)
    <2>1. NoKey \in Seq(Digits)
      BY DEF NoKey
    <2> QED BY <2>1, RanksAreKeys DEF IInv
  <1>4. /\ ranks \in Seq(Keys) /\ Len(ranks) <= Len(todo)
        /\ \A i, j \in DOMAIN ranks : i < j => Less(ranks[i], ranks[j])
        /\ \A i \in DOMAIN ranks : Less(last, ranks[i])
    <2>1. Len(todo) \in Nat \ {0} /\ Len(todo) < Base * Base
      BY <1>2, ListsAreSequences
    <2>2. CASE last = NoKey
      <3> DEFINE seeds == RankSequence(Len(todo))
      <3>1. /\ seeds \in Seq(Keys) /\ Len(seeds) = Len(todo)
            /\ \A i, j \in 1 .. Len(todo) : i < j => Less(seeds[i], seeds[j])
        BY <2>1, SequenceIncreases
      <3> HIDE DEF seeds
      <3>2. \A i \in DOMAIN seeds : seeds[i] \in Seq(Digits) /\ seeds[i] # NoKey
        BY <3>1 DEF Keys
      <3>3. \A i \in DOMAIN seeds : Less(NoKey, seeds[i])
        BY <3>2, NoKeyFirst
      <3> QED BY <2>1, <2>2, <3>1, <3>3 DEF seeds
    <2>3. CASE last # NoKey
      BY <2>1, <2>3
    <2> QED BY <2>2, <2>3
  <1> HIDE DEF ranks
  <1>5. /\ req'[r] = [req[r] EXCEPT !.pc = "ranking", !.last = last, !.ranks = ranks]
        /\ \A s \in Requests \ {r} : req'[s] = req[s]
    BY <1>1 DEF IInv, TypeOK
  <1>6. /\ req'[r].pc = "ranking" /\ req'[r].todo = todo /\ req'[r].last = last
        /\ req'[r].ranks = ranks
    BY <1>5 DEF IInv, TypeOK
  <1>7. TypeOK'
    <2>1. [req[r] EXCEPT !.pc = "ranking", !.last = last, !.ranks = ranks] \in RequestStates
      BY <1>3, <1>4, RequestUpdated DEF IInv, TypeOK, Pcs
    <2> QED BY <1>1, <2>1 DEF IInv, TypeOK, rows
  <1>8. AddFits(r)' /\ MoveFits(r)'
    <2>1. \A k \in KeysBut(Absent)' : ~Less(last, k)
      BY <1>1 DEF IsMaxRank, KeysBut, ItemKeysBut, PendingKeys, rows
    <2>2. \A i \in DOMAIN todo : ~Present(todo[i])'
      BY <1>1, <1>2 DEF Present, rows
    <2> QED BY <1>2, <1>4, <1>6, <2>1, <2>2 DEF AddFits, MoveFits
  <1>9. LockOwner' /\ Fits'
    BY <1>1, <1>2, <1>5, <1>8, LockedStep
  <1>10. DistinctRanks'
    BY <1>1 DEF IInv, DistinctRanks, rows, Present
  <1> QED BY <1>7, <1>9, <1>10 DEF IInv

LEMMA AddRankKeeps ==
    ASSUME IInv, NEW r \in Requests, AddRank(r)
    PROVE  IInv'
  <1> DEFINE ranks == req[r].ranks
             last == req[r].last
             prev == IF ranks = << >> THEN last ELSE ranks[Len(ranks)]
             next == RankAfter(prev)
             longer == Append(ranks, next)
  <1>1. /\ req[r].pc = "ranking" /\ Len(ranks) < Len(req[r].todo) /\ next # NoKey
        /\ req' = [req EXCEPT ![r].ranks = longer]
        /\ UNCHANGED << rows, library, holder, scan >>
    BY DEF AddRank
  <1>2. /\ AddFits(r) /\ holder = r
        /\ ranks \in Seq(Keys) /\ last \in Seq(Digits) /\ req[r].todo \in Lists
    BY <1>1 DEF IInv, TypeOK, RequestStates, Fits, LockOwner, InTransaction, AddFits
  <1>3. ranks # << >> => Len(ranks) \in DOMAIN ranks /\ ranks[Len(ranks)] \in Keys
    BY <1>2
  <1>4. prev \in Seq(Digits)
    BY <1>2, <1>3 DEF Keys
  <1>5. next \in Keys /\ Less(prev, next)
    BY <1>1, <1>4, AppendedLast
  <1>6. /\ longer \in Seq(Keys) /\ Len(longer) = Len(ranks) + 1
        /\ \A i \in 1 .. Len(ranks) : longer[i] = ranks[i] /\ longer[i] \in Seq(Digits)
        /\ longer[Len(longer)] = next
    <2> HIDE DEF next
    <2> QED BY <1>2, <1>5 DEF Keys
  <1>7. Less(last, next) /\ \A i \in DOMAIN ranks : Less(ranks[i], next)
    <2> HIDE DEF next
    <2>1. CASE ranks = << >>
      BY <1>5, <2>1
    <2>2. CASE ranks # << >>
      <3>1. /\ Less(last, prev) /\ prev \in Seq(Digits) /\ next \in Seq(Digits)
            /\ prev = ranks[Len(ranks)]
        BY <1>1, <1>2, <1>3, <1>4, <1>5, <2>2 DEF AddFits, Keys
      <3>2. Less(last, next)
        BY <1>2, <1>5, <3>1, LessTransitive
      <3>3. ASSUME NEW i \in DOMAIN ranks PROVE Less(ranks[i], next)
        <4>1. ranks[i] \in Seq(Digits) /\ i \in 1 .. Len(ranks)
          BY <1>2 DEF Keys
        <4>2. CASE i = Len(ranks)
          BY <1>5, <3>1, <4>2
        <4>3. CASE i # Len(ranks)
          <5>1. Less(ranks[i], prev)
            BY <1>1, <1>2, <1>3, <2>2, <3>1, <4>1, <4>3 DEF AddFits
          <5> QED BY <1>5, <3>1, <4>1, <5>1, LessTransitive
        <4> QED BY <4>2, <4>3
      <3> QED BY <3>2, <3>3
    <2> QED BY <2>1, <2>2
  <1>8. /\ req'[r] = [req[r] EXCEPT !.ranks = longer]
        /\ \A s \in Requests \ {r} : req'[s] = req[s]
    BY <1>1 DEF IInv, TypeOK
  <1> HIDE DEF next, longer
  <1>9. TypeOK'
    <2>1. [req[r] EXCEPT !.ranks = longer] \in RequestStates
      <3>1. req[r] \in RequestStates
        BY DEF IInv, TypeOK
      <3>2. req[r].pc \in Pcs
        BY <1>1 DEF Pcs
      <3> QED BY <1>2, <1>6, <3>1, <3>2, RequestUpdated
    <2> QED BY <1>1, <2>1 DEF IInv, TypeOK, rows
  <1>10. /\ req'[r].pc = "ranking" /\ req'[r].todo = req[r].todo
         /\ req'[r].last = last /\ req'[r].ranks = longer
    BY <1>1, <1>8 DEF IInv, TypeOK
  <1>11. AddFits(r)' /\ MoveFits(r)'
    <2>1. \A k \in KeysBut(Absent)' : ~Less(last, k)
      BY <1>1, <1>2 DEF AddFits, KeysBut, ItemKeysBut, PendingKeys, rows
    <2>2. \A i \in DOMAIN req[r].todo : ~Present(req[r].todo[i])'
      BY <1>1, <1>2 DEF AddFits, Present, rows
    <2>3. Len(longer) <= Len(req[r].todo)
      BY <1>1, <1>2, <1>6, ListsAreSequences
    <2>0. /\ DOMAIN ranks = 1 .. Len(ranks) /\ Len(ranks) \in Nat
          /\ \A i \in DOMAIN longer : i \in DOMAIN ranks \/ i = Len(ranks) + 1
      BY <1>2, <1>6
    <2>4. \A i \in DOMAIN longer : Less(last, longer[i])
      BY <1>1, <1>2, <1>6, <1>7, <2>0 DEF AddFits
    <2>5. \A i, j \in DOMAIN longer : i < j => Less(longer[i], longer[j])
      <3> TAKE i, j \in DOMAIN longer
      <3> HAVE i < j
      <3>1. i \in DOMAIN ranks /\ longer[i] = ranks[i]
        BY <1>6, <2>0
      <3>2. CASE j \in DOMAIN ranks
        BY <1>1, <1>2, <1>6, <2>0, <3>1, <3>2 DEF AddFits
      <3>3. CASE j = Len(ranks) + 1
        BY <1>6, <1>7, <3>1, <3>3
      <3> QED BY <2>0, <3>2, <3>3
    <2> QED BY <1>2, <1>10, <2>1, <2>2, <2>3, <2>4, <2>5 DEF AddFits, MoveFits
  <1>12. LockOwner' /\ Fits'
    BY <1>1, <1>2, <1>8, <1>11, LockedStep
  <1>13. DistinctRanks'
    BY <1>1 DEF IInv, DistinctRanks, rows, Present
  <1> QED BY <1>9, <1>12, <1>13 DEF IInv

\* What createMany writes under the lock: every track of the add gets its rank,
\* every other item keeps its own.
LEMMA CreatedInFull ==
    ASSUME IInv, NEW r \in Requests, req[r].pc = "ranking",
           Len(req[r].ranks) = Len(req[r].todo), NEW t \in Tracks
    PROVE  /\ \A i \in DOMAIN req[r].todo : req[r].todo[i] = t =>
                /\ Created(req[r].todo, req[r].ranks, t) = req[r].ranks[i]
                /\ req[r].ranks[i] \in Keys
                /\ req[r].ranks[i] \notin KeysBut(Absent)
           /\ (~\E i \in DOMAIN req[r].todo : req[r].todo[i] = t) =>
                Created(req[r].todo, req[r].ranks, t) = item[t]
  <1> DEFINE todo == req[r].todo
             ranks == req[r].ranks
             last == req[r].last
  <1>1. /\ AddFits(r) /\ todo \in Lists /\ ranks \in Seq(Keys) /\ last \in Seq(Digits)
    BY DEF IInv, TypeOK, RequestStates, Fits, AddFits
  <1>2. DOMAIN ranks = DOMAIN todo
    BY <1>1, ListsAreSequences
  <1>3. ASSUME NEW i \in DOMAIN todo, todo[i] = t
        PROVE  /\ Created(todo, ranks, t) = ranks[i] /\ ranks[i] \in Keys
               /\ ranks[i] \notin KeysBut(Absent)
    <2>1. ranks[i] \in Keys /\ Less(last, ranks[i])
      BY <1>1, <1>2 DEF AddFits
    <2>2. ranks[i] \notin KeysBut(Absent)
      BY <1>1, <2>1 DEF AddFits
    <2>3. ~Present(t) /\ ranks[i] \notin ItemKeysBut(t)
      BY <1>1, <1>3, <2>2, PlaylistAssumption DEF AddFits, KeysBut, ItemKeysBut
    <2>4. i = CHOOSE j \in DOMAIN todo : todo[j] = t
      BY <1>1, <1>3, ListsAreSequences
    <2> QED BY <1>3, <2>1, <2>2, <2>3, <2>4 DEF Created
  <1> QED BY <1>3 DEF Created

LEMMA AddCommitKeeps ==
    ASSUME IInv, NEW r \in Requests, AddCommit(r)
    PROVE  IInv'
  <1> DEFINE todo == req[r].todo
             ranks == req[r].ranks
  <1>1. /\ req[r].pc = "ranking" /\ Len(ranks) = Len(todo)
        /\ item' = [t \in Tracks |-> Created(todo, ranks, t)]
        /\ holder' = NoOne /\ req' = [req EXCEPT ![r] = Idle]
        /\ UNCHANGED << pending, library, scan >>
    BY DEF AddCommit
  <1>2. /\ AddFits(r) /\ todo \in Lists /\ ranks \in Seq(Keys) /\ holder = r
    BY <1>1 DEF IInv, TypeOK, RequestStates, Fits, AddFits, LockOwner, InTransaction
  <1>3. /\ req'[r] = Idle /\ \A s \in Requests \ {r} : req'[s] = req[s]
    BY <1>1 DEF IInv, TypeOK
  \* Every item is one of before or has a rank of the add that nobody had.
  <1>4. \A t \in Tracks :
          \/ item'[t] = item[t] /\ ~\E i \in DOMAIN todo : todo[i] = t
          \/ \E i \in DOMAIN todo : /\ todo[i] = t /\ item'[t] = ranks[i]
                                    /\ ranks[i] \in Keys /\ ranks[i] \notin KeysBut(Absent)
    BY <1>1, CreatedInFull
  <1>5. TypeOK'
    <2>1. Idle \in RequestStates
      BY IdleTyped
    <2> QED BY <1>1, <1>4, <2>1 DEF IInv, TypeOK
  <1>6. LockOwner' /\ Fits'
    <2>1. AddFits(r)' /\ MoveFits(r)' /\ ~InTransaction(r)'
      BY <1>3 DEF AddFits, MoveFits, InTransaction, Idle
    <2> QED BY <1>1, <1>2, <1>3, <2>1, LockedStep
  <1>7. DistinctRanks'
    <2>1. \A i, j \in DOMAIN todo : ranks[i] = ranks[j] => i = j
      <3> TAKE i, j \in DOMAIN todo
      <3>1. /\ DOMAIN todo = DOMAIN ranks /\ i \in Nat /\ j \in Nat
            /\ ranks[i] \in Seq(Digits)
        BY <1>1, <1>2, ListsAreSequences DEF Keys
      <3>2. ~Less(ranks[i], ranks[i])
        BY <3>1, LessIrreflexive
      <3> QED BY <1>1, <1>2, <3>1, <3>2 DEF AddFits
    <2>2. ASSUME NEW t \in Tracks, NEW u \in Tracks, Present(t)', item'[t] = item'[u]
          PROVE  t = u
      <3>1. CASE \E i \in DOMAIN todo : todo[i] = t
        <4>1. PICK i \in DOMAIN todo : /\ todo[i] = t /\ item'[t] = ranks[i]
                                       /\ ranks[i] \notin KeysBut(Absent)
          BY <1>4, <3>1
        <4>2. item'[u] # item[u] \/ item[u] = Absent
          BY <2>2, <4>1, PlaylistAssumption DEF KeysBut, ItemKeysBut
        <4>3. item'[u] # item[u]
          BY <2>2, <4>2 DEF Present
        <4>4. PICK j \in DOMAIN todo : todo[j] = u /\ item'[u] = ranks[j]
          BY <1>4, <4>3
        <4> QED BY <2>1, <2>2, <4>1, <4>4
      <3>2. CASE ~\E i \in DOMAIN todo : todo[i] = t
        <4>1. item'[t] = item[t] /\ Present(t) /\ item[t] \in KeysBut(Absent)
          BY <1>4, <2>2, <3>2, PlaylistAssumption DEF Present, KeysBut, ItemKeysBut
        <4>2. item'[u] = item[u]
          BY <1>4, <2>2, <4>1
        <4> QED BY <2>2, <4>1, <4>2 DEF IInv, DistinctRanks
      <3> QED BY <3>1, <3>2
    <2>3. ASSUME NEW t \in Tracks, NEW n \in Names, Present(t)'
          PROVE  item'[t] # pending[n]
      <3>1. CASE item'[t] = item[t]
        BY <2>3, <3>1 DEF IInv, DistinctRanks, Present
      <3>2. CASE item'[t] # item[t]
        <4>1. item'[t] \in Keys /\ item'[t] \notin KeysBut(Absent)
          BY <1>4, <3>2
        <4>2. item'[t] # Absent
          BY <2>3 DEF Present
        <4> QED BY <4>1, <4>2 DEF KeysBut, PendingKeys
      <3> QED BY <3>1, <3>2
    <2> QED BY <1>1, <2>2, <2>3 DEF IInv, DistinctRanks
  <1> QED BY <1>5, <1>6, <1>7 DEF IInv

-----------------------------------------------------------------------------
(* Moving.                                                                 *)

LEMMA MoveBeginKeeps ==
    ASSUME IInv, NEW r \in Requests, NEW t \in Tracks, NEW anchor \in Tracks \cup {Absent},
           MoveBegin(r, t, anchor)
    PROVE  IInv'
  <1> DEFINE last == IF anchor = Absent THEN NoKey ELSE item[anchor]
             begun == [Idle EXCEPT !.pc = "moving", !.row = t, !.anchor = anchor, !.last = last]
  <1>1. /\ LockFree /\ (anchor # Absent => Present(anchor))
        /\ holder' = r /\ req' = [req EXCEPT ![r] = begun]
        /\ UNCHANGED << rows, library, scan >>
    BY DEF MoveBegin
  <1>2. last \in Seq(Digits)
    BY <1>1 DEF IInv, TypeOK, Present, Keys, NoKey
  <1>3. begun \in RequestStates
    <2> HIDE DEF last
    <2>1. << >> \in Lists \cup {<< >>}
      OBVIOUS
    <2> QED BY <1>2, <2>1, IdleUpdated
  <1>4. /\ req'[r] = begun /\ \A s \in Requests \ {r} : req'[s] = req[s]
    BY <1>1 DEF IInv, TypeOK
  <1>5. TypeOK'
    <2> HIDE DEF begun
    <2> QED BY <1>1, <1>3 DEF IInv, TypeOK, rows
  <1>6. AddFits(r)' /\ MoveFits(r)'
    <2>1. begun.pc = "moving" /\ begun.row = t /\ begun.anchor = anchor /\ begun.last = last
      BY DEF Idle
    <2> HIDE DEF begun
    <2> QED BY <1>1, <1>4, <2>1 DEF AddFits, MoveFits, rows, Present
  <1>7. LockOwner' /\ Fits'
    BY <1>1, <1>4, <1>6, LockedStep DEF LockFree
  <1>8. DistinctRanks'
    BY <1>1 DEF IInv, DistinctRanks, rows, Present
  <1> QED BY <1>5, <1>7, <1>8 DEF IInv

LEMMA MoveRankKeeps ==
    ASSUME IInv, NEW r \in Requests, NEW next \in KeysBut(req[r].row) \cup {NoKey},
           MoveRank(r, next)
    PROVE  IInv'
  <1> DEFINE row == req[r].row
             last == req[r].last
             rank == RankBehind(last, next)
             above == {k \in KeysBut(row) : Less(last, k)}
  <1>1. /\ req[r].pc = "moving" /\ IsNextRank(next, last, row) /\ rank # NoKey
        /\ req' = [req EXCEPT ![r] = [@ EXCEPT !.pc = "placing", !.ranks = << rank >>]]
        /\ UNCHANGED << rows, library, holder, scan >>
    BY DEF MoveRank
  <1>2. MoveFits(r) /\ holder = r /\ last \in Seq(Digits) /\ req[r] \in RequestStates
    BY <1>1 DEF IInv, TypeOK, RequestStates, Fits, LockOwner, InTransaction
  <1>3. next \in Seq(Digits) /\ KeysBut(row) \subseteq Seq(Digits)
    <2>1. NoKey \in Seq(Digits)
      BY DEF NoKey
    <2> QED BY <2>1, RanksAreKeys DEF IInv
  <1>4. /\ rank \in Keys /\ Less(last, rank)
        /\ next # NoKey => Less(rank, next)
    BY <1>1, <1>2, <1>3, AppendedLast, StrictlyBetween DEF RankBehind
  \* Nothing lies between the anchor and the next rank, so nothing lies between
  \* the anchor and the new one.
  <1>5. ASSUME NEW k \in KeysBut(row), Less(last, k)
        PROVE  k # rank /\ ~Less(k, rank)
    <2>1. next # NoKey /\ Less(rank, next) /\ ~Less(k, next)
      <3>1. ~Less(last, NoKey)
        BY <1>2, NoKeyFirst
      <3> QED BY <1>1, <1>4, <1>5, <3>1 DEF IsNextRank
    <2>2. Less(k, rank) => Less(k, next)
      BY <1>3, <1>4, <2>1, LessTransitive DEF Keys
    <2> QED BY <2>1, <2>2
  <1> HIDE DEF rank
  <1>6. rank \notin KeysBut(row)
    BY <1>4, <1>5
  <1>7. << rank >> \in Seq(Keys) /\ Len(<< rank >>) = 1 /\ << rank >>[1] = rank
    BY <1>4
  <1>8. /\ req'[r] = [req[r] EXCEPT !.pc = "placing", !.ranks = << rank >>]
        /\ \A s \in Requests \ {r} : req'[s] = req[s]
    BY <1>1 DEF IInv, TypeOK
  <1>9. /\ req'[r].pc = "placing" /\ req'[r].row = row /\ req'[r].last = last
        /\ req'[r].anchor = req[r].anchor /\ req'[r].ranks = << rank >>
    BY <1>2, <1>8 DEF RequestStates
  <1>10. TypeOK'
    <2>1. "placing" \in Pcs
      BY DEF Pcs
    <2>2. [req[r] EXCEPT !.pc = "placing", !.ranks = << rank >>] \in RequestStates
      BY <1>2, <1>7, <2>1, RequestUpdated
    <2> QED BY <1>1, <2>2 DEF IInv, TypeOK, rows
  <1>11. AddFits(r)' /\ MoveFits(r)'
    <2>1. KeysBut(row)' = KeysBut(row)
      BY <1>1 DEF KeysBut, ItemKeysBut, PendingKeys, rows
    <2> QED BY <1>1, <1>2, <1>4, <1>5, <1>6, <1>7, <1>9, <2>1
            DEF AddFits, MoveFits, Present, rows
  <1>12. LockOwner' /\ Fits'
    BY <1>1, <1>2, <1>8, <1>11, LockedStep
  <1>13. DistinctRanks'
    BY <1>1 DEF IInv, DistinctRanks, rows, Present
  <1> QED BY <1>10, <1>12, <1>13 DEF IInv

LEMMA MoveCommitKeeps ==
    ASSUME IInv, NEW r \in Requests, MoveCommit(r)
    PROVE  IInv'
  <1> DEFINE t == req[r].row
             rank == req[r].ranks[1]
  <1>1. /\ req[r].pc = "placing" /\ item' = [item EXCEPT ![t] = rank]
        /\ holder' = NoOne /\ req' = [req EXCEPT ![r] = Idle]
        /\ UNCHANGED << pending, library, scan >>
    BY DEF MoveCommit
  <1>2. /\ t \in Tracks /\ rank \notin KeysBut(t) /\ holder = r
        /\ rank \in Keys
    BY <1>1 DEF IInv, TypeOK, RequestStates, Fits, MoveFits, LockOwner, InTransaction
  <1>3. /\ req'[r] = Idle /\ \A s \in Requests \ {r} : req'[s] = req[s]
    BY <1>1 DEF IInv, TypeOK
  <1> HIDE DEF rank
  <1>4. item'[t] = rank /\ \A u \in Tracks \ {t} : item'[u] = item[u]
    BY <1>1, <1>2 DEF IInv, TypeOK
  <1>5. TypeOK'
    <2>1. Idle \in RequestStates
      BY IdleTyped
    <2> QED BY <1>1, <1>2, <2>1 DEF IInv, TypeOK
  <1>6. LockOwner' /\ Fits'
    <2>1. AddFits(r)' /\ MoveFits(r)' /\ ~InTransaction(r)'
      BY <1>3 DEF AddFits, MoveFits, InTransaction, Idle
    <2> QED BY <1>1, <1>2, <1>3, <2>1, LockedStep
  <1>7. DistinctRanks'
    <2>1. /\ rank # Absent
          /\ \A u \in Tracks \ {t} : Present(u) => item[u] # rank
          /\ \A n \in Names : pending[n] # rank
      BY <1>2, PlaylistAssumption DEF KeysBut, ItemKeysBut, PendingKeys, Present, Keys
    <2> QED BY <1>1, <1>2, <1>4, <2>1 DEF IInv, DistinctRanks, Present
  <1> QED BY <1>5, <1>6, <1>7 DEF IInv

LEMMA RollbackKeeps ==
    ASSUME IInv, NEW r \in Requests, Rollback(r)
    PROVE  IInv'
  <1>1. /\ req'[r] = Idle /\ \A s \in Requests \ {r} : req'[s] = req[s]
        /\ holder = r /\ holder' = NoOne /\ UNCHANGED << rows, library, scan >>
    BY DEF Rollback, IInv, TypeOK, LockOwner
  <1>2. TypeOK'
    <2>1. Idle \in RequestStates
      BY IdleTyped
    <2> QED BY <2>1 DEF IInv, TypeOK, Rollback, rows
  <1>3. LockOwner' /\ Fits'
    <2>1. AddFits(r)' /\ MoveFits(r)' /\ ~InTransaction(r)'
      BY <1>1 DEF AddFits, MoveFits, InTransaction, Idle
    <2> QED BY <1>1, <2>1, LockedStep
  <1>4. DistinctRanks'
    BY <1>1 DEF IInv, DistinctRanks, rows, Present
  <1> QED BY <1>2, <1>3, <1>4 DEF IInv

-----------------------------------------------------------------------------
(* Removals and the scan, without the lock.                                *)

LEMMA RemovalKeeps ==
    ASSUME IInv, UNCHANGED << holder, req, scan >>,
           \/ \E S \in SUBSET Tracks : RemoveTracks(S)
           \/ \E n \in Names : RemovePending(n)
           \/ \E t \in Tracks : FileVanishes(t)
    PROVE  IInv'
  <1>1. CASE \E S \in SUBSET Tracks : RemoveTracks(S)
    <2>1. PICK S \in SUBSET Tracks : RemoveTracks(S)
      BY <1>1
    <2>2. TypeOK' /\ Shrinks /\ DistinctRanks'
      BY <2>1 DEF IInv, TypeOK, DistinctRanks, RemoveTracks, Shrinks, Present, Names
    <2> QED BY <2>2, UnlockedStep DEF IInv
  <1>2. CASE \E n \in Names : RemovePending(n)
    <2>1. PICK n \in Names : RemovePending(n)
      BY <1>2
    <2>2. TypeOK' /\ Shrinks /\ DistinctRanks'
      BY <2>1 DEF IInv, TypeOK, DistinctRanks, RemovePending, Shrinks, Present
    <2> QED BY <2>2, UnlockedStep DEF IInv
  <1>3. CASE \E t \in Tracks : FileVanishes(t)
    <2>1. PICK t \in Tracks : FileVanishes(t)
      BY <1>3
    <2>2. TypeOK' /\ Shrinks /\ DistinctRanks'
      BY <2>1 DEF IInv, TypeOK, DistinctRanks, FileVanishes, Shrinks, Present, rows
    <2> QED BY <2>2, UnlockedStep DEF IInv
  <1> QED BY <1>1, <1>2, <1>3

LEMMA ScanStepKeeps ==
    ASSUME IInv, ScanStep
    PROVE  IInv'
  <1>1. CASE ScanBegin \/ \E t \in Tracks : ScanThrows(t)
    <2>1. TypeOK' /\ Shrinks /\ DistinctRanks' /\ UNCHANGED << holder, req >>
      BY <1>1 DEF IInv, TypeOK, DistinctRanks, ScanBegin, ScanThrows, NoScan, Shrinks,
                  Present, rows
    <2> QED BY <2>1, UnlockedStep DEF IInv
  <1>2. CASE \E t \in Tracks : ScanConvert(t)
    <2>1. PICK t \in Tracks : ScanConvert(t)
      BY <1>2
    <2>2. NoKey \in Seq(Digits) /\ t \in Names
      BY DEF NoKey, Names
    <2>3. TypeOK'
      BY <2>1, <2>2 DEF IInv, TypeOK, ScanConvert
    <2>4. Shrinks /\ UNCHANGED << holder, req >>
      BY <2>1 DEF ScanConvert, Shrinks, IInv, TypeOK
    <2>5. DistinctRanks'
      <3>1. \A u \in Tracks : Present(u) => item[u] # NoKey
        BY DEF IInv, TypeOK, Keys, Present
      <3>2. NoKey # Absent
        BY <2>2, PlaylistAssumption
      <3>3. CASE pending[t] = Absent
        <4>1. /\ pending'[t] = NoKey /\ \A n \in Names \ {t} : pending'[n] = pending[n]
              /\ \A n \in Names : pending[n] # NoKey /\ UNCHANGED item
          BY <2>1, <2>2, <3>2, <3>3 DEF IInv, TypeOK, ScanConvert, RankTaken, PendingKeys
        <4> QED BY <2>2, <3>1, <4>1 DEF IInv, DistinctRanks, Present
      <3>4. CASE pending[t] # Absent
        <4>1. UNCHANGED << item, pending >>
          BY <2>1, <3>4 DEF ScanConvert, IInv, TypeOK
        <4> QED BY <4>1 DEF IInv, DistinctRanks, Present
      <3> QED BY <3>3, <3>4
    <2> QED BY <2>3, <2>4, <2>5, UnlockedStep DEF IInv
  <1>3. CASE ScanDelete
    <2>1. TypeOK' /\ Shrinks /\ UNCHANGED << holder, req >>
      BY <1>3 DEF IInv, TypeOK, ScanDelete, NoScan, Shrinks
    <2>2. DistinctRanks'
      BY <1>3 DEF IInv, TypeOK, DistinctRanks, ScanDelete, Present
    <2> QED BY <2>1, <2>2, UnlockedStep DEF IInv
  <1> QED BY <1>1, <1>2, <1>3 DEF ScanStep

-----------------------------------------------------------------------------
\* Every step keeps the inductive invariant.
THEOREM StepInv == IInv /\ [Next]_vars => IInv'
  <1> SUFFICES ASSUME IInv, [Next]_vars PROVE IInv'
    OBVIOUS
  <1>1. ASSUME NEW r \in Requests, RequestStep(r) PROVE IInv'
    BY <1>1, AddBeginKeeps, AddReadKeeps, AddRankKeeps, AddCommitKeeps,
       MoveBeginKeeps, MoveRankKeeps, MoveCommitKeeps, RollbackKeeps DEF RequestStep
  <1>2. CASE \/ \E S \in SUBSET Tracks : RemoveTracks(S)
             \/ \E n \in Names : RemovePending(n)
             \/ \E t \in Tracks : FileVanishes(t)
    <2>1. UNCHANGED << holder, req, scan >>
      BY <1>2 DEF RemoveTracks, RemovePending, FileVanishes
    <2> QED BY <1>2, <2>1, RemovalKeeps
  <1>3. CASE ScanStep
    BY <1>3, ScanStepKeeps
  <1>4. CASE UNCHANGED vars
    <2>1. Shrinks /\ UNCHANGED << holder, req >>
      BY <1>4 DEF vars, Shrinks
    <2>2. TypeOK' /\ DistinctRanks'
      BY <1>4 DEF vars, IInv, TypeOK, DistinctRanks, Present
    <2> QED BY <2>1, <2>2, UnlockedStep DEF IInv
  <1> QED BY <1>1, <1>2, <1>3, <1>4 DEF Next

THEOREM Invariance == Spec => []IInv
  BY InitInv, StepInv, PTL DEF Spec

\* Ranks, requests and the lock stay well formed.
THEOREM Typing == Spec => []TypeOK
  BY Invariance, PTL DEF IInv

\* No two rows of a playlist ever share a rank, in whichever of the two tables
\* they are, although removals and the library scan take no lock.
THEOREM DistinctSafe == Spec => []DistinctRanks
  BY Invariance, PTL DEF IInv

\* When an add comes to insert its tracks, every one of them is inserted, with
\* the ranks it computed and in their order.
THEOREM AddedSafe == Spec => []AddedInFull
  <1>1. IInv => AddedInFull
    <2> SUFFICES ASSUME IInv, NEW r \in Requests, req[r].pc = "ranking",
                        Len(req[r].ranks) = Len(req[r].todo)
                 PROVE  /\ \A i \in DOMAIN req[r].todo :
                             Created(req[r].todo, req[r].ranks, req[r].todo[i])
                               = req[r].ranks[i]
                        /\ \A i, j \in DOMAIN req[r].todo :
                             i < j => Less(req[r].ranks[i], req[r].ranks[j])
      BY DEF AddedInFull
    <2>1. /\ AddFits(r) /\ req[r].todo \in Lists /\ req[r].ranks \in Seq(Keys)
      BY DEF IInv, TypeOK, RequestStates, Fits, AddFits
    <2>2. DOMAIN req[r].ranks = DOMAIN req[r].todo
      BY <2>1, ListsAreSequences
    <2>3. \A i \in DOMAIN req[r].todo : req[r].todo[i] \in Tracks
      BY <2>1, ListsAreSequences
    <2> QED BY <2>1, <2>2, <2>3, CreatedInFull DEF AddFits
  <1> QED BY <1>1, Invariance, PTL

\* A moved item lands directly behind its anchor, or first, whatever was
\* removed or scanned since the transaction read the anchor's rank.
THEOREM MoveSafe == Spec => MoveLands
  <1> DEFINE Lands == \A r \in Requests, t \in Tracks, anchor \in Tracks \cup {Absent} :
                /\ req[r].pc = "placing" /\ req[r].row = t /\ req[r].anchor = anchor
                /\ item' # item /\ req'[r].pc = "idle"
                => Follows(t, anchor)'
  <1>1. IInv /\ [Next]_vars => [Lands]_vars
    <2> SUFFICES ASSUME IInv, Next, NEW r \in Requests, NEW t \in Tracks,
                        NEW anchor \in Tracks \cup {Absent},
                        req[r].pc = "placing", req[r].row = t, req[r].anchor = anchor,
                        item' # item, req'[r].pc = "idle"
                 PROVE  Follows(t, anchor)'
      OBVIOUS
    <2> DEFINE rank == req[r].ranks[1]
    <2>0. /\ MoveFits(r) /\ holder = r /\ req[r].last \in Seq(Digits)
          /\ req[r].ranks \in Seq(Keys)
      BY DEF IInv, TypeOK, RequestStates, Fits, LockOwner, InTransaction
    <2>1. /\ MoveFits(r) /\ holder = r /\ rank \in Keys /\ req[r].last \in Seq(Digits)
      BY <2>0 DEF MoveFits
    <2>2. MoveCommit(r)
      <3>1. req' # req
        BY DEF IInv, TypeOK
      <3>2. PICK s \in Requests : RequestStep(s)
        BY <3>1 DEF Next, RemoveTracks, RemovePending, FileVanishes, ScanStep, ScanBegin,
                    ScanConvert, ScanThrows, ScanDelete
      <3>3. AddCommit(s) \/ MoveCommit(s)
        BY <3>2 DEF RequestStep, AddBegin, AddRead, AddRank, MoveBegin, MoveRank, Rollback,
                    rows
      <3>4. InTransaction(s)
        BY <3>3 DEF AddCommit, MoveCommit, InTransaction
      <3>5. s = r
        BY <2>1, <3>4 DEF IInv, LockOwner
      <3> QED BY <3>3, <3>5 DEF AddCommit
    <2> HIDE DEF rank
    <2>3. /\ item'[t] = rank /\ UNCHANGED pending
          /\ \A u \in Tracks \ {t} : item'[u] = item[u]
      BY <2>2 DEF MoveCommit, IInv, TypeOK, rank
    <2>4. KeysBut(t)' = KeysBut(t) /\ KeysBut(t) \subseteq Seq(Digits)
      <3>1. KeysBut(t) \subseteq Seq(Digits)
        BY RanksAreKeys DEF IInv
      <3>2. KeysBut(t)' = KeysBut(t)
        BY <2>3 DEF KeysBut, ItemKeysBut, PendingKeys
      <3> QED BY <3>1, <3>2
    <2>5. /\ Less(req[r].last, rank)
          /\ \A k \in KeysBut(t) : Less(req[r].last, k) => ~Less(k, rank)
      BY <2>1 DEF MoveFits, rank
    <2>6. CASE anchor = Absent
      <3>1. req[r].last = NoKey
        BY <2>1, <2>6 DEF MoveFits
      <3>2. \A k \in KeysBut(t) \ {NoKey} : ~Less(k, rank)
        BY <2>4, <2>5, <3>1, NoKeyFirst
      <3> QED BY <2>3, <2>4, <2>6, <3>2 DEF Follows
    <2>7. CASE anchor # Absent
      <3>1. Present(anchor)' /\ anchor # t => item'[anchor] = req[r].last
        BY <2>1, <2>3, <2>7 DEF MoveFits, Present
      <3> QED BY <2>3, <2>4, <2>5, <2>7, <3>1 DEF Follows, Between
    <2> QED BY <2>6, <2>7
  <1> QED BY <1>1, Invariance, PTL DEF Spec, MoveLands

-----------------------------------------------------------------------------
(* The list the rows make.                                                *)

ShownRank == [row \in Shown |-> RankOf(row)]

\* A playlist has finitely many rows.
LEMMA ShownFinite == IsFiniteSet(Shown)
  <1>1. IsFiniteSet({"item", "pending"})
    <2>1. IsFiniteSet({"item"})
      BY FS_Singleton
    <2>2. IsFiniteSet({"item"} \cup {"pending"})
      BY <2>1, FS_AddElement
    <2>3. {"item"} \cup {"pending"} = {"item", "pending"}
      OBVIOUS
    <2> QED BY <2>2, <2>3
  <1>2. IsFiniteSet(Names)
    BY PlaylistAssumption, FS_Union DEF Names
  <1>3. IsFiniteSet({"item", "pending"} \X Names)
    BY <1>1, <1>2, FS_Product
  <1>4. Shown \in SUBSET ({"item", "pending"} \X Names)
    BY DEF Shown, ItemRow, PendingRow, Names
  <1> QED BY <1>3, <1>4, FS_Subset

\* The rank of a row that is shown.
LEMMA RowRanks ==
    /\ \A t : RankOf(ItemRow(t)) = item[t]
    /\ \A n : RankOf(PendingRow(n)) = pending[n]
    /\ \A row \in Shown : \/ \E t \in Tracks : row = ItemRow(t) /\ Present(t)
                          \/ \E n \in Names : row = PendingRow(n) /\ pending[n] # Absent
    /\ \A t \in Tracks : Present(t) => ItemRow(t) \in Shown
    /\ \A n \in Names : pending[n] # Absent => PendingRow(n) \in Shown
  BY DEF RankOf, ItemRow, PendingRow, Shown

\* Ranks tell the rows that are shown apart.
LEMMA ShownRanks ==
    ASSUME IInv
    PROVE  /\ \A a \in Shown : RankOf(a) \in Seq(Digits) /\ RankOf(a) \in KeysBut(Absent)
           /\ \A a, b \in Shown : RankOf(a) = RankOf(b) => a = b
           /\ \A a, b \in Shown : Precedes(a, b) <=> Less(RankOf(a), RankOf(b))
  <1>1. ASSUME NEW a \in Shown
        PROVE  RankOf(a) \in Seq(Digits) /\ RankOf(a) \in KeysBut(Absent)
    <2>1. CASE \E t \in Tracks : a = ItemRow(t) /\ Present(t)
      <3>1. PICK t \in Tracks : a = ItemRow(t) /\ Present(t)
        BY <2>1
      <3>2. RankOf(a) = item[t] /\ item[t] \in Keys
        BY <3>1, RowRanks DEF IInv, TypeOK, Present
      <3>3. item[t] \in KeysBut(Absent)
        BY <3>1, PlaylistAssumption DEF KeysBut, ItemKeysBut, Present
      <3> QED BY <3>2, <3>3 DEF Keys
    <2>2. CASE \E n \in Names : a = PendingRow(n) /\ pending[n] # Absent
      <3>1. PICK n \in Names : a = PendingRow(n) /\ pending[n] # Absent
        BY <2>2
      <3>2. RankOf(a) = pending[n] /\ pending[n] \in Seq(Digits)
        BY <3>1, RowRanks DEF IInv, TypeOK
      <3>3. pending[n] \in KeysBut(Absent)
        BY <3>1 DEF KeysBut, PendingKeys
      <3> QED BY <3>2, <3>3
    <2> QED BY <2>1, <2>2, RowRanks
  <1>2. ASSUME NEW a \in Shown, NEW b \in Shown, RankOf(a) = RankOf(b)
        PROVE  a = b
    <2>1. ASSUME NEW t \in Tracks, a = ItemRow(t), Present(t) PROVE a = b
      <3>1. \A u \in Tracks : b = ItemRow(u) => a = b
        BY <1>2, <2>1, RowRanks DEF IInv, DistinctRanks
      <3>2. \A n \in Names : b # PendingRow(n)
        BY <1>2, <2>1, RowRanks DEF IInv, DistinctRanks
      <3> QED BY <3>1, <3>2, RowRanks
    <2>2. ASSUME NEW m \in Names, a = PendingRow(m), pending[m] # Absent PROVE a = b
      <3>1. \A n \in Names : b = PendingRow(n) => a = b
        BY <1>2, <2>2, RowRanks DEF IInv, DistinctRanks
      <3>2. \A u \in Tracks : b = ItemRow(u) => ~Present(u)
        BY <1>2, <2>2, RowRanks DEF IInv, DistinctRanks
      <3> QED BY <3>1, <3>2, RowRanks
    <2> QED BY <2>1, <2>2, RowRanks
  <1>3. ASSUME NEW a \in Shown, NEW b \in Shown
        PROVE  Precedes(a, b) <=> Less(RankOf(a), RankOf(b))
    <2>1. RankOf(a) = RankOf(b) => ~(a[1] = "item" /\ b[1] = "pending")
      BY <1>2
    <2> QED BY <2>1 DEF Precedes
  <1> QED BY <1>1, <1>2, <1>3

\* The playlist route shows the rows in the order of their ranks.
LEMMA MergedSorted == IInv => Sorts(mergedItems, Shown, ShownRank)
  <1> SUFFICES ASSUME IInv PROVE Sorts(mergedItems, Shown, ShownRank)
    OBVIOUS
  <1> DEFINE S == Shown
             R == {p \in S \X S : Less(RankOf(p[1]), RankOf(p[2]))}
             list == Listing(S, R)
  <1>1. \A a, b \in S : << a, b >> \in R <=> Less(RankOf(a), RankOf(b))
    OBVIOUS
  <1>2. \A x \in S : Preceding(S, R, x) = {b \in S : Precedes(b, x)}
    BY <1>1, ShownRanks DEF Preceding
  <1>3. mergedItems = list
    <2> DEFINE place == [x \in S |-> Cardinality(Preceding(S, R, x)) + 1]
    <2>1. place = [row \in S |-> Cardinality({b \in S : Precedes(b, row)}) + 1]
      <3> HIDE DEF S, R
      <3> QED BY <1>2
    <2>2. mergedItems = [i \in 1 .. Cardinality(S) |-> CHOOSE row \in S : place[row] = i]
      <3> HIDE DEF R, place
      <3> QED BY <2>1 DEF mergedItems
    <2>3. list = [i \in 1 .. Cardinality(S) |-> CHOOSE x \in S : place[x] = i]
      BY DEF Listing
    <2> QED BY <2>2, <2>3
  <1>4. StrictOrder(S, R)
    <2>1. \A a \in S : << a, a >> \notin R
      BY <1>1, ShownRanks, LessIrreflexive
    <2>2. \A a, b, c \in S : << a, b >> \in R /\ << b, c >> \in R => << a, c >> \in R
      BY <1>1, ShownRanks, LessTransitive
    <2>3. \A a, b \in S : a # b => << a, b >> \in R \/ << b, a >> \in R
      BY <1>1, ShownRanks, LessTotal
    <2> HIDE DEF S, R
    <2> QED BY <2>1, <2>2, <2>3 DEF StrictOrder
  <1>5. IsFiniteSet(S)
    BY ShownFinite
  <1>6. \A x \in S : /\ ShownRank[x] = RankOf(x) /\ ShownRank[x] \in Seq(Digits)
                     /\ Preceding(S, R, x) = {b \in S : Less(ShownRank[b], ShownRank[x])}
    BY <1>1, ShownRanks DEF ShownRank, Preceding
  <1>7. \A a, b \in S : << a, b >> \in R <=> Less(ShownRank[a], ShownRank[b])
    BY <1>1, <1>6
  <1> HIDE DEF S, R, list
  <1>8. /\ list \in Seq(S) /\ Len(list) = Cardinality(S)
        /\ \A x \in S : \E i \in 1 .. Cardinality(S) : list[i] = x
        /\ \A i \in 1 .. Cardinality(S) : i = Cardinality(Preceding(S, R, list[i])) + 1
        /\ \A i, j \in 1 .. Cardinality(S) : i < j <=> << list[i], list[j] >> \in R
    BY <1>4, <1>5, ListingInOrder DEF list
  <1>9. \A i \in 1 .. Cardinality(S) : list[i] \in S
    BY <1>8
  <1>10. Sorts(list, S, ShownRank)
    BY <1>5, <1>6, <1>7, <1>8, <1>9 DEF Sorts
  <1> QED BY <1>3, <1>10 DEF S

\* And after a step.
LEMMA MergedSortedNext == IInv' => Sorts(mergedItems, Shown, ShownRank)'
  BY MergedSorted, PTL

\* And after a step.
LEMMA RowRanksNext ==
    /\ \A t : RankOf(ItemRow(t))' = item'[t]
    /\ \A n : RankOf(PendingRow(n))' = pending'[n]
    /\ \A row \in Shown' : \/ \E t \in Tracks : row = ItemRow(t) /\ item'[t] # Absent
                           \/ \E n \in Names : row = PendingRow(n) /\ pending'[n] # Absent
    /\ \A t \in Tracks : item'[t] # Absent => ItemRow(t) \in Shown'
    /\ \A n \in Names : pending'[n] # Absent => PendingRow(n) \in Shown'
  BY DEF RankOf, ItemRow, PendingRow, Shown, Present

\* Both lists of a step are sorted, by the ranks before and after it.
LEMMA SortedBoth ==
    ASSUME IInv, IInv'
    PROVE  /\ Sorts(mergedItems, Shown, ShownRank)
           /\ Sorts(mergedItems', Shown', ShownRank')
           /\ \A row \in Shown : ShownRank[row] = RankOf(row)
           /\ \A row \in Shown' : ShownRank'[row] = RankOf(row)'
  <1>1. Sorts(mergedItems, Shown, ShownRank)
    BY MergedSorted
  <1>2. Sorts(mergedItems', Shown', ShownRank')
    BY MergedSortedNext
  <1> QED BY <1>1, <1>2 DEF ShownRank

\* An add appends: its ranks are above the last one it read, which no rank exceeds.
LEMMA AddAppends ==
    ASSUME IInv, IInv', NEW r \in Requests, AddCommit(r)
    PROVE  Order!Added(mergedItems, mergedItems')
  <1> DEFINE todo == req[r].todo
             ranks == req[r].ranks
             last == req[r].last
  <1>1. /\ req[r].pc = "ranking" /\ Len(ranks) = Len(todo)
        /\ item' = [t \in Tracks |-> Created(todo, ranks, t)] /\ UNCHANGED pending
    BY DEF AddCommit
  <1>2. /\ AddFits(r) /\ todo \in Lists /\ ranks \in Seq(Keys) /\ last \in Seq(Digits)
    BY <1>1 DEF IInv, TypeOK, RequestStates, Fits, AddFits
  <1>3. DOMAIN todo = 1 .. Len(todo) /\ DOMAIN ranks = DOMAIN todo /\ 1 \in DOMAIN todo
        /\ \A i \in DOMAIN todo : todo[i] \in Tracks /\ ~Present(todo[i])
    BY <1>1, <1>2, ListsAreSequences, PlaylistAssumption DEF AddFits
  <1>4. \A i \in DOMAIN todo : item'[todo[i]] = ranks[i] /\ ranks[i] \in Keys
                               /\ Less(last, ranks[i])
    <2> TAKE i \in DOMAIN todo
    <2>1. Created(todo, ranks, todo[i]) = ranks[i]
      BY <1>1, <1>3, CreatedInFull
    <2>2. Less(last, ranks[i]) /\ ranks[i] \in Keys
      BY <1>1, <1>2, <1>3 DEF AddFits
    <2> QED BY <1>1, <1>3, <2>1, <2>2
  <1>5. \A t \in Tracks : (~\E i \in DOMAIN todo : todo[i] = t) => item'[t] = item[t]
    BY <1>1, CreatedInFull
  <1>6. \A t \in Tracks : Present(t) => item'[t] = item[t]
    BY <1>3, <1>5
  <1>7. \A row \in Shown : row \in Shown' /\ RankOf(row)' = RankOf(row)
    <2>1. \A t \in Tracks : Present(t) =>
            ItemRow(t) \in Shown' /\ RankOf(ItemRow(t))' = RankOf(ItemRow(t))
      BY <1>6, RowRanks, RowRanksNext DEF Present
    <2>2. \A n \in Names : pending[n] # Absent =>
            PendingRow(n) \in Shown' /\ RankOf(PendingRow(n))' = RankOf(PendingRow(n))
      BY <1>1, RowRanks, RowRanksNext
    <2> QED BY <2>1, <2>2, RowRanks
  <1>8. Shown # Shown'
    <2>1. ItemRow(todo[1]) \notin Shown
      <3>1. \A t \in Tracks : ItemRow(todo[1]) = ItemRow(t) => ~Present(t)
        BY <1>3 DEF ItemRow
      <3>2. \A n \in Names : ItemRow(todo[1]) # PendingRow(n)
        BY DEF ItemRow, PendingRow
      <3> QED BY <3>1, <3>2, RowRanks
    <2>2. item'[todo[1]] # Absent
      BY <1>3, <1>4, PlaylistAssumption DEF Keys
    <2> QED BY <1>3, <2>1, <2>2, RowRanksNext
  <1>9. ASSUME NEW x \in Shown, NEW y \in Shown' \ Shown
        PROVE  Less(RankOf(x), RankOf(y)')
    <2>1. PICK i \in DOMAIN todo : y = ItemRow(todo[i])
      BY <1>1, <1>5, RowRanks, RowRanksNext DEF Present
    <2>2. RankOf(y)' = ranks[i] /\ Less(last, ranks[i]) /\ ranks[i] \in Seq(Digits)
      BY <1>4, <2>1, RowRanksNext DEF Keys
    <2>3. RankOf(x) \in Seq(Digits) /\ ~Less(last, RankOf(x))
      BY <1>1, <1>2, ShownRanks DEF AddFits
    <2>4. RankOf(x) = last \/ Less(RankOf(x), last)
      BY <1>2, <2>3, LessTotal
    <2> QED BY <1>2, <2>2, <2>3, <2>4, LessTransitive
  <1> HIDE DEF todo, ranks, last
  <1> QED BY <1>7, <1>8, <1>9, SortedBoth, SomeFollow

\* A move changes the rank of one row.
LEMMA MoveMoves ==
    ASSUME IInv, IInv', NEW r \in Requests, MoveCommit(r)
    PROVE  \E row \in Order!RowsOf(mergedItems) : Order!Moved(row, mergedItems, mergedItems')
  <1> DEFINE t == req[r].row
             rank == req[r].ranks[1]
  <1>1. /\ Present(t) /\ item' = [item EXCEPT ![t] = rank] /\ UNCHANGED pending
    BY DEF MoveCommit
  <1>2. t \in Tracks /\ rank \in Keys
    <2>1. MoveFits(r) /\ req[r].pc = "placing" /\ req[r].ranks \in Seq(Keys)
      BY DEF MoveCommit, IInv, TypeOK, RequestStates, Fits
    <2> QED BY <2>1 DEF MoveFits
  <1> HIDE DEF t, rank
  <1>3. item'[t] = rank /\ \A u \in Tracks \ {t} : item'[u] = item[u]
    BY <1>1, <1>2 DEF IInv, TypeOK
  <1>4. item'[t] # Absent
    BY <1>2, <1>3, PlaylistAssumption DEF Keys
  <1>5. Shown' = Shown
    <2>1. \A u \in Tracks : item'[u] # Absent <=> Present(u)
      BY <1>1, <1>3, <1>4 DEF Present
    <2> QED BY <1>1, <2>1, RowRanks, RowRanksNext
  <1>6. ItemRow(t) \in Shown
    BY <1>1, <1>2, RowRanks
  <1>7. \A row \in Shown \ {ItemRow(t)} : RankOf(row)' = RankOf(row)
    BY <1>1, <1>3, RowRanks, RowRanksNext
  <1>8. Order!RowsOf(mergedItems) = Shown
    BY SortedBoth, SortedByRank
  <1>9. Order!Moved(ItemRow(t), mergedItems, mergedItems')
    BY <1>5, <1>6, <1>7, SortedBoth, OneMoves
  <1> QED BY <1>6, <1>8, <1>9

\* What takes rows away does not touch the ranks of others.
LEMMA RemovalRemoves ==
    ASSUME IInv, IInv',
           \A t \in Tracks : item'[t] \in {item[t], Absent},
           \A n \in Names : pending'[n] \in {pending[n], Absent}
    PROVE  Order!Removed(mergedItems, mergedItems')
  <1>1. /\ \A t \in Tracks : item'[t] # Absent => item'[t] = item[t] /\ Present(t)
        /\ \A n \in Names : pending'[n] # Absent => pending'[n] = pending[n]
    BY DEF Present
  <1>2. Shown' \subseteq Shown
    BY <1>1, RowRanks, RowRanksNext
  <1>3. \A row \in Shown' : RankOf(row)' = RankOf(row)
    BY <1>1, RowRanks, RowRanksNext
  <1> QED BY <1>2, <1>3, SortedBoth, SomeGo

\* The placeholder of a missing file has the empty rank, which sorts before all.
LEMMA PlaceholderLeads ==
    ASSUME IInv, IInv', NEW t \in Tracks, ScanConvert(t), pending[t] = Absent
    PROVE  Order!StoodIn(PendingRow(t), mergedItems, mergedItems')
  <1>1. /\ NoKey \notin PendingKeys /\ UNCHANGED item /\ t \in Names
        /\ pending' = [pending EXCEPT ![t] = IF @ = Absent THEN NoKey ELSE @]
    BY DEF ScanConvert, RankTaken, Names
  <1>2. pending'[t] = NoKey /\ \A n \in Names \ {t} : pending'[n] = pending[n]
    BY <1>1 DEF IInv, TypeOK
  <1>3. NoKey \in Seq(Digits) /\ NoKey # Absent
    <2>1. NoKey \in Seq(Digits)
      BY DEF NoKey
    <2> QED BY <2>1, PlaylistAssumption
  <1>4. PendingRow(t) \notin Shown
    <2>1. \A u \in Tracks : PendingRow(t) # ItemRow(u)
      BY DEF ItemRow, PendingRow
    <2>2. \A n \in Names : PendingRow(t) = PendingRow(n) => n = t
      BY DEF PendingRow
    <2> QED BY <2>1, <2>2, RowRanks
  <1>5. Shown' = Shown \cup {PendingRow(t)}
    BY <1>1, <1>2, <1>3, RowRanks, RowRanksNext DEF Present
  <1>6. \A row \in Shown : RankOf(row)' = RankOf(row)
    BY <1>1, <1>2, <1>4, RowRanks, RowRanksNext
  <1>7. ASSUME NEW row \in Shown PROVE Less(NoKey, RankOf(row))
    <2>1. RankOf(row) # NoKey
      <3>1. \A u \in Tracks : Present(u) => item[u] # NoKey
        BY DEF IInv, TypeOK, Present, Keys
      <3>2. \A n \in Names : pending[n] # Absent => pending[n] # NoKey
        BY <1>1 DEF PendingKeys
      <3> QED BY <3>1, <3>2, RowRanks
    <2> QED BY <2>1, ShownRanks, NoKeyFirst
  <1>8. RankOf(PendingRow(t))' = NoKey
    BY <1>2, RowRanksNext
  <1> QED BY <1>4, <1>5, <1>6, <1>7, <1>8, SortedBoth, OneLeads

\* Steps that leave the rows alone leave their list alone.
LEMMA SameRowsSameList ==
    ASSUME UNCHANGED rows
    PROVE  UNCHANGED mergedItems
  <1>1. Shown' = Shown
    BY DEF Shown, Present, rows
  <1>2. \A a, b : Precedes(a, b)' <=> Precedes(a, b)
    BY DEF Precedes, RankOf, rows
  <1> DEFINE place == [row \in Shown |-> Cardinality({b \in Shown : Precedes(b, row)}) + 1]
  <1>3. \A row : {b \in Shown : Precedes(b, row)}' = {b \in Shown : Precedes(b, row)}
    BY <1>1, <1>2
  <1>4. place' = place
    BY <1>1, <1>3
  <1>5. mergedItems = [i \in 1 .. Cardinality(Shown) |-> CHOOSE row \in Shown : place[row] = i]
    BY DEF mergedItems
  <1>6. mergedItems' =
          [i \in 1 .. Cardinality(Shown') |-> CHOOSE row \in Shown' : place'[row] = i]
    BY DEF mergedItems
  <1> HIDE DEF place
  <1> QED BY <1>1, <1>4, <1>5, <1>6

\* Each step of the playlist is a step of the list, or leaves it alone.
LEMMA ListStep == IInv /\ IInv' /\ [Next]_vars => [Order!Next]_mergedItems
  <1> SUFFICES ASSUME IInv, IInv', [Next]_vars, ~UNCHANGED mergedItems
               PROVE  Order!Next
    OBVIOUS
  <1> DEFINE s == mergedItems
             t == mergedItems'
             All == {ItemRow(u) : u \in Tracks} \cup {PendingRow(n) : n \in Names}
             Placeholders == {PendingRow(u) : u \in Tracks}
             Change == \/ Order!Added(s, t)
                       \/ \E row \in Order!RowsOf(s) : Order!Moved(row, s, t)
                       \/ Order!Removed(s, t)
                       \/ \E row \in Placeholders : Order!StoodIn(row, s, t)
  <1>1. SUFFICES Change
    <2>1. t \in Seq(All) /\ Order!Distinct(t)
      <3>1. t \in Seq(Shown') /\ Order!Distinct(t)
        BY SortedBoth, SortedByRank DEF Sorts
      <3>2. Shown' \subseteq All
        BY RowRanksNext
      <3> HIDE DEF t, All
      <3> QED BY <3>1, <3>2
    <2>2. Change => Order!Next
      BY <2>1 DEF Order!Next
    <2> QED BY <2>2
  <1> HIDE DEF s, t, Placeholders
  <1>2. ~UNCHANGED rows
    BY SameRowsSameList
  <1>3. ASSUME NEW r \in Requests, RequestStep(r) PROVE Change
    <2>1. AddCommit(r) \/ MoveCommit(r)
      BY <1>2, <1>3 DEF RequestStep, AddBegin, AddRead, AddRank, MoveBegin, MoveRank, Rollback
    <2> QED BY <2>1, AddAppends, MoveMoves DEF s, t
  <1>4. ASSUME NEW S \in SUBSET Tracks, RemoveTracks(S) PROVE Change
    <2>1. /\ \A u \in Tracks : item'[u] \in {item[u], Absent}
          /\ \A n \in Names : pending'[n] \in {pending[n], Absent}
      BY <1>4 DEF RemoveTracks
    <2> QED BY <2>1, RemovalRemoves DEF s, t
  <1>5. ASSUME NEW n \in Names, RemovePending(n) PROVE Change
    <2>1. /\ \A u \in Tracks : item'[u] \in {item[u], Absent}
          /\ \A m \in Names : pending'[m] \in {pending[m], Absent}
      BY <1>5 DEF RemovePending, IInv, TypeOK
    <2> QED BY <2>1, RemovalRemoves DEF s, t
  <1>6. ASSUME NEW u \in Tracks, ScanConvert(u) PROVE Change
    <2>1. pending[u] = Absent
      BY <1>2, <1>6 DEF ScanConvert, rows, IInv, TypeOK
    <2> QED BY <1>6, <2>1, PlaceholderLeads DEF s, t, Placeholders
  <1>7. ASSUME ScanDelete PROVE Change
    <2>1. /\ \A u \in Tracks : item'[u] \in {item[u], Absent}
          /\ \A n \in Names : pending'[n] \in {pending[n], Absent}
      BY <1>7 DEF ScanDelete
    <2> QED BY <2>1, RemovalRemoves DEF s, t
  <1>8. \/ \E r \in Requests : RequestStep(r)
        \/ \E S \in SUBSET Tracks : RemoveTracks(S)
        \/ \E n \in Names : RemovePending(n)
        \/ \E u \in Tracks : ScanConvert(u)
        \/ ScanDelete
    BY <1>2 DEF Next, vars, ScanStep, FileVanishes, ScanBegin, ScanThrows, rows
  <1> QED BY <1>3, <1>4, <1>5, <1>6, <1>7, <1>8

\* A playlist starts as a list without duplicates.
LEMMA ListInit == IInv => Order!Init
  <1> SUFFICES ASSUME IInv PROVE Order!Init
    OBVIOUS
  <1>1. mergedItems \in Seq(Shown) /\ Order!Distinct(mergedItems)
    BY MergedSorted, SortedByRank DEF Sorts
  <1>2. Shown \subseteq {ItemRow(t) : t \in Tracks} \cup {PendingRow(n) : n \in Names}
    BY RowRanks
  <1> DEFINE All == {ItemRow(t) : t \in Tracks} \cup {PendingRow(n) : n \in Names}
  <1>3. mergedItems \in Seq(All)
    <2> HIDE DEF All
    <2>1. Shown \subseteq All
      BY <1>2 DEF All
    <2> QED BY <1>1, <2>1
  <1> QED BY <1>1, <1>3 DEF Order!Init

\* What the playlist route merges from items and pending rows behaves as one
\* list: an add of playlistService.ts appends, its move takes one row elsewhere,
\* removals and the library scan, which take no lock, reorder nothing, and the
\* scan's placeholder of a missing file comes first.
THEOREM RefinesList == Spec => ImplementsList
  <1>1. Init => Order!Init
    BY InitInv, ListInit
  <1> QED BY <1>1, ListStep, Invariance, PTL DEF Spec, ImplementsList, Order!Spec

=============================================================================
