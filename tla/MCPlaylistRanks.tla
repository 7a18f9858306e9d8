--------------------------- MODULE MCPlaylistRanks --------------------------
EXTENDS PlaylistRanks, TLC

CONSTANTS t1, t2, p1, r1, r2

Symmetry == Permutations(Requests) \cup Permutations(Tracks)

\* The loop of rankBetween, digit by digit, as a reference for the closed form.
RECURSIVE Walk(_, _, _, _)
Walk(before, after, out, open) ==
    LET i == Len(out) + 1
        lo == Digit(before, i)
        hi == IF open THEN Base ELSE Digit(after, i)
    IN  IF hi > lo + 1 THEN Append(out, (lo + hi) \div 2)
        ELSE IF i > MaxDepth THEN NoKey
        ELSE Walk(before, after, Append(out, lo), open \/ lo < hi)

Lexicographic(a, b) ==
    \E i \in 1 .. Len(b) :
        /\ \A j \in 1 .. (i - 1) : j <= Len(a) /\ a[j] = b[j]
        /\ i > Len(a) \/ a[i] < b[i]

ShortKeys == UNION {[1 .. n -> Digits] : n \in 1 .. (MaxDepth + 1)}

\* The closed form of RankBetween is the loop of lexoRank.ts, and Less the order of strings.
ASSUME AgreesWithLoop ==
    \A a, b \in ShortKeys \cup {NoKey} :
        /\ Less(a, b) <=> Lexicographic(a, b)
        /\ Less(a, b) => RankBetween(a, b) = Walk(a, b, << >>, FALSE)
        /\ RankBetween(a, NoKey) = Walk(a, NoKey, << >>, TRUE)

\* rankBetween finds a key between two others whenever there is one within the depth limit: it
\* gives up ("the list needs rebalancing") only beside a key longer than MaxDepth, or between a
\* key and itself followed by zeros, which rankAfter creates and nothing lies between.
ASSUME RefusedOnlyWhenFull ==
    \A a \in ShortKeys \cup {NoKey}, b \in ShortKeys :
        Less(a, b) /\ RankBetween(a, b) = NoKey =>
            \/ Len(a) > MaxDepth \/ Len(b) > MaxDepth
            \/ b = [i \in 1 .. Len(b) |-> Digit(a, i)]
=============================================================================
