------------------------------ MODULE ListOrder -----------------------------
(***************************************************************************)
(* What a playlist promises its owner: it is a list of distinct rows; new  *)
(* rows go to its end; a move takes one row to another place and leaves    *)
(* the order of the others alone; a removal does not reorder what stays;   *)
(* and a row that stands in for a missing file shows first.                *)
(***************************************************************************)
EXTENDS Naturals, Sequences

CONSTANT Rows, Placeholders

VARIABLE list

RowsOf(s) == {s[i] : i \in DOMAIN s}

Distinct(s) == \A i, j \in DOMAIN s : s[i] = s[j] => i = j

Before(s, a, b) == \E i, j \in DOMAIN s : i < j /\ s[i] = a /\ s[j] = b

\* The rows of S stand in the same order in s and in t.
SameOrder(S, s, t) == \A a, b \in S : Before(s, a, b) <=> Before(t, a, b)

\* What the list s may become: t.
Added(s, t) == Len(t) > Len(s) /\ \A i \in DOMAIN s : t[i] = s[i]

Moved(row, s, t) == RowsOf(t) = RowsOf(s) /\ SameOrder(RowsOf(s) \ {row}, s, t)

Removed(s, t) == RowsOf(t) \subseteq RowsOf(s) /\ SameOrder(RowsOf(t), s, t)

StoodIn(row, s, t) == row \notin RowsOf(s) /\ t = << row >> \o s

Init == list \in Seq(Rows) /\ Distinct(list)

\* s and t are bound so that TLC evaluates the two lists once.
Next == \E s \in {list}, t \in {list'} :
          /\ t # s /\ t \in Seq(Rows) /\ Distinct(t)
          /\ \/ Added(s, t)
             \/ \E row \in RowsOf(s) : Moved(row, s, t)
             \/ Removed(s, t)
             \/ \E row \in Placeholders : StoodIn(row, s, t)

Spec == Init /\ [][Next]_list

=============================================================================
