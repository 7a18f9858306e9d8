--------------------------- MODULE MCSpotifyImport ---------------------------
EXTENDS SpotifyImport, TLC

CONSTANTS a1, a2

Order(quick, albums) == [quick |-> quick, matched |-> TRUE, albums |-> albums]
Plain  == Order(FALSE, {a1})
Quick  == Order(TRUE, {a1})
Futile == [Plain EXCEPT !.matched = FALSE]
Full   == Order(FALSE, {a1, a2})
Short  == {Order(quick, albums) : quick \in BOOLEAN, albums \in {{}, {a2}}}

Allows(order, bounds) == [request |-> order, left |-> [b \in Bounds |-> IF b \in bounds THEN 1 ELSE 0]]
Situations ==
    {Allows(order, {b, c}) : order \in Short, b \in Bounds, c \in Bounds}
    \cup {Allows(Quick, {b, c}) : b \in {"visits", "cancel"}, c \in {"refuse", "redis", "fails"}}
    \cup {Allows(Plain, {"visits", "crash"}), Allows(Futile, {"visits", "fails"})}
    \cup {Allows(Full, {b}) : b \in Bounds}
=============================================================================
