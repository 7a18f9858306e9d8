-------------------------- MODULE MCDiscoveryAlbums --------------------------
EXTENDS DiscoveryAlbums, TLC

CONSTANTS u1, u2, a1, a2

Pick(x, y) == (u1 :> x) @@ (u2 :> y)
Both == {a1, a2}

\* "n" hearts, and everything in "bounds" once.
Sit(picks, lidarr, single, n, bounds) ==
    [picks |-> picks, lidarr |-> lidarr, single |-> single,
     left |-> [b \in Bounds |-> IF b = "hearts" THEN n ELSE IF b \in bounds THEN 1 ELSE 0]]

\* One album for two users; two albums for one user; one that is from Soulseek or for the library.
Shared == {Sit(Pick({a1}, {a1}), {a1}, Both, 2, B) : B \in {{"clears", "lidarr"}, {"crash"}, {"purges", "old"}}}
Alone  == {Sit(Pick(Both, {}), Both, Both, 1, B) : B \in {{"clears", "lidarr"}, {"clears", "old"}, {"purges", "clears"}}}
Mixed  == {Sit(Pick(Both, {}), {a1}, {a1}, 2, {"clears"}),
           Sit(Pick({a1}, {}), {a1}, {a1}, 2, {"downloads", "clears", "old"}),
           Sit(Pick({a1}, {}), Both, {a1}, 1, {"downloads", "touches", "clears", "purges"})}
\* Liked, unliked and liked again beside a repair; an orphan that is published late.
Repaired == {Sit(Pick({a1}, {a1}), {a1}, Both, 3, {"repairs"}), Sit(Pick(Both, {}), Both, Both, 3, {"repairs"}),
             Sit(Pick({a1}, {}), Both, Both, 3, {"repairs", "clears", "crash"})}
Situations == Shared \cup Alone \cup Mixed \cup Repaired
=============================================================================
