--------------------------- MODULE MCDownloadJobs ---------------------------
EXTENDS DownloadJobs, TLC

CONSTANTS j1, j2, a1, a2, a3, d1, d2

\* The titles of two albums are alike, the third has nothing of them.
Each       == d1 :> a1 @@ d2 :> a2
Namesakes  == {<<a1, a2>>, <<a2, a1>>}
Nobody     == [j \in {} |-> a1]
NothingWas == [j \in {} |-> d1]

\* An album for the library that never comes, with another of the artist, or one whose name
\* is like that of the other, to fall back on; and a restart.
Own == [own |-> j1 :> a3, batch |-> Nobody, done |-> Nobody, lost |-> NothingWas, offers |-> {d1},
        cleaner |-> FALSE, scanner |-> FALSE, faults |-> 0, crashes |-> 1]

\* An album that was completed before.
Redo == [Own EXCEPT !.own = j1 :> a1, !.done = j2 :> a1]

\* An album of a batch, with a restart and incomplete snapshots.
Part == [Own EXCEPT !.own = Nobody, !.batch = j1 :> a1, !.faults = 1]

\* After another was completed, under both sweepers; or one that an album with a name like
\* its own may pass for, and scans.
Other == [Part EXCEPT !.done = j2 :> a3, !.cleaner = TRUE, !.faults = 0, !.crashes = 0]
Alike == [Other EXCEPT !.batch = j1 :> a2, !.cleaner = FALSE, !.scanner = TRUE]

\* The download failed, and that of the other of the namesakes comes instead.
Again == [Other EXCEPT !.lost = j1 :> d1, !.offers = {d2}, !.cleaner = FALSE]

Situations == {Own, Redo, Part, Other, Alike, Again}
=============================================================================
