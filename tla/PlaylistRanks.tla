---------------------------- MODULE PlaylistRanks ---------------------------
(***************************************************************************)
(* The order of one playlist (src/backend/src/services/playlistService.ts, *)
(* routes/playlists.ts).  Its rows live in two tables that share one key   *)
(* space: items, one per library track, and pending tracks, imported names *)
(* the library does not have yet or files that went missing.  Adding and   *)
(* moving run in transactions under an advisory lock of the playlist;      *)
(* removals and the library scan (services/musicScanner.ts) take no lock.  *)
(* Subsonic clients, the import's reconciliation and its refresh, which    *)
(* also write ranks without the lock, are left out.                        *)
(***************************************************************************)
EXTENDS LexoRank, FiniteSets

CONSTANTS
    Tracks,     \* tracks of the library
    Unmatched,  \* imported names without a track
    Vanishing,  \* the tracks whose file may disappear from the disk
    Requests,   \* concurrent requests of the web client
    MaxAdd,     \* tracks in one add (MAX_BULK_TRACKS)
    Absent,     \* no row, no anchor
    NoOne       \* the lock is free

ASSUME PlaylistAssumption ==
    /\ IsFiniteSet(Tracks) /\ IsFiniteSet(Unmatched) /\ Tracks \cap Unmatched = {}
    /\ Cardinality(Tracks \cup Unmatched) < Base * (Base * Base)
    /\ Vanishing \subseteq Tracks
    /\ MaxAdd \in Nat /\ MaxAdd < Base * Base
    /\ Absent \notin Tracks \cup Unmatched /\ Absent \notin Seq(Digits)
    /\ NoOne \notin Requests

\* A pending row is identified by artist and title: those of an import, or
\* those of the track it stands in for.
Names == Tracks \cup Unmatched

VARIABLES
    item,       \* rank of the item of each track, or Absent
    pending,    \* rank of the pending row of each name, or Absent
    library,    \* per track: "there", "missing" from the disk, "gone"
    holder,     \* who holds pg_advisory_xact_lock of the playlist
    req,        \* the requests in progress
    scan        \* the library scan

rows == << item, pending >>
vars == << item, pending, library, holder, req, scan >>

Idle == [pc |-> "idle", todo |-> << >>, last |-> NoKey, ranks |-> << >>,
         row |-> Absent, anchor |-> Absent]

NoScan == [pc |-> "idle", gone |-> {}, refs |-> {}]

\* Duplicate-free lists of tracks.
Lists == {s \in UNION {[1 .. n -> Tracks] : n \in 1 .. MaxAdd} :
            \A i, j \in DOMAIN s : s[i] = s[j] => i = j}

PendingKeys == {pending[n] : n \in {m \in Names : pending[m] # Absent}}

ItemKeysBut(t) == {item[u] : u \in {v \in Tracks \ {t} : item[v] # Absent}}

\* Ranks of both tables, except that of the item of t.
KeysBut(t) == ItemKeysBut(t) \cup PendingKeys

\* k is what maxRank returns.
IsMaxItemRank(k) ==   \* mutant
    /\ k \in ItemKeysBut(Absent) \cup {NoKey}
    /\ \A other \in ItemKeysBut(Absent) : ~Less(k, other)

IsMaxRank(k) ==
    /\ k \in KeysBut(Absent) \cup {NoKey}
    /\ \A other \in KeysBut(Absent) : ~Less(k, other)

\* k is what nextRankAfter(after, t) returns; NoKey when nothing follows.
IsNextRank(k, after, t) ==
    LET above == {other \in KeysBut(t) : Less(after, other)}
    IN  \/ k \in above /\ \A other \in above : ~Less(other, k)
        \/ k = NoKey /\ above = {}

Present(t) == item[t] # Absent

LockFree == holder = NoOne

InTransaction(r) == req[r].pc \in {"reading", "ranking", "moving", "placing"}

-----------------------------------------------------------------------------
\* A playlist is created empty or by an import, which gives every matched and
\* every unmatched track the key of its position in the source.
Init ==
    /\ \E known \in SUBSET Names :
         \E pos \in [known -> 0 .. (Cardinality(Names) - 1)] :
           /\ \A m, n \in known : pos[m] = pos[n] => m = n
           /\ item = [t \in Tracks |->
                        IF t \in known THEN RankForPosition(pos[t]) ELSE Absent]
           /\ pending = [n \in Names |->
                           IF n \in known \ Tracks THEN RankForPosition(pos[n]) ELSE Absent]
    /\ library = [t \in Tracks |-> "there"]
    /\ holder = NoOne
    /\ req = [r \in Requests |-> Idle]
    /\ scan = NoScan

\* addTracks: lockPlaylist; of the tracks requested, fresh are those that exist
\* and are not in the playlist.  Without any the transaction writes nothing.
AddBegin(r, fresh) ==
    /\ req[r].pc = "idle" /\ LockFree
    /\ \A i \in DOMAIN fresh : ~Present(fresh[i]) /\ library[fresh[i]] # "gone"
    /\ holder' = r
    /\ req' = [req EXCEPT ![r] = [Idle EXCEPT !.pc = "reading", !.todo = fresh]]
    /\ UNCHANGED << rows, library, scan >>

\* allocateAppendRanks: the last rank, and the block that seeds an empty list.
AddRead(r, last) ==
    /\ req[r].pc = "reading"
    /\ IsMaxRank(last)
    /\ req' = [req EXCEPT ![r] =
                 [@ EXCEPT !.pc = "ranking", !.last = last,
                           !.ranks = IF last = NoKey THEN RankSequence(Len(req[r].todo))
                                     ELSE << >>]]
    /\ UNCHANGED << rows, library, holder, scan >>

\* One turn of its loop; rankAfter may throw (Rollback).
AddRank(r) ==
    LET ranks == req[r].ranks
        prev == IF ranks = << >> THEN req[r].last ELSE ranks[Len(ranks)]
    IN  /\ req[r].pc = "ranking"
        /\ Len(ranks) < Len(req[r].todo)
        /\ RankAfter(prev) # NoKey
        /\ req' = [req EXCEPT ![r].ranks = Append(ranks, RankAfter(prev))]
        /\ UNCHANGED << rows, library, holder, scan >>

\* The row createMany writes for t: skipDuplicates drops it when the track or
\* the rank is taken by then.
Created(todo, ranks, t) ==
    IF \E i \in DOMAIN todo : /\ todo[i] = t /\ ~Present(t)
                              /\ ranks[i] \notin ItemKeysBut(t)
    THEN ranks[CHOOSE i \in DOMAIN todo : todo[i] = t]
    ELSE item[t]

\* createMany fails as a whole on a track deleted meanwhile (Rollback).  The
\* caller is told that all of todo was added.
AddCommit(r) ==
    LET todo == req[r].todo
    IN  /\ req[r].pc = "ranking" /\ Len(req[r].ranks) = Len(todo)
        /\ \A i \in DOMAIN todo : library[todo[i]] # "gone"
        /\ item' = [t \in Tracks |-> Created(todo, req[r].ranks, t)]
        /\ holder' = NoOne
        /\ req' = [req EXCEPT ![r] = Idle]
        /\ UNCHANGED << pending, library, scan >>

\* moveItem: the lock, the item and the rank of its anchor, "" for the start.
MoveBegin(r, t, anchor) ==
    /\ req[r].pc = "idle" /\ LockFree
    /\ Present(t)
    /\ anchor # Absent => Present(anchor)
    /\ holder' = r
    /\ req' = [req EXCEPT ![r] =
                 [Idle EXCEPT !.pc = "moving", !.row = t, !.anchor = anchor,
                              !.last = IF anchor = Absent THEN NoKey ELSE item[anchor]]]
    /\ UNCHANGED << rows, library, scan >>

RankAtEnd(before, next) == RankAfter(before)   \* mutant
RankBehind(before, next) ==
    IF next = NoKey THEN RankAfter(before) ELSE RankBetween(before, next)

MoveRank(r, next) ==
    LET rank == RankBehind(req[r].last, next)
    IN  /\ req[r].pc = "moving"
        /\ IsNextRank(next, req[r].last, req[r].row)
        /\ rank # NoKey
        /\ req' = [req EXCEPT ![r] = [@ EXCEPT !.pc = "placing", !.ranks = << rank >>]]
        /\ UNCHANGED << rows, library, holder, scan >>

\* The update throws when the row is gone or the rank is taken (Rollback).
MoveCommit(r) ==
    LET t == req[r].row
    IN  /\ req[r].pc = "placing" /\ Present(t)
        /\ req[r].ranks[1] \notin ItemKeysBut(t)
        /\ item' = [item EXCEPT ![t] = req[r].ranks[1]]
        /\ holder' = NoOne
        /\ req' = [req EXCEPT ![r] = Idle]
        /\ UNCHANGED << pending, library, scan >>

\* A step throws, the connection is lost or the transaction times out.
Rollback(r) ==
    /\ InTransaction(r)
    /\ holder' = NoOne
    /\ req' = [req EXCEPT ![r] = Idle]
    /\ UNCHANGED << rows, library, scan >>

\* removeTracks, without the lock.
RemoveTracks(S) ==
    /\ S # {} /\ \A t \in S : Present(t)
    /\ item' = [t \in Tracks |-> IF t \in S THEN Absent ELSE item[t]]
    /\ UNCHANGED << pending, library, holder, req, scan >>

\* DELETE /playlists/:id/pending/:trackId, without the lock.
RemovePending(n) ==
    /\ pending[n] # Absent
    /\ pending' = [pending EXCEPT ![n] = Absent]
    /\ UNCHANGED << item, library, holder, req, scan >>

-----------------------------------------------------------------------------
FileVanishes(t) ==
    /\ t \in Vanishing /\ library[t] = "there"
    /\ library' = [library EXCEPT ![t] = "missing"]
    /\ UNCHANGED << rows, holder, req, scan >>

\* scanLibrary, step 4: the tracks without a file and the items that name them.
ScanBegin ==
    LET gone == {t \in Tracks : library[t] = "missing"}
    IN  /\ scan.pc = "idle" /\ gone # {}
        /\ scan' = [pc |-> "converting", gone |-> gone, refs |-> {t \in gone : Present(t)}]
        /\ UNCHANGED << rows, library, holder, req >>

\* A pending row is created without a rank: NoKey, which is unique as well.
RankTaken(t) == pending[t] = Absent /\ NoKey \in PendingKeys

ScanConvert(t) ==
    /\ scan.pc = "converting" /\ t \in scan.refs /\ ~RankTaken(t)
    /\ pending' = [pending EXCEPT ![t] = IF @ = Absent THEN NoKey ELSE @]
    /\ scan' = [scan EXCEPT !.refs = @ \ {t}]
    /\ UNCHANGED << item, library, holder, req >>

\* The upsert is rejected, and the scan with it.
ScanThrows(t) ==
    /\ scan.pc = "converting" /\ t \in scan.refs /\ RankTaken(t)
    /\ scan' = NoScan
    /\ UNCHANGED << rows, library, holder, req >>

\* The tracks are deleted and their items with them, whatever they were when
\* the scan read them.
ScanDelete ==
    /\ scan.pc = "converting" /\ scan.refs = {}
    /\ library' = [t \in Tracks |-> IF t \in scan.gone THEN "gone" ELSE library[t]]
    /\ item' = [t \in Tracks |-> IF t \in scan.gone THEN Absent ELSE item[t]]
    /\ scan' = NoScan
    /\ UNCHANGED << pending, holder, req >>

-----------------------------------------------------------------------------
RequestStep(r) ==
    \/ \E fresh \in Lists : AddBegin(r, fresh)
    \/ \E last \in KeysBut(Absent) \cup {NoKey} : AddRead(r, last)
    \/ AddRank(r)
    \/ AddCommit(r)
    \/ \E t \in Tracks, anchor \in Tracks \cup {Absent} : MoveBegin(r, t, anchor)
    \/ \E next \in KeysBut(req[r].row) \cup {NoKey} : MoveRank(r, next)
    \/ MoveCommit(r)
    \/ Rollback(r)

ScanStep == \/ ScanBegin
            \/ \E t \in Tracks : ScanConvert(t)
            \/ \E t \in Tracks : ScanThrows(t)
            \/ ScanDelete

Next == \/ \E r \in Requests : RequestStep(r)
        \/ \E S \in SUBSET Tracks : RemoveTracks(S)
        \/ \E n \in Names : RemovePending(n)
        \/ \E t \in Tracks : FileVanishes(t)
        \/ ScanStep

Spec == Init /\ [][Next]_vars

\* The library is scanned every six hours, after downloads and on request, so
\* a scan that can go on does.
ScanFairness == /\ WF_vars(ScanBegin)
                /\ \A t \in Tracks : WF_vars(ScanConvert(t)) /\ WF_vars(ScanThrows(t))
                /\ WF_vars(ScanDelete)

FairSpec == Spec /\ ScanFairness

-----------------------------------------------------------------------------
RequestStates ==
    [pc : {"idle", "reading", "ranking", "moving", "placing"},
     todo : Lists \cup {<< >>}, last : Seq(Digits), ranks : Seq(Keys),
     row : Tracks \cup {Absent}, anchor : Tracks \cup {Absent}]

\* Keys, program counters and the lock are well formed.
TypeOK ==
    /\ item \in [Tracks -> Keys \cup {Absent}]
    /\ pending \in [Names -> Seq(Digits) \cup {Absent}]
    /\ library \in [Tracks -> {"there", "missing", "gone"}]
    /\ holder \in Requests \cup {NoOne}
    /\ req \in [Requests -> RequestStates]
    /\ scan \in [pc : {"idle", "converting"}, gone : SUBSET Tracks, refs : SUBSET Tracks]

\* No two rows of the playlist share a rank, across both tables, which no index
\* of the database sees ("positions cannot collide", playlistService.ts:16;
\* maxRank and nextRankAfter span both tables for it).
DistinctRanks ==
    /\ \A t, u \in Tracks : Present(t) /\ item[t] = item[u] => t = u
    /\ \A m, n \in Names : pending[m] # Absent /\ pending[m] = pending[n] => m = n
    /\ \A t \in Tracks, n \in Names : Present(t) => item[t] # pending[n]

\* An add that reports its tracks as added adds every one of them, in order:
\* when it comes to insert them, nothing was inserted meanwhile that makes
\* skipDuplicates drop a row ("only safe if concurrent writers are ordered", :37).
AddedInFull ==
    \A r \in Requests :
        LET todo == req[r].todo
            ranks == req[r].ranks
        IN  req[r].pc = "ranking" /\ Len(ranks) = Len(todo) =>
              /\ \A i \in DOMAIN todo : Created(todo, ranks, todo[i]) = ranks[i]
              /\ \A i, j \in DOMAIN todo : i < j => Less(ranks[i], ranks[j])

Between(a, k, b) == Less(a, k) /\ Less(k, b)

\* t sits directly behind the anchor, or no row that has a rank comes before it.
Follows(t, anchor) ==
    IF anchor = Absent
    THEN \A k \in KeysBut(t) \ {NoKey} : ~Less(k, item[t])
    ELSE Present(anchor) /\ anchor # t =>
           /\ Less(item[anchor], item[t])
           /\ \A k \in KeysBut(t) : ~Between(item[anchor], k, item[t])

\* "Move one item so it sits directly after afterItemId (or first when null)"
\* (:269): whatever is added, removed or scanned while the transaction runs.
\* Placeholders of missing files, which have no rank, stay before the first.
MoveLands ==
    [][\A r \in Requests, t \in Tracks, anchor \in Tracks \cup {Absent} :
         /\ req[r].pc = "placing" /\ req[r].row = t /\ req[r].anchor = anchor
         /\ item' # item /\ req'[r].pc = "idle"
         => Follows(t, anchor)']_vars

\* The rows of both tables as the playlist route merges them: by rank, items
\* first among equals.
ItemRow(t) == << "item", t >>
PendingRow(n) == << "pending", n >>

Shown == {ItemRow(t) : t \in {u \in Tracks : Present(u)}}
           \cup {PendingRow(n) : n \in {m \in Names : pending[m] # Absent}}

RankOf(row) == IF row[1] = "item" THEN item[row[2]] ELSE pending[row[2]]

Precedes(a, b) == \/ Less(RankOf(a), RankOf(b))
                  \/ RankOf(a) = RankOf(b) /\ a[1] = "item" /\ b[1] = "pending"

mergedItems ==
    LET shown == Shown
        place == [row \in shown |-> Cardinality({b \in shown : Precedes(b, row)}) + 1]
    IN  [i \in 1 .. Cardinality(shown) |-> CHOOSE row \in shown : place[row] = i]

Order == INSTANCE ListOrder WITH
    list <- mergedItems,
    Rows <- {ItemRow(t) : t \in Tracks} \cup {PendingRow(n) : n \in Names},
    Placeholders <- {PendingRow(t) : t \in Tracks}

\* The rows and their ranks implement a list: adds append, a move moves one
\* row, nothing else changes the order.
ImplementsList == Order!Spec

=============================================================================
