--------------------------- MODULE DiscoveryAlbums ---------------------------
(***************************************************************************)
(* What becomes of the albums of Discover Weekly (routes/discover.ts,      *)
(* services/discovery/discoveryAlbumLifecycle.ts, services/musicScanner.ts,*)
(* workers/dataIntegrity.ts).                                              *)
(*                                                                         *)
(* The albums are by one artist, downloaded for one week or, the native    *)
(* ones, by a user for the library.  Users like and unlike what was picked *)
(* for them; a generation moves what its user liked to the library and     *)
(* deletes the rest, so does a clear, which also removes artists from      *)
(* Lidarr; scans, the integrity worker, two more purges and a repair run   *)
(* beside them.                                                            *)
(*                                                                         *)
(* A step is a query that decides about somebody's album, a call of Lidarr,*)
(* or the writes that follow.  A transaction is one step, and so are a scan*)
(* of an album, with what it looks up, and the writes that keep one; with  *)
(* its last album an artist goes.                                          *)
(*                                                                         *)
(* Downloads no longer go to the folder /music/discovery, so the clear's   *)
(* move out of it and its deletion there find nothing and are left out.    *)
(***************************************************************************)
EXTENDS Naturals, FiniteSets

CONSTANTS
    Users,
    Albums,
    Scenarios      \* picks, and how often what may happen: see Bounds

\* Hearts given or taken, clears, purges, repairs, library downloads, files touched, Lidarr failing, old rows, restarts.
Bounds == {"hearts", "clears", "purges", "repairs", "downloads", "touches", "lidarr", "old", "crash"}
Situation == [picks  : [Users -> SUBSET Albums],   \* what was picked and downloaded for a user
              lidarr : SUBSET Albums,              \* downloaded by Lidarr, the others from Soulseek
              single : SUBSET Albums,              \* albums of one file
              left   : [Bounds -> Nat]]

ASSUME AlbumsAssumption == IsFiniteSet(Albums) /\ "none" \notin Users \cup Albums /\ "library" \notin Users
ASSUME ScenarioAssumption == Scenarios \subseteq Situation

VARIABLES
    files,            \* the albums whose files are on disk
    known, artist,    \* the albums Lidarr has, and the artist there
    album, owned,     \* location of the Album, source of its OwnedAlbum
    row,              \* the DiscoveryAlbum of a user and an album
    heart,            \* the like or unlike of a user under way
    gen, clear, purge,    \* the generation, the clear, the other purges
    repair,           \* the integrity worker, or the administrator's repair
    late,             \* history: kept when a deletion had looked for what is kept
    passed,           \* history: kept when somebody had looked who now takes albums out of the library
    case, left        \* the scenario, and what it still allows

lidarrVars == <<known, artist>>
dbVars     == <<album, owned, row>>
sweepVars  == <<gen, clear, purge, repair>>
history    == <<late, passed>>
vars == <<files, lidarrVars, dbVars, heart, sweepVars, history, case, left>>

NoOne  == "none"
Picked == UNION {case.picks[u] : u \in Users}
Native == Albums \ Picked
Kept   == {"LIKED", "MOVED"}

NoGen   == [user |-> NoOne, todo |-> [a \in Albums |-> "out"]]
NoClear == [user |-> NoOne, phase |-> "off", step |-> "next", moves |-> {}, kills |-> {}, at |-> NoOne, checked |-> FALSE]
NoRepair == [by |-> NoOne, step |-> "off", todo |-> {}, at |-> {}]
Idle    == [step |-> "idle", album |-> NoOne]

TypeOK ==
    /\ files \subseteq Albums /\ known \subseteq Albums
    /\ artist \in {"gone", "plain", "tagged"} /\ (artist = "gone" => known = {})
    /\ album \in [Albums -> {"absent", "DISCOVER", "LIBRARY"}]
    /\ owned \in [Albums -> {"none", "native_scan", "discover_liked", "discovery_liked"}]
    /\ row \in [Users -> [Albums -> {"none", "ACTIVE", "DELETED", "old"} \cup Kept]]
    /\ heart \in [Users -> {Idle} \cup [step : {"like", "untag", "keep", "unlike"}, album : Albums]]
    /\ gen \in {NoGen} \cup [user : Users, todo : [Albums -> {"out", "move", "check", "delete", "claim"}]]
    /\ clear \in {NoClear} \cup [user : Users, phase : {"moves", "kills", "extras", "failed", "orphans", "tags"},
                                 step : {"next", "delete", "owned", "kept", "artist", "rows", "held", "orphan", "untag"},
                                 moves : SUBSET Albums, kills : SUBSET Albums, at : Albums \cup {NoOne}, checked : BOOLEAN]
    /\ purge \in {"off", "owned", "kept", "active", "admin", "tagged", "untag", "other", "batch"}
    /\ repair \in {NoRepair} \cup [by : {"worker", "admin"}, todo : SUBSET Albums, at : SUBSET Albums,
                                   step : {"rows", "held", "orphans", "owned", "kept", "count", "write", "disown"}]
    /\ late \subseteq (Users \cup {"library"}) \X Albums /\ passed \subseteq {"clear", "repair"} \X Albums
    /\ case \in Situation /\ left \in [Bounds -> Nat]

\* The batch has downloaded its albums; nothing is scanned yet.
Init ==
    /\ case \in Scenarios /\ left = case.left
    /\ files = Picked /\ known = Picked \cap case.lidarr
    /\ artist = IF known = {} THEN "gone" ELSE "tagged"
    /\ album = [a \in Albums |-> "absent"] /\ owned = [a \in Albums |-> "none"]
    /\ row = [u \in Users |-> [a \in Albums |-> "none"]]
    /\ heart = [u \in Users |-> Idle] /\ gen = NoGen /\ clear = NoClear /\ purge = "off" /\ repair = NoRepair
    /\ late = {} /\ passed = {}

Spend(bound) == left[bound] > 0 /\ left' = [left EXCEPT ![bound] = @ - 1]
SetRow(u, a, status) == row' = [row EXCEPT ![u][a] = status]
Rows == {row[u][a] : u \in Users, a \in Albums}
HasKept   == Rows \cap Kept # {}
NothingOwned == FALSE   \* mutant
HasNative == \E a \in Albums : owned[a] = "native_scan"

\* Somebody has looked for what is kept, or for what the library owns, and may delete the artist.
KeptLooked  == \/ clear.step = "artist" \/ (clear.phase = "extras" /\ clear.step = "owned")
               \/ purge \in {"active", "admin", "other", "batch"}
OwnedLooked == \/ clear.step = "artist" \/ (clear.phase # "extras" /\ clear.step = "kept")
               \/ purge \notin {"off", "owned"}

\* The files of a may be deleted, whatever the user does now.
Doomed(u, a) ==
    \/ KeptLooked
    \/ gen.user = u /\ gen.todo[a] = "delete"
    \/ clear.user = u /\ clear.at = a /\ clear.step = "delete"

\* Who has found that nobody keeps a, or anything by the artist, and may take it out of the library.
Ahead(a) == {w \in {"clear", "repair"} :
    \/ w = "clear"  /\ clear.step \in {"held", "orphan"} /\ clear.at = a
    \/ w = "repair" /\ \/ repair.step \in {"held", "orphans"} /\ a \in repair.todo
                       \/ repair.step \in {"count", "write"} /\ a \in repair.at}
Passes(a) == passed' = passed \cup (Ahead(a) \X {a})
Done(w)   == passed' = {p \in passed : p[1] # w}

-----------------------------------------------------------------------------
(* Lidarr.                                                                  *)

LidarrDeletesAlbum(a) ==
    /\ known' = known \ {a}
    /\ files' = IF a \in known THEN files \ {a} ELSE files
    /\ UNCHANGED artist

LidarrDeletesArtist == artist' = "gone" /\ known' = {} /\ files' = files \ known
Untagged == artist' = (IF artist = "tagged" THEN "plain" ELSE artist) /\ UNCHANGED <<files, known, left>>
LidarrFails == Spend("lidarr") /\ UNCHANGED <<files, lidarrVars>>

-----------------------------------------------------------------------------
(* The library: a download by a user, scans, the integrity worker.          *)

\* The artist keeps its discovery tag, if it has it.
Download(a) ==
    /\ a \in Native \ files /\ Spend("downloads")
    /\ files' = files \cup {a}
    /\ IF a \in case.lidarr
       THEN known' = known \cup {a} /\ artist' = IF artist = "gone" THEN "plain" ELSE artist
       ELSE UNCHANGED lidarrVars
    /\ UNCHANGED <<dbVars, heart, sweepVars, history, case>>

\* isDiscoveryDownload, by the jobs of the batch or the rows, else by the artist's other albums.
InLibrary == \E b \in Albums : album[b] = "LIBRARY"
IsDiscovery(a) ==
    \/ a \in Picked
    \/ Rows \cap {"ACTIVE", "LIKED", "DELETED"} # {} /\ ~InLibrary
    \/ (\E b \in Albums : album[b] = "DISCOVER") /\ ~InLibrary

\* Only the file that creates the album knows that it is a discovery.
Own(a) ==
    /\ owned' = [owned EXCEPT ![a] = IF @ = "none" THEN "native_scan" ELSE @]
    /\ late' = IF OwnedLooked THEN late \cup {<<"library", a>>} ELSE late

Scan(a) ==
    /\ a \in files /\ album[a] = "absent"
    /\ album' = [album EXCEPT ![a] = IF IsDiscovery(a) THEN "DISCOVER" ELSE "LIBRARY"]
    /\ IF IsDiscovery(a) /\ a \in case.single THEN UNCHANGED <<owned, late>> ELSE Own(a)
    /\ UNCHANGED <<files, lidarrVars, row, heart, sweepVars, passed, case, left>>

ScanTouched(a) ==
    /\ a \in files /\ album[a] # "absent" /\ Spend("touches") /\ Own(a)
    /\ UNCHANGED <<files, lidarrVars, album, row, heart, sweepVars, passed, case>>

\* An artist without albums goes, and its OwnedAlbums with it.
Without(gone) ==
    LET rest == [a \in Albums |-> IF a \in gone THEN "absent" ELSE album[a]]
    IN  /\ album' = rest
        /\ owned' = IF \A a \in Albums : rest[a] = "absent" THEN [a \in Albums |-> "none"] ELSE owned

ScanMissing ==
    LET missing == {a \in Albums \ files : album[a] # "absent"}
    IN  missing # {} /\ Without(missing) /\ UNCHANGED <<files, lidarrVars, row, heart, sweepVars, history, case, left>>

OrphanedOwned(a) ==
    /\ album[a] = "absent" /\ owned[a] # "none"
    /\ owned' = [owned EXCEPT ![a] = "none"]
    /\ UNCHANGED <<files, lidarrVars, album, row, heart, sweepVars, history, case, left>>

\* buildFinalPlaylist and reconcileDiscoveryTracks: a row that exists keeps its status.
Publish(u, a) ==
    /\ a \in case.picks[u] /\ album[a] # "absent" /\ row[u][a] = "none"
    /\ SetRow(u, a, "ACTIVE")
    /\ UNCHANGED <<files, lidarrVars, album, owned, heart, sweepVars, history, case, left>>

-----------------------------------------------------------------------------
(* The integrity worker: DISCOVER albums without a row or an owner, then    *)
(* LIBRARY albums that should be DISCOVER, one by one; /fix-tagging repairs *)
(* all of an artist's at once.                                              *)

RepairVars == <<files, lidarrVars, row, heart, gen, clear, purge, late, case>>
Placed(location) == {a \in Albums : album[a] = location}
InUse(a) == \E u \in Users : row[u][a] \in {"ACTIVE"} \cup Kept

RepairStart ==
    /\ repair = NoRepair /\ Spend("repairs")
    /\ \/ repair' = [by |-> "worker", step |-> "rows", todo |-> Placed("DISCOVER"), at |-> {}]
       \/ Rows \ {"none", "old"} # {} /\ repair' = [by |-> "admin", step |-> "owned", todo |-> Albums, at |-> {}]
    /\ UNCHANGED <<album, owned, passed, RepairVars>>

OrphanRows ==
    /\ repair.step = "rows"
    /\ repair' = [repair EXCEPT !.step = "held", !.todo = {a \in @ : ~InUse(a)}]
    /\ UNCHANGED <<album, owned, passed, RepairVars, left>>

OrphanHeld ==
    /\ repair.step = "held"
    /\ repair' = [repair EXCEPT !.step = "orphans", !.todo = {a \in @ : owned[a] = "none"}]
    /\ UNCHANGED <<album, owned, passed, RepairVars, left>>

\* The delete of an album that is gone throws.
OrphanDelete(a) ==
    /\ repair.step = "orphans" /\ a \in repair.todo
    /\ IF album[a] = "absent" THEN repair' = NoRepair /\ Done("repair") /\ UNCHANGED <<album, owned>>
       ELSE repair' = [repair EXCEPT !.todo = @ \ {a}] /\ Without({a}) /\ UNCHANGED passed
    /\ UNCHANGED <<RepairVars, left>>

RepairNext(todo) == repair' = IF todo = {} THEN NoRepair ELSE [repair EXCEPT !.step = "owned", !.todo = todo, !.at = {}]

\* What a playlist refers to stays.
OrphansDone ==
    /\ repair.step = "orphans"
    /\ RepairNext(Placed("LIBRARY")) /\ Done("repair")
    /\ UNCHANGED <<album, owned, RepairVars, left>>

Unprotected(a) == owned[a] \notin {"native_scan", "discovery_liked"}

RepairOwned(S) ==
    /\ repair.step = "owned" /\ S \subseteq repair.todo
    /\ IF repair.by = "admin" THEN S = Albums ELSE Cardinality(S) = 1
    /\ IF \A a \in Albums : Unprotected(a) THEN repair' = [repair EXCEPT !.step = "kept", !.at = S]
       ELSE RepairNext(repair.todo \ S)
    /\ UNCHANGED <<album, owned, passed, RepairVars, left>>

NothingKept == TRUE   \* mutant
RepairKeeps == ~HasKept

RepairKept ==
    /\ repair.step = "kept"
    /\ IF RepairKeeps THEN repair' = [repair EXCEPT !.step = "count"] ELSE RepairNext(repair.todo \ repair.at)
    /\ UNCHANGED <<album, owned, passed, RepairVars, left>>

\* The worker leaves an album alone that a playlist refers to, the administrator an artist without mistakes.
RepairCount ==
    /\ repair.step = "count"
    /\ \/ /\ repair.by = "worker" \/ Placed("LIBRARY") # {}
          /\ repair' = [repair EXCEPT !.step = "write"] /\ UNCHANGED passed
       \/ /\ repair.by = "worker" \/ Placed("LIBRARY") = {}
          /\ RepairNext(repair.todo \ repair.at) /\ Done("repair")
    /\ UNCHANGED <<album, owned, RepairVars, left>>

\* The worker's update of an album that is gone throws.
RepairWrite ==
    /\ repair.step = "write" /\ Done("repair")
    /\ IF repair.by = "worker" /\ \E a \in repair.at : album[a] = "absent"
       THEN repair' = NoRepair /\ UNCHANGED album
       ELSE /\ repair' = [repair EXCEPT !.step = "disown"]
            /\ album' = [a \in Albums |-> IF a \in repair.at /\ album[a] = "LIBRARY" THEN "DISCOVER" ELSE album[a]]
    /\ UNCHANGED <<owned, RepairVars, left>>

RepairDisown ==
    /\ repair.step = "disown" /\ RepairNext(repair.todo \ repair.at)
    /\ LET spared == {"native_scan"} \cup (IF repair.by = "admin" THEN {"discovery_liked"} ELSE {})
       IN  owned' = [a \in Albums |-> IF a \in repair.at /\ owned[a] \notin spared THEN "none" ELSE owned[a]]
    /\ UNCHANGED <<album, passed, RepairVars, left>>

RepairStep ==
    \/ OrphanRows \/ OrphanHeld \/ (\E a \in Albums : OrphanDelete(a)) \/ OrphansDone
    \/ (\E S \in SUBSET Albums : RepairOwned(S)) \/ RepairKept \/ RepairCount \/ RepairWrite \/ RepairDisown

-----------------------------------------------------------------------------
(* Likes and unlikes: found, claimed, the tag removed, the album kept.      *)

Give(u, a) ==
    /\ heart[u] = Idle /\ Spend("hearts")
    /\ \/ row[u][a] = "ACTIVE" /\ heart' = [heart EXCEPT ![u] = [step |-> "like", album |-> a]]
       \/ row[u][a] = "LIKED"  /\ heart' = [heart EXCEPT ![u] = [step |-> "unlike", album |-> a]]
    /\ UNCHANGED <<files, lidarrVars, dbVars, sweepVars, history, case>>

Likable(u, a) == row[u][a] # "none"   \* mutant
Claimable(u, a) == row[u][a] = "ACTIVE"

Claim(u) ==
    LET a == heart[u].album IN
    /\ heart[u].step = "like"
    /\ IF Claimable(u, a)
       THEN /\ SetRow(u, a, "LIKED") /\ heart' = [heart EXCEPT ![u].step = "untag"]
            /\ late' = IF Doomed(u, a) THEN late \cup {<<u, a>>} ELSE late
            /\ Passes(a)
       ELSE heart' = [heart EXCEPT ![u] = Idle] /\ UNCHANGED <<row, history>>
    /\ UNCHANGED <<files, lidarrVars, album, owned, sweepVars, case, left>>

Untag(u) ==
    /\ heart[u].step = "untag" /\ heart' = [heart EXCEPT ![u].step = "keep"]
    /\ Untagged \/ LidarrFails
    /\ UNCHANGED <<dbVars, sweepVars, history, case>>

Keep(u) ==
    LET a == heart[u].album IN
    /\ heart[u].step = "keep" /\ heart' = [heart EXCEPT ![u] = Idle]
    /\ IF album[a] = "absent" THEN UNCHANGED <<album, owned>>
       ELSE album' = [album EXCEPT ![a] = "LIBRARY"] /\ owned' = [owned EXCEPT ![a] = "discovery_liked"]
    /\ UNCHANGED <<files, lidarrVars, row, sweepVars, history, case, left>>

\* The status is written whatever it has become; the OwnedAlbum of another user's like goes too.
Unlike(u) ==
    LET a == heart[u].album IN
    /\ heart[u].step = "unlike" /\ heart' = [heart EXCEPT ![u] = Idle]
    /\ IF row[u][a] = "old" THEN UNCHANGED <<row, owned>>
       ELSE /\ SetRow(u, a, "ACTIVE")
            /\ owned' = [owned EXCEPT ![a] = IF @ = "discovery_liked" THEN "none" ELSE @]
    /\ late' = late \ {<<u, a>>}
    /\ UNCHANGED <<files, lidarrVars, album, sweepVars, passed, case, left>>

-----------------------------------------------------------------------------
(* moveLikedAlbumToLibrary and deleteRejectedAlbum; a clear moves likewise. *)

MoveLiked(u, a) ==
    /\ IF album[a] = "absent" THEN UNCHANGED <<album, owned>>
       ELSE /\ album' = [album EXCEPT ![a] = "LIBRARY"]
            /\ owned' = [owned EXCEPT ![a] = IF @ = "none" THEN "discover_liked" ELSE @]
    /\ row' = IF row[u][a] = "old" THEN row ELSE [row EXCEPT ![u][a] = "MOVED"]
    /\ late' = IF row[u][a] = "LIKED" THEN late ELSE late \cup {<<u, a>>}
    /\ Passes(a)

DropDiscovery(a) == album' = [album EXCEPT ![a] = IF @ = "DISCOVER" THEN "absent" ELSE @]

GenStart(u) ==
    /\ gen = NoGen
    /\ gen' = [user |-> u, todo |-> [a \in Albums |-> IF row[u][a] = "LIKED" THEN "move"
                                                      ELSE IF row[u][a] = "ACTIVE" THEN "check" ELSE "out"]]
    /\ gen'.todo # NoGen.todo
    /\ UNCHANGED <<files, lidarrVars, dbVars, heart, clear, purge, repair, history, case, left>>

\* Done with a; the last one ends the sweep.
GenNext(a, stage) ==
    LET todo == [gen.todo EXCEPT ![a] = stage]
    IN  gen' = IF todo = NoGen.todo THEN NoGen ELSE [gen EXCEPT !.todo = todo]

GenMoves == \E a \in Albums : gen.todo[a] = "move"

GenMove(a) ==
    /\ gen.todo[a] = "move" /\ MoveLiked(gen.user, a) /\ GenNext(a, "out")
    /\ UNCHANGED <<files, lidarrVars, heart, clear, purge, repair, case, left>>

GenUnchecked(a) == gen.todo[a] = "check" /\ GenNext(a, IF a \in case.lidarr THEN "delete" ELSE "claim")   \* mutant
GenVerdict(a) ==
    /\ gen.todo[a] = "check"
    /\ GenNext(a, IF row[gen.user][a] # "ACTIVE" THEN "out" ELSE IF a \in case.lidarr THEN "delete" ELSE "claim")

GenCheck(a) ==
    /\ ~GenMoves /\ GenVerdict(a)
    /\ UNCHANGED <<files, lidarrVars, dbVars, heart, clear, purge, repair, history, case, left>>

GenDelete(a) ==
    /\ gen.todo[a] = "delete" /\ GenNext(a, "claim")
    /\ (LidarrDeletesAlbum(a) /\ UNCHANGED left) \/ LidarrFails
    /\ UNCHANGED <<dbVars, heart, clear, purge, repair, history, case>>

GenClaim(a) ==
    /\ gen.todo[a] = "claim" /\ GenNext(a, "out")
    /\ IF row[gen.user][a] = "ACTIVE" THEN SetRow(gen.user, a, "DELETED") /\ DropDiscovery(a)
       ELSE UNCHANGED <<row, album>>
    /\ UNCHANGED <<files, lidarrVars, owned, heart, clear, purge, repair, history, case, left>>

-----------------------------------------------------------------------------
(* DELETE /clear.  An artist goes from Lidarr unless the library or a kept  *)
(* album needs it; the sweep by tag at the end asks for kept albums only.   *)

ClearVars == <<heart, gen, purge, repair, case>>

ClearStart(u) ==
    /\ clear = NoClear /\ Spend("clears")
    /\ \E a \in Albums : row[u][a] \in {"ACTIVE", "LIKED"}
    /\ clear' = [NoClear EXCEPT !.user = u, !.phase = "moves",
                                !.moves = {a \in Albums : row[u][a] = "LIKED"},
                                !.kills = {a \in Albums : row[u][a] = "ACTIVE"}]
    /\ UNCHANGED <<files, lidarrVars, dbVars, history, ClearVars>>

ClearMove(a) ==
    /\ clear.phase = "moves" /\ a \in clear.moves
    /\ clear' = [clear EXCEPT !.moves = @ \ {a}] /\ MoveLiked(clear.user, a)
    /\ UNCHANGED <<files, lidarrVars, ClearVars, left>>

\* What is next for album a: Lidarr, if it was downloaded by it, else the rows.
At(a) == [clear EXCEPT !.at = a, !.step = IF a \in case.lidarr THEN "delete" ELSE "rows"]
Skipped(a) == [clear EXCEPT !.kills = @ \ {a}]

ClearClaim(a) ==
    /\ clear.phase \in {"moves", "kills"} /\ clear.moves = {} /\ clear.step = "next" /\ a \in clear.kills
    /\ IF row[clear.user][a] = "ACTIVE"
       THEN SetRow(clear.user, a, "DELETED") /\ clear' = [At(a) EXCEPT !.phase = "kills"]
       ELSE clear' = [Skipped(a) EXCEPT !.phase = "kills"] /\ UNCHANGED row
    /\ UNCHANGED <<files, lidarrVars, album, owned, history, ClearVars, left>>

\* The artist is looked at once, if Lidarr had the album and answers.
ClearDelete ==
    LET a == clear.at
        look == a \in known /\ ~clear.checked
    IN  /\ clear.step = "delete"
        /\ \/ /\ LidarrDeletesAlbum(a) /\ UNCHANGED left
              /\ clear' = [clear EXCEPT !.step = IF ~look THEN "rows" ELSE IF clear.phase = "extras" THEN "kept" ELSE "owned",
                                        !.checked = clear.checked \/ (look /\ clear.phase = "kills")]
           \/ LidarrFails /\ clear' = [clear EXCEPT !.step = "rows"]
        /\ UNCHANGED <<dbVars, history, ClearVars>>

\* The owned albums are looked for first, but for an extra album.
ClearOwned ==
    /\ clear.step = "owned"
    /\ clear' = [clear EXCEPT !.step = IF HasNative THEN "rows" ELSE IF clear.phase = "extras" THEN "artist" ELSE "kept"]
    /\ UNCHANGED <<files, lidarrVars, dbVars, history, ClearVars, left>>

ClearKept ==
    /\ clear.step = "kept"
    /\ clear' = [clear EXCEPT !.step = IF HasKept THEN (IF clear.phase = "tags" THEN "untag" ELSE "rows")
                                       ELSE IF clear.phase = "extras" THEN "owned" ELSE "artist"]
    /\ UNCHANGED <<files, lidarrVars, dbVars, history, ClearVars, left>>

ClearArtist ==
    /\ clear.step = "artist"
    /\ (LidarrDeletesArtist /\ UNCHANGED left) \/ LidarrFails
    /\ clear' = IF clear.phase = "tags" THEN NoClear ELSE [clear EXCEPT !.step = "rows"]
    /\ UNCHANGED <<dbVars, history, ClearVars>>

\* The rows of a rejected album; an extra one has none, and the failed artist neither.
ClearRows ==
    /\ clear.step = "rows"
    /\ IF clear.phase = "kills" THEN DropDiscovery(clear.at) ELSE UNCHANGED album
    /\ clear' = [clear EXCEPT !.step = "next", !.at = NoOne, !.kills = @ \ {clear.at}]
    /\ UNCHANGED <<files, lidarrVars, owned, row, history, ClearVars, left>>

\* Downloads that were never published, unless the user has kept something by their artist.
Extras(u) == IF \E a \in Albums : row[u][a] \in Kept THEN {} ELSE {a \in case.picks[u] : row[u][a] = "none"}

ClearExtras ==
    /\ clear.phase \in {"moves", "kills"} /\ clear.step = "next" /\ clear.moves = {} /\ clear.kills = {}
    /\ clear' = [clear EXCEPT !.phase = "extras", !.kills = Extras(clear.user)]
    /\ UNCHANGED <<files, lidarrVars, dbVars, history, ClearVars, left>>

ClearExtra(a) ==
    /\ clear.phase = "extras" /\ clear.step = "next" /\ a \in clear.kills
    /\ clear' = IF row[clear.user][a] \in Kept \/ a \notin case.lidarr THEN Skipped(a)
                ELSE [At(a) EXCEPT !.checked = FALSE]
    /\ UNCHANGED <<files, lidarrVars, dbVars, history, ClearVars, left>>

\* The user has a failed download by the artist, or has none.
ClearFailed ==
    /\ clear.phase = "extras" /\ clear.step = "next" /\ clear.kills = {}
    /\ \E step \in {"next", "owned"} : clear' = [clear EXCEPT !.phase = "failed", !.step = step]
    /\ UNCHANGED <<files, lidarrVars, dbVars, history, ClearVars, left>>

\* Orphaned albums; those without a row, then those without an owner.
ClearOrphans ==
    /\ clear.phase = "failed" /\ clear.step = "next"
    /\ clear' = [clear EXCEPT !.phase = "orphans", !.kills = Placed("DISCOVER")]
    /\ UNCHANGED <<files, lidarrVars, dbVars, history, ClearVars, left>>

ClearOrphanRows(a) ==
    /\ clear.phase = "orphans" /\ clear.step = "next" /\ a \in clear.kills
    /\ clear' = IF InUse(a) THEN Skipped(a) ELSE [clear EXCEPT !.at = a, !.step = "held"]
    /\ UNCHANGED <<files, lidarrVars, dbVars, history, ClearVars, left>>

Passed(a) == [Skipped(a) EXCEPT !.at = NoOne, !.step = "next"]

ClearOrphanHeld ==
    /\ clear.step = "held"
    /\ IF owned[clear.at] = "none" THEN clear' = [clear EXCEPT !.step = "orphan"] /\ UNCHANGED passed
       ELSE clear' = Passed(clear.at) /\ Done("clear")
    /\ UNCHANGED <<files, lidarrVars, dbVars, late, ClearVars, left>>

\* The delete of an album that is gone throws, which ends the clear.
ClearOrphan ==
    /\ clear.step = "orphan" /\ Done("clear")
    /\ IF album[clear.at] = "absent" THEN clear' = NoClear /\ UNCHANGED <<album, owned>>
       ELSE clear' = Passed(clear.at) /\ Without({clear.at})
    /\ UNCHANGED <<files, lidarrVars, row, late, ClearVars, left>>

\* The user's old rows, and the artists with the tag.
ClearTags ==
    /\ clear.phase = "orphans" /\ clear.step = "next" /\ clear.kills = {}
    /\ \/ Spend("old") /\ row' = [row EXCEPT ![clear.user] =
                                    [a \in Albums |-> IF @[a] \in {"DELETED", "MOVED"} THEN "old" ELSE @[a]]]
       \/ UNCHANGED <<row, left>>
    /\ clear' = [clear EXCEPT !.phase = "tags"]
    /\ UNCHANGED <<files, lidarrVars, album, owned, history, ClearVars>>

ClearByTag ==
    /\ clear.phase = "tags" /\ clear.step = "next"
    /\ clear' = IF artist = "tagged" THEN [clear EXCEPT !.step = "kept"] ELSE NoClear
    /\ UNCHANGED <<files, lidarrVars, dbVars, history, ClearVars, left>>

ClearUntag ==
    /\ clear.step = "untag" /\ clear' = NoClear
    /\ Untagged \/ LidarrFails
    /\ UNCHANGED <<dbVars, history, ClearVars>>

-----------------------------------------------------------------------------
(* cleanupFailedArtists, after a batch without a success of this artist, by *)
(* the tag; and the administrator's /cleanup-lidarr, by what is owned.      *)

PurgeStart ==
    /\ purge = "off" /\ Spend("purges")
    /\ \/ artist = "tagged" /\ purge' = "tagged"
       \/ artist # "gone"   /\ purge' = "owned"
    /\ UNCHANGED <<files, lidarrVars, dbVars, heart, gen, clear, repair, history, case>>

\* The batch keeps an artist with ACTIVE rows of another week than its own.
PurgeAsk ==
    /\ \/ purge = "owned"  /\ purge' = IF HasNative THEN "off" ELSE "kept"
       \/ purge = "kept"   /\ purge' = IF HasKept THEN "off" ELSE "active"
       \/ purge = "active" /\ purge' = IF "ACTIVE" \in Rows THEN "off" ELSE "admin"
       \/ purge = "tagged" /\ purge' = IF HasKept THEN "untag" ELSE "other"
       \/ purge = "other"  /\ (purge' = "batch" \/ ("ACTIVE" \in Rows /\ purge' = "off"))
    /\ UNCHANGED <<files, lidarrVars, dbVars, heart, gen, clear, repair, history, case, left>>

PurgeUntag ==
    /\ purge = "untag" /\ purge' = "off"
    /\ Untagged \/ LidarrFails
    /\ UNCHANGED <<dbVars, heart, gen, clear, repair, history, case>>

PurgeArtist ==
    /\ purge \in {"admin", "batch"} /\ purge' = "off"
    /\ (LidarrDeletesArtist /\ UNCHANGED left) \/ LidarrFails
    /\ UNCHANGED <<dbVars, heart, gen, clear, repair, history, case>>

-----------------------------------------------------------------------------

\* The requests under way are lost; a generation is repeated from its beginning.
Crash ==
    /\ Spend("crash")
    /\ heart' = [u \in Users |-> Idle] /\ gen' = NoGen /\ clear' = NoClear /\ purge' = "off"
    /\ repair' = NoRepair /\ passed' = {}
    /\ UNCHANGED <<files, lidarrVars, dbVars, late, case>>

HeartStep(u) == Claim(u) \/ Untag(u) \/ Keep(u) \/ Unlike(u)
GenStep(a)   == GenMove(a) \/ GenCheck(a) \/ GenDelete(a) \/ GenClaim(a)
LibraryStep(a) == Download(a) \/ Scan(a) \/ ScanTouched(a) \/ OrphanedOwned(a)
ClearStep ==
    \/ \E a \in Albums : ClearMove(a) \/ ClearClaim(a) \/ ClearExtra(a) \/ ClearOrphanRows(a)
    \/ ClearDelete \/ ClearOwned \/ ClearKept \/ ClearArtist \/ ClearRows \/ ClearExtras \/ ClearFailed
    \/ ClearOrphans \/ ClearOrphanHeld \/ ClearOrphan \/ ClearTags \/ ClearByTag \/ ClearUntag

Next ==
    \/ \E u \in Users : HeartStep(u) \/ GenStart(u) \/ ClearStart(u)
    \/ \E u \in Users, a \in Albums : Publish(u, a) \/ Give(u, a)
    \/ \E a \in Albums : LibraryStep(a) \/ GenStep(a)
    \/ ScanMissing \/ RepairStart \/ RepairStep
    \/ ClearStep \/ PurgeStart \/ PurgeAsk \/ PurgeUntag \/ PurgeArtist \/ Crash

Spec == Init /\ [][Next]_vars

-----------------------------------------------------------------------------

\* A liked album loses its files only to a deletion that had looked for what is liked before the like, or
\* that is made for another user.
LikedKeepsFiles ==
    [][\A u \in Users, a \in Albums :
         row[u][a] \in Kept /\ a \in files \ files' /\ <<u, a>> \notin late
         => \/ gen.user # u /\ gen.todo[a] = "delete"
            \/ clear.user # u /\ clear.at = a /\ clear.step = "delete"]_vars

\* An album of the user's own library loses its files only to the two sweeps that go by the tag.
LibraryKeepsFiles ==
    [][\A a \in Native :
         owned[a] = "native_scan" /\ a \in files \ files' /\ <<"library", a>> \notin late
         => clear.phase = "tags" \/ purge = "batch"]_vars

\* A kept album that has its files stays in the library, whatever others reject or repair, unless somebody
\* who repairs or cleans up had looked for what is kept before it was.
KeptStaysInLibrary ==
    [][\A a \in Albums :
         /\ album[a] = "LIBRARY" /\ a \in files /\ (\E u \in Users : row[u][a] \in Kept)
         /\ \A w \in {"clear", "repair"} : <<w, a>> \notin passed
         => album'[a] = "LIBRARY"]_vars

\* What was kept is never rejected, and what was rejected never liked.
NoVerdictOverturned ==
    [][\A u \in Users, a \in Albums :
         /\ row[u][a] \in Kept => row'[u][a] # "DELETED"
         /\ row[u][a] = "DELETED" => row'[u][a] # "LIKED"]_vars
=============================================================================
