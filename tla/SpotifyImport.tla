---------------------------- MODULE SpotifyImport ----------------------------
(***************************************************************************)
(* The life of one playlist import (services/spotifyImport.ts, its queue   *)
(* worker and scan worker, jobs/queueCleaner.ts, staleJobCleanup.ts).      *)
(*                                                                         *)
(* A request saves the job and queues it.  The import worker fetches the   *)
(* playlist (quick import), acquires the albums and polls until their      *)
(* downloads are settled; then a library scan is queued, whose worker      *)
(* builds the playlist.  Webhooks and the queue cleaner check as well, the *)
(* user may cancel, Redis may refuse or lose its copies, the backend may   *)
(* restart.                                                                *)
(*                                                                         *)
(* Everyone works on a copy of the job and saves all of it, into its row   *)
(* and into Redis.  A task is at a label; an action is the code from one   *)
(* await of a query, of Redis or of a queue to the next.                   *)
(***************************************************************************)
EXTENDS Naturals, FiniteSets

CONSTANTS
    Albums,
    Unknown,       \* those without a name, acquired track by track without a DownloadJob
    Visitors,      \* webhooks, the queue cleaner, the stale job cleanup, requests for the job
    Concurrency,   \* the setting soulseekConcurrentDownloads
    MaxScans,      \* bound: scans queued at once
    Scenarios      \* the request, and how often what may happen: see Bounds

\* Visits, failing tasks, cancellations, writes Redis refuses, losses of Redis, restarts.
Bounds == {"visits", "fails", "cancel", "refuse", "redis", "crash"}
Requests == [quick : BOOLEAN, matched : BOOLEAN, albums : SUBSET Albums]
Tasks == {"importer", "scanner", "user"} \cup Visitors

ASSUME AlbumsAssumption == IsFiniteSet(Albums) /\ Unknown \subseteq Albums
ASSUME VisitorsAssumption == Visitors \cap {"importer", "scanner", "user"} = {}
ASSUME ConcurrencyAssumption == Concurrency \in Nat \ {0} /\ MaxScans \in Nat \ {0}
ASSUME ScenarioAssumption == Scenarios \subseteq [left : [Bounds -> Nat], request : Requests]

VARIABLES
    db, cache,       \* the SpotifyImportJob, and its copy in Redis
    preview,         \* the preview is in Redis
    queued,          \* the BullMQ job of the import
    pc, io, copy,    \* of every task: its label, how far its read or save there is, its copy of the job
    mem,             \* the job object of the request and of the import worker
    aborted,         \* its AbortController has been called
    stage,           \* of every album: its place in the import worker's queue
    download,        \* its DownloadJob
    scans,           \* library scans queued for this import
    playlists,       \* playlists created
    request, left,   \* what was asked for; what the scenario still allows
    broken, stale, crossed, missed, empty, cancelled   \* history:

\* broken     what broke off: the import worker by a restart, a playlist that was made before its job
\*            was saved, another task by a failure or a restart
\* stale      a job was saved after a playlist that it does not know of, or Redis refused to learn of one
\* crossed    a job was changed while somebody else had a copy of it to save
\* missed     Redis lost or refused something, or the row was read in its place
\* empty      a playlist was built from a job without its tracks
\* cancelled  how the last cancellation ended: see Quiet

jobVars     == <<db, cache, preview>>
taskVars    == <<pc, io, copy>>
albumVars   == <<stage, download>>
ruleVars    == <<request, left>>
historyVars == <<broken, stale, crossed, missed, empty, cancelled>>
vars == <<jobVars, queued, taskVars, mem, aborted, albumVars, scans, playlists, ruleVars, historyVars>>

Gone == [st |-> "gone", made |-> FALSE, tracks |-> FALSE, total |-> FALSE]
Jobs == [st : {"gone", "pending", "fetching", "downloading", "scanning", "creating_playlist", "completed", "failed"},
         made   : BOOLEAN,     \* createdPlaylistId
         tracks : BOOLEAN,     \* pendingTracks are there
         total  : BOOLEAN]     \* albumsTotal is that of the request

\* Labels with a read of the job, with a save of it, and all labels of a task.
Reads  == {"load", "reread", "check", "look", "scan", "failed", "asked", "view"}
OwnJob == {"request", "fetching", "named", "tracked", "begin", "building", "built"}
Writes == OwnJob \cup {"void", "wait", "hand", "fail"}
Checking == {"check", "count", "expire", "queue", "void", "wait", "hand"}
Building == {"building", "create", "built"}
Cleaning == {"drop", "delete", "del", "delPreview"}
Labels(t) ==
    CASE t = "importer" -> {"off", "request", "offer", "enqueue", "load", "unpack", "fetching", "reread", "named", "tracked",
                            "keep", "begin", "albums", "poll", "look", "failed", "fail"} \cup Checking \cup Building \cup Cleaning
      [] t = "scanner"  -> {"idle", "scan"} \cup Building
      [] t = "user"     -> {"idle", "asked"} \cup Cleaning
      [] OTHER          -> {"idle", "view", "overdue", "late"} \cup Checking

TypeOK ==
    /\ {db, cache, mem} \subseteq Jobs /\ copy \in [Tasks -> Jobs]
    /\ {preview, aborted, stale, crossed, missed, empty} \subseteq BOOLEAN /\ broken \subseteq {"import", "made", "task"}
    /\ queued \in {"new", "lost", "waiting", "active", "ending", "done"}
    /\ pc \in [Tasks -> UNION {Labels(t) : t \in Tasks}] /\ \A t \in Tasks : pc[t] \in Labels(t)
    /\ io \in [Tasks -> {"none", "find", "fill", "setex"}]
    /\ \A t \in Tasks : (io[t] = "setex" => pc[t] \in Writes) /\ (io[t] \in {"find", "fill"} => pc[t] \in Reads)
    /\ stage \in [Albums -> {"none", "todo", "running", "answered", "stored"}]
    /\ download \in [Albums -> {"none", "open", "late", "completed", "failed"}]
    /\ scans \in Nat /\ playlists \in Nat /\ cancelled \in {"no", "quiet", "busy"}
    /\ request \in Requests /\ left \in [Bounds -> Nat]

Rest(t) == IF t = "importer" THEN "off" ELSE "idle"
NoStage == [a \in Albums |-> "none"]

Init ==
    /\ \E s \in Scenarios : left = s.left /\ request = s.request
    /\ db = Gone /\ cache = Gone /\ preview = FALSE /\ queued = "new"
    /\ pc = [t \in Tasks |-> IF t = "importer" THEN "request" ELSE "idle"]
    /\ io = [t \in Tasks |-> "none"] /\ copy = [t \in Tasks |-> Gone]
    /\ mem = [st |-> "pending", made |-> FALSE, tracks |-> ~request.quick, total |-> ~request.quick]
    /\ aborted = FALSE /\ stage = NoStage /\ download = [a \in Albums |-> "none"]
    /\ scans = 0 /\ playlists = 0
    /\ broken = {} /\ stale = FALSE /\ crossed = FALSE /\ missed = FALSE /\ empty = FALSE /\ cancelled = "no"

Spend(bound) == left[bound] > 0 /\ left' = [left EXCEPT ![bound] = @ - 1]

At(t, label) == pc[t] = label /\ io[t] = "none"

With(t, job, label) ==
    /\ pc' = [pc EXCEPT ![t] = label] /\ io' = [io EXCEPT ![t] = "none"]
    /\ copy' = [copy EXCEPT ![t] = job]
Goto(t, label) == With(t, Gone, label)
Keep(t, label) == With(t, copy[t], label)

Wait(t, state) == io' = [io EXCEPT ![t] = state] /\ UNCHANGED pc

-----------------------------------------------------------------------------
(* The import worker: what it does with the job it has read, and after a save. *)

Return == Goto("importer", "off") /\ queued' = "done"
\* BullMQ calls markJobFailed.
Throw == Goto("importer", "failed") /\ queued' = "done"
Proceed(label) == Goto("importer", label) /\ UNCHANGED queued

\* processImport, from its job object on.
Process(job) ==
    /\ aborted' = FALSE
    /\ IF request.albums # {} THEN mem' = [job EXCEPT !.st = "downloading"] /\ Proceed("begin")
       ELSE IF job.made THEN mem' = job /\ Return
       ELSE mem' = [job EXCEPT !.st = "creating_playlist"] /\ Proceed("building")

Loaded(job) ==
    IF job = Gone THEN Throw /\ UNCHANGED mem
    ELSE IF request.quick THEN mem' = [job EXCEPT !.st = "fetching"] /\ Proceed("fetching")
    ELSE mem' = job /\ Proceed("unpack")

NotAsked(job) == FALSE   \* mutant
CancelledMeanwhile(job) == job = Gone

\* The playlist of a quick import has been fetched, and the job read again.
Reread(job) ==
    IF CancelledMeanwhile(job) THEN Return /\ UNCHANGED mem
    ELSE mem' = [mem EXCEPT !.st = "downloading"] /\ Proceed("named")

OldTracks(job) == [job EXCEPT !.total = TRUE]   \* mutant
WithTracks(job) == [job EXCEPT !.tracks = TRUE, !.total = TRUE]
Named == mem' = WithTracks(mem) /\ Proceed("tracked")

Begun ==
    IF aborted THEN Return /\ UNCHANGED stage
    ELSE /\ Proceed("albums")
         /\ stage' = [a \in Albums |-> IF a \in request.albums THEN "todo" ELSE "none"]

HandedOn == {"gone", "completed", "failed", "scanning", "creating_playlist"}
Looked(job) == IF job.st \in HandedOn THEN Return ELSE Proceed("poll")

\* markJobFailed
Failed(job) ==
    /\ IF job = Gone THEN Goto("importer", "off")
       ELSE IF job.tracks /\ request.matched THEN With("importer", [job EXCEPT !.st = "failed"], "fail")
       ELSE Goto("importer", "drop")
    /\ UNCHANGED queued

-----------------------------------------------------------------------------
(* The others, in the same way.                                             *)

\* checkImportCompletion, by the importer or a visitor.
Leave(t) ==
    IF t # "importer" THEN Goto(t, Rest(t)) /\ UNCHANGED queued
    ELSE IF queued = "ending" THEN Return ELSE Proceed("look")
PastDownload == {"gone", "completed", "failed", "scanning", "creating_playlist", "fetching"}
Checked(t, job) == IF job.st \in PastDownload THEN Leave(t) ELSE With(t, job, "count") /\ UNCHANGED queued

OverUnseen(job) == job.st = "gone"   \* mutant
Over(job) == job.st \in {"gone", "completed", "failed"} \/ job.made

\* The scan has ended, and buildPlaylistAfterScan has read the job.
Scanned(job) ==
    IF Over(job) THEN Goto("scanner", "idle")
    ELSE With("scanner", [job EXCEPT !.st = "creating_playlist"], "building")

\* cancelJob: the AbortController ends an importer that waits for its albums; the tracks of an
\* unknown album answer "Import cancelled", which is counted and saved.
Registered == {"begin", "albums", "poll", "check", "count", "expire", "queue", "void", "wait", "hand", "look",
               "building", "create", "built"}

Abort ==
    LET ends == pc["importer"] = "albums" IN
    /\ aborted' = (aborted \/ pc["importer"] \in Registered)
    /\ pc' = [pc EXCEPT !["user"] = "drop", !["importer"] = IF ends THEN "off" ELSE @]
    /\ io' = [io EXCEPT !["user"] = "none"]
    /\ queued' = IF ends THEN "done" ELSE queued
    /\ stage' = [a \in Albums |-> IF stage[a] = "todo" \/ (stage[a] = "running" /\ a \notin Unknown)
                                  THEN "none" ELSE stage[a]]
    /\ UNCHANGED copy

Asked(job) ==
    IF job.st \notin {"gone", "completed", "failed"} THEN Abort
    ELSE /\ Goto("user", IF job.st = "failed" THEN "drop" ELSE "idle")
         /\ UNCHANGED <<queued, aborted, stage>>

Answered(t, job) ==
    \/ /\ pc[t] = "load" /\ Loaded(job) /\ UNCHANGED <<aborted, stage>>
    \/ /\ pc[t] = "reread" /\ Reread(job) /\ UNCHANGED <<aborted, stage>>
    \/ /\ pc[t] = "look" /\ Looked(job) /\ UNCHANGED <<mem, aborted, stage>>
    \/ /\ pc[t] = "failed" /\ Failed(job) /\ UNCHANGED <<mem, aborted, stage>>
    \/ /\ pc[t] = "asked" /\ Asked(job) /\ UNCHANGED mem
    \/ /\ pc[t] = "check" /\ Checked(t, job) /\ UNCHANGED <<mem, aborted, stage>>
    \/ /\ \/ pc[t] = "scan" /\ Scanned(job)
          \/ pc[t] = "view" /\ Goto(t, Rest(t))
       /\ UNCHANGED <<queued, mem, aborted, stage>>

Saved(t) ==
    \/ /\ pc[t] = "named" /\ Named /\ UNCHANGED stage
    \/ /\ pc[t] = "begin" /\ Begun /\ UNCHANGED mem
    \/ /\ pc[t] = "built" /\ UNCHANGED <<mem, stage>>
       /\ Goto(t, Rest(t)) /\ queued' = IF t = "importer" THEN "done" ELSE queued
    \/ /\ \/ pc[t] = "request"  /\ Goto(t, IF request.quick THEN "enqueue" ELSE "offer")
          \/ pc[t] = "fetching" /\ Goto(t, "reread")
          \/ pc[t] = "tracked"  /\ Goto(t, "keep")
          \/ pc[t] = "building" /\ Keep(t, "create")
          \/ pc[t] = "fail"     /\ Goto(t, Rest(t))
       /\ UNCHANGED <<queued, mem, stage>>
    \/ pc[t] \in {"void", "wait", "hand"} /\ Leave(t) /\ UNCHANGED <<mem, stage>>

-----------------------------------------------------------------------------
(* getImportJob: Redis, or else the row, which is then put into Redis.      *)

answerVars == <<pc, io, copy, queued, mem, aborted, stage>>
factVars   == <<preview, download, scans, playlists, request>>

Get(t) ==
    /\ pc[t] \in Reads /\ io[t] = "none"
    /\ IF cache = Gone THEN Wait(t, "find") /\ UNCHANGED <<copy, queued, mem, aborted, stage>>
       ELSE Answered(t, cache)
    /\ UNCHANGED <<db, cache, left, factVars, historyVars>>

\* Redis refuses the read.
Miss(t) ==
    /\ pc[t] \in Reads /\ io[t] = "none" /\ cache # Gone /\ Spend("refuse") /\ Wait(t, "find")
    /\ missed' = TRUE
    /\ UNCHANGED <<db, cache, copy, queued, mem, aborted, stage, factVars, broken, stale, crossed, empty, cancelled>>

Find(t) ==
    /\ io[t] = "find"
    /\ IF db = Gone THEN Answered(t, Gone)
       ELSE /\ Wait(t, "fill") /\ copy' = [copy EXCEPT ![t] = db]
            /\ UNCHANGED <<queued, mem, aborted, stage>>
    /\ missed' = (missed \/ db # Gone)
    /\ UNCHANGED <<db, cache, left, factVars, broken, stale, crossed, empty, cancelled>>

Forgets(job) == playlists > 0 /\ ~job.made

Holds(t) == pc[t] \in Writes \cup {"count", "expire", "queue", "create"} \/ io[t] = "fill"
Crosses(t) == crossed' = (crossed \/ (\E u \in Tasks \ {t} : Holds(u)) \/ (t # "importer" /\ stage # NoStage))

\* Redis may refuse a setex: the caller goes on.
Setex(t, job) ==
    /\ Crosses(t)
    /\ \/ /\ cache' = job /\ stale' = (stale \/ Forgets(job))
          /\ UNCHANGED <<left, missed>>
       \/ /\ Spend("refuse") /\ stale' = (stale \/ job.made) /\ missed' = TRUE
          /\ UNCHANGED cache

Fill(t) ==
    /\ io[t] = "fill" /\ Setex(t, copy[t]) /\ Answered(t, copy[t])
    /\ UNCHANGED <<db, factVars, broken, empty, cancelled>>

-----------------------------------------------------------------------------
(* saveImportJob: the row, then Redis.                                      *)

\* The update of an existing row leaves its pendingTracks alone.
Upsert(t, job) ==
    /\ Crosses(t)
    /\ db' = IF db = Gone THEN job ELSE [job EXCEPT !.tracks = db.tracks]
    /\ stale' = (stale \/ Forgets(job))

Obj(t) == IF t = "importer" /\ pc[t] \in OwnJob THEN mem ELSE copy[t]

Store(t) ==
    /\ pc[t] \in Writes /\ io[t] = "none" /\ Upsert(t, Obj(t)) /\ Wait(t, "setex")
    /\ UNCHANGED <<cache, left, copy, queued, mem, aborted, stage, factVars, broken, missed, empty, cancelled>>

Share(t) ==
    /\ io[t] = "setex" /\ Setex(t, Obj(t)) /\ Saved(t)
    /\ UNCHANGED <<db, aborted, factVars, broken, empty, cancelled>>

Accesses(t) == Get(t) \/ Miss(t) \/ Find(t) \/ Fill(t) \/ Store(t) \/ Share(t)

-----------------------------------------------------------------------------
(* The previews and the queues.                                             *)

\* Redis may refuse the preview.
Offer ==
    \/ preview' = TRUE /\ UNCHANGED left
    \/ Spend("refuse") /\ UNCHANGED preview

OfferPreview ==
    /\ At("importer", "offer") /\ Offer /\ Goto("importer", "enqueue")
    /\ UNCHANGED <<db, cache, queued, mem, aborted, albumVars, scans, playlists, request, historyVars>>

Enqueue ==
    /\ At("importer", "enqueue") /\ Goto("importer", "off") /\ queued' = "waiting"
    /\ UNCHANGED <<jobVars, mem, aborted, albumVars, scans, playlists, ruleVars, historyVars>>

Begin ==
    /\ queued = "waiting" /\ queued' = "active" /\ Goto("importer", "load")
    /\ UNCHANGED <<jobVars, mem, aborted, albumVars, scans, playlists, ruleVars, historyVars>>

Unpack ==
    /\ At("importer", "unpack")
    /\ IF preview THEN Process(mem) ELSE Throw /\ UNCHANGED <<mem, aborted>>
    /\ UNCHANGED <<jobVars, albumVars, scans, playlists, ruleVars, historyVars>>

KeepPreview ==
    /\ At("importer", "keep") /\ Offer /\ Process(mem)
    /\ UNCHANGED <<db, cache, albumVars, scans, playlists, request, historyVars>>

-----------------------------------------------------------------------------
(* The albums.                                                              *)

Free == Cardinality({a \in Albums : stage[a] \in {"running", "answered", "stored"}}) < Concurrency

\* An album gets a DownloadJob, unless it is unknown or no source will have it.
Acquire(a) ==
    /\ stage[a] = "todo" /\ Free /\ stage' = [stage EXCEPT ![a] = "running"]
    /\ \/ a \notin Unknown /\ download[a] \notin {"open", "late"} /\ download' = [download EXCEPT ![a] = "open"]
       \/ UNCHANGED download
    /\ UNCHANGED <<jobVars, queued, taskVars, mem, aborted, scans, playlists, ruleVars, historyVars>>

\* Its acquisition returns: Soulseek is done, Lidarr has begun, or it took five minutes.
Answer(a) ==
    /\ stage[a] = "running" /\ stage' = [stage EXCEPT ![a] = "answered"]
    /\ UNCHANGED <<jobVars, queued, taskVars, mem, aborted, download, scans, playlists, ruleVars, historyVars>>

\* The job object is saved, which counts the album.
StoreAlbum(a) ==
    /\ stage[a] = "answered" /\ stage' = [stage EXCEPT ![a] = "stored"] /\ Upsert("importer", mem)
    /\ UNCHANGED <<cache, preview, queued, taskVars, mem, aborted, download, scans, playlists, ruleVars, broken, missed, empty, cancelled>>

ShareAlbum(a) ==
    /\ stage[a] = "stored" /\ stage' = [stage EXCEPT ![a] = "none"] /\ Setex("importer", mem)
    /\ UNCHANGED <<db, preview, queued, taskVars, mem, aborted, download, scans, playlists, request, broken, empty, cancelled>>

Album(a) == Acquire(a) \/ Answer(a) \/ StoreAlbum(a) \/ ShareAlbum(a)

Joined ==
    /\ At("importer", "albums") /\ stage = NoStage /\ Goto("importer", "poll")
    /\ UNCHANGED <<jobVars, queued, mem, aborted, albumVars, scans, playlists, ruleVars, historyVars>>

\* The importer asks every 15 seconds, until the import has been handed on.
Poll ==
    /\ At("importer", "poll")
    /\ IF aborted THEN Return ELSE Goto("importer", "check") /\ UNCHANGED queued
    /\ UNCHANGED <<jobVars, mem, aborted, albumVars, scans, playlists, ruleVars, historyVars>>

\* After thirty minutes it checks for the last time; all its downloads are older than ten then.
GiveUp ==
    /\ At("importer", "poll") /\ ~aborted /\ \A a \in Albums : download[a] # "open"
    /\ Goto("importer", "check") /\ queued' = "ending"
    /\ UNCHANGED <<jobVars, mem, aborted, albumVars, scans, playlists, ruleVars, historyVars>>

\* A download ends, whoever carries it out; or ten minutes have passed.
Settle(a) ==
    /\ download[a] \in {"open", "late"}
    /\ \E s \in {"completed", "failed"} : download' = [download EXCEPT ![a] = s]
    /\ UNCHANGED <<jobVars, queued, taskVars, mem, aborted, stage, scans, playlists, ruleVars, historyVars>>

TenMinutes(a) ==
    /\ download[a] = "open" /\ download' = [download EXCEPT ![a] = "late"]
    /\ UNCHANGED <<jobVars, queued, taskVars, mem, aborted, stage, scans, playlists, ruleVars, historyVars>>
-----------------------------------------------------------------------------
(* checkImportCompletion, with a job that is not past the downloads.        *)

Waiting == \E a \in Albums : download[a] \in {"open", "late"}
NeverLate == FALSE   \* mutant
Late == \E a \in Albums : download[a] = "late"
Barren(job) == job.total /\ request.albums # {} /\ \A a \in Albums : download[a] = "none"

Count(t) ==
    /\ At(t, "count")
    /\ IF Barren(copy[t]) THEN With(t, [copy[t] EXCEPT !.st = "failed"], "void")
       ELSE Keep(t, IF ~Waiting THEN "queue" ELSE IF Late THEN "expire" ELSE "wait")
    /\ UNCHANGED <<jobVars, queued, mem, aborted, albumVars, scans, playlists, ruleVars, historyVars>>

Expire(t) ==
    /\ At(t, "expire") /\ Keep(t, "queue")
    /\ download' = [a \in Albums |-> IF download[a] \in {"open", "late"} THEN "failed" ELSE download[a]]
    /\ UNCHANGED <<jobVars, queued, mem, aborted, stage, scans, playlists, ruleVars, historyVars>>

MoreScans == scans' = IF scans < MaxScans THEN scans + 1 ELSE scans

QueueScan(t) ==
    /\ At(t, "queue") /\ MoreScans /\ With(t, [copy[t] EXCEPT !.st = "scanning"], "hand")
    /\ UNCHANGED <<jobVars, queued, mem, aborted, albumVars, playlists, ruleVars, historyVars>>

Check(t) == Count(t) \/ Expire(t) \/ QueueScan(t)

-----------------------------------------------------------------------------
(* The scan worker, and the playlist.                                       *)

TakeScan ==
    /\ At("scanner", "idle") /\ scans > 0
    /\ scans' = scans - 1 /\ Goto("scanner", "scan")
    /\ UNCHANGED <<jobVars, queued, mem, aborted, albumVars, playlists, ruleVars, historyVars>>

Built(job) == [job EXCEPT !.made = TRUE, !.st = "completed"]

\* The playlist is created; the job is saved when its missing tracks have been noted down.
Create(t) ==
    /\ At(t, "create") /\ playlists' = playlists + 1
    /\ IF t = "importer"
       THEN mem' = Built(mem) /\ empty' = (empty \/ ~mem.tracks) /\ Goto(t, "built")
       ELSE With(t, Built(copy[t]), "built") /\ empty' = (empty \/ ~copy[t].tracks) /\ UNCHANGED mem
    /\ UNCHANGED <<jobVars, queued, aborted, albumVars, scans, ruleVars, broken, stale, crossed, missed, cancelled>>

-----------------------------------------------------------------------------
(* cleanupImportArtifacts, by markJobFailed or cancelJob.                   *)

Drop(t) ==
    /\ At(t, "drop") /\ Goto(t, "delete") /\ download' = [a \in Albums |-> "none"]
    /\ UNCHANGED <<jobVars, queued, mem, aborted, stage, scans, playlists, ruleVars, historyVars>>

Delete(t) ==
    /\ At(t, "delete") /\ Goto(t, "del") /\ db' = Gone /\ Crosses(t)
    /\ UNCHANGED <<cache, preview, queued, mem, aborted, albumVars, scans, playlists, ruleVars, broken, stale, missed, empty, cancelled>>

\* Redis may refuse this too, and then keeps the preview as well.
Del(t) ==
    /\ At(t, "del") /\ Crosses(t)
    /\ \/ cache' = Gone /\ Goto(t, "delPreview") /\ UNCHANGED <<left, missed>>
       \/ Spend("refuse") /\ missed' = TRUE /\ Goto(t, Rest(t)) /\ UNCHANGED cache
    /\ UNCHANGED <<db, preview, queued, mem, aborted, albumVars, scans, playlists, request, broken, stale, empty, cancelled>>

\* There is nothing of the import, and nobody has a copy of the job to save.
Harmless(t) ==
    \/ pc[t] \in {"off", "idle", "poll", "overdue", "late"}
    \/ pc[t] \in Reads /\ io[t] \in {"none", "find"}
Quiet == db = Gone /\ cache = Gone /\ playlists = 0 /\ stage = NoStage /\ \A t \in Tasks \ {"user"} : Harmless(t)

DelPreview(t) ==
    /\ At(t, "delPreview") /\ preview' = FALSE /\ Goto(t, Rest(t))
    /\ cancelled' = IF t # "user" THEN cancelled ELSE IF Quiet THEN "quiet" ELSE "busy"
    /\ UNCHANGED <<db, cache, queued, mem, aborted, albumVars, scans, playlists, ruleVars, broken, stale, crossed, missed, empty>>

Clean(t) == Drop(t) \/ Delete(t) \/ Del(t) \/ DelPreview(t)

Cancel ==
    /\ At("user", "idle") /\ queued # "new" /\ Spend("cancel") /\ Goto("user", "asked")
    /\ UNCHANGED <<jobVars, queued, mem, aborted, albumVars, scans, playlists, request, historyVars>>

-----------------------------------------------------------------------------
(* Webhooks, the queue cleaner, the stale job cleanup, requests for the job.*)

\* A settled download, or thirty minutes without an update, which the importer's polls bring.
MayCheck ==
    \/ \E a \in Albums : download[a] \in {"completed", "failed"}
    \/ db.st = "downloading" /\ pc["importer"] \in {"off", "albums"}

Visit(v) ==
    /\ At(v, "idle") /\ queued # "new" /\ Spend("visits")
    /\ \/ Goto(v, "view")
       \/ MayCheck /\ Goto(v, "check")
       \/ db.st = "scanning" /\ Goto(v, "overdue")
       \/ db.st \in {"pending", "downloading", "scanning", "creating_playlist"} /\ Goto(v, "late")
    /\ UNCHANGED <<jobVars, queued, mem, aborted, albumVars, scans, playlists, request, historyVars>>

\* Ten minutes in "scanning": another scan.
Rescan(v) ==
    /\ At(v, "overdue") /\ MoreScans /\ Goto(v, "idle")
    /\ UNCHANGED <<jobVars, queued, mem, aborted, albumVars, playlists, ruleVars, historyVars>>

\* Thirty minutes in it, or a user's clean-up after two hours: the row alone.
TimeOut(v) ==
    /\ At(v, "late") /\ Goto(v, "idle")
    /\ db' = IF db = Gone THEN Gone ELSE [db EXCEPT !.st = "failed"]
    /\ Crosses(v)
    /\ UNCHANGED <<cache, preview, queued, mem, aborted, albumVars, scans, playlists, ruleVars, broken, stale, missed, empty, cancelled>>

-----------------------------------------------------------------------------
(* Failures.                                                                *)

\* A query or a fetch fails: the import worker throws, everyone else only logs it.
Breaks(t, kind) == pc[t] # Rest(t) /\ broken' = broken \cup (IF pc[t] = "built" THEN {"made"} ELSE kind)

FailImport ==
    /\ pc["importer"] \in Registered \cup {"load", "unpack", "fetching", "reread", "named", "tracked", "keep"}
    /\ pc["importer"] # "albums" /\ Spend("fails") /\ Breaks("importer", {})
    /\ IF aborted /\ pc["importer"] \in Registered THEN Return ELSE Throw
    /\ UNCHANGED <<jobVars, mem, aborted, albumVars, scans, playlists, request, stale, crossed, missed, empty, cancelled>>

FailRequest ==
    /\ pc["importer"] \in {"request", "offer", "enqueue"} /\ Spend("fails") /\ Breaks("importer", {"task"})
    /\ Goto("importer", "off") /\ queued' = "lost"
    /\ UNCHANGED <<jobVars, mem, aborted, albumVars, scans, playlists, request, stale, crossed, missed, empty, cancelled>>

FailTask(t) ==
    /\ t # "importer" \/ pc[t] \in {"failed", "fail", "drop", "delete", "del", "delPreview"}
    /\ Spend("fails") /\ Breaks(t, IF t \in Visitors THEN {} ELSE {"task"}) /\ Goto(t, Rest(t))
    /\ UNCHANGED <<jobVars, queued, mem, aborted, albumVars, scans, playlists, request, stale, crossed, missed, empty, cancelled>>

LoseRedis ==
    /\ cache # Gone /\ Spend("redis")
    /\ cache' = Gone /\ preview' = FALSE /\ missed' = TRUE
    /\ UNCHANGED <<db, queued, taskVars, mem, aborted, albumVars, scans, playlists, request, broken, stale, crossed, empty, cancelled>>

\* BullMQ queues the jobs of a dead worker once more, an import too.
Crash ==
    /\ Spend("crash")
    /\ queued' = CASE queued \in {"active", "ending"} -> "waiting" [] queued = "new" -> "lost" [] OTHER -> queued
    /\ pc' = [t \in Tasks |-> Rest(t)] /\ io' = [t \in Tasks |-> "none"] /\ copy' = [t \in Tasks |-> Gone]
    /\ aborted' = FALSE /\ stage' = NoStage
    /\ IF pc["scanner"] = "idle" THEN UNCHANGED scans ELSE MoreScans
    /\ broken' = broken \cup (IF pc["importer"] # "off" THEN {"import"} ELSE {})
                      \cup (IF pc["scanner"] = "built" THEN {"made"} ELSE {})
                      \cup (IF pc["user"] # "idle" THEN {"task"} ELSE {})
    /\ UNCHANGED <<jobVars, mem, download, playlists, request, stale, crossed, missed, empty, cancelled>>

-----------------------------------------------------------------------------
Imports ==
    \/ OfferPreview \/ Enqueue \/ Begin \/ Unpack \/ KeepPreview \/ Joined \/ Poll \/ GiveUp
    \/ Check("importer") \/ Create("importer") \/ Clean("importer") \/ Accesses("importer")
Scans   == TakeScan \/ Create("scanner") \/ Accesses("scanner")
Cancels == Clean("user") \/ Accesses("user")
Visits(v) == Check(v) \/ Rescan(v) \/ TimeOut(v) \/ Accesses(v)

Next ==
    \/ Imports \/ Scans \/ Cancels \/ Cancel
    \/ \E v \in Visitors : Visit(v) \/ Visits(v)
    \/ \E a \in Albums : Album(a) \/ Settle(a) \/ TenMinutes(a)
    \/ FailImport \/ FailRequest \/ \E t \in Tasks : FailTask(t)
    \/ LoseRedis \/ Crash

Spec == Init /\ [][Next]_vars

\* What has begun goes on, and time passes, thirty minutes of polling too.  Nobody has to come by:
\* the queue cleaner stops without Lidarr and when it finds no active download three times.
FairSpec ==
    /\ Spec
    /\ WF_vars(Imports) /\ WF_vars(Scans) /\ WF_vars(Cancels) /\ SF_vars(GiveUp)
    /\ \A v \in Visitors : WF_vars(Visits(v))
    /\ \A a \in Albums : WF_vars(Album(a)) /\ WF_vars(TenMinutes(a))

-----------------------------------------------------------------------------
\* An import makes one playlist, in whatever order its tasks read and save the job, unless a restart
\* broke off the import worker, a playlist was made and its job not saved, or the playlist was
\* forgotten: a save that began before it came after it, or Redis refused the one that tells of it.
OnePlaylist == playlists > 1 => stale \/ broken \cap {"import", "made"} # {}

\* A playlist is built from the tracks of the import, unless the import is a quick one, whose tracks
\* Redis alone has, and Redis lost or refused something, or a task was broken off.
NotBuiltFromNothing == empty => request.quick /\ (missed \/ broken # {})

\* Rows, copies and tasks are well formed, and a playlist is built from the import's tracks.
ImportConsistent == TypeOK /\ NotBuiltFromNothing

\* A cancellation that ends when nobody has a copy of the job to save has the last word: no task that
\* goes on, reads or starts later brings the row or its copy back, and no playlist comes.
CancelSticks == cancelled = "quiet" => db = Gone /\ cache = Gone /\ playlists = 0

\* An import is settled in the end, or has come to rest because a task was broken off, saves crossed
\* or forgot the playlist, or a cancellation met somebody with a copy to save: then it takes the
\* cleaner, or the user, to end it.
Settled == db.st \in {"gone", "completed", "failed"}
AtRest  == scans = 0 /\ stage = NoStage /\ \A t \in Tasks : pc[t] = Rest(t)
Hangs   == AtRest /\ (broken # {} \/ crossed \/ stale \/ cancelled = "busy")
SettlesInTheEnd == []<>(queued = "new" \/ Settled \/ Hangs)
=============================================================================
