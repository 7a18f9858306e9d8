---------------------------- MODULE DownloadJobs ----------------------------
(***************************************************************************)
(* The rows of DownloadJob that Lidarr serves, and everyone who writes     *)
(* them (services/simpleDownloadManager.ts unless said otherwise):         *)
(*   startDownload         the request of each job, which waits for Lidarr *)
(*   the three webhooks    one serializable transaction each               *)
(*   Cleaner               jobs/queueCleaner.ts, every 30 s while active   *)
(*   Cycle                 workers/index.ts, every two minutes, with a     *)
(*                         snapshot of Lidarr                              *)
(*   Scanner               workers/processors/scanProcessor.ts, after a    *)
(*                         scan of the library                             *)
(* Only the webhooks' transactions and two updates of the scanner look at  *)
(* a row and write it in one step.  The others hold rows they read before. *)
(*                                                                         *)
(* An album stands for the MBID and the names a job was made with.  What   *)
(* compares names - a title within a subject, within the title of a        *)
(* release or within another title, a fuzzy match, an edition stripped, a  *)
(* title without its artist - or trusts the MBID of what Lidarr found by   *)
(* such a match may take one album for another: LooksLike says which.      *)
(***************************************************************************)
EXTENDS Naturals

CONSTANTS
    Jobs,           \* row identifiers, as many as there will ever be rows
    Albums,
    LooksLike,      \* <<a, b>>: somewhere album a may be taken for the album b of a job
    Downloads,      \* downloadIds of Lidarr
    AlbumOf,        \* the album of each
    Cleaner, Cycle, Scanner,
    None,
    MaxMissing,     \* checks a download may be missing from the queue, 3 in syncWithLidarrQueue
    Scenarios       \* the situations to start from

Kinds    == {"library", "batch", "tracking"}
Sweepers == {Cleaner, Cycle, Scanner}
Tasks    == Jobs \cup Sweepers

\* own, batch: the album of each job somebody asked for, for the library or as part of a
\* discovery batch or an import; done: that of each job completed before; lost: the
\* download, since failed, that a job of a batch is tied to; offers: those Lidarr may find;
\* cleaner, scanner: whether they run; faults, crashes (bounds): failing calls to Lidarr
\* and process restarts.
ASSUME ScenarioAssumption ==
    \A z \in Scenarios :
        /\ DOMAIN z.own \subseteq Jobs /\ DOMAIN z.batch \subseteq Jobs \ DOMAIN z.own
        /\ DOMAIN z.done \subseteq Jobs \ (DOMAIN z.own \cup DOMAIN z.batch)
        /\ \A f \in {z.own, z.batch, z.done} : \A j \in DOMAIN f : f[j] \in Albums
        /\ DOMAIN z.lost \subseteq DOMAIN z.batch
        /\ \A j \in DOMAIN z.lost : z.lost[j] \in Downloads /\ AlbumOf[z.lost[j]] = z.batch[j]
        /\ z.offers \subseteq Downloads
        /\ z.cleaner \in BOOLEAN /\ z.scanner \in BOOLEAN
        /\ z.faults \in Nat /\ z.crashes \in Nat
ASSUME LidarrAssumption == AlbumOf \in [Downloads -> Albums] /\ LooksLike \subseteq Albums \X Albums
ASSUME NoneAssumption == None \notin Downloads \cup Albums \cup Jobs
ASSUME TaskAssumption ==
    /\ Cleaner # Cycle /\ Cleaner # Scanner /\ Cycle # Scanner
    /\ Sweepers \cap Jobs = {}
ASSUME MissingAssumption == MaxMissing \in Nat

VARIABLES
    job,        \* the rows
    lidarr,     \* what Lidarr does with each download
    files,      \* albums Lidarr has imported
    pc,         \* where the request of each job and the sweepers are
    pass,       \* which part of its cycle each sweeper is in
    held,       \* rows each task has read and not yet dealt with
    at,         \* the stale job a sweeper has in hand
    child,      \* the replacement a task has started and waits for
    snap,       \* the snapshot of Lidarr the Cycle works with
    notes,      \* jobs completed whose notification is to be noted in the metadata read before
    faults, crashes     \* of them left

taskVars == <<pc, pass, held, at, child>>
extVars  == <<lidarr, files>>
sideVars == <<notes, faults, crashes>>
vars == <<job, extVars, taskVars, snap, sideVars>>

Statuses == {"absent", "pending", "processing", "completed", "failed", "exhausted"}
Passes   == {"stale", "lidarr", "local", "sync", "stuck", "history", "title"}

\* status, lidarrRef; of the metadata: downloadId, queueSyncMissingCount, and whether
\* startedAt (or the row's creation) lies further back than the timeout.
Row == [album: Albums \cup {None}, kind: Kinds, status: Statuses,
        ref: Downloads \cup {None}, gid: Downloads \cup {None}, missing: 0..MaxMissing, old: BOOLEAN]

Fresh(a, k, st) == [album |-> a, kind |-> k, status |-> st, ref |-> None, gid |-> None,
                    missing |-> 0, old |-> FALSE]
Absent == Fresh(None, "library", "absent")

Open == {"pending", "processing"}

\* An update that spreads the metadata it read before over the row's.  A row that settles
\* keeps its startedAt, which nobody reads again.
WithMetadata(r, m) ==
    [r EXCEPT !.gid = m.gid, !.missing = m.missing, !.old = m.old /\ r.status \in Open]

Grab(r, d) == [r EXCEPT !.status = "processing", !.ref = d, !.gid = d]

PassesFor(a, b) == a = b \/ <<a, b>> \in LooksLike

\* Exact matches are found, look-alikes perhaps.
Between(S, U) == {S \cup X : X \in SUBSET (U \ S)}

Nothing == [j \in {} |-> Absent]

TypeOK ==
    /\ job \in [Jobs -> Row]
    /\ lidarr \in [Downloads -> {"never", "none", "queued", "gone", "imported"}]
    /\ files \subseteq Albums
    /\ pc \in [Tasks -> {"add", "record", "replace", "await", "fail", "over", "refused",
                         "tell", "off", "rest", "read", "pending", "judge", "finish", "sync", "retry"}]
    /\ pass \in [Sweepers -> Passes]
    /\ \A t \in Tasks : DOMAIN held[t] \subseteq Jobs /\ \A j \in DOMAIN held[t] : held[t][j] \in Row
    /\ at \in [Sweepers -> Jobs \cup {None}]
    /\ child \in [Tasks -> Jobs \cup {None}]
    /\ snap \in [known: BOOLEAN, queue: SUBSET Downloads, files: SUBSET Albums]
    /\ notes \subseteq Jobs \X Row
    /\ faults \in Nat /\ crashes \in Nat

NoSnapshot == [known |-> FALSE, queue |-> {}, files |-> {}]

Start(z) ==
    /\ job = [j \in Jobs |-> IF j \in DOMAIN z.own THEN Fresh(z.own[j], "library", "pending")
                             ELSE IF j \in DOMAIN z.lost
                               THEN Grab(Fresh(z.batch[j], "batch", "pending"), z.lost[j])
                             ELSE IF j \in DOMAIN z.batch THEN Fresh(z.batch[j], "batch", "pending")
                             ELSE IF j \in DOMAIN z.done THEN Fresh(z.done[j], "library", "completed")
                             ELSE Absent]
    /\ files = {z.done[j] : j \in DOMAIN z.done}
    /\ lidarr = [d \in Downloads |-> IF \E j \in DOMAIN z.lost : z.lost[j] = d THEN "gone"
                                     ELSE IF d \in z.offers THEN "none" ELSE "never"]
    /\ pc = [t \in Tasks |-> IF t \in (DOMAIN z.own \cup DOMAIN z.batch) \ DOMAIN z.lost THEN "add"
                             ELSE IF t \in Jobs THEN "over"
                             ELSE IF (t = Cleaner /\ ~z.cleaner) \/ (t = Scanner /\ ~z.scanner) THEN "off"
                             ELSE "rest"]
    /\ faults = z.faults /\ crashes = z.crashes

\* The first part of a sweeper's round.
First(s) == IF s = Scanner THEN "title" ELSE "stale"

Init ==
    /\ \E z \in Scenarios : Start(z)
    /\ pass = [s \in Sweepers |-> First(s)]
    /\ held = [t \in Tasks |-> Nothing]
    /\ at = [s \in Sweepers |-> None]
    /\ child = [t \in Tasks |-> None]
    /\ snap = NoSnapshot /\ notes = {}

With(st) == {j \in Jobs : job[j].status = st}
AnyButDone == With("pending") \cup With("processing") \cup With("failed")   \* mutant
Active == With("pending") \cup With("processing")
SameAlbum(j) == {k \in Jobs : job[k].album = job[j].album}

Goto(t, l) == pc' = [pc EXCEPT ![t] = l]
Write(j, r) == job' = [job EXCEPT ![j] = r]
WriteAll(S, st) ==
    job' = [j \in Jobs |-> IF j \in S THEN [job[j] EXCEPT !.status = st, !.old = FALSE] ELSE job[j]]
Without(t, j) == [held EXCEPT ![t] = [k \in DOMAIN held[t] \ {j} |-> held[t][k]]]

\* The parts of a sweeper's cycle in their order; the Cycle's snapshot goes with it.
After(s) ==
    CASE s = Cycle   -> [stale |-> "lidarr", lidarr |-> "local", local |-> "sync", sync |-> "rest"][pass[s]]
      [] s = Cleaner -> [stale |-> "local", local |-> "stuck", stuck |-> "history",
                         history |-> "rest"][pass[s]]
      [] s = Scanner -> [title |-> "local", local |-> "rest"][pass[s]]

NextPass(s) ==
    IF After(s) # "rest" THEN /\ pass' = [pass EXCEPT ![s] = After(s)]
                             /\ Goto(s, "read") /\ UNCHANGED snap
    ELSE /\ pass' = [pass EXCEPT ![s] = First(s)]
         /\ Goto(s, "rest")
         /\ IF s = Cycle THEN snap' = NoSnapshot ELSE UNCHANGED snap

\* A sweeper turns to the next of the rows it holds.
NextRow(s, j, l) ==
    /\ held' = Without(s, j)
    /\ IF DOMAIN held[s] = {j} THEN NextPass(s) ELSE Goto(s, l) /\ UNCHANGED <<pass, snap>>

\* A request returns l.
Leave(t, l) ==
    IF t \in Jobs THEN Goto(t, l) /\ held' = Without(t, t) /\ UNCHANGED <<pass, at, snap>>
    ELSE NextRow(t, at[t], "judge") /\ at' = [at EXCEPT ![t] = None]

\* The job a request is for, or that a sweeper has in hand.
On(t) == IF t \in Jobs THEN t ELSE at[t]

-----------------------------------------------------------------------------
(* startDownload of job j.                                                  *)

Metadata(j) == [Absent EXCEPT !.gid = job[j].gid, !.missing = job[j].missing]

\* The row is read once Lidarr has answered; of it only the metadata is written again.
Added(j) ==
    /\ pc[j] = "add"
    /\ held' = [held EXCEPT ![j] = [k \in {j} |-> Metadata(j)]]
    /\ Goto(j, "record")
    /\ UNCHANGED <<job, extVars, pass, at, child, snap, sideVars>>

Record(j) ==
    /\ pc[j] = "record"
    /\ Write(j, [WithMetadata(job[j], held[j][j]) EXCEPT !.status = "processing", !.old = FALSE])
    /\ Leave(j, "over")
    /\ UNCHANGED <<extVars, child, sideVars>>

\* Without a release, or without the album, a library download turns to another album of
\* the artist if his MBID is known.
AddFails(j) ==
    /\ pc[j] = "add"
    /\ held' = [held EXCEPT ![j] = [k \in {j} |-> Metadata(j)]]
    /\ \/ job[j].kind # "batch" /\ Goto(j, "replace")
       \/ Goto(j, "fail")
    /\ UNCHANGED <<job, extVars, pass, at, child, snap, sideVars>>

-----------------------------------------------------------------------------
(* tryNextAlbumFromArtist and markJobExhausted, for a request or a sweeper. *)

Tried(j) ==
    {job[j].album} \cup {job[k].album : k \in With("processing") \cup With("completed")
                                              \cup With("failed") \cup With("exhausted")}

\* The update to "exhausted", then the insert of a row for an album Lidarr knows.
Replace(t) ==
    /\ pc[t] = "replace"
    /\ \E k \in With("absent"), a \in Albums \ Tried(On(t)) :
        /\ job' = [job EXCEPT ![On(t)].status = "exhausted", ![On(t)].old = FALSE,
                              ![k] = Fresh(a, "library", "pending")]
        /\ child' = [child EXCEPT ![t] = k]
        /\ pc' = [pc EXCEPT ![t] = "await", ![k] = "add"]
    /\ UNCHANGED <<extVars, pass, held, at, snap, sideVars>>

\* The caller asks only whether a replacement was started.
Replaced(t) ==
    /\ pc[t] = "await"
    /\ child' = [child EXCEPT ![t] = None]
    /\ \/ pc[child[t]] = "refused" /\ Goto(t, "fail") /\ UNCHANGED <<pass, held, at, snap>>
       \/ pc[child[t]] = "over" /\ Leave(t, "over")
    /\ UNCHANGED <<job, extVars, sideVars>>

Closed(t, st) ==
    [WithMetadata(job[On(t)], held[t][On(t)]) EXCEPT !.status = st, !.old = FALSE]

AnyCompleted(j) == With("completed") \ {j}   \* mutant
CompletedDuplicates(j) == (With("completed") \cap SameAlbum(j)) \ {j}

\* markJobExhausted, where Lidarr knows no further album or a call rejects: findFirst may
\* return another completed job than the duplicate.  Both callers go on to write "failed".
Exhausted(t) ==
    /\ pc[t] = "replace"
    /\ \/ CompletedDuplicates(On(t)) # {} /\ Write(On(t), Closed(t, "completed")) /\ Goto(t, "fail")
       \/ WriteAll({On(t)}, "failed") /\ Goto(t, "tell")
    /\ UNCHANGED <<extVars, pass, held, at, child, snap, sideVars>>

\* The policy may have the user told, which is noted in the metadata.
Told(t) ==
    /\ pc[t] = "tell"
    /\ \/ Write(On(t), WithMetadata(job[On(t)], held[t][On(t)]))
       \/ UNCHANGED job
    /\ Goto(t, "fail")
    /\ UNCHANGED <<extVars, pass, held, at, child, snap, sideVars>>

\* No replacement: the row is failed, whatever it is by now.
Fail(t) ==
    /\ pc[t] = "fail"
    /\ IF t \in Jobs THEN Write(t, Closed(t, "failed")) ELSE WriteAll({at[t]}, "failed")
    /\ Leave(t, "refused")
    /\ UNCHANGED <<extVars, child, sideVars>>

-----------------------------------------------------------------------------
(* Webhooks.  Lidarr repeats them and they come late or never: each may be  *)
(* handled at any time after its cause, any number of times.  The order in  *)
(* which the strategies look for a job depends on the MBIDs and Lidarr ids  *)
(* in the rows: any of the jobs a strategy accepts may come first.          *)

Unassigned(d) == {j \in Active : job[j].ref = None /\ PassesFor(AlbumOf[d], job[j].album)}

\* onDownloadGrabbed
Grabbed(d) ==
    /\ lidarr[d] \in {"queued", "gone", "imported"}
    /\ \A j \in Jobs : job[j].gid # d
    /\ \/ \E j \in Unassigned(d) :
            Write(j, Grab(job[j], d))
       \/ /\ \A j \in Active \cup With("completed") : job[j].album # AlbumOf[d]
          /\ Active \cup With("completed") # {}     \* a job of the artist names the user
          /\ \E k \in With("absent") :
                Write(k, Grab(Fresh(AlbumOf[d], "tracking", "pending"), d))
    /\ UNCHANGED <<extVars, taskVars, snap, sideVars>>

\* onDownloadComplete, and the jobs with the same names with it.  (The previousDownloadIds
\* it also looks at are those of downloads that failed for good.)
Complete(d) ==
    /\ lidarr[d] = "imported"
    /\ \A j \in With("completed") : job[j].gid # d
    /\ \E j \in Active :
        /\ \/ job[j].ref = d
           \/ PassesFor(AlbumOf[d], job[j].album) /\ \A k \in Active : job[k].ref # d
        /\ WriteAll({j} \cup (Active \cap SameAlbum(j)), "completed")
        /\ notes' = notes \cup {<<j, job[j]>>}
    /\ UNCHANGED <<extVars, taskVars, snap, faults, crashes>>

\* Once the policy has been asked and the user told, the metadata are written by id, as
\* they were before the completion.
Notified ==
    /\ \E n \in notes :
        /\ \/ Write(n[1], WithMetadata(job[n[1]], n[2]))
           \/ UNCHANGED job
        /\ notes' = notes \ {n}
    /\ UNCHANGED <<extVars, taskVars, snap, faults, crashes>>

\* onImportFailed: an event without an MBID leaves an empty condition in the OR, which any
\* processing job may meet.  Without a job, or within 30 seconds of its last failure, no
\* row changes.  The download leaves Lidarr's queue.
ImportFailed(d) ==
    /\ lidarr[d] = "gone"
    /\ lidarr' = [lidarr EXCEPT ![d] = "gone"]
    /\ \/ \E j \in With("processing") : Write(j, [job[j] EXCEPT !.ref = None])
       \/ UNCHANGED job
    /\ UNCHANGED <<files, taskVars, snap, sideVars>>

-----------------------------------------------------------------------------
(* markStaleJobsAsFailed                                                    *)

\* The Cleaner passes no snapshot.
Snapshot(s) == IF s = Cycle THEN snap ELSE NoSnapshot

StalePending == {j \in With("pending") : job[j].old}
Overdue(s) == {j \in With("processing") : job[j].old /\ (job[j].ref = None \/ Snapshot(s).known)}

\* What the rows held are needed for: some passes keep no more than the ids.
Rows(S) == [j \in S |-> job[j]]
Ids(S)  == [j \in S |-> Absent]

Hold(s, f, l) ==
    IF DOMAIN f = {} THEN NextPass(s) /\ UNCHANGED held
    ELSE held' = [held EXCEPT ![s] = f] /\ Goto(s, l) /\ UNCHANGED <<pass, snap>>

StaleRead(s) ==
    /\ \/ pc[s] = "read"
       \/ s = Cleaner /\ pc[s] = "rest"
    /\ pass[s] = "stale"
    /\ IF StalePending = {} THEN Hold(s, Rows(Overdue(s)), "judge")
       ELSE Hold(s, Rows(StalePending \cup Overdue(s)), "pending")
    /\ UNCHANGED <<job, extVars, at, child, sideVars>>

\* One updateMany by id for the pending jobs.
FailPending(s) ==
    /\ pc[s] = "pending"
    /\ LET old == {j \in DOMAIN held[s] : held[s][j].status = "pending"}
           rest == DOMAIN held[s] \ old
       IN /\ WriteAll(old, "failed")
          /\ held' = [held EXCEPT ![s] = [j \in rest |-> held[s][j]]]
          /\ IF rest = {} THEN NextPass(s) ELSE Goto(s, "judge") /\ UNCHANGED <<pass, snap>>
    /\ UNCHANGED <<extVars, at, child, sideVars>>

\* evaluateNotification(timeout) tells a job of its own to wait until 30 minutes after a
\* startedAt that each extension sets anew; whether they are over depends on when the
\* sweeps came.
AllRetried(j) == job[j].status = "processing"   \* mutant
InRetryWindow(j) == job[j].kind # "batch" /\ job[j].status = "processing"

Extend(s, j) ==
    /\ held[s][j].ref \in Snapshot(s).queue \/ InRetryWindow(j)
    /\ Write(j, [WithMetadata(job[j], held[s][j]) EXCEPT !.old = FALSE])
    /\ NextRow(s, j, "judge")
    /\ UNCHANGED <<lidarr, at>>

Merge(s, j) ==
    /\ CompletedDuplicates(j) # {}
    /\ Write(j, [WithMetadata(job[j], held[s][j]) EXCEPT !.status = "completed", !.old = FALSE])
    /\ NextRow(s, j, "judge")
    /\ UNCHANGED <<lidarr, at>>

\* The release is blocklisted; a fallback needs the artist's MBID, which a row made for a
\* download nobody asked for lacks.
TimeOut(s, j) ==
    /\ lidarr' = [d \in Downloads |-> IF d = held[s][j].ref /\ lidarr[d] = "queued"
                                      THEN "gone" ELSE lidarr[d]]
    /\ at' = [at EXCEPT ![s] = j]
    /\ \/ held[s][j].kind = "library" /\ Goto(s, "replace")
       \/ Goto(s, "fail")
    /\ UNCHANGED <<job, pass, held, snap>>

Judge(s) ==
    /\ pc[s] = "judge"
    /\ \E j \in DOMAIN held[s] :
        \/ Extend(s, j)
        \/ held[s][j].ref \notin Snapshot(s).queue /\ (Merge(s, j) \/ TimeOut(s, j))
    /\ UNCHANGED <<files, child, sideVars>>

-----------------------------------------------------------------------------
(* The other passes.                                                        *)

Grabs(s) ==   \* mutant
    {{j \in With("processing") : job[j].ref # None /\ AlbumOf[job[j].ref] \in files}}

Known   == {j \in With("processing") : snap.known}
Held(F) == {j \in Jobs : \E a \in F : PassesFor(a, job[j].album)}

\* Snapshots, lists and rows are read at different times; a job found then is completed by
\* id.  The local library may lag behind the files.
Matches(s) ==
    CASE pass[s] = "lidarr"  -> Between({j \in Known : job[j].album \in snap.files},
                                        Known \cap Held(snap.files))
      [] pass[s] = "local"   -> SUBSET (Active \cap Held(files))
      [] pass[s] = "history" -> {{j \in Active : \E d \in D : job[j].ref = d \/ job[j].album = AlbumOf[d]} :
                                    D \in SUBSET {d \in Downloads : lidarr[d] = "imported"}}

\* reconcileWithLidarr, reconcileWithLocalLibrary and its like after a scan, and the
\* cleaner's completed downloads
Find(s) ==
    /\ pc[s] = "read" /\ pass[s] \in {"lidarr", "local", "history"}
    /\ \E S \in Matches(s) : Hold(s, Ids(S), "finish")
    /\ UNCHANGED <<job, extVars, at, child, sideVars>>

Finish(s) ==
    /\ pc[s] = "finish"
    /\ WriteAll(DOMAIN held[s], "completed")
    /\ held' = [held EXCEPT ![s] = Nothing]
    /\ NextPass(s)
    /\ UNCHANGED <<extVars, at, child, sideVars>>

\* The cleaner removes stuck downloads from Lidarr's queue and counts a retry for the jobs
\* their titles seem to be for.
Stuck(s) ==
    /\ pc[s] = "read" /\ pass[s] = "stuck"
    /\ \/ NextPass(s) /\ UNCHANGED <<lidarr, held>>
       \/ \E d \in Downloads :
            /\ lidarr[d] = "queued"
            /\ lidarr' = [lidarr EXCEPT ![d] = "gone"]
            /\ \E S \in SUBSET (With("processing") \cap Held({AlbumOf[d]})) :
                /\ held' = [held EXCEPT ![s] = Rows(S)]
                /\ Goto(s, IF S = {} THEN "read" ELSE "retry")
            /\ UNCHANGED <<pass, snap>>
    /\ UNCHANGED <<job, files, at, child, sideVars>>

Retry(s) ==
    /\ pc[s] = "retry"
    /\ \E j \in DOMAIN held[s] :
        /\ Write(j, WithMetadata(job[j], held[s][j]))
        /\ held' = Without(s, j)
        /\ Goto(s, IF DOMAIN held[s] = {j} THEN "read" ELSE "retry")
    /\ UNCHANGED <<extVars, pass, at, child, snap, sideVars>>

\* The scan of what a Download event announced completes the jobs of its album, or, where
\* there are none, those with its title; the event gives no artist, and for the download's
\* id that of a job.  Other scans only go on to the reconciliation.
Scanned ==
    /\ pc[Scanner] = "rest"
    /\ \/ \E a \in files :
            LET S == {j \in Active : job[j].album = a}
            IN /\ WriteAll(S, "completed")
               /\ pass' = [pass EXCEPT ![Scanner] = IF S = {} THEN "title" ELSE "local"]
       \/ UNCHANGED job /\ pass' = [pass EXCEPT ![Scanner] = "local"]
    /\ Goto(Scanner, "read")
    /\ UNCHANGED <<extVars, held, at, child, snap, sideVars>>

ScannedTitle ==
    /\ pc[Scanner] = "read" /\ pass[Scanner] = "title"
    /\ \E a \in files : \E S \in SUBSET (Active \cap Held({a})) : WriteAll(S, "completed")
    /\ NextPass(Scanner)
    /\ UNCHANGED <<extVars, held, at, child, sideVars>>

\* syncWithLidarrQueue
SyncRead(s) ==
    /\ pc[s] = "read" /\ pass[s] = "sync"
    /\ Hold(s, Rows({j \in Known : job[j].ref # None}), "sync")
    /\ UNCHANGED <<job, extVars, at, child, sideVars>>

\* Queued releases whose titles may hold that of the album.
Replacements(r) == {d \in snap.queue : PassesFor(AlbumOf[d], r.album)}

\* The row after a check that held r: found, missing for a while, replaced, there after
\* all, or given up.
Synced(now, r) ==
    LET seen == WithMetadata(now, r)
        done == [seen EXCEPT !.status = "completed", !.missing = 0, !.old = FALSE]
        lost == [seen EXCEPT !.status = "failed", !.ref = None, !.missing = MaxMissing, !.old = FALSE]
    IN
    IF r.ref \in snap.queue THEN {IF r.missing > 0 THEN [seen EXCEPT !.missing = 0] ELSE now}
    ELSE IF r.missing + 1 < MaxMissing THEN {[seen EXCEPT !.missing = @ + 1]}
    ELSE {[seen EXCEPT !.ref = d, !.missing = 0] : d \in Replacements(r)}
         \cup (IF r.album \in snap.files THEN {done}
               ELSE IF \E a \in snap.files : PassesFor(a, r.album) THEN {done, lost} ELSE {lost})

Sync(s) ==
    /\ pc[s] = "sync"
    /\ \E j \in DOMAIN held[s] :
        /\ \E r \in Synced(job[j], held[s][j]) : Write(j, r)
        /\ NextRow(s, j, "sync")
    /\ UNCHANGED <<extVars, at, child, sideVars>>

-----------------------------------------------------------------------------
\* getReconciliationSnapshot gives no more than an empty map for each list Lidarr did not
\* return; after 30 seconds the Cycle goes on without a snapshot.
BeginCycle ==
    /\ pc[Cycle] = "rest"
    /\ LET whole == [known |-> TRUE, queue |-> {d \in Downloads : lidarr[d] = "queued"}, files |-> files]
           partial == {[whole EXCEPT !.queue = {}], [whole EXCEPT !.files = {}], NoSnapshot}
       IN \/ snap' = whole /\ UNCHANGED faults
          \/ faults > 0 /\ faults' = faults - 1 /\ snap' \in partial
    /\ Goto(Cycle, "read")
    /\ UNCHANGED <<job, extVars, pass, held, at, child, notes, crashes>>

LidarrGrabs(d) == lidarr[d] = "none" /\ lidarr' = [lidarr EXCEPT ![d] = "queued"] /\ UNCHANGED files

LidarrEnds(d) ==
    /\ lidarr[d] = "queued"
    /\ \/ lidarr' = [lidarr EXCEPT ![d] = "gone"] /\ UNCHANGED files
       \/ /\ lidarr' = [lidarr EXCEPT ![d] = "imported"]
          /\ files' = files \cup {AlbumOf[d]}

Lidarr ==
    /\ \E d \in Downloads : LidarrGrabs(d) \/ LidarrEnds(d)
    /\ UNCHANGED <<job, taskVars, snap, sideVars>>

\* Time passes for a job that is waiting.
Tick(j) ==
    /\ j \in Active
    /\ Write(j, [job[j] EXCEPT !.old = TRUE])
    /\ UNCHANGED <<extVars, taskVars, snap, sideVars>>

\* The backend restarts: requests and sweeps are gone.
Crash ==
    /\ crashes > 0
    /\ crashes' = crashes - 1
    /\ pc' = [t \in Tasks |-> IF t \in Sweepers THEN (IF pc[t] = "off" THEN "off" ELSE "rest")
                              ELSE IF pc[t] = "refused" THEN "refused" ELSE "over"]
    /\ pass' = [s \in Sweepers |-> First(s)]
    /\ held' = [t \in Tasks |-> Nothing]
    /\ at' = [s \in Sweepers |-> None]
    /\ child' = [t \in Tasks |-> None]
    /\ snap' = NoSnapshot /\ notes' = {}
    /\ UNCHANGED <<job, extVars, faults>>

Starting(j) == Added(j) \/ Record(j) \/ AddFails(j)
GivingUp(t) == Replace(t) \/ Replaced(t) \/ Exhausted(t) \/ Told(t) \/ Fail(t)
Sweep(s) ==
    \/ StaleRead(s) \/ FailPending(s) \/ Judge(s) \/ Find(s) \/ Finish(s)
    \/ SyncRead(s) \/ Sync(s) \/ Stuck(s) \/ Retry(s)
Webhook(d) == Grabbed(d) \/ Complete(d) \/ ImportFailed(d)

Next ==
    \/ \E j \in Jobs : Starting(j) \/ Tick(j)
    \/ \E t \in Tasks : GivingUp(t)
    \/ \E s \in Sweepers : Sweep(s)
    \/ \E d \in Downloads : Webhook(d)
    \/ Notified \/ BeginCycle \/ Scanned \/ ScannedTitle \/ Lidarr \/ Crash

Spec == Init /\ [][Next]_vars

\* Calls settle, the Cycle's timer fires, downloads end and time passes; webhooks may all
\* be lost, and neither the Cleaner nor a scan need run.
FairSpec ==
    /\ Spec
    /\ \A j \in Jobs : WF_vars(Starting(j) \/ GivingUp(j)) /\ WF_vars(Tick(j))
    /\ WF_vars(BeginCycle \/ Sweep(Cycle) \/ GivingUp(Cycle))
    /\ \A d \in Downloads : WF_vars(LidarrEnds(d) /\ UNCHANGED <<job, taskVars, snap, sideVars>>)

-----------------------------------------------------------------------------
\* However a job came to be completed - a webhook matched by id, album or name, a duplicate
\* it was merged with, a scan, a reconciliation that read the row long before - Lidarr has
\* imported its album, or one that passes for it at first hand: no chain of matches, merges
\* and stale writes adds up to an album nothing of the sort has arrived for.
CompletedHasAlbum ==
    \A j \in With("completed") : \E a \in files : PassesFor(a, job[j].album)

\* A job is never tied to the download of an album that does not pass for its own,
\* whichever of the webhooks, the queue sync's replacement and their stale writes comes
\* last.
RefNamesAlbum == \A j \in Jobs : job[j].ref # None => PassesFor(AlbumOf[job[j].ref], job[j].album)

\* Rows, messages and snapshots are well formed, and both of these hold, in every state.
JobsConsistent == TypeOK /\ CompletedHasAlbum /\ RefNamesAlbum

Settled(j) == job[j].status \in {"completed", "failed", "exhausted"}

\* A settled job is changed again only by a task that had read it before: no webhook,
\* however late or often, no scan and no new sweep reopens it, and a notification, which
\* holds it too, leaves its status.
OnlyLateTasksUndo ==
    [][\A j \in Jobs : Settled(j) /\ job'[j] # job[j] =>
          \/ \E t \in Tasks : j \in DOMAIN held[t]
          \/ job'[j].status = job[j].status /\ \E n \in notes : n[1] = j]_vars

\* Where every webhook is lost, an open job whose album has arrived is settled all the same.
ArrivedSettles == \A j \in Jobs : j \in Active /\ job[j].album \in files ~> j \notin Active

\* A job of a batch or an import does not stay open for ever, whether or not Lidarr finds
\* or imports anything and whichever of its answers the Cycle gets, as long as time passes
\* and a download that was begun ends.
BatchJobSettles == \A j \in Jobs : j \in Active /\ job[j].kind = "batch" ~> j \notin Active
=============================================================================
