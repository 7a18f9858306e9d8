--------------------------- MODULE DiscoveryBatch ---------------------------
(***************************************************************************)
(* The life of one Discover Weekly batch, from the transaction that        *)
(* creates it (DiscoverWeeklyService.generatePlaylist) to its final        *)
(* playlist or its failure.                                                *)
(*                                                                         *)
(* The batch row is written by many independent tasks of one Node process, *)
(* interleaved at every await: the generator, webhook handlers, the queue  *)
(* cleaner's sweep, the scan worker, an administrator's stale-job cleanup  *)
(* and the user's cancel request.  Each task below has a program counter;  *)
(* one action is one stretch of code between two awaits that reads or      *)
(* writes the row, the batch's download jobs or the scan queue.            *)
(*                                                                         *)
(* Abstractions: "exhausted" jobs are "failed" here (every reader treats   *)
(* the two alike); updateBatchStatus is one atomic step, which is what     *)
(* module OptimisticBatchUpdate shows of it; the 60 s Lidarr wait of       *)
(* checkBatchCompletion is the interleaving point between CheckRead and    *)
(* CheckAgain; the unavailable albums it records and which tracks a        *)
(* playlist holds are left out.                                            *)
(***************************************************************************)
EXTENDS Naturals, FiniteSets

CONSTANTS
    Jobs,                   \* download jobs created with the batch
    Callers,                \* concurrent webhook and reconciliation handlers
    Generator,              \* the generatePlaylist invocation
    Sweeper,                \* the queue cleaner
    ScanRetryTimeout,       \* the thresholds of checkStuckBatches, in ticks
    ScanFailTimeout,
    TimeoutWithCompletions,
    TimeoutNoCompletions,
    AbsoluteTimeout,
    StaleThreshold,         \* STALE_THRESHOLDS.discoveryBatch, in ticks
    MaxAge,                 \* bound: the age at which the clock stops
    MaxEmptyChecks,         \* idle checks after which the cleaner stops
    Requests,               \* outside requests of this instance, one at a time:
                            \* "stale" (an administrator's), "cancel" (the user's)
    MaxTroubles             \* bound: rejected calls and process restarts, together

ASSUME JobsAssumption == IsFiniteSet(Jobs)
ASSUME TaskAssumption ==
    /\ Generator # Sweeper
    /\ Generator \notin Callers
    /\ Sweeper \notin Callers
ASSUME TimeAssumption ==
    /\ {ScanRetryTimeout, ScanFailTimeout, TimeoutWithCompletions,
        TimeoutNoCompletions, AbsoluteTimeout, StaleThreshold, MaxAge} \subseteq Nat
    /\ AbsoluteTimeout < MaxAge
ASSUME BoundAssumption ==
    /\ {MaxEmptyChecks, MaxTroubles} \subseteq Nat
    /\ MaxEmptyChecks > 0
    /\ Requests \subseteq {"stale", "cancel"}

Checkers == Callers \cup {Generator, Sweeper}

Open     == {"downloading", "scanning"}
Terminal == {"completed", "failed"}
Active   == {"pending", "processing"}

VARIABLES
    status,       \* DiscoveryBatch.status
    scanRetried,  \* errorMessage = "scan-retry-queued"
    jobs,         \* DownloadJob.status of each job of the batch
    acq,          \* the acquireAlbum call of each job
    pc,           \* where each invocation of checkBatchCompletion is
    snap,         \* whether that invocation read a completed job
    sweep,        \* where the queue cleaner's cycle is
    forced,       \* that cycle counted the batch as force-handled
    emptyChecks,  \* QueueCleaner.emptyQueueChecks
    request,      \* where staleJobCleanup or DELETE /discover/batch is
    scans,        \* completion scans of this batch waiting in scanQueue
    scanner,      \* what the scan worker does with one of them
    built,        \* how often a playlist of this batch was committed
    age,          \* ticks since DiscoveryBatch.createdAt
    retryScans,   \* scans the cleaner has queued as a retry
    faults, crashes

batchVars == <<status, scanRetried, built>>
checkVars == <<pc, snap>>
sweepVars == <<sweep, forced, emptyChecks>>
scanVars  == <<scans, scanner, retryScans>>
envVars   == <<faults, crashes>>
vars == <<batchVars, jobs, acq, checkVars, sweepVars, request,
          scanVars, age, envVars>>

Cleaner == {"off", "idle", "failBatch", "failJobs", "failScan", "requeue",
            "mark", "timeoutJobs", "checking", "end"}

TypeOK ==
    /\ status \in Open \cup Terminal
    /\ scanRetried \in BOOLEAN
    /\ jobs \in [Jobs -> Active \cup Terminal]
    /\ acq \in [Jobs -> {"running", "fallback", "started", "zombie", "done"}]
    /\ pc \in [Checkers -> {"idle", "acquiring", "read", "again", "commit", "enqueue"}]
    /\ snap \in [Checkers -> BOOLEAN]
    /\ sweep \in Cleaner
    /\ forced \in BOOLEAN
    /\ emptyChecks \in Nat
    /\ request \in {"idle", "staleBatch", "staleJobs", "cancelJobs", "cancelBatch"}
    /\ scans \in Nat
    /\ scanner \in {"idle", "scanning", "building", "empty"}
    /\ built \in Nat
    /\ age \in Nat
    /\ retryScans \in Nat
    /\ faults \in Nat
    /\ crashes \in Nat

Init ==
    /\ status = "downloading"
    /\ scanRetried = FALSE
    /\ jobs = [j \in Jobs |-> "pending"]
    /\ acq = [j \in Jobs |-> "running"]
    /\ pc = [p \in Checkers |-> IF p = Generator THEN "acquiring" ELSE "idle"]
    /\ snap = [p \in Checkers |-> FALSE]
    /\ sweep = "off"
    /\ forced = FALSE
    /\ emptyChecks = 0
    /\ request = "idle"
    /\ scans = 0
    /\ scanner = "idle"
    /\ built = 0
    /\ age = 0
    /\ retryScans = 0
    /\ faults = 0
    /\ crashes = 0

ActiveJobs    == {j \in Jobs : jobs[j] \in Active}
CompletedJobs == {j \in Jobs : jobs[j] = "completed"}

\* updateMany over the jobs whose status is in S
FailJobsIn(S) == jobs' = [j \in Jobs |-> IF jobs[j] \in S THEN "failed" ELSE jobs[j]]

\* updateBatchStatus(batchId, {status: s}): no expectedStatus, every row matches.
\* A failure writes errorMessage as well, so the retry mark is lost.
WriteStatus(s) ==
    /\ status' = s
    /\ scanRetried' = IF s = "failed" THEN FALSE ELSE scanRetried


\* updateBatchStatus(batchId, {status: s, expectedStatus: "downloading"}): a row in
\* another status never matches; the retries run out and the caller is not told.
WriteFromDownloading(s) ==
    IF status = "downloading" THEN WriteStatus(s) ELSE UNCHANGED <<status, scanRetried>>

-----------------------------------------------------------------------------
(* Acquisition: processJob of generatePlaylist around acquireAlbum.         *)

\* The primary source failed and wrote so; the fallback source is tried next.
AcquireFallback(j) ==
    /\ acq[j] = "running"
    /\ acq' = [acq EXCEPT ![j] = "fallback"]
    /\ jobs' = [jobs EXCEPT ![j] = "failed"]
    /\ UNCHANGED <<batchVars, checkVars, sweepVars, request, scanVars, age, envVars>>

\* startDownload: Lidarr accepted the album, the job waits for its webhooks.
AcquireStart(j) ==
    /\ acq[j] \in {"running", "fallback"}
    /\ acq' = [acq EXCEPT ![j] = "started"]
    /\ jobs' = [jobs EXCEPT ![j] = "processing"]
    /\ UNCHANGED <<batchVars, checkVars, sweepVars, request, scanVars, age, envVars>>

\* acquireAlbum returned: processJob writes the result over whatever is there.
AcquireReturn(j) ==
    /\ \/ acq[j] = "started" /\ jobs' = [jobs EXCEPT ![j] = "processing"]
       \/ /\ acq[j] \in {"running", "fallback"}
          /\ \E s \in Terminal : jobs' = [jobs EXCEPT ![j] = s]
    /\ acq' = [acq EXCEPT ![j] = "done"]
    /\ UNCHANGED <<batchVars, checkVars, sweepVars, request, scanVars, age, envVars>>

\* The 5 minute race of acquireAlbum is lost: processJob fails the job, and the
\* acquisition it gave up on keeps running.
AcquireTimeout(j) ==
    /\ acq[j] \in {"running", "fallback", "started"}
    /\ acq' = [acq EXCEPT ![j] = "zombie"]
    /\ jobs' = [jobs EXCEPT ![j] = "failed"]
    /\ UNCHANGED <<batchVars, checkVars, sweepVars, request, scanVars, age, envVars>>

\* The abandoned acquisition writes its own outcome in the end.
AcquireLate(j) ==
    /\ acq[j] = "zombie"
    /\ acq' = [acq EXCEPT ![j] = "done"]
    /\ \E s \in {"processing"} \cup Terminal : jobs' = [jobs EXCEPT ![j] = s]
    /\ UNCHANGED <<batchVars, checkVars, sweepVars, request, scanVars, age, envVars>>

\* Promise.allSettled over the jobs, then checkBatchCompletion.
GeneratorSettled ==
    /\ pc[Generator] = "acquiring"
    /\ \A j \in Jobs : acq[j] \in {"zombie", "done"}
    /\ pc' = [pc EXCEPT ![Generator] = "read"]
    /\ UNCHANGED <<batchVars, jobs, acq, snap, sweepVars, request, scanVars, age, envVars>>

\* A webhook or a reconciliation settles a job and calls checkBatchCompletion.
SettleJob(c, j) ==
    /\ pc[c] = "idle"
    /\ jobs[j] \in Active
    /\ \E s \in Terminal : jobs' = [jobs EXCEPT ![j] = s]
    /\ pc' = [pc EXCEPT ![c] = "read"]
    /\ UNCHANGED <<batchVars, acq, snap, sweepVars, request, scanVars, age, envVars>>

-----------------------------------------------------------------------------
(* checkBatchCompletion, run by any number of tasks at a time.              *)

CheckRead(p) ==
    /\ pc[p] = "read"
    /\ IF status = "downloading" /\ ActiveJobs = {}
       THEN /\ pc' = [pc EXCEPT ![p] = "again"]
            /\ snap' = [snap EXCEPT ![p] = CompletedJobs # {}]
       ELSE /\ pc' = [pc EXCEPT ![p] = "idle"]
            /\ UNCHANGED snap
    /\ UNCHANGED <<batchVars, jobs, acq, sweepVars, request, scanVars, age, envVars>>

CheckAgain(p) ==
    /\ pc[p] = "again"
    /\ IF status = "downloading"
       THEN pc' = [pc EXCEPT ![p] = "commit"] /\ UNCHANGED snap
       ELSE pc' = [pc EXCEPT ![p] = "idle"] /\ snap' = [snap EXCEPT ![p] = FALSE]
    /\ UNCHANGED <<batchVars, jobs, acq, sweepVars, request, scanVars, age, envVars>>

\* One transaction (the unavailable albums it records are left out).
CheckCommit(p) ==
    /\ pc[p] = "commit"
    /\ WriteFromDownloading(IF snap[p] THEN "scanning" ELSE "failed")
    /\ pc' = [pc EXCEPT ![p] = IF snap[p] THEN "enqueue" ELSE "idle"]
    /\ snap' = [snap EXCEPT ![p] = FALSE]
    /\ UNCHANGED <<jobs, acq, built, sweepVars, request, scanVars, age, envVars>>

CheckEnqueue(p) ==
    /\ pc[p] = "enqueue"
    /\ scans' = scans + 1
    /\ pc' = [pc EXCEPT ![p] = "idle"]
    /\ UNCHANGED <<batchVars, jobs, acq, snap, sweepVars, request, scanner, retryScans, age, envVars>>

\* A database or Redis call of the invocation rejects; its caller logs the error.
CheckThrows(p) ==
    /\ pc[p] \in {"again", "commit", "enqueue"}
    /\ faults + crashes < MaxTroubles
    /\ faults' = faults + 1
    /\ pc' = [pc EXCEPT ![p] = "idle"]
    /\ snap' = [snap EXCEPT ![p] = FALSE]
    /\ UNCHANGED <<batchVars, jobs, acq, sweepVars, request, scanVars, age, crashes>>

-----------------------------------------------------------------------------
(* The queue cleaner's cycle as far as this batch is concerned:             *)
(* checkStuckBatches, then the decision whether the loop goes on.           *)

\* handleGrab starts the cleaner: Lidarr grabs a release, for the batch or for anyone.
CleanerStart ==
    /\ sweep = "off"
    /\ sweep' = "idle"
    /\ emptyChecks' = 0
    /\ UNCHANGED <<batchVars, jobs, acq, checkVars, forced, request, scanVars, age, envVars>>

\* checkStuckBatches in the order of its tests.
BatchTooOldIfBusy == status \in Open /\ age > AbsoluteTimeout /\ ActiveJobs # {}   \* mutant
BatchTooOld == status \in Open /\ age > AbsoluteTimeout

ScanFailDue == status = "scanning" /\ age > ScanFailTimeout
ScanRetryDue == status = "scanning" /\ age > ScanRetryTimeout /\ ~scanRetried

StuckTimeout == IF CompletedJobs # {} THEN TimeoutWithCompletions ELSE TimeoutNoCompletions
DownloadsStuck == status = "downloading" /\ age > StuckTimeout /\ ActiveJobs # {}

SweepRead ==
    /\ sweep = "idle"
    /\ sweep' = IF BatchTooOld THEN "failBatch"
                ELSE IF ScanFailDue THEN "failScan"
                ELSE IF ScanRetryDue THEN "requeue"
                ELSE IF DownloadsStuck THEN "timeoutJobs"
                ELSE "end"
    /\ UNCHANGED <<batchVars, jobs, acq, checkVars, forced, emptyChecks, request, scanVars, age, envVars>>

SweepFailBatch ==
    /\ sweep \in {"failBatch", "failScan"}
    /\ WriteStatus("failed")
    /\ sweep' = IF sweep = "failBatch" THEN "failJobs" ELSE "end"
    /\ forced' = TRUE
    /\ UNCHANGED <<built, jobs, acq, checkVars, emptyChecks, request, scanVars, age, envVars>>

SweepFailJobs ==
    /\ sweep = "failJobs"
    /\ FailJobsIn(Active)
    /\ sweep' = "end"
    /\ UNCHANGED <<batchVars, acq, checkVars, forced, emptyChecks, request, scanVars, age, envVars>>

SweepRequeue ==
    /\ sweep = "requeue"
    /\ scans' = scans + 1
    /\ retryScans' = retryScans + 1
    /\ sweep' = "mark"
    /\ UNCHANGED <<batchVars, jobs, acq, checkVars, forced, emptyChecks, request, scanner, age, envVars>>

SweepMark ==
    /\ sweep = "mark"
    /\ scanRetried' = TRUE
    /\ sweep' = "end"
    /\ forced' = TRUE
    /\ UNCHANGED <<status, built, jobs, acq, checkVars, emptyChecks, request, scanVars, age, envVars>>

SweepTimeoutJobs ==
    /\ sweep = "timeoutJobs"
    /\ FailJobsIn(Active)
    /\ pc' = [pc EXCEPT ![Sweeper] = "read"]
    /\ sweep' = "checking"
    /\ UNCHANGED <<batchVars, acq, snap, forced, emptyChecks, request, scanVars, age, envVars>>

SweepChecked ==
    /\ sweep = "checking"
    /\ pc[Sweeper] = "idle"
    /\ sweep' = "end"
    /\ forced' = TRUE
    /\ UNCHANGED <<batchVars, jobs, acq, checkVars, emptyChecks, request, scanVars, age, envVars>>

\* Only download jobs count as activity, the batch's or others that come and go: an
\* open batch without active jobs does not keep the loop alive.
SweepEnd ==
    /\ sweep = "end"
    /\ LET checks == IF forced THEN 1 ELSE emptyChecks + 1
       IN  \/ sweep' = "idle" /\ emptyChecks' = 0
           \/ /\ ActiveJobs = {}
              /\ sweep' = IF checks >= MaxEmptyChecks THEN "off" ELSE "idle"
              /\ emptyChecks' = checks
    /\ forced' = FALSE
    /\ UNCHANGED <<batchVars, jobs, acq, checkVars, request, scanVars, age, envVars>>

-----------------------------------------------------------------------------
(* staleJobCleanup.cleanupDiscoveryBatches and DELETE /discover/batch: both  *)
(* read the open batches, then write by id.                                 *)

StaleRead ==
    /\ request = "idle"
    /\ "stale" \in Requests
    /\ status \in Open
    /\ age > StaleThreshold
    /\ request' = "staleBatch"
    /\ UNCHANGED <<batchVars, jobs, acq, checkVars, sweepVars, scanVars, age, envVars>>

StaleFailBatch ==
    /\ request = "staleBatch"
    /\ WriteStatus("failed")
    /\ request' = "staleJobs"
    /\ UNCHANGED <<built, jobs, acq, checkVars, sweepVars, scanVars, age, envVars>>

StaleFailJobs ==
    /\ request = "staleJobs"
    /\ FailJobsIn(Active)
    /\ request' = "idle"
    /\ UNCHANGED <<batchVars, acq, checkVars, sweepVars, scanVars, age, envVars>>

CancelRead ==
    /\ request = "idle"
    /\ "cancel" \in Requests
    /\ status \in Open
    /\ request' = "cancelJobs"
    /\ UNCHANGED <<batchVars, jobs, acq, checkVars, sweepVars, scanVars, age, envVars>>

\* The write that ends a cancellation, and the one an earlier version made (mutant).
CancelAsCompleted == WriteStatus("completed")
CancelAsFailed == WriteStatus("failed")

\* status in ("pending", "active", "waiting"): of these a DownloadJob is only "pending"
CancelJobs ==
    /\ request = "cancelJobs"
    /\ FailJobsIn({"pending"})
    /\ request' = "cancelBatch"
    /\ UNCHANGED <<batchVars, acq, checkVars, sweepVars, scanVars, age, envVars>>

CancelBatch ==
    /\ request = "cancelBatch"
    /\ CancelAsFailed
    /\ request' = "idle"
    /\ UNCHANGED <<built, jobs, acq, checkVars, sweepVars, scanVars, age, envVars>>

-----------------------------------------------------------------------------
(* The scan worker (concurrency 1) and buildFinalPlaylist.                  *)

ScanTake ==
    /\ scanner = "idle"
    /\ scans > 0
    /\ scans' = scans - 1
    /\ scanner' = "scanning"
    /\ UNCHANGED <<batchVars, jobs, acq, checkVars, sweepVars, request, retryScans, age, envVars>>

\* The scan failed on every BullMQ attempt and the job is given up.
ScanLost ==
    /\ scanner = "scanning"
    /\ faults + crashes < MaxTroubles
    /\ faults' = faults + 1
    /\ scanner' = "idle"
    /\ UNCHANGED <<batchVars, jobs, acq, checkVars, sweepVars, request, scans, retryScans, age, crashes>>

BuildUnlessFailed == status = "failed"   \* mutant
BuildNotNeeded == status \in Terminal

\* buildFinalPlaylist: the idempotency guard, then the completed jobs are read.
BuildRead ==
    /\ scanner = "scanning"
    /\ scanner' = IF BuildNotNeeded THEN "idle"
                  ELSE IF CompletedJobs # {} THEN "building" ELSE "empty"
    /\ UNCHANGED <<batchVars, jobs, acq, checkVars, sweepVars, request, scans, retryScans, age, envVars>>

\* The completed jobs have no tracks in the library yet.
BuildNoTracks ==
    /\ scanner \in {"building", "empty"}
    /\ WriteStatus("failed")
    /\ scanner' = "idle"
    /\ UNCHANGED <<built, jobs, acq, checkVars, sweepVars, request, scans, retryScans, age, envVars>>

\* The transaction that creates the playlist's records and completes the batch.
BuildCommit ==
    /\ scanner = "building"
    /\ WriteStatus("completed")
    /\ built' = built + 1
    /\ scanner' = "idle"
    /\ UNCHANGED <<jobs, acq, checkVars, sweepVars, request, scans, retryScans, age, envVars>>

\* The transaction fails, or a call around it throws and processScan logs it.
BuildThrows ==
    /\ scanner = "building"
    /\ faults + crashes < MaxTroubles
    /\ faults' = faults + 1
    /\ WriteStatus("failed") \/ UNCHANGED <<status, scanRetried>>
    /\ scanner' = "idle"
    /\ UNCHANGED <<built, jobs, acq, checkVars, sweepVars, request, scans, retryScans, age, crashes>>

-----------------------------------------------------------------------------
Tick ==
    /\ age < MaxAge
    /\ age' = age + 1
    /\ UNCHANGED <<batchVars, jobs, acq, checkVars, sweepVars, request, scanVars, envVars>>

\* The process restarts: every task is gone, PostgreSQL and Redis keep their data,
\* and BullMQ returns the stalled scan to the queue.
Crash ==
    /\ faults + crashes < MaxTroubles
    /\ crashes' = crashes + 1
    /\ acq' = [j \in Jobs |-> "done"]
    /\ pc' = [p \in Checkers |-> "idle"]
    /\ snap' = [p \in Checkers |-> FALSE]
    /\ sweep' = "off" /\ forced' = FALSE /\ emptyChecks' = 0
    /\ request' = "idle"
    /\ scanner' = "idle"
    /\ scans' = IF scanner = "idle" THEN scans ELSE scans + 1
    /\ UNCHANGED <<batchVars, jobs, retryScans, age, faults>>

-----------------------------------------------------------------------------
Acquire(j) ==
    \/ AcquireFallback(j) \/ AcquireStart(j) \/ AcquireReturn(j)
    \/ AcquireTimeout(j) \/ AcquireLate(j)

Check(p) == CheckRead(p) \/ CheckAgain(p) \/ CheckCommit(p) \/ CheckEnqueue(p) \/ CheckThrows(p)

Sweep ==
    \/ SweepRead \/ SweepFailBatch \/ SweepFailJobs \/ SweepRequeue \/ SweepMark
    \/ SweepTimeoutJobs \/ SweepChecked \/ SweepEnd

StaleCleanup  == StaleRead \/ StaleFailBatch \/ StaleFailJobs
CancelRequest == CancelRead \/ CancelJobs \/ CancelBatch
Scan == ScanTake \/ ScanLost \/ BuildRead \/ BuildNoTracks \/ BuildCommit \/ BuildThrows

Next ==
    \/ \E j \in Jobs : Acquire(j)
    \/ GeneratorSettled
    \/ \E c \in Callers, j \in Jobs : SettleJob(c, j)
    \/ \E p \in Checkers : Check(p)
    \/ CleanerStart \/ Sweep
    \/ StaleCleanup \/ CancelRequest
    \/ Scan
    \/ Tick \/ Crash

Spec == Init /\ [][Next]_vars

\* The clock, and the cleaner's loop with the check it awaits: nothing is assumed of the
\* downloads, the webhooks, the scan worker or the other invocations.
Fairness == WF_vars(Tick) /\ WF_vars(Sweep) /\ WF_vars(Check(Sweeper))

FairSpec == Spec /\ Fairness

-----------------------------------------------------------------------------
(* What the batch promises.                                                 *)

\* Two scans of one batch, a late scan after a forced failure, a crash in the
\* middle of a build: the playlist's records are still created at most once.
\* This is the idempotency guard of buildFinalPlaylist together with the
\* expectedStatus of checkBatchCompletion and the worker's concurrency of 1.
PlaylistAtMostOnce == built <= 1

\* A batch reads "completed" only when its playlist exists; a cancelled or failed
\* batch must not read as a successful empty week.
NoEmptyWeek == status = "completed" => built = 1

\* A completion scan is queued, or worked on, only once the batch has left
\* "downloading": buildFinalPlaylist never takes stock of a batch whose downloads
\* checkBatchCompletion still waits for.
ScanAfterDownloading == scans > 0 \/ scanner # "idle" => status # "downloading"

\* "Mark as retried to prevent re-queuing every 30s": the cleaner queues the retry
\* scan once, and once more only if the process died before the mark was written.
RetryScanOnce == retryScans <= 1 + crashes

\* checkBatchCompletion never reopens a batch that another task closed meanwhile.
NeverReopened == [][(status \in Terminal) => (status' \in Terminal)]_vars

\* Whatever is lost on the way - a webhook, a scan, an enqueue - a batch is closed in
\* the end as long as the queue cleaner keeps running: the 2 hour limit of
\* checkStuckBatches depends on nothing else.
RunningCleanerCloses == <>[](sweep # "off") => <>(status \in Terminal)

\* The row implements the life cycle its readers rely on: "completed" and "failed"
\* are both closed, and a committed build is the publication.
Lifecycle == INSTANCE BatchLifecycle WITH
    phase     <- IF status \in Terminal THEN "closed" ELSE status,
    published <- built
ImplementsLifecycle == Lifecycle!Spec

=============================================================================
