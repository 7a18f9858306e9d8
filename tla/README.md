# Kima verification project

Kima (repository `lidify`) is a self-hosted music server. This directory holds
TLA+ models of the parts of it whose correctness depends on the order in which
independent tasks run, the TLC configurations that check them on small
instances, and proofs of the most important properties for every value of the
constants. Paths below are relative to `src/` of the repository; `b/` stands
for `backend/src/`.

1. [The system](#the-system)
2. [Modules](#modules)
3. [Runs](#runs)
4. [Disagreements between code and comments](#disagreements-between-code-and-comments)
5. [Proofs](#proofs)
6. [Not modelled](#not-modelled)
7. [Plan](#plan)

`PROJECT.json` names every component, run, mutant, hazard and theorem, and maps
each definition that models code to the lines it models.

## The system

### Processes

| process | what runs in it | state it keeps |
| --- | --- | --- |
| Node backend (`b/index.ts`) | Express routes, BullMQ workers, timers, all in one event loop | maps in memory, lost at a restart |
| audio analyzer (`services/audio-analyzer/analyzer.py`) | one loop with a pool of worker processes | nothing durable |
| CLAP analyzer (`services/audio-analyzer-clap/analyzer.py`) | one loop, one model | nothing durable |
| web client (`frontend/`) | Next.js, one audio engine per tab | player state |
| PostgreSQL | rows, through Prisma (`backend/prisma/schema.prisma`) | durable |
| Redis | BullMQ queues, lists for the analyzers, locks, caches | durable but may be flushed |

The processes share nothing but PostgreSQL rows and Redis keys. Inside the
backend two tasks are interleaved at every `await`, so any value read before an
await may be stale after it; a restart may fall between any two calls; and every
call may reject. These three are what the models are about.

### Components

State, operations, who else touches the state, and what makes the component
correct. "Partly" and "no" are explained under [Not modelled](#not-modelled).

| component | state | operations | interacts with | correct when | modelled |
| --- | --- | --- | --- | --- | --- |
| Discover Weekly batch (`b/services/discoverWeekly.ts`, `discovery/*`, `b/jobs/queueCleaner.ts`) | `DiscoveryBatch` row, its `DownloadJob`s, a scan job in BullMQ | generate, check completion, sweep, stale cleanup, cancel, build the playlist | acquisition, webhooks, scan worker, routes | one playlist per batch, none claimed that does not exist, closed in the end | partly |
| Optimistic batch update (`b/services/discovery/optimisticBatchUpdate.ts`) | `version` column | `updateBatchStatus` | every writer of the batch | behaves as one conditional write | yes |
| Distributed lock (`b/utils/distributedLock.ts`) | one Redis key per lock | acquire, release, withLock | release taps, acquisition, notifications | exclusive within its TTL, always freed | yes |
| Download job creation (`b/routes/downloads.ts`, `releases.ts`, `b/services/acquisitionService.ts`) | `DownloadJob` rows | check, create, launch | lock, download manager | one active job per album | partly |
| Webhook event store (`b/services/webhookEventStore.ts`, `b/routes/webhooks.ts`, `b/jobs/webhookReconciliation.ts`) | `WebhookEvent` rows | store, process, retry, replay | Lidarr, download manager | an answered event takes effect, once | partly |
| Audio analysis (`b/workers/unifiedEnrichment.ts`, `b/services/audioAnalysisCleanup.ts`, `analyzer.py`) | `Track` status columns, two Redis lists, circuit breaker | validate, queue, claim, analyse, recover | two processes over one table | each readable track analysed or given up, nothing undone | partly |
| Playlist order (`b/services/playlistService.ts`, `b/utils/lexoRank.ts`, `b/routes/playlists.ts`) | `rank` of items and pending tracks | add, move, remove, placeholder of a missing file | web client, scanner, import, Subsonic | one order over two tables | partly |
| Download manager (`b/services/simpleDownloadManager.ts`) | `DownloadJob` rows and metadata | start, grabbed, complete, failed, sweeps, Lidarr reconciliation | webhooks, batches, Lidarr | a job settles once, and completed means the album is there | partly |
| Download queue map (`b/services/downloadQueue.ts`) | in-memory map | none used (`addDownload` is never called) | startup | - | no |
| Discovery albums (`b/routes/discover.ts`, `b/services/discovery/discoveryAlbumLifecycle.ts`, `b/workers/dataIntegrity.ts`) | `DiscoveryAlbum`, `OwnedAlbum`, `Album.location`, files, Lidarr | like, unlike, sweep before a generation, clear, cleanup after a batch, repairs | scanner, Lidarr, batch | what a user kept, or owned before, is never deleted | partly |
| Discovery generation and week (`b/routes/discover.ts`, `b/workers/processors/discoverProcessor.ts`) | batches of a user | generate, cron, retry the unavailable | batch, cron | one open batch per user | no |
| Enrichment cycle (`b/workers/unifiedEnrichment.ts`, `b/services/enrichmentState.ts`) | timers, flags, state in Redis | trigger, pause, resume, stop, full run | audio analysis, vibe queue, scanner | the chain of cycles lives, the process follows the status | partly |
| Metadata enrichment workers (`b/workers/*Enrichment*`) | artist and track rows | fetch, write | metadata clients | idempotent | no |
| CLAP analyzer (`services/audio-analyzer-clap/analyzer.py`, `b/workers/audioCompletionSubscriber.ts`, vibe phase) | embeddings, BullMQ vibe queue, failures | queue, pause, embed, retry, force | audio analysis, enrichment cycle | each analysed track embedded or failed, and no failure forgotten | partly |
| Spotify import (`b/services/spotifyImport.ts`) | `SpotifyImportJob`, its copy in Redis | request, fetch, acquire, check, build, cancel | acquisition, scan worker, cleaner | one playlist, a cancellation that sticks, an end | partly |
| Library scanner (`b/services/musicScanner.ts`) | artists, albums, tracks | scan, remove missing | playlist, batch | library equals disk | only its removal of missing tracks |
| Identity and normalisation | - | string rules, merges | scanner | rules | no |
| Soulseek, Lidarr client, metadata clients | sessions | external calls | acquisition | - | no |
| Rate limiter (`b/services/rateLimiter.ts`) | queues, breaker | schedule, back off, pause | metadata clients | never above the rate | no |
| Event bus, caches, streaming, search, settings, playback state | per request | mostly one write or a read | - | - | no |
| Podcasts and audiobooks, recommendation, Subsonic API, authentication and sharing | rows | mostly one write or a read | - | - | no |
| Worker runtime (`b/workers/index.ts`) | timers | start, stop | all | - | as fairness |
| Web client | player | play, seek, skip, cast | API | - | no |

### Hard behaviours

The hazards in `PROJECT.json` name each at its line. In groups:

- *Many writers of one row.* A batch is written by generator, webhook handlers,
  cleaner, scan worker, an administrator's cleanup and a cancel request; a track
  by two processes; an import is saved whole, from copies, by every task that
  touches it, into a row and into Redis in turn. Some writers check the state they
  expect, some do not.
- *Check, then act.* Dedup checks before an insert, rank reads before an insert,
  a status read before a write, with awaits between.
- *Late answers.* `acquireAlbum` is abandoned after a timeout and answers later; a
  lock's callback outlives its TTL; an analysis outlives its lease.
- *Duplicates and retries.* Lidarr delivers a webhook twice while the
  reconciler processes the stored one; BullMQ hands out a stalled scan again.
- *Restarts between two steps*: a status written but its scan not queued, a
  list filled but its rows not marked.
- *Flags that repeat a state*: an administrator's pause is a status in Redis, flags in
  the process, a gate for the analyzer and a paused queue, kept in step by messages
  that may be lost.
- *What is looked up and what is deleted*: deletions decided from rows, carried out by
  Lidarr, while a user likes the album.
- *Boundaries*: retry counts, queue depths, rank keys between which nothing fits.

## Modules

| module | models | abstract specification | proofs |
| --- | --- | --- | --- |
| `DiscoveryBatch` | one batch and every task that writes it | `BatchLifecycle` | `DiscoveryBatchProofs` |
| `OptimisticBatchUpdate` | `updateBatchStatus` | `AtomicBatchUpdate` | `DiscoveryBatchProofs` |
| `DistributedLock` | `withLock` on one key | - | `DownloadDedupProofs` |
| `DownloadDedup` | which requests create a job for one album | - | `DownloadDedupProofs` |
| `DownloadJobs` | the jobs that Lidarr serves and all their writers | - | `DownloadJobsProofs` |
| `WebhookEvents` | the event store and its two processors | - | `DownloadDedupProofs` |
| `DiscoveryAlbums` | likes and deletions of discovery albums | - | `DiscoveryAlbumsProofs` |
| `EnrichmentCycle` | who runs and who stops the enrichment cycle | - | `EnrichmentCycleProofs` |
| `AudioAnalysis` | track rows between backend and analyzer | - | `AudioAnalysisProofs` |
| `VibeQueue` | from an analysed track to its embedding | - | `AudioAnalysisProofs` |
| `SpotifyImport` | the life of one import | - | `SpotifyImportProofs` |
| `LexoRank` | rank keys, pure operators | the digit loop (`AgreesWithLoop` in `MCPlaylistRanks`) | `PlaylistRanksProofs` |
| `PlaylistRanks` | the order of one playlist; extends `LexoRank` | `ListOrder` | `PlaylistRanksProofs` |

A proofs module extends the models it proves about, and the smaller ones share one with the component they serve:
the loop that makes the batch's write atomic, the lock that the requests take and the events that complete
their jobs, the queue that follows the analysis. That is why the definitions that every model has bear a
name of their own in `OptimisticBatchUpdate` (`UpdateSpec`, `stage`, `rowStatus`), `DistributedLock` (`LockSpec`,
`section`), `WebhookEvents` (`EventSpec`, `handler`) and `VibeQueue` (`VibeSpec`).

`MC<Module>` instantiates each for TLC: model values, functions a `.cfg` cannot
write, symmetry sets, and definitions only TLC needs. An action is the code from one
await that reads or writes the modelled state to the next: a query, a call of Redis, Lidarr or a queue,
with what is decided from its answer. A task is a value of a program counter; a local variable
that survives an await is part of the state (`snap`, `seen`, `swept`, `batch`, `cur`, `held`, `mem`, `copy`,
`notes`, `gen`, `clear`, `repair`, `req[r].ranks`), which is how stale values get in.

Some awaits are not steps of their own:

- a database transaction is one step. For the serializable ones and those under a row or advisory lock this is what
  PostgreSQL guarantees. The transactions of `discoveryAlbumLifecycle.ts` run at its default level, where a like by another
  user could still come between the find (`:142`) and the delete of an album; the code's comment there
  takes the two for one snapshot, and so does `DiscoveryAlbums`;
- `DownloadJobs` takes as one step what a replacement looks up of an artist's jobs, the update to "exhausted" and the insert
  (`simpleDownloadManager.ts:1104-1160`), `DownloadDedup` the two queries of an artist's request. No property
  depends on what lies between;
- `DiscoveryAlbums` takes the scan of one album with its lookups, the writes that keep an album, and an artist's
  removal with its last album as one step each: the scanner runs alone, and what these read is not what decides about a deletion.
Each operator marked `\* mutant` is the definition below it with a plausible
bug. Nothing uses one; it shows which bug the property it is paired with in
`PROJECT.json` would find.

Where many things may happen and each is rare (hearts, clears, lost messages,
restarts), a `Scenarios` constant lists situations: each names how often each of them
may happen, so that the run covers many pairs of troubles without their product. The
specification holds for any set of situations, and so do its theorems.

### DiscoveryBatch

State: the row (`status`, `scanRetried` for its error message, `built` for the
playlists committed), `jobs`, the call of `acquireAlbum` for each job (`acq`), where each invocation of `checkBatchCompletion` is
(`pc`) and the jobs it read (`snap`), the queue cleaner's cycle (`sweep`, `forced`,
`emptyChecks`), the request under way, scans waiting in BullMQ (`scans`) and the
one being worked on (`scanner`), and the batch's age.

| actions | code |
| --- | --- |
| `AcquireFallback/Start/Return/Timeout/Late` | the download of one album, with its timeout and the late answer that still updates the job |
| `GeneratorSettled`, `SettleJob`, `CheckRead/Again/Commit/Enqueue/Throws` | `checkBatchCompletion`, called by the generator, webhooks and cleaner: read the jobs, wait for Lidarr, read again, write with `expectedStatus: downloading`, queue the scan |
| `CleanerStart`, `Sweep*` | `queueCleaner.runCleanup` with `checkStuckBatches`: absolute timeout, scan retry, scan failure, stuck downloads, stopping after idle checks |
| `StaleRead/FailBatch/FailJobs` | the stale-job cleanup (`b/services/staleJobCleanup.ts`), which writes without the version |
| `CancelRead/Jobs/Batch` | the cancel route (`b/routes/discover.ts`) |
| `ScanTake/Lost`, `Build*` | the scan worker and `buildFinalPlaylist` with its idempotency guard |
| `Tick`, `Crash` | time; a restart that loses every task while BullMQ returns the stalled scan |

`updateBatchStatus` is one atomic step here. `OptimisticBatchUpdate` is the
justification: its loop implements `AtomicBatchUpdate`, which is that step.

### OptimisticBatchUpdate

Each call is a `find`, then an `update ... where version`, then success, a conflict
(no row matched: retry after a random delay until `maxRetries`), or a rejected
call. `DirectWrite` stands for the writers that leave the version alone, `Delete`
for the removal of the row. `basis`, a history variable, is the status
the row had when the version was read.

### DistributedLock

`holder` is the section whose `SET NX PX` created the key; `value` is what is
stored, the `lockValue` the process drew when it started (hence `life`); `left`
is the TTL. A section acquires (or its reply is lost, which leaves the key),
runs its callback for up to `MaxHold` ticks, then runs the compare-and-delete
script, which may fail; `section` says where it is. `CallbackSettles` ends a callback, `Death` is a
restart, and `Tick` expires the key whether or not the callback is done. The backend is one process with one
`lockValue`, so sections of the same process are the rule, and the script cannot tell them apart: the history variable `robbed` has the
sections whose key another one's release has deleted.

### DownloadDedup

One `DownloadJob` per request at most; five kinds of request with the code's
own checks: a transaction with `FOR UPDATE SKIP LOCKED` (`rowLock`), a check
within a distributed lock (`mutex`), or none. `launches` records who started a
download on which row. `Settle` completes or fails a job at any time, `Launch` and `LaunchFails` write the row
whatever it has become.

### DownloadJobs

`job` holds the rows that Lidarr serves: kind (library, part of a batch, or tracking a download
nobody asked for), status, Lidarr reference and what of the metadata decides
something. `lidarr` and `files` are what Lidarr does and has imported, `held` the rows a task read
before, `snap` the reconciliation snapshot.

| actions | code in `simpleDownloadManager.ts` |
| --- | --- |
| `Added/Record/AddFails/Tried` | `startDownload` with its fallback to another album of the artist |
| `Replace/Replaced/Exhausted/Told/Fail` | the retry with a replacement, and `markJobExhausted` with the note in the metadata it read |
| `Grabbed/Complete/ImportFailed` | the three webhooks, each one transaction that matches the job by id, album or name |
| `Notified` | after a completion, the notification noted down in the metadata read before |
| `StaleRead/FailPending/Judge` | `markStaleJobsAsFailed`: pending jobs by one update, processing jobs one by one |
| `Find/Finish` | the reconciliations with Lidarr and the local library, the cleaner's completed downloads |
| `SyncRead/Sync` | `syncWithLidarrQueue` with its count of missed checks and its replacements |
| `Stuck/Retry` | the cleaner's stuck queue items: the job found by its download, its metadata written back after Lidarr has answered |
| `Scanned/ScannedTitle`, `Scanner` | the three ways in which `b/workers/processors/scanProcessor.ts` completes jobs after a scan: two updates by MBID and names, then one by one by the title or a fuzzy match |
| `BeginCycle`, `Crash` | the two-minute cycle of `b/workers/index.ts` with its snapshot; a restart. The other sweeper is `b/jobs/queueCleaner.ts` |

Webhooks, replacements, reconciliations and scans compare names: one within the other, fuzzily, without an edition, or
a title without its artist. `LooksLike` is the relation between albums of which one may
be taken for the other by any of these, `PassesFor` adds the album itself; it need not be symmetric or transitive. The scan's update
by the artist's MBID (`scanProcessor.ts:255`) matches none of these rows, whose `targetMbid` is the album's, and is left out.

### WebhookEvents

A delivery stores the event, answers, then applies it: the serializable
transaction, the follow-up (notification and batch check) only if the
transaction found the job active, the scan, and the mark. The reconciler reads
all unprocessed rows and applies each without queueing a scan. Each call may
throw; the catch block counts a retry, and may throw too. `handler` is where each delivery is; `Crash` loses handlers
and the reconciler's list, not rows.

### DiscoveryAlbums

The albums of one artist. `files` is the disk, `known` and `artist` what Lidarr has (with or
without the discovery tag), `album` and `owned` the location and the source of
ownership, `row` the `DiscoveryAlbum` of a user. A like is find, claim, untag and keep
(`heart`); a generation moves and deletes album by album with a check against
Lidarr between (`gen`); `DELETE /clear` has its phases and, within them, its queries and calls of Lidarr (`clear`); `purge` is the
cleanup after a batch or the administrator's, which asks for owned, kept and ACTIVE albums one after the other and then deletes
the artist. `repair` is the integrity worker, album by album, or `/fix-tagging`, for all albums of an artist at once: what is owned and what
is kept are read, then counted, then written, with awaits between. Each of these is a step, and a like may fall between any two.
Two history variables remember it when it does: `late` has what was kept, or became the library's, after a deletion had looked for it
(`KeptLooked`, `OwnedLooked`), `passed` what was kept after somebody had looked who takes albums out of the library.

### EnrichmentCycle

`status` is the record in Redis; `isRunning`, `isPaused`, `isStopping`, `userStopped` and
`immediate` are the module variables; `handle` is the pending timer. Each update of the record is
two steps (`Get`, `Set`), as in `enrichmentState.ts`. A cycle is `Sync`
(the start, which looks at the status), `Begin`, then per phase the write of "running" and `Run`, and at last
`Conclude` with its report. `Ask`, `Publish` and `Deliver` are the administrator's request,
its message and the handler; `Lose` is a message lost; `Fault` a call that rejects, in a cycle or before it.
The chain of timers is modelled as such: a timer callback that ends without arming
another ends the chain.

### VibeQueue

Each track has a row, perhaps an embedding, perhaps a failure record and at most one BullMQ job
(its id is made from the track's). The subscriber (`vibePaused`, `quiet`) pauses the queue at each
audio completion and resumes it after a quiet time; the sweep (`cycle`) resets, queues and
resumes; the worker (`step`) embeds in the order of its database and HTTP calls; the routes
start, force and retry (`admin`). `cut` records that a route was cut short, a report lost, or a job
given up whose failure no longer is on the list.

### SpotifyImport

`db` is the job's row and `cache` its copy in Redis. A job is what of it decides something: its status, whether a
playlist was made (`createdPlaylistId`), whether it has its tracks and its number of albums. Every task is at a label (`pc`) with the
copy of the job it will save (`copy`; `mem` for the import worker's own object); `stage` is the
place of each album in the worker's queue, `download` its `DownloadJob`, `scans` the scans queued, `aborted` the `AbortController`.

| actions | code in `spotifyImport.ts` |
| --- | --- |
| `Get/Miss/Find/Fill` | `getImportJob`: Redis, or (it has nothing, or refuses) the row, which is then put into Redis |
| `Store/Share` | `saveImportJob`: the upsert of the row, which leaves the tracks of an existing one alone, then `setex`, whose failure is swallowed |
| `OfferPreview`, `Enqueue`, `Begin`, `Unpack`, `KeepPreview`, `Joined`, `Poll`, `GiveUp` | the request and the import worker, from the queue to its last poll after thirty minutes |
| `Acquire/Answer/StoreAlbum/ShareAlbum` | the download of one album, and the save that counts it |
| `Count/Expire/QueueScan` | `checkImportCompletion` after its read; the importer calls it, and visitors |
| `TakeScan`, `Create` | the scan worker and the playlist, also the importer's of an import without albums |
| `Drop/Delete/Del/DelPreview` | `cleanupImportArtifacts`, by a cancellation or by `markJobFailed` |
| `Visit`, `Rescan`, `TimeOut` | webhooks, the queue cleaner, the stale-job cleanup, requests that look at the job |
| `FailImport/FailRequest/FailTask`, `LoseRedis`, `Crash` | a query or fetch fails; Redis is flushed; a restart, after which BullMQ repeats the import or the scan |

What the code does with an answer or after a save is one operator for each label (`Loaded`, `Reread`, `Checked`, `Scanned`, `Asked`...).
Between any read of the job and the save of what was read lie several steps at which others may save, delete or cancel. Six history variables
say what has gone wrong so far: `broken` (a task was broken off, and which), `stale` (a job was saved that forgets a playlist), `crossed`
(a job was changed while somebody else had a copy to save), `missed` (Redis lost or refused something), `empty` (a playlist from a job without
tracks) and `cancelled` (how the last cancellation ended: "quiet" if nobody had a copy to save).

### AudioAnalysis

Rows: `analysis`, `scan`, `retries`, and the sets `stale` and `late` for rows past
their time limits. Redis: two lists, as bags because order does not matter to any
property. Analyzer: its loop `py`, popped entries `batch`, the pool and what
runs in it. Backend: the phase `node` with the tracks it holds in hand (`cur`,
`todo`), the circuit `breaker`. `readable` says which files are intact;
`analysed` records whose features were saved. `Py*` actions are the analyzer's
loop in its order, `Node*` those of the enrichment cycle, the rest are time and
faults. Rows become stale freely only when nobody has the track in hand (`Age`);
that a worker is slower than the limit is a fault (`Overrun`), as the limits are
minutes and a normal analysis takes seconds.

### LexoRank and PlaylistRanks

A key is the sequence of its digits, `NoKey` the empty string. `RankBetween`,
`RankAfter`, `RankSequence` and `RankForPosition` are in closed form (the first
digit at which there is room, and the midpoint there); `MCPlaylistRanks` transcribes
the loop of `rankBetween` and `AgreesWithLoop` compares the two on the keys
that occur. Rows are `item` (per track) and `pending` (per name); a request is a
transaction under `pg_advisory_xact_lock` (`holder`) that reads, computes and
writes in steps, and may roll back. Removals take no lock, nor does the library
scan, which turns missing files into pending rows without a rank (`ScanConvert`)
and then deletes the tracks. `mergedItems` is the list the playlist route shows
and the refinement mapping to `ListOrder`. `MCPlaylistRanks` assumes, and TLC so
checks, two facts about keys of up to depth + 1 digits: `AgreesWithLoop` and
`RefusedOnlyWhenFull`, which says when `rankBetween` may give up.

## Runs

Twelve runs, all of which pass. Run one with `tlc -workers 2 -config X.cfg M`, `M`
being the MC module. Thresholds and limits of minutes and dozens are scaled to the
smallest values that keep their order.

| run | cfg | question | bounds | states |
| --- | --- | --- | --- | --- |
| `batch` | `DiscoveryBatch_batch` | Does any interleaving of the batch's writers build two playlists, complete an empty week or leave `BatchLifecycle`; is the batch closed while the cleaner runs? | 1 job, 1 webhook caller, generator, cleaner; one administrator's cleanup and one cancel at any time; 1 rejected call or restart; thresholds of 10, 30, 30, 60 and 120 minutes as 0, 1, 1, 2, 3 ticks | 715 k |
| `cas_calls` | `OptimisticBatchUpdate_calls` | Is the version loop an atomic conditional write, and is an unguarded call served? | 2 calls, every pair of arguments over 3 statuses, 1 retry, 2 direct writes, 1 rejected call, deletion | 665 k |
| `lock_sections` | `DistributedLock_sections` | Do sections exclude one another, is a foreign key spared, is the key always freed? | 3 sections, two of them in one process and one in another, callbacks of up to 4 ticks over a TTL of 2, 2 lost or failing calls, 1 restart of each process | 104 k |
| `dedup_requests` | `DownloadDedup_requests` | What do the locks of the endpoints guarantee together? | 6 requests: an artist download, two release taps, two acquisitions, a kept track; like requests are symmetric | 376 k |
| `jobs_lidarr` | `DownloadJobs_lidarr` | Does a job settle once, with its own album or one that looks like it, though webhooks come late, twice or never? | 2 rows, 3 albums of which two look alike, 2 downloads, 6 situations with a batch or library job, either sweeper, scans, incomplete snapshots, a restart | 292 k |
| `webhook_store` | `WebhookEvents_store` | Does an answered event take effect, once, with its scan? | 2 events, one a download delivered twice, 3 deliveries, the reconciler, 2 failing calls against 3 retries, 1 restart | 132 k |
| `albums_sweeps` | `DiscoveryAlbums_sweeps` | Is what a user kept or owned deleted, taken out of the library or rejected? | 2 albums, 1 or 2 users, 1 to 3 hearts, 12 situations of clears, purges, library downloads, repairs, failing Lidarr, restart | 2.9 M |
| `enrichment_control` | `EnrichmentCycle_control` | Does the chain of cycles live on, and does it follow pause, resume and stop? | a phase that halts and one that does not, 4 situations of requests, a scan's trigger, a lost message, a fault, a restart | 143 k |
| `audio_tracks` | `AudioAnalysis_tracks` | Does every readable track settle, and does no recovery undo or double an analysis? | 2 tracks, one with an embedding, 1 retry, lists of 2, 1 fault of any kind, 1 restart of either process | 776 k |
| `vibe_tracks` | `VibeQueue_tracks` | Is every analysed track embedded or on the list of failures? | 2 tracks, 2 attempts, 8 situations of lost events, failing tracks, a halt, each route, restarts of either process | 209 k |
| `import_life` | `SpotifyImport_life` | Does an import make one playlist, stay cancelled, and end? | plain and quick requests of up to 2 albums, one of them unknown, one request without a match, one visitor, concurrency 1; for the short requests any two, for the others some pairs, of: visit, failure, cancellation, call that Redis refuses, loss of Redis, restart | 792 k |
| `playlist_order` | `PlaylistRanks_order` | Do the two tables keep one order under concurrent adds, moves, removals and scans? | 2 tracks that may vanish, 1 imported name, 2 requests, adds of up to 2 tracks, alphabet of 3, depth 2; tracks and requests are symmetric | 126 k |

### What each shows

- `batch`: `PlaylistAtMostOnce` rests on the idempotency guard of
  `buildFinalPlaylist`, the `expectedStatus` of `checkBatchCompletion` and the scan
  worker's concurrency of one together. The run has two scans of one batch (a
  completion scan and the cleaner's retry), a build in progress while the batch is
  force-failed, and a late `acquireAlbum`. `ImplementsLifecycle` says what a
  reader of the row may rely on; a build under way when its batch is
  force-failed may still publish, so the abstract specification allows it.
  `RunningCleanerCloses` shows that the two-hour limit closes a batch whatever was lost
  on the way. It presumes a running cleaner; that it stops is one of the disagreements below.
- `cas_calls`: `ImplementsAtomicUpdate` holds with any other writer.
  `BuildsOnWhatItRead` needs all writers to bump the version (`direct = 0`):
  the cancel route, the stale cleanup and the retry mark do not.
- `lock_sections`: two sections of one process share the key's value, as all those of the deployed backend do. `MutualExclusion`
  names the exact exceptions: a callback that has outlived its TTL, which nothing in the code prevents, and
  a section whose key such a late one of its own process has deleted. `ReleasesOwnKey` says the same of the release, against
  the comment that only the lock's holder deletes it.
- `dedup_requests`: the locks of release taps and acquisitions exclude only their own
  kind. `OneWaitingPerLock` is what is left of "no duplicates", and it is about these two paths; the artist's transaction
  excludes nobody. `FinishedStays` says when a second launch may overwrite what became of a download: only
  when an acquisition goes on with somebody else's row.
- `jobs_lidarr`: `JobsConsistent` says that completed means imported and that no job is tied
  to the download of another album, but for one that a comparison of names takes for its own, directly: no chain of look-alikes,
  merges and stale writes leads further. Webhooks, reconciliations, scans, fallbacks and sweeps all settle jobs, some with rows read long before.
  `OnlyLateTasksUndo` names the exception the code has:
  `markJobExhausted`, the queue sync, the cleaner's stuck items and notifications write to rows that may have settled meanwhile.
  `ArrivedSettles` and `BatchJobSettles` need no webhook, no scan and no cleaner; a library job, in
  contrast, may stay open for ever (below).
- `webhook_store`: `FollowedUpOnce` rests on the job's status being read and
  written in one serializable transaction. `CompletedIsScanned` excuses faults and
  restarts: a replay queues no scan.
- `albums_sweeps`: `LikedKeepsFiles` and `LibraryKeepsFiles` name their exceptions: a deletion that had asked for what is
  kept (or owned) before the album was, a deletion for another user, and the two sweeps that go by the artist's tag alone. An ACTIVE row read after
  the kept ones, as in `/cleanup-lidarr`, does not make up for a like in between.
  `KeptStaysInLibrary` says that no repair moves or removes what was kept before it looked; what is kept between its look and its write is
  moved (below). `NoVerdictOverturned` holds against repeated generations.
- `enrichment_control`: overlapping cycles do happen (`isRunning` is set after an await), yet the chain is
  neither doubled nor lost, the first cycle's failure after a start excepted (`ChainLives`).
  `FollowsStatus` and `StopCarriedOut` say that a lost message is made up for by the
  next cycle; both excuse what the code lets happen (a pause or stop that falls into a running cycle).
- `audio_tracks`: `OneAnalysis` bounds concurrent analyses of one track by the
  restarts and faults that let its row be reset; `CompletedStays` excepts one
  write of the backend that does not look at the row again (`unifiedEnrichment.ts:1528`).
- `vibe_tracks`: `EmbeddedInTheEnd` holds although each completion pauses the queue and the timer that
  resumes it may find work and not be set again: the sweep resumes too. A job that stalls
  twice is the exception. `VibeConsistent` says that a failure for good is on the list from which it is retried, and names
  when it is not.
- `import_life`: every read of the job is apart from the save of what was read, and the row from its copy in Redis. `OnePlaylist`
  says that a second playlist needs a save that forgets the first (it began before it), or Redis refusing to learn of it, or a restart or
  failure around a build. `CancelSticks` says that a cancellation sticks if it ends when nobody has a copy of the job in hand; otherwise the row
  comes back (below). `ImportConsistent` says that no playlist is built from nothing but for a quick import whose tracks
  Redis lost or refused. `SettlesInTheEnd` presumes neither webhook nor cleaner: an import ends by itself,
  unless a task was broken off, saves crossed, or a cancellation met somebody with a copy to save.
- `playlist_order`: `MoveLands` relates what a transaction
  computed before to what it writes after, although removals and scans take no
  lock. An alphabet of 3 and depth 2 reach every branch of `rankBetween` and its refusal.

### Why these bounds

The properties speak of one row, key, album, event, import or playlist; different ones
share no state except the pool and lists of the analyzers, Lidarr's artist and the albums
of a user, hence two tracks or albums there. `jobs_lidarr` has a third album because one that looks
like a job's own and one that does not are different cases.
Two concurrent actors of a kind suffice for a lost update between two of them, and
where the number matters (retries against calls, events against retries) the
property states the relation and a theorem covers the rest. Faults and restarts
are capped because each is a branch at every call: one or two separate "failed
in the middle" from "failed and failed again while recovering". The situations of a
`Scenarios` constant pair the troubles whose handling meets in the code; the theorems
hold for all of them. The clock of `DiscoveryBatch` stops
at `MaxAge`, one tick past the last threshold, where every comparison stays as it is.
`CHECK_DEADLOCK FALSE` appears only where the modelled tasks really end: a closed
batch, returned calls, done requests, an idle playlist, handled events, a stopped chain, embedded tracks, a
settled import, spent hearts. The lock, the download jobs and the
analysis never stop, so their runs check deadlock.

### Fairness

Weak fairness, and only of what the runtime drives by itself; strong fairness of one action, the import's last poll, which thirty minutes
of polling bring although each poll goes away to check.

| module | fair | because | not fair |
| --- | --- | --- | --- |
| `DiscoveryBatch` | `Tick`, `Sweep`, the cleaner's `Check` | timers fire and Node resumes a task whose call has settled | webhooks, scans, the generator, requests, troubles, starting the cleaner |
| `DistributedLock` | `Tick`, `CallbackSettles`, `Release` | Redis' clock runs, callbacks and their `finally` run | acquisitions, faults, restarts |
| `DownloadJobs` | requests once begun, the Cycle, `Tick`, the end of a download | calls settle, the two-minute timer fires, a download succeeds or fails | webhooks, the Cleaner, scans, restarts |
| `WebhookEvents` | `Reconcile`, `Step` | the reconciler's timer; started handlers go on | deliveries, restarts |
| `EnrichmentCycle` | timers and cycles, requests once begun, `Deliver` | timers fire, calls return, messages that are not lost arrive | requests, triggers, faults, restarts |
| `AudioAnalysis` | analyzer loop, enrichment cycle, `Cool`, `Age` | both processes run under a supervisor and loop for ever | faults, overruns, vanishing files |
| `VibeQueue` | both analyzers, the quiet timer, the sweep, routes once begun | timers fire, the cycle comes round, stalled jobs are handed out again | halts, routes, losses, restarts |
| `SpotifyImport` | both workers, requests and visits once begun, the albums' acquisitions, the ten-minute and thirty-minute limits | BullMQ hands out waiting and stalled jobs, calls settle, timers fire | visits of webhooks, of the cleaner (it stops without Lidarr, `queueCleaner.ts:92`, and after three idle checks, `:324`) and of the stale-job cleanup; downloads' ends, cancellations, failures, restarts |

`OptimisticBatchUpdate`, `DownloadDedup`, `DiscoveryAlbums` and `PlaylistRanks` are checked for safety only.

## Disagreements between code and comments

Met while modelling. The models have the code's behaviour, and where a property would
fail because of one of these it names the exception.

**Discover Weekly batches**

- `checkStuckBatches` looks for batches stuck in "downloading" or "scanning" and is
  "called periodically from queue cleaner" (`b/services/discoverWeekly.ts:527`). The cleaner counts
  only active download jobs as activity and stops itself after three idle checks
  (`b/jobs/queueCleaner.ts:324`). If the enqueue of the completion scan is rejected
  after the status was written, nothing closes the batch until some other
  download starts the cleaner again.
- A batch cancelled while its playlist is being built ends as completed, with the
  playlist ("A cancelled batch produced no playlist", `b/routes/discover.ts:151`).
- Two completion scans may be queued for one batch (`discoverWeekly.ts:740`, `:845`).
- The scan timeouts count from the batch's creation (`discoverWeekly.ts:588`, `:595`): a batch
  that downloaded for half an hour is retried or failed at once.
- Cancel leaves jobs in `processing` (`discover.ts:137-141`), returns early when no batch is open, so
  that a queued generation goes on, and removes an active one with an empty token, which BullMQ rejects.
- A generation's lock is there "to prevent race condition between check and queue"
  (`discover.ts:215`), but the batch is opened later by the worker, with neither lock nor
  check (`discoverWeekly.ts:239`); BullMQ repeats a generation whose process died, which opens
  a second batch; retry-unavailable (`discover.ts:840`) and the cron check nothing either.
- `cleanupFailedArtists` (`discoverWeekly.ts:1919`) deletes by tag alone, so also ACTIVE albums
  of other users of the same week.

**Discovery albums**

- The scanner marks only the file that creates an album as a discovery; the second
  file, or one read again, upserts an `OwnedAlbum` of the library (`b/services/musicScanner.ts:700-768`,
  against the comment at `:745`), which then blocks artist cleanup and repairs.
- "User's pre-existing library is NEVER touched" (`discover.ts:2078`): the tag is also put on artists
  Lidarr had before (`b/services/lidarr.ts:960`) and not removed when a user downloads the
  artist for the library, and the last phase of clear and the cleanup after a batch go by the tag.
- `discover.ts:1406-1412` keeps what the user has liked; an album liked after the check, or while Lidarr
  answers, still loses its files. One user's rejection deletes the files of an album another one liked,
  and one user's unlike deletes the ownership the other's like created.
- `/cleanup-lidarr` is to spare an artist if any user liked their work (`discover.ts:2283-2286`). It reads the kept albums (`:2324`) and
  then the ACTIVE ones (`:2333`): an album liked between the two is in neither set, and its artist goes with all files.
- `/fix-tagging` "Does NOT touch albums that user has LIKED" (`discover.ts:2425`), but reads what is protected once
  (`:2451-2477`) and updates artist by artist later (`:2520`), as the integrity worker does album by album
  (`b/workers/dataIntegrity.ts:212-230`, `:260`): an album liked in between goes back to DISCOVER.
- A rejection's find and delete "share one snapshot" (`discoveryAlbumLifecycle.ts:142-144`); at the default isolation of
  PostgreSQL each statement has its own.
- Albums from Soulseek are rejected without their files, which the next scan imports again.
- An unlike writes ACTIVE whatever the row has become; a like before the scan leaves only
  the source `discover_liked`, which the integrity worker does not protect (it knows `discovery_liked`).

**Downloads and webhooks**

- `POST /downloads` says its transaction with row locks prevents two requests from both
  passing the check (`b/routes/downloads.ts:170-172`). `FOR UPDATE SKIP LOCKED` locks rows
  that exist; with none, both requests insert. The unique index that would stop the
  second was replaced by one that includes the batch (migration
  `20260214115252`), NULL here, and NULLs never conflict.
- The check of release taps and acquisitions does not see a job that is already
  `processing`, so sequential requests create a second job.
- The lock's Lua script ensures "we only delete if we hold the lock" (`distributedLock.ts:25`), but
  `lockValue` is drawn once per process (`:8`): a section that has outlived its TTL deletes the key of the
  next one, and a third comes in beside it.
- A library job that Lidarr never grabs is to time out (`simpleDownloadManager.ts:1328-1330`), but each
  extension sets `startedAt` anew (`:1534-1546`), so that it may be extended for ever. The minutes named there are
  3, 2 and 5, in code 10, 5 and 15.
- `markJobExhausted`'s "completed" for a duplicate is overwritten by its callers' "failed" (`:1657`), and the
  count of missed checks is not reset (`:2095-2098`).
- Names are compared by containment in the webhooks (`simpleDownloadManager.ts:506-515`, `:743-758`), the replacements of the queue sync
  (`:2178-2187`) and the cleaner (`queueCleaner.ts:528-543`), and fuzzily after a scan
  (`scanProcessor.ts:333-347`), which `lidarr.ts:2720-2726` warns of: it completes downloads of albums that are not there.
- A restart between a download's transaction and its follow-up loses the follow-up:
  the replay finds the job completed (`webhooks.ts:9-12`, `simpleDownloadManager.ts:687`).
- A stored event that fails `MAX_RETRIES` times is left alone, against
  "No webhook events are lost" (`webhooks.ts:9`).
- `releases.ts:265-267` speaks of the "SAME lock"; the keys differ.

**Enrichment, audio and vibe**

- "Never allow concurrent runs" (`unifiedEnrichment.ts:707`): `isRunning` is set after an await.
- A cycle halts "if stopped/paused" (`:739`), but the answers of the podcast and vibe phases are not looked at
  (`:768`), and each phase writes "running" over "paused", which the next start takes for a resume (`:676-682`).
  The report of a cycle writes an older status back.
- A stop during a running cycle clears its own flags and is forgotten (`:77`); the first cycle's rejection after a start
  leaves no timer (`:357-360`); the gate of the analyzer survives a restart.
- The analyzer counts "the crash as a retry so a poison file can't loop forever"
  (`services/audio-analyzer/analyzer.py:1446-1447`). A crash seen by the batch itself resets the
  track as a timeout, uncounted (`:1859`), and a stale row is usually found first by the
  backend's cleanup, uncounted too (`audioAnalysisCleanup.ts:207-217`).
- `/vibe/start` clears the failures after it has queued the tracks, and with them fresh ones; a job that stalls
  twice leaves its row "processing", or, when an earlier attempt had marked the track as failed and the list was
  cleared since, a failure that no list has; a sweep or a counting timer resumes the queue after a halt
  (`audioCompletionSubscriber.ts:64`).

**Import and playlists**

- A cancellation "removes all DB/Redis traces" (`spotifyImport.ts:2878`, `:2930`), but every task that has a copy of the job in
  hand saves it afterwards, which creates the row again: a check, an album that answers (`:2877` aborts without waiting), the import worker between its
  look at the job (`:3738`) and its save, or a read that has found the row and puts it back into Redis (`:276-288`).
- "Playlist already created" (`:2029`) looks at the job as it was read. A check that began before the playlist was made saves a
  job without it, and queues another scan, which makes a second playlist; a restart after the creation does too, as BullMQ repeats the import.
- "DB is source of truth" (`:199`, `:216`): the tracks of a quick import are in Redis only, a time-out is in the row only.
- An import of unknown albums only always ends as failed (`:1900`); the cleaner's thirty-minute limit for scanning cannot be reached, as each
  re-queueing touches `updatedAt` (`:407`); a restart between save and enqueue leaves the import pending, and a quick import's
  check for duplicates returns it for ever.
- The scan promises to remove tracks whose files are gone and to convert those in playlists
  to pending entries first (`b/services/musicScanner.ts:181`, `:212`). The pending entry is created
  without a rank (`:236`), the default is the empty string, and `(playlistId, rank)` is unique since
  migration `20260801090000`: the second missing track of one playlist makes every scan throw.

## Proofs

TLAPS checks eight proof modules to the last leaf. Theorems hold for every
value of the constants that satisfies the named assumptions of the module: any number of
albums, tracks, jobs, requests, faults and restarts, and whatever situations a `Scenarios` constant lists.
Every invariant, action property and refinement that a run checks is a theorem here;
what is left to the runs is liveness and what the digit loops compute.

| module | about | theorems | assumptions |
| --- | --- | --- | --- |
| `DiscoveryBatchProofs` | `DiscoveryBatch` | `Typing`, `PlaylistSafe`, `CompletedSafe`, `ScanSafe`, `RetrySafe`, `NeverReopenedSafe`, `RefinesLifecycle` | jobs are a finite set, tasks are distinct, the two-hour limit lies before `MaxAge` |
| | `OptimisticBatchUpdate` | `UpdateTyping`, `RefinesAtomicUpdate`, `UnguardedCallsSucceed`, `WritesBuildOnRead` | calls are a finite set |
| `DownloadDedupProofs` | `DownloadDedup` | `Typing`, `WaitingSafe`, `FinishedSafe` | any number of requests of any kinds |
| | `DistributedLock` | `LockTyping`, `ExclusionSafe`, `ReleaseSafe`, `ShortCallbacksExclude` | `TTL` is positive; any number of sections in a process; the last one presumes that no callback outlives the TTL |
| | `WebhookEvents` | `EventTyping`, `ProcessedSafe`, `FollowUpSafe` | the reconciler is not a delivery |
| `DownloadJobsProofs` | `DownloadJobs` | `Invariance`, `JobsSafe`, `SettledSafe` | any relation `LooksLike` between albums; the three sweepers are distinct and no jobs |
| `DiscoveryAlbumsProofs` | `DiscoveryAlbums` | `Typing`, `LikesKeepFiles`, `LibraryFilesKept`, `KeptStays`, `VerdictsStand` | albums are a finite set |
| `EnrichmentCycleProofs` | `EnrichmentCycle` | `ChainInvariance`, `ChainSafe`, `ChainLivesOn` | any callbacks; any list of phases that ends with the vibe phase |
| `AudioAnalysisProofs` | `AudioAnalysis` | `Typing`, `Consistent`, `OneAnalysisSafe`, `CompletedStaysSafe` | tracks are a finite set; positive limits |
| | `VibeQueue` | `VibeInvariance`, `VibeSafe` | tracks are a finite set |
| `SpotifyImportProofs` | `SpotifyImport` | `ImportSafe`, `CancelSafe`, `PlaylistSafe` | albums are a finite set; visitors are distinct from the other tasks; positive concurrency |
| `PlaylistRanksProofs` | `LexoRank` | `StrictlyBetween`, `AppendedLast`, `SequenceIncreases` | at least two digits |
| | `PlaylistRanks` | `Typing`, `DistinctSafe`, `AddedSafe`, `MoveSafe`, `RefinesList` | fewer names than three-digit keys; `MaxAdd` below `Base * Base` |

`ScanAfterDownloading`, `RetryScanOnce`, `NeverReopened` (batch), `ProcessedIsApplied` (events) and
`AddedInFull` (playlist) are proved and, being so, not repeated in a run.

### The arguments

**One playlist per batch.** That at most one playlist is built is not
inductive: a build that has passed the guard could commit after another one has.
`PlaylistOnce` adds that while a build is past its guard (`scanner` is "building"
or "empty") nothing is committed yet, and that a commit closes the row. `ScanOrder` adds,
for every place where a checker may still queue a scan or the cleaner re-queue
one, that the batch has left downloading for good. `RetryCount` relates the retry
scans queued to the mark in the row and to where the cleaner is between queueing and
marking; a restart there is what `1 + crashes` pays for. `StatusStep` lists the
status changes a step can make, from which `NeverReopened` and the refinement follow.

**The loop is atomic.** The refinement maps a call to "pending" until its last
step, so only a successful update moves the abstract row. `ConflictBound`
says that the version counts the calls that succeeded and bounds an unguarded call's
retries by it, because each of its conflicts is another call's version bump.
`VersionTracksRow` says that, as long as no direct write happened, an unchanged
version means an unchanged status, or a deleted row.

**The lock.** `KeyCoversSection`: a section that is `Protected`, within its TTL and not robbed, still owns the key, and
the key has more time left than the section needs to reach the TTL.
`KeyNamesProcess`: a key holds the value of its holder's process at that time. So a release that deletes another's key is one of the same process, and by
the first is no longer protected itself. Where no callback outlives its TTL nobody is ever robbed, and sections exclude one another
(`ShortCallbacksExclude`).

**Events.** `TransactionFirst`: nothing happens to an event before its transaction,
and a task past the transaction has the job completed, so whoever marks the event marks
an applied one. `OneFollowUp`: at most one task may still follow up, and then nobody has. Both are needed at
the same time for the reconciler overtaking a handler.

**Jobs per lock.** A request that has checked and not yet inserted holds its lock, and of the rows
created under one lock at most one still waits: the check excluded the others, and a
settled row does not wait again. `OwnTarget` and `Launched`: only its creator or an acquisition launches a row, who has launched is done, and no row is past waiting
without a launch. So whoever writes over a finished row comes after another launch, and one of the two is an acquisition that had found the row
while it waited.

**Kept albums.** Files go only where a deletion has been decided. `KeptUndoomed` says that a row
that is kept and yet may be deleted (its own user's generation or clear has it, or somebody has looked for what is kept and found nothing:
`KeptLooked`) is in `late`: the queries look at the rows, and a like
moves the pair into `late` if it comes after them. `KeptPassed` is its counterpart for the repairs: who is ahead with an album has found
that nobody keeps it, or the like that came after is in `passed`. `PicksOnly` says that generations and clears touch only what was picked for their user,
`OwnedUndoomed` the same as `KeptUndoomed` of the library's own albums (`OwnedLooked`).

**Analyses.** An analysis beside the first needs a row that became open, or stale, while the first ran. `Slack` counts:
while a row is open or stale, no more analyses run than there have been faults and restarts, less the one from
which the backend is just recovering; while it is processing, one more. The claim turns the first into the second,
and each way back costs a fault or a restart. `StaleProcessing` says that the stale rows
are processing, so that no cleanup touches another; `Causes` that what the backend read
before it condemns a track still holds when it writes, because retries only grow until the backend
restarts and forgets, and files do not come back.

**Jobs of Lidarr.** What a job may promise depends on rows that tasks read long before they write. `InHand` is the
invariant about them: a task past its read still holds the row it is about to write, that row is there, rows
found on disk or at Lidarr have an album there that passes for theirs, and rows to be synced have the album they had when they were read; `Noted` the same of
the rows whose notification is to be written. `Arrived`
says that snapshots and imports are of albums that have arrived, which `files` only adds to. One lemma, `RowsStep`, then says what any
step may do to a row: create it, or change it, and from what to what. `CompletedHasAlbum`, `RefNamesAlbum` (the parts of `JobsConsistent`) and
`OnlyLateTasksUndo` follow from it without another look at the actions; a second pass over them (`ControlStep`) shows that
`InHand` and `Arrived` are kept.

**The chain of cycles.** `OneAlive`: of the callbacks at most one is not off. `Pending`: the armed one is the one whose timer `handle`
names. Neither is inductive without the other, since a trigger clears the pending timer and arms another
callback. `Working` says which updates a task is at in which place, `Asked` that the administrator's request has a
message to publish. `ChainLives` needs only types: each way a callback ends arms the next, the first cycle's
failure excepted.

**Failures of embeddings.** `JobsInHand`: whoever is at work on a track has its active job; a track is "failed" only in the last steps of
an attempt, and a job that lives has an attempt left. `Listed` is `NoSilentFailure` with the gap closed:
within a forced start, between the write of the rows and the clearing of the list, a failure may be missing. The proof
found that a job given up after two deaths may leave such a failure too (`cut`).

**Imports.** `Worker`: the import worker is busy exactly while its queue job is active. `EarlyVirgin`: until it turns to its albums nothing has been
acquired, scanned or handed on. Then every step but a restart is one task going on from its label (`Steps`), and it saves only what it has in hand (`Writing`);
what follows is about who has what. `PlainTracks` and `AllHave`: the row, the copy in Redis and every copy in hand have the tracks of a plain import; `QuickTracks` the
same of a quick one from the save of its tracks on, as long as Redis lost and refused nothing and no task was broken off. `CancelQuiet` strengthens `CancelSticks`: after
a quiet cancellation every task is inert, so that it finds nothing and has nothing to save, and stays so.
`BuiltOnce` holds as long as no playlist was forgotten (`stale`) and no build broken off (`broken`): there is at most one playlist, none
while an import without albums has yet to build its own, and once there is one the scan worker is past building, the row and Redis know of it as soon as
its job is saved, and so does what the scan worker has read. `Builds` says how each of the two builders comes to build.

**Ranks.** `IInv` is `TypeOK`, `LockOwner` (a request in its
transaction holds the lock), `Fits` (the ranks a request has computed still fit:
above every rank and increasing for an add; for a move above the anchor and below
every rank behind it) and `DistinctRanks`. `Fits` survives steps of others because
without the lock the set of ranks only shrinks, but for the empty rank of
a placeholder, which sorts below everything (`KeysShrink`, `UnlockedStep`); with it, the
holder is the only one (`LockedStep`). What each request needs from the keys is
`StrictlyBetween`, `AppendedLast` and `SequenceIncreases`, theorems
about the closed forms. Less is stated with "at most" before the differing digit, so that
transitivity needs no least index; the run checks that it is the order of strings.

**The list.** `ListOrder` speaks of a sequence of rows; the code has ranks in two tables. `ListingInOrder` shows that sorting a finite set
by a strict order (each element at the place given by how many sort before it) gives every element once, in
order; it rests on `FS_Injection`, as no induction is at hand. `LessTotal` makes the order of keys total, with a least differing digit from
`WFMin`, and `DistinctRanks` makes it strict on rows. Then each step is a fact about two sorted lists: ranks above
all others append (`SomeFollow`), one changed rank moves one row (`OneMoves`), fewer rows keep their order
(`SomeGo`), and the empty rank of a placeholder leads (`OneLeads`).

### Only model-checked

- Liveness: `RunningCleanerCloses`, `KeyAlwaysFreed`, `ArrivedSettles`, `BatchJobSettles`,
  `AnsweredIsApplied`, `CompletedIsScanned`, `FollowsStatus`, `StopCarriedOut`, `EveryTrackSettles`,
  `EmbeddedInTheEnd`, `SettlesInTheEnd`. The prover does not reason about fairness.
- `RefusedOnlyWhenFull` and `AgreesWithLoop`: induction over the digits of a key.

## Not modelled

Within the modelled components: which albums a week holds, the playlist's
content, exclusions and the unavailable albums; the matching of a webhook to
its job in `WebhookEvents` (each event has its own; `DownloadJobs` has the matching), payloads that share an `eventId`,
and `cleanupOldEvents`; retries that create download jobs without any check (`notifications.ts`, `playlists.ts`,
`soulseek.ts`); a sweep that runs on after its two-minute timeout; what the phases of the enrichment cycle do but
for scan, audio and vibe; the analyse and retry routes of the audio analysis, and the order of its lists;
text embeddings; matching, preview, M3U import, refresh and reconciliation of an import; several imports at once;
writers of ranks that take no lock (Subsonic's playlist calls, the import's reconciliation and
refresh); discovery albums of several weeks or artists.

Hazards that no property covers, with the reason:

- a rank sequence of `BASE ** 2` names (`lexoRank.ts:138`) has step 0; `SequenceIncreases` assumes fewer,
  and nothing in the code limits them;
- events that share an `eventId` (`webhookEventStore.ts:170`): the model gives each event its own;
- a vanished file marked invalid by one write (`analyzer.py:2117`): the track is left valid for neither process and
  settles nowhere, which `EveryTrackSettles` excuses by "readable";
- the cascade of a scan's delete over items added meanwhile (`musicScanner.ts:214`), and rank writers without the
  lock: there is no promise to hold the code to;
- the route that marks a track queued (`routes/analysis.ts:350`), which may double an analysis by itself;
- two generations, or a repeated one: their exclusion is what the code lacks (above);
- the cleaner that stops with a batch open (`queueCleaner.ts:324`): `RunningCleanerCloses` presumes a running one, and the code keeps no
  promise that another starts (above);
- two artist requests that both find no row to lock (`downloads.ts:176`): both insert, so there is nothing to hold (above);
- the write of the enrichment status from a record read before (`enrichmentState.ts:133`): `FollowsStatus` and `StopCarriedOut` speak of the status as it
  was written last, whoever lost; which one should have won the code does not say;
- the shared pause of the rate limiter (`rateLimiter.ts:189`): a comparison of wall-clock times.

Components left out, with reasons:

- Discovery generation and week: what could be stated of it is that generations exclude each other, which the code does
  not do.
- Sequential or one write per request: library scanner (but for the steps above), metadata
  enrichment workers, podcasts and audiobooks, playback state, settings, streaming,
  search, caches, event bus.
- Data rather than control: identity and normalisation, recommendation and mood.
- Calls to external systems: Lidarr, metadata clients, Soulseek; the rate limiter's queues are a library's.
- Dead: the download queue's map, to which nothing is ever added.
- User interface: the web client. Its audio controller and engine policy have a
  state machine worth a module.

## Plan

Written so far, in this order: `DiscoveryBatch` with `BatchLifecycle`;
`OptimisticBatchUpdate` with `AtomicBatchUpdate`, which justifies its atomic write;
`DistributedLock`, which `DownloadDedup` uses as a mutex; `WebhookEvents`;
`AudioAnalysis`; `LexoRank`, `PlaylistRanks` and `ListOrder`; `DownloadJobs`; `EnrichmentCycle`; `VibeQueue`;
`SpotifyImport`; `DiscoveryAlbums`. Next:

1. Proofs: what follows from the invariants and no run asks, and how the models'
   theorems combine (the mutex of `DownloadDedup` from the lock's exclusion; its jobs in `WebhookEvents`).
2. `PlaylistWriters`: the writers without the lock against `PlaylistRanks`; which of its properties survive.
3. The web client's audio controller; the reconciliation of pending tracks after an import.
4. `DownloadJobs` composed with `WebhookEvents`, and an abstract specification of a job.
