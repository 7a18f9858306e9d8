---------------------------- MODULE AudioAnalysis ----------------------------
(***************************************************************************)
(* The audio analysis of tracks: the backend's enrichment cycle            *)
(* (workers/unifiedEnrichment.ts, services/audioAnalysisCleanup.ts)        *)
(* validates files and fills two Redis lists; the analyzer                 *)
(* (services/audio-analyzer/analyzer.py) validates, claims and analyses.   *)
(* The two processes share the Track rows and the lists, nothing else, and *)
(* either may die between two of its database or Redis calls.              *)
(*                                                                         *)
(* Left out: the pause gate, the user's requests to analyse or retry, the  *)
(* corrupt flag of the library scanner, the order of the lists, and the    *)
(* reconciliation right after the analyzer starts.                         *)
(***************************************************************************)
EXTENDS Integers, FiniteSetsExt, Functions

CONSTANTS
    Tracks,
    Embedded,       \* tracks with a row in track_embeddings
    MaxRetries,     \* MAX_RETRIES of both processes
    Threshold,      \* CIRCUIT_BREAKER_THRESHOLD
    IdleCycles,     \* IDLE_SHUTDOWN_CYCLES
    QueueDepth,     \* MAX_QUEUE_DEPTH
    ScanDepth,      \* SCAN_QUEUE_MAX_DEPTH
    MaxFaults,      \* bound: dead workers, batch timeouts, failing saves, overruns, vanished files, lost lists
    MaxRestarts     \* bound: restarts of either process

ASSUME TrackAssumption == IsFiniteSet(Tracks) /\ Embedded \subseteq Tracks
ASSUME BoundAssumption ==
    /\ {MaxRetries, Threshold, IdleCycles, QueueDepth, ScanDepth} \subseteq Nat \ {0}
    /\ {MaxFaults, MaxRestarts} \subseteq Nat

VARIABLES
    analysis,   \* analysisStatus of each track
    scan,       \* scanStatus
    retries,    \* analysisRetryCount
    stale,      \* rows that have been processing for more than 15 minutes
    late,       \* rows that have been validating for more than 10 minutes
    queue,      \* entries of each track in audio:analysis:queue
    scanQueue,  \* entries of each track in audio:scan:queue
    py,         \* where the analyzer's loop is
    empty,      \* its consecutive_empty
    batch,      \* entries it has popped and not yet dealt with
    running,    \* analyses of each track in its worker pool
    pool,       \* "ok", "dying": a worker died and every future fails, "broken"
    node,       \* where the backend's enrichment cycle is
    cur,        \* the tracks of the write it is about to make
    todo,       \* the tracks its current phase has yet to deal with
    outcome,    \* what the cleanup did: "reset", "recovered"
    breaker,    \* the circuit breaker
    lastDone,   \* audioLastCycleCompletedCount, -1 before the first cycle
    readable,   \* tracks whose file can be read
    analysed,   \* tracks whose features have been saved
    faults, restarts

rows == <<analysis, scan, retries, stale, late, analysed>>
redis == <<queue, scanQueue>>
analyzer == <<py, empty, batch, running, pool>>
backend == <<node, cur, todo, outcome, breaker, lastDone>>
world == <<readable, faults, restarts>>
vars == <<rows, redis, analyzer, backend, world>>

Statuses == {"pending", "queued", "processing", "completed", "failed", "permanently_failed"}
Bags == [Tracks -> Nat]
None == [t \in Tracks |-> 0]
Add(bag, t) == [bag EXCEPT ![t] = @ + 1]
Drop(bag, t) == [bag EXCEPT ![t] = @ - 1]
Size(bag) == FoldFunction(+, 0, bag)
ClosedBreaker == [state |-> "closed", failures |-> 0, cooled |-> FALSE]

TypeOK ==
    /\ analysis \in [Tracks -> Statuses]
    /\ scan \in [Tracks -> {"pending", "validating", "valid", "invalid"}]
    /\ retries \in [Tracks -> Nat]
    /\ {stale, late, readable, analysed, cur, todo} \subseteq SUBSET Tracks
    /\ {queue, scanQueue, batch, running} \subseteq Bags
    /\ py \in {"down", "reset", "cleanup", "retry", "idle", "validate", "pop", "reconcile", "claim",
               "run", "recreate"}
    /\ empty \in 0..IdleCycles
    /\ pool \in {"ok", "dying", "broken"}
    /\ node \in {"recover", "flush", "rescan", "idle", "scan", "push", "retire", "recheck", "audio",
                 "cleanup", "purge", "queue", "fill"}
    /\ outcome \subseteq {"reset", "recovered"}
    /\ breaker \in [state : {"closed", "open", "half-open"}, failures : 0..Threshold, cooled : BOOLEAN]
    /\ lastDone \in Int
    /\ {faults, restarts} \subseteq Nat

Init ==
    /\ analysis = [t \in Tracks |-> "pending"]
    /\ scan = [t \in Tracks |-> "pending"]
    /\ retries = None
    /\ stale = {} /\ late = {} /\ analysed = {} /\ readable = Tracks
    /\ queue = None /\ scanQueue = None
    /\ py = "down" /\ empty = 0 /\ batch = None /\ running = None /\ pool = "ok"
    /\ node = "recover" /\ cur = {} /\ todo = {} /\ outcome = {}
    /\ breaker = ClosedBreaker /\ lastDone = -1
    /\ faults = 0 /\ restarts = 0

In(S) == {t \in Tracks : analysis[t] \in S}
Scanned(s) == {t \in Tracks : scan[t] = s}

\* UPDATE "Track" SET "analysisStatus" = s for the tracks of T; a row that leaves
\* processing is not stale any more.
Update(new) ==
    /\ analysis' = new
    /\ stale' = {t \in stale : new[t] = "processing"}
SetStatus(T, s) == Update([t \in Tracks |-> IF t \in T THEN s ELSE analysis[t]])

Fault == faults < MaxFaults /\ faults' = faults + 1

-----------------------------------------------------------------------------
(* The analyzer: its start.                                                 *)

PyStart ==
    /\ py = "down"
    /\ py' = "reset"
    /\ UNCHANGED <<rows, redis, empty, batch, running, pool, backend, world>>

\* "queued" rows go back to pending; the list is not flushed.
PyReset ==
    /\ py = "reset"
    /\ SetStatus(In({"queued"}), "pending")
    /\ py' = "cleanup"
    /\ UNCHANGED <<scan, retries, late, analysed, redis, empty, batch, running, pool, backend, world>>

\* _cleanup_stale_processing: one transaction.
Charged == {t \in stale : t \notin Embedded /\ retries[t] < MaxRetries}
\* Mutant of CleanupRows: every stale row counts as recovered.
RecoverAll ==
    /\ Update([t \in Tracks |-> IF t \in stale THEN "completed" ELSE analysis[t]])
    /\ UNCHANGED retries

CleanupRows ==
    /\ Update([t \in Tracks |->
          IF t \notin stale THEN analysis[t]
          ELSE IF t \in Embedded THEN "completed"
          ELSE IF t \in Charged THEN "pending" ELSE "failed"])
    /\ retries' = [t \in Tracks |-> IF t \in Charged THEN retries[t] + 1 ELSE retries[t]]

PyCleanup ==
    /\ py = "cleanup"
    /\ CleanupRows
    /\ py' = "retry"
    /\ UNCHANGED <<scan, late, analysed, redis, empty, batch, running, pool, backend, world>>

\* The cleanup of a start is skipped when one ran less than 2 minutes ago.
PySkipCleanup ==
    /\ py = "cleanup"
    /\ restarts > 0
    /\ py' = "retry"
    /\ UNCHANGED <<rows, redis, empty, batch, running, pool, backend, world>>

\* _retry_failed_tracks
PyRetry ==
    /\ py = "retry"
    /\ Update([t \in Tracks |->
          IF analysis[t] # "failed" THEN analysis[t]
          ELSE IF t \in Embedded THEN "completed"
          ELSE IF retries[t] < MaxRetries THEN "pending" ELSE "failed"])
    /\ py' = "idle"
    /\ UNCHANGED <<scan, retries, late, analysed, redis, empty, batch, running, pool, backend, world>>

-----------------------------------------------------------------------------
(* The analyzer: one turn of its loop.                                      *)

\* process_scan_queue
PyPopScan ==
    /\ py = "idle"
    /\ scanQueue # None
    /\ batch' = scanQueue
    /\ scanQueue' = None
    /\ py' = "validate"
    /\ UNCHANGED <<rows, queue, empty, running, pool, backend, world>>

Validate(t, s) ==
    /\ py = "validate"
    /\ batch[t] > 0
    /\ batch' = Drop(batch, t)
    /\ scan' = [scan EXCEPT ![t] = s]
    /\ late' = late \ {t}
    /\ UNCHANGED <<analysis, retries, stale, analysed, redis, py, empty, running, pool, backend>>

PyValidate(t) == Validate(t, IF t \in readable THEN "valid" ELSE "invalid") /\ UNCHANGED world

\* The scan worker dies, or its future fails.
PyValidateFails(t) == Validate(t, "pending") /\ Fault /\ UNCHANGED <<readable, restarts>>

\* The write of the verdict fails.
PyVerdictLost(t) ==
    /\ py = "validate"
    /\ batch[t] > 0
    /\ batch' = Drop(batch, t)
    /\ Fault
    /\ UNCHANGED <<rows, redis, py, empty, running, pool, backend, readable, restarts>>

PyValidated ==
    /\ py = "validate"
    /\ batch = None
    /\ py' = "pop"
    /\ UNCHANGED <<rows, redis, empty, batch, running, pool, backend, world>>

Popping == py = "pop" \/ (py = "idle" /\ scanQueue = None)

\* BRPOP, then LPOP up to the batch size, of which the lists here hold less.
PyPop ==
    /\ Popping
    /\ queue # None
    /\ batch' = queue
    /\ queue' = None
    /\ empty' = 0
    /\ py' = "claim"
    /\ UNCHANGED <<rows, scanQueue, running, pool, backend, world>>

PyPopTimeout ==
    /\ Popping
    /\ queue = None
    /\ empty' = empty + 1
    /\ py' = "reconcile"
    /\ UNCHANGED <<rows, redis, batch, running, pool, backend, world>>

\* Mutant of Lost: nothing is pushed again.
NothingLost == {}

\* _run_db_reconciliation; an idle pool is shut down, and started again with work.
Lost == {t \in In({"queued"}) : retries[t] < MaxRetries}

PyReconcile ==
    /\ py = "reconcile"
    /\ queue' = [t \in Tracks |-> IF t \in Lost THEN queue[t] + 1 ELSE queue[t]]
    /\ pool' = IF Lost = {} THEN "ok" ELSE pool
    /\ empty' = IF empty >= IdleCycles THEN 0 ELSE empty
    /\ py' = IF empty >= IdleCycles THEN "cleanup" ELSE "idle"
    /\ UNCHANGED <<rows, scanQueue, batch, running, backend, world>>

\* Mutant of Claimable: the status is not looked at.
ClaimAny(t) == scan[t] = "valid"

\* _mark_track_processing
Claimable(t) == analysis[t] \in {"pending", "queued"} /\ scan[t] = "valid"

PyClaim(t) ==
    /\ py = "claim"
    /\ batch[t] > 0
    /\ IF Claimable(t)
       THEN SetStatus({t}, "processing")
       ELSE SetStatus(({t} \cap In({"queued"})) \ Scanned("valid"), "pending")
    /\ IF Claimable(t) /\ pool = "broken"
       THEN batch' = None /\ py' = "recreate" /\ UNCHANGED running   \* submit raises
       ELSE /\ batch' = Drop(batch, t)
            /\ running' = IF Claimable(t) THEN Add(running, t) ELSE running
            /\ UNCHANGED py
    /\ UNCHANGED <<scan, retries, late, analysed, redis, empty, pool, backend, world>>

PyClaimed ==
    /\ py = "claim"
    /\ batch = None
    /\ py' = IF running = None THEN "idle" ELSE "run"
    /\ UNCHANGED <<rows, redis, empty, batch, running, pool, backend, world>>

\* The start loop catches BrokenProcessPool.
PyRecreate ==
    /\ py = "recreate"
    /\ CleanupRows
    /\ pool' = "ok"
    /\ py' = "idle"
    /\ UNCHANGED <<scan, late, analysed, redis, empty, batch, running, backend, world>>

-----------------------------------------------------------------------------
(* The analyzer: the outcomes of a batch.                                   *)

Returns(t, p) ==
    /\ py = "run"
    /\ pool = p
    /\ running[t] > 0
    /\ running' = Drop(running, t)
    /\ UNCHANGED <<scan, late, redis, py, empty, batch, pool, backend>>

\* Mutant of Still: the outcome is written whatever the status.
WriteAnyway(t) == {t}

\* WHERE ... AND "analysisStatus" = 'processing'
Still(t) == {t} \cap In({"processing"})

PySave(t) ==
    /\ t \in readable
    /\ Returns(t, "ok")
    /\ SetStatus(Still(t), "completed")
    /\ analysed' = analysed \cup Still(t)
    /\ UNCHANGED <<retries, world>>

PyFail(t) ==
    /\ Returns(t, "ok")
    /\ SetStatus(Still(t), "failed")
    /\ retries' = [i \in Tracks |-> IF i \in Still(t) THEN retries[i] + 1 ELSE retries[i]]
    /\ UNCHANGED <<analysed, world>>

\* The call that would save the outcome fails.
PyOutcomeLost(t) ==
    /\ Returns(t, "ok")
    /\ Fault
    /\ UNCHANGED <<analysis, retries, stale, analysed, readable, restarts>>

\* A worker dies, and with it the pool.
PyWorkerDies(t) ==
    /\ py = "run" /\ pool = "ok" /\ running[t] > 0
    /\ pool' = "dying"
    /\ Fault
    /\ UNCHANGED <<rows, redis, py, empty, batch, running, backend, readable, restarts>>

\* Every future of that pool fails, "no penalty".
PyInnocent(t) ==
    /\ Returns(t, "dying")
    /\ SetStatus(Still(t), "pending")
    /\ UNCHANGED <<retries, analysed, world>>

\* 15 minutes: the unfinished ones go back without penalty, the pool is replaced.
PyBatchTimeout ==
    /\ py = "run" /\ pool = "ok" /\ running # None
    /\ Fault
    /\ SetStatus({t \in In({"processing"}) : running[t] > 0}, "pending")
    /\ running' = None
    /\ py' = "idle"
    /\ UNCHANGED <<scan, retries, late, analysed, redis, empty, batch, pool, backend, readable, restarts>>

PyRan ==
    /\ py = "run"
    /\ running = None
    /\ pool' = IF pool = "dying" THEN "broken" ELSE pool
    /\ py' = "idle"
    /\ UNCHANGED <<rows, redis, empty, batch, running, backend, world>>

PyDies ==
    /\ py # "down"
    /\ restarts < MaxRestarts
    /\ restarts' = restarts + 1
    /\ py' = "down" /\ empty' = 0 /\ batch' = None /\ running' = None /\ pool' = "ok"
    /\ UNCHANGED <<rows, redis, backend, readable, faults>>

-----------------------------------------------------------------------------
(* The backend: its start.                                                  *)

NodeRecover ==
    /\ node = "recover"
    /\ SetStatus(In({"processing", "queued"}), "pending")
    /\ retries' = [t \in Tracks |-> IF t \in In({"processing", "queued"}) THEN 0 ELSE retries[t]]
    /\ node' = "flush"
    /\ UNCHANGED <<scan, late, analysed, redis, analyzer, cur, todo, outcome, breaker, lastDone, world>>

NodeFlush ==
    /\ node = "flush"
    /\ queue' = None
    /\ node' = "rescan"
    /\ UNCHANGED <<rows, scanQueue, analyzer, cur, todo, outcome, breaker, lastDone, world>>

Rescan(T) == scan' = [t \in Tracks |-> IF t \in T THEN "pending" ELSE scan[t]] /\ late' = late \ T

NodeRescan ==
    /\ node = "rescan"
    /\ Rescan(Scanned("validating"))
    /\ node' = "idle"
    /\ UNCHANGED <<analysis, retries, stale, analysed, redis, analyzer, cur, todo, outcome, breaker,
                   lastDone, world>>

-----------------------------------------------------------------------------
(* The backend: executeScanPhase.                                           *)

\* The rows whose validation is late go back, then the pending ones are selected.
NodeScan ==
    /\ node = "idle"
    /\ IF Size(scanQueue) >= ScanDepth
       THEN node' = "audio" /\ UNCHANGED <<scan, late, todo>>
       ELSE /\ Rescan(late)
            /\ todo' = Scanned("pending") \cup late
            /\ node' = "scan"
    /\ UNCHANGED <<analysis, retries, stale, analysed, redis, analyzer, cur, outcome, breaker, lastDone,
                   world>>

\* validateAudioHeader, and the first write it leads to.
NodeHeader(t) ==
    /\ node = "scan"
    /\ t \in todo
    /\ scan' = [scan EXCEPT ![t] = IF t \in readable THEN "validating" ELSE "invalid"]
    /\ late' = late \ {t}
    /\ node' = IF t \in readable THEN "push" ELSE "retire"
    /\ cur' = {t}
    /\ todo' = todo \ {t}
    /\ UNCHANGED <<analysis, retries, stale, analysed, redis, analyzer, outcome, breaker, lastDone, world>>

NodePush ==
    /\ node = "push"
    /\ scanQueue' = [t \in Tracks |-> IF t \in cur THEN scanQueue[t] + 1 ELSE scanQueue[t]]
    /\ node' = "scan"
    /\ UNCHANGED <<rows, queue, analyzer, cur, todo, outcome, breaker, lastDone, world>>

\* markScanInvalid, its second write.
NodeRetire ==
    /\ node = "retire"
    /\ SetStatus(cur \cap In({"pending", "queued", "failed"}), "permanently_failed")
    /\ node' = "scan"
    /\ UNCHANGED <<scan, retries, late, analysed, redis, analyzer, cur, todo, outcome, breaker, lastDone,
                   world>>

NodeScanned ==
    /\ node = "scan"
    /\ todo = {}
    /\ node' = "recheck"
    /\ UNCHANGED <<rows, redis, analyzer, cur, todo, outcome, breaker, lastDone, world>>

\* The spot check of valid pending tracks for files that are gone.
Gone == (Scanned("valid") \cap In({"pending"})) \ readable

NodeRecheck(t) ==
    /\ node = "recheck"
    /\ t \in Gone
    /\ scan' = [scan EXCEPT ![t] = "invalid"]
    /\ cur' = {t}
    /\ node' = "retire"
    /\ UNCHANGED <<analysis, retries, stale, late, analysed, redis, analyzer, todo, outcome, breaker,
                   lastDone, world>>

NodeRechecked ==
    /\ node = "recheck"
    /\ Gone = {}
    /\ node' = "audio"
    /\ UNCHANGED <<rows, redis, analyzer, cur, todo, outcome, breaker, lastDone, world>>

-----------------------------------------------------------------------------
(* The backend: the circuit breaker of audioAnalysisCleanup.                *)

OnSuccess(b) == IF b.state = "open" THEN b ELSE ClosedBreaker

OnFailure(b) ==
    LET n == IF b.failures < Threshold THEN b.failures + 1 ELSE Threshold
    IN  IF b.state = "half-open" \/ n = Threshold
        THEN [b EXCEPT !.state = "open", !.failures = n]
        ELSE [b EXCEPT !.failures = n]

\* isCircuitOpen: 5 minutes after it opened the breaker lets one attempt through.
Consulted == IF breaker.state = "open" /\ breaker.cooled THEN [breaker EXCEPT !.state = "half-open"]
             ELSE breaker

-----------------------------------------------------------------------------
(* The backend: executeAudioPhase.                                          *)

\* A count that grew is a success; then the stale rows are read with their retries.
NodeAudio ==
    /\ node = "audio"
    /\ breaker' = IF lastDone >= 0 /\ Cardinality(In({"completed"})) > lastDone
                  THEN OnSuccess(breaker) ELSE breaker
    /\ lastDone' = Cardinality(In({"completed"}))
    /\ todo' = stale
    /\ cur' = {t \in stale : retries[t] >= MaxRetries}
    /\ outcome' = {}
    /\ node' = "cleanup"
    /\ UNCHANGED <<rows, redis, analyzer, world>>

\* cleanupStaleProcessing, one track: the staleness is checked again, the retries not.
NodeCleanup(t) ==
    /\ node = "cleanup"
    /\ t \in todo
    /\ todo' = todo \ {t}
    /\ IF t \in Embedded
       THEN SetStatus({t} \cap stale, "completed")
       ELSE SetStatus({t} \cap stale, IF t \in cur THEN "permanently_failed" ELSE "pending")
    /\ outcome' = outcome \cup (IF t \notin stale THEN {}
                                ELSE IF t \in Embedded THEN {"recovered"}
                                ELSE IF t \in cur THEN {} ELSE {"reset"})
    /\ UNCHANGED <<scan, retries, late, analysed, redis, analyzer, node, cur, breaker, lastDone, world>>

\* The breaker hears of it, and the tracks in purgatory are read.
Purgatory == {t \in In({"pending", "queued"}) : retries[t] >= MaxRetries}

NodeCleaned ==
    /\ node = "cleanup"
    /\ todo = {}
    /\ LET b == IF "reset" \in outcome THEN OnFailure(breaker) ELSE breaker
       IN  breaker' = IF "recovered" \in outcome THEN OnSuccess(b) ELSE b
    /\ cur' = Purgatory
    /\ node' = "purge"
    /\ UNCHANGED <<rows, redis, analyzer, todo, outcome, lastDone, world>>

\* Two writes, neither of which looks at the status again.
NodePurge ==
    /\ node = "purge"
    /\ Update([t \in Tracks |->
          IF t \notin cur THEN analysis[t]
          ELSE IF t \in Embedded THEN "completed" ELSE "permanently_failed"])
    /\ node' = "queue"
    /\ UNCHANGED <<scan, retries, late, analysed, redis, analyzer, cur, todo, outcome, breaker, lastDone,
                   world>>

\* queueAudioAnalysis: the tracks it selects.
Ready == {t \in In({"pending"}) \cap Scanned("valid") : retries[t] < MaxRetries}
Room == QueueDepth - Size(queue)

NodeQueue ==
    /\ node = "queue"
    /\ breaker' = Consulted
    /\ IF Consulted.state = "open" \/ Room <= 0
       THEN todo' = {}
       ELSE \E T \in kSubset(Min({Room, Cardinality(Ready)}), Ready) : todo' = T
    /\ cur' = {}
    /\ node' = "fill"
    /\ UNCHANGED <<rows, redis, analyzer, outcome, lastDone, world>>

\* First every track is pushed ...
NodeFill(t) ==
    /\ node = "fill"
    /\ t \in todo
    /\ queue' = Add(queue, t)
    /\ todo' = todo \ {t}
    /\ cur' = cur \cup {t}
    /\ UNCHANGED <<rows, scanQueue, analyzer, node, outcome, breaker, lastDone, world>>

\* ... then those that are still pending become queued.
NodeMark ==
    /\ node = "fill"
    /\ todo = {}
    /\ SetStatus(cur \cap In({"pending"}), "queued")
    /\ node' = "idle"
    /\ UNCHANGED <<scan, retries, late, analysed, redis, analyzer, cur, todo, outcome, breaker, lastDone,
                   world>>

NodeDies ==
    /\ restarts < MaxRestarts
    /\ restarts' = restarts + 1
    /\ node' = "recover"
    /\ cur' = {} /\ todo' = {} /\ outcome' = {}
    /\ breaker' = ClosedBreaker
    /\ lastDone' = -1
    /\ UNCHANGED <<rows, redis, analyzer, readable, faults>>

-----------------------------------------------------------------------------
(* Time, files, Redis.                                                      *)

\* Rows age once nothing works on them any more, ...
Overdue(t) ==
    /\ \/ analysis[t] = "processing" /\ stale' = stale \cup {t} /\ UNCHANGED late
       \/ scan[t] = "validating" /\ late' = late \cup {t} /\ UNCHANGED stale
    /\ UNCHANGED <<analysis, scan, retries, analysed, redis, analyzer, backend, readable, restarts>>

InHand(t) == running[t] > 0 \/ batch[t] > 0 \/ scanQueue[t] > 0 \/ (node = "push" /\ t \in cur)

Age(t) == ~InHand(t) /\ Overdue(t) /\ UNCHANGED faults

\* ... or when a worker or the backend is that slow.
Overrun(t) == InHand(t) /\ Fault /\ Overdue(t)

Cool ==
    /\ breaker.state = "open"
    /\ breaker' = [breaker EXCEPT !.cooled = TRUE]
    /\ UNCHANGED <<rows, redis, analyzer, node, cur, todo, outcome, lastDone, world>>

Vanish(t) ==
    /\ Fault
    /\ readable' = readable \ {t}
    /\ UNCHANGED <<rows, redis, analyzer, backend, restarts>>

LoseLists ==
    /\ Fault
    /\ queue' = None /\ scanQueue' = None
    /\ UNCHANGED <<rows, analyzer, backend, readable, restarts>>

-----------------------------------------------------------------------------
Py(t) == PyValidate(t) \/ PyClaim(t) \/ PySave(t) \/ PyFail(t) \/ PyInnocent(t)
PyOnce ==
    \/ PyStart \/ PyReset \/ PyCleanup \/ PySkipCleanup \/ PyRetry \/ PyPopScan \/ PyValidated
    \/ PyPop \/ PyPopTimeout \/ PyReconcile \/ PyClaimed \/ PyRecreate \/ PyRan
Node(t) == NodeHeader(t) \/ NodeRecheck(t) \/ NodeCleanup(t) \/ NodeFill(t)
NodeOnce ==
    \/ NodeRecover \/ NodeFlush \/ NodeRescan \/ NodeScan \/ NodePush \/ NodeRetire \/ NodeScanned
    \/ NodeRechecked \/ NodeAudio \/ NodeCleaned \/ NodePurge \/ NodeQueue \/ NodeMark
Faults ==
    \/ PyBatchTimeout \/ PyDies \/ NodeDies \/ LoseLists
    \/ \E t \in Tracks :
          PyValidateFails(t) \/ PyVerdictLost(t) \/ PyOutcomeLost(t) \/ PyWorkerDies(t) \/ Overrun(t)
          \/ Vanish(t)

Next ==
    \/ PyOnce \/ NodeOnce \/ Cool \/ Faults
    \/ \E t \in Tracks : Py(t) \/ Node(t) \/ Age(t)

Spec == Init /\ [][Next]_vars

\* Both processes are restarted and go on, and the clock goes on.
FairSpec ==
    /\ Spec
    /\ WF_vars(PyOnce \/ \E t \in Tracks : Py(t))
    /\ WF_vars(NodeOnce \/ \E t \in Tracks : Node(t))
    /\ WF_vars(Cool)
    /\ \A t \in Tracks : WF_vars(Age(t))

-----------------------------------------------------------------------------
\* A track reads "completed" only when its features were saved or an embedding stands
\* for them, whichever process recovers it and however many died before.
CompletedIsAnalysed == In({"completed"}) \subseteq analysed \cup Embedded

\* A track is given up only after as many charged attempts as it had retries, or when
\* its file was found unreadable.
CondemnedWithCause ==
    \A t \in In({"permanently_failed"}) : retries[t] >= MaxRetries \/ t \notin readable

\* All three hold at once in every state: rows, lists and batches are well formed, results
\* are real and condemnations earned.
TracksConsistent == TypeOK /\ CompletedIsAnalysed /\ CondemnedWithCause

\* A second analysis of a track runs beside the first only after a restart, or an overrun,
\* let its row be reset.
OneAnalysis == \A t \in Tracks : running[t] <= 1 + restarts + faults

\* What is completed stays so, whichever process acts on an older view of the row; the one
\* exception is the purgatory write, which does not look at the row again.
CompletedStays ==
    [][\A t \in In({"completed"}) : analysis'[t] = "completed" \/ (node = "purge" /\ t \in cur)]_vars

\* Every readable track is eventually analysed or given up, for good.
Settled(t) ==
    \/ analysis[t] \in {"completed", "permanently_failed"}
    \/ analysis[t] = "failed" /\ retries[t] >= MaxRetries
EveryTrackSettles == \A t \in Tracks : <>[](Settled(t) \/ t \notin readable)
=============================================================================
