------------------------------ MODULE VibeQueue ------------------------------
(***************************************************************************)
(* From an analysed track to its vibe embedding                            *)
(* (workers/audioCompletionSubscriber.ts, executeVibePhase of              *)
(* workers/unifiedEnrichment.ts, the vibe routes of routes/analysis.ts,    *)
(* services/enrichmentFailureService.ts and the BullMQVibeWorker of        *)
(* audio-analyzer-clap/analyzer.py).                                       *)
(*                                                                         *)
(* Every audio completion pauses the vibe queue until no more come; the    *)
(* sweep of the enrichment cycle fills the queue and resumes it; Python    *)
(* takes the jobs.  A pause of enrichment, two routes of the administrator *)
(* and restarts of either process fall in between.  One track has at most  *)
(* one job, whose id is made from the track's.  An action is one statement *)
(* or one call; queries that nothing separates but microseconds are one.   *)
(***************************************************************************)
EXTENDS Naturals, FiniteSets

CONSTANTS VibeTracks, Scenarios    \* what may happen, and how often: see Bounds

MaxAttempts == 2        \* of a job
MaxStalled  == 1        \* a job that stalls more often fails

\* Tracks taken up by the audio analyzer, events and reports lost, tracks that cannot be
\* embedded this time, pauses, stops, the two routes, restarts of the analyzer and of the backend.
Bounds == {"claims", "lost", "bad", "halt", "stop", "start", "force", "retry", "clapCrash", "crash"}

ASSUME TracksAssumption == IsFiniteSet(VibeTracks)
ASSUME ScenarioAssumption == Scenarios \subseteq [Bounds -> Nat]

VARIABLES
    audio,          \* Track.analysisStatus
    vibe,           \* Track.vibeAnalysisStatus
    row,            \* there is a row of track_embeddings
    record,         \* the EnrichmentFailure of the track
    job,            \* its BullMQ job
    step,           \* where the analyzer is with it
    queuePaused,    \* of the BullMQ queue
    vibePaused, quiet, halted,  \* of the subscriber
    cycle, swept,   \* the sweep: where it is, and its tracks
    admin, chosen,  \* the route: where it is, and its tracks
    cut,            \* history: a route was cut short, or cleared a failure younger than its request,
                    \* a report was lost, or a job given up that an earlier attempt had failed
    left            \* what the scenario still allows

trackVars  == <<audio, vibe, row, record>>
queueVars  == <<job, step, queuePaused>>
subVars    == <<vibePaused, quiet, halted>>
cycleVars  == <<cycle, swept>>
adminVars  == <<admin, chosen, cut>>
vibeVars == <<trackVars, queueVars, subVars, cycleVars, adminVars, left>>

NoJob == [st |-> "none", made |-> 0, stalls |-> 0]
Live  == {"waiting", "active", "delayed"}

VibeTypeOK ==
    /\ audio \in [VibeTracks -> {"queued", "processing", "completed"}]
    /\ vibe \in [VibeTracks -> {"none", "pending", "processing", "completed", "failed"}]
    /\ row \in [VibeTracks -> BOOLEAN] /\ record \in [VibeTracks -> {"none", "open", "resolved"}]
    /\ job \in [VibeTracks -> [st : Live \cup {"none", "completed", "failed"},
                               made : 0..MaxAttempts, stalls : 0..MaxStalled]]
    /\ step \in [VibeTracks -> {"", "begin", "embed", "store", "complete", "resolve", "bad", "record"}]
    /\ {queuePaused, vibePaused, halted, cut} \subseteq BOOLEAN
    /\ quiet \in {"off", "set", "counting"}
    /\ cycle \in {"idle", "clean", "reset", "add"} /\ swept \subseteq VibeTracks
    /\ admin \in {"idle", "null", "select", "reset", "clean", "add", "clear", "resume"}
    /\ chosen \subseteq VibeTracks
    /\ left \in [Bounds -> Nat]

VibeInit ==
    /\ left \in Scenarios
    /\ audio = [t \in VibeTracks |-> "queued"] /\ vibe = [t \in VibeTracks |-> "none"]
    /\ row = [t \in VibeTracks |-> FALSE] /\ record = [t \in VibeTracks |-> "none"]
    /\ job = [t \in VibeTracks |-> NoJob] /\ step = [t \in VibeTracks |-> ""]
    /\ queuePaused = FALSE /\ vibePaused = FALSE /\ quiet = "off" /\ halted = FALSE
    /\ cycle = "idle" /\ swept = {} /\ admin = "idle" /\ chosen = {} /\ cut = FALSE

Spend(bound) == left[bound] > 0 /\ left' = [left EXCEPT ![bound] = @ - 1]
Each(f, set, value) == [t \in VibeTracks |-> IF t \in set THEN value ELSE f[t]]

-----------------------------------------------------------------------------
(* The vibe queue: a finished job holds its id until it is cleaned.         *)

Cleaned == [t \in VibeTracks |-> IF job[t].st \in {"completed", "failed"} THEN NoJob ELSE job[t]]
With(jobs, set) == [t \in VibeTracks |-> IF t \in set /\ jobs[t].st = "none"
                                         THEN [NoJob EXCEPT !.st = "waiting"] ELSE jobs[t]]

-----------------------------------------------------------------------------
(* The audio analyzer, and the subscriber that hears of it.                 *)

Claim(t) ==
    /\ audio[t] = "queued" /\ ~halted /\ Spend("claims")
    /\ audio' = [audio EXCEPT ![t] = "processing"]
    /\ UNCHANGED <<vibe, row, record, queueVars, subVars, cycleVars, adminVars>>

\* The completion of an analysis: heard, heard while halted, or lost.
Analysed(t) ==
    /\ audio[t] = "processing"
    /\ audio' = [audio EXCEPT ![t] = "completed"]
    /\ \/ /\ ~halted /\ vibePaused' = TRUE /\ quiet' = "set"
          /\ queuePaused' = (queuePaused \/ ~vibePaused)
          /\ UNCHANGED <<halted, left>>
       \/ halted /\ UNCHANGED <<subVars, queuePaused, left>>
       \/ Spend("lost") /\ UNCHANGED <<subVars, queuePaused>>
    /\ UNCHANGED <<vibe, row, record, job, step, cycleVars, adminVars>>

\* ESSENTIA_QUIET_MS without a completion; then the tracks in work are counted.
QuietOver ==
    /\ quiet = "set" /\ quiet' = "counting"
    /\ UNCHANGED <<trackVars, queueVars, vibePaused, halted, cycleVars, adminVars, left>>

Counted ==
    /\ quiet = "counting" /\ quiet' = "off"
    /\ IF \E t \in VibeTracks : audio[t] = "processing" THEN UNCHANGED <<vibePaused, queuePaused>>
       ELSE vibePaused' = FALSE /\ queuePaused' = FALSE
    /\ UNCHANGED <<trackVars, job, step, halted, cycleVars, adminVars, left>>

\* haltVibeQueuing, on a pause or a stop; a timer that has fired is not called back.
Halt ==
    /\ ~halted /\ Spend("halt")
    /\ halted' = TRUE /\ queuePaused' = TRUE
    /\ quiet' = IF quiet = "set" THEN "off" ELSE quiet
    /\ UNCHANGED <<trackVars, job, step, vibePaused, cycleVars, adminVars>>

\* resumeVibeQueuing, on a resume or a new run.
Resumed == halted' = FALSE /\ queuePaused' = FALSE /\ UNCHANGED <<vibePaused, quiet>>
Resume == halted /\ Resumed /\ UNCHANGED <<trackVars, job, step, cycleVars, adminVars, left>>

Unprocessed(f) == [t \in VibeTracks |-> IF f[t] = "processing" THEN "pending" ELSE f[t]]

\* The cycle that carries out a stop takes what is in work back.
StopCleans ==
    /\ halted /\ cycle = "idle" /\ Spend("stop")
    /\ vibe' = Unprocessed(vibe)
    /\ UNCHANGED <<audio, row, record, queueVars, subVars, cycleVars, adminVars>>

-----------------------------------------------------------------------------
(* executeVibePhase                                                         *)

UnembeddedFresh ==   \* mutant
    {t \in VibeTracks : ~row[t] /\ audio[t] = "completed" /\ vibe[t] \in {"none", "pending"}}
Unembedded ==
    {t \in VibeTracks : ~row[t] /\ audio[t] = "completed" /\ vibe[t] \in {"none", "pending", "completed"}}

SweepLook ==
    /\ cycle = "idle" /\ ~halted
    /\ \A t \in VibeTracks : audio[t] # "processing"
    /\ Unembedded # {}
    /\ swept' = Unembedded
    /\ cycle' = "clean"
    /\ UNCHANGED <<trackVars, queueVars, subVars, adminVars, left>>

SweepClean ==
    /\ cycle = "clean" /\ cycle' = "reset"
    /\ queuePaused' = FALSE    \* whoever paused it
    /\ job' = Cleaned
    /\ UNCHANGED <<trackVars, step, subVars, swept, adminVars, left>>

SweepReset ==
    /\ cycle = "reset" /\ cycle' = "add"
    /\ vibe' = Each(vibe, swept, "pending")
    /\ UNCHANGED <<audio, row, record, queueVars, subVars, swept, adminVars, left>>

SweepAdd ==
    /\ cycle = "add" /\ cycle' = "idle"
    /\ job' = With(job, swept) /\ swept' = {}
    /\ UNCHANGED <<trackVars, step, queuePaused, subVars, adminVars, left>>

NowEmbedded == {t \in VibeTracks : vibe[t] = "completed"}

\* cleanupOrphanedFailures, once an hour after the sweep.
ResolveStale ==
    /\ cycle = "idle" /\ ~halted
    /\ \E t \in NowEmbedded : record[t] = "open"
    /\ record' = [t \in VibeTracks |-> IF t \in NowEmbedded /\ record[t] = "open"
                                        THEN "resolved" ELSE record[t]]
    /\ UNCHANGED <<audio, vibe, row, queueVars, subVars, cycleVars, adminVars, left>>

-----------------------------------------------------------------------------
(* BullMQVibeWorker.                                                        *)

To(t, s) == step' = [step EXCEPT ![t] = s]
SameButTracks == UNCHANGED <<audio, job, queuePaused, subVars, cycleVars, adminVars, left>>

Take(t) ==
    /\ job[t].st = "waiting" /\ ~queuePaused
    /\ job' = [job EXCEPT ![t].st = "active"] /\ To(t, "begin")
    /\ UNCHANGED <<trackVars, queuePaused, subVars, cycleVars, adminVars, left>>

Begin(t) == step[t] = "begin" /\ To(t, "embed") /\ vibe' = [vibe EXCEPT ![t] = "processing"]
            /\ SameButTracks /\ UNCHANGED <<row, record>>

Embed(t) ==
    /\ step[t] = "embed"
    /\ \/ To(t, "store") /\ UNCHANGED left
       \/ Spend("bad") /\ To(t, "bad")
    /\ UNCHANGED <<trackVars, job, queuePaused, subVars, cycleVars, adminVars>>

Store(t) == step[t] = "store" /\ To(t, "complete") /\ row' = [row EXCEPT ![t] = TRUE]
            /\ SameButTracks /\ UNCHANGED <<vibe, record>>

Complete(t) == step[t] = "complete" /\ To(t, "resolve") /\ vibe' = [vibe EXCEPT ![t] = "completed"]
               /\ SameButTracks /\ UNCHANGED <<row, record>>

Reopens(r) == IF r = "resolved" THEN r ELSE "open"   \* mutant
Resolves(r) == IF r = "open" THEN "resolved" ELSE r
Opens(r) == "open"

\* The success is reported, which resolves the record of an earlier failure; a report may get lost.
Report(t) ==
    /\ step[t] = "resolve" /\ To(t, "")
    /\ job' = [job EXCEPT ![t].st = "completed"]
    /\ \/ record' = [record EXCEPT ![t] = Resolves(@)] /\ UNCHANGED left
       \/ Spend("lost") /\ UNCHANGED record
    /\ UNCHANGED <<audio, vibe, row, queuePaused, subVars, cycleVars, adminVars>>

MarkFailed(t) == step[t] = "bad" /\ To(t, "record") /\ vibe' = [vibe EXCEPT ![t] = "failed"]
                 /\ SameButTracks /\ UNCHANGED <<row, record>>

LastAttempt(t) == job[t].made + 1 = MaxAttempts

\* recordFailure, and the end of the attempt.
RecordFailure(t) ==
    /\ step[t] = "record" /\ To(t, "")
    /\ job' = [job EXCEPT ![t].made = @ + 1, ![t].st = IF LastAttempt(t) THEN "failed" ELSE "delayed"]
    /\ \/ record' = [record EXCEPT ![t] = Opens(@)] /\ UNCHANGED <<cut, left>>
       \/ Spend("lost") /\ cut' = TRUE /\ UNCHANGED record
    /\ UNCHANGED <<audio, vibe, row, queuePaused, subVars, cycleVars, admin, chosen>>

TryAgain(t) ==
    /\ job[t].st = "delayed"
    /\ job' = [job EXCEPT ![t].st = "waiting"]
    /\ UNCHANGED <<trackVars, step, queuePaused, subVars, cycleVars, adminVars, left>>

\* The lock of a job whose worker is gone has run out.
Stall(t) ==
    /\ job[t].st = "active" /\ step[t] = ""
    /\ job' = [job EXCEPT ![t] = IF job[t].stalls = MaxStalled THEN [@ EXCEPT !.st = "failed"]
                                 ELSE [@ EXCEPT !.st = "waiting", !.stalls = job[t].stalls + 1]]
    /\ cut' = (cut \/ (job[t].stalls = MaxStalled /\ vibe[t] = "failed"))
    /\ UNCHANGED <<trackVars, step, queuePaused, subVars, cycleVars, admin, chosen, left>>

-----------------------------------------------------------------------------
(* The routes POST /vibe/start, with and without force, and /vibe/retry.    *)

Start ==
    /\ admin = "idle" /\ Spend("start")
    /\ admin' = "select"
    /\ UNCHANGED <<trackVars, queueVars, subVars, cycleVars, chosen, cut>>

ForceStart ==
    /\ admin = "idle" /\ Spend("force")
    /\ row' = [t \in VibeTracks |-> FALSE]
    /\ record' = [t \in VibeTracks |-> IF record[t] = "open" THEN "none" ELSE record[t]]
    /\ admin' = "null"
    /\ UNCHANGED <<audio, vibe, queueVars, subVars, cycleVars, chosen, cut>>

ForceReset ==
    /\ admin = "null" /\ admin' = "select"
    /\ vibe' = [t \in VibeTracks |-> "none"]
    /\ UNCHANGED <<audio, row, record, queueVars, subVars, cycleVars, chosen, cut, left>>

\* Whatever has no embedding, its status is not asked.
Select ==
    /\ admin = "select"
    /\ chosen' = {t \in VibeTracks : ~row[t] /\ audio[t] = "completed"}
    /\ admin' = IF chosen' = {} THEN "idle" ELSE "clean"
    /\ UNCHANGED <<trackVars, queueVars, subVars, cycleVars, cut, left>>

AddChosen ==
    /\ \/ admin = "clean" /\ admin' = "clear"
       \/ admin = "add" /\ admin' = "resume"
    /\ job' = With(Cleaned, chosen)
    /\ UNCHANGED <<trackVars, step, queuePaused, subVars, cycleVars, chosen, cut, left>>

Dead(t) == vibe[t] = "failed" /\ job[t].st \notin Live

\* The jobs that were added may have failed meanwhile, and so may one whose last attempt was
\* under way.
ClearFailures ==
    /\ admin = "clear" /\ admin' = "resume"
    /\ record' = Each(record, chosen, "none")
    /\ cut' = (cut \/ \E t \in chosen : Dead(t))
    /\ UNCHANGED <<audio, vibe, row, queueVars, subVars, cycleVars, chosen, left>>

Retry ==
    /\ admin = "idle" /\ Spend("retry")
    /\ chosen' = {t \in VibeTracks : record[t] = "open"}
    /\ admin' = IF chosen' = {} THEN "idle" ELSE "reset"
    /\ UNCHANGED <<trackVars, queueVars, subVars, cycleVars, cut>>

RetryReset ==
    /\ admin = "reset" /\ admin' = "add"
    /\ vibe' = Each(vibe, chosen, "none")
    /\ UNCHANGED <<audio, row, record, queueVars, subVars, cycleVars, chosen, cut, left>>

\* triggerEnrichmentNow
RouteEnds ==
    /\ admin = "resume" /\ admin' = "idle" /\ chosen' = {}
    /\ Resumed
    /\ UNCHANGED <<trackVars, job, step, cycleVars, cut, left>>

-----------------------------------------------------------------------------
\* The analyzer process dies: its jobs stay active.
ClapCrash ==
    /\ \E t \in VibeTracks : step[t] # ""
    /\ Spend("clapCrash")
    /\ step' = [t \in VibeTracks |-> ""]
    /\ UNCHANGED <<trackVars, job, queuePaused, subVars, cycleVars, adminVars>>

\* The backend restarts, and what was in work starts again.
Crash ==
    /\ Spend("crash")
    /\ audio' = [t \in VibeTracks |-> IF audio[t] = "processing" THEN "queued" ELSE audio[t]]
    /\ vibe' = Unprocessed(vibe)
    /\ queuePaused' = FALSE /\ vibePaused' = FALSE /\ quiet' = "off" /\ halted' = FALSE
    /\ cycle' = "idle" /\ swept' = {} /\ admin' = "idle" /\ chosen' = {}
    /\ cut' = (cut \/ admin # "idle")
    /\ UNCHANGED <<row, record, job, step>>

Worker(t) == Take(t) \/ Begin(t) \/ Embed(t) \/ Store(t) \/ Complete(t) \/ Report(t)
             \/ MarkFailed(t) \/ RecordFailure(t)
Sweep == SweepLook \/ SweepClean \/ SweepReset \/ SweepAdd
Route == ForceReset \/ Select \/ AddChosen \/ ClearFailures \/ RetryReset \/ RouteEnds

VibeNext ==
    \/ \E t \in VibeTracks : Claim(t) \/ Analysed(t) \/ Worker(t) \/ TryAgain(t) \/ Stall(t)
    \/ QuietOver \/ Counted \/ Halt \/ Resume \/ StopCleans
    \/ Sweep \/ ResolveStale
    \/ Start \/ ForceStart \/ Retry \/ Route
    \/ ClapCrash \/ Crash

VibeSpec == VibeInit /\ [][VibeNext]_vibeVars

\* Timers fire, calls return, the cycle comes round, both analyzers work.
FairVibeSpec ==
    /\ VibeSpec
    /\ \A t \in VibeTracks : /\ WF_vibeVars(Claim(t) \/ Analysed(t))
                            /\ WF_vibeVars(Worker(t) \/ TryAgain(t) \/ Stall(t))
    /\ WF_vibeVars(QuietOver \/ Counted) /\ WF_vibeVars(Sweep) /\ WF_vibeVars(Route)

-----------------------------------------------------------------------------
\* While nobody halts it an analysed track is embedded or has failed, again after its embedding
\* was deleted: though events are lost, the timer finds audio work and is not set again, and
\* either process restarts.  A job that stalls twice is given up.
GivenUp(t) == job[t].st = "failed" /\ vibe[t] = "processing"
EmbeddedInTheEnd ==
    \A t \in VibeTracks : audio[t] = "completed" ~> row[t] \/ vibe[t] = "failed" \/ GivenUp(t) \/ halted

\* A track whose embedding has failed for good is on the list of failures, from which alone it
\* is retried, unless the report was lost, a restart cut the route that cleared the list, the
\* route cleared a failure that happened after it had queued the track, or the analyzer died
\* twice over a job whose failure it had marked or the list had lost.
NoSilentFailure ==
    ~cut /\ admin = "idle" =>
        \A t \in VibeTracks : Dead(t) => record[t] = "open"

\* Rows, jobs and lists are well formed, and no failure is lost, in every state.
VibeConsistent == VibeTypeOK /\ NoSilentFailure
=============================================================================
