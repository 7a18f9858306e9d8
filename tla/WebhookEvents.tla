---------------------------- MODULE WebhookEvents ----------------------------
(***************************************************************************)
(* The event store between Lidarr's webhooks and the download jobs:        *)
(*   routes/webhooks.ts          stores, answers, then processes           *)
(*   jobs/webhookReconciliation  processes what is still unprocessed       *)
(*   services/webhookEventStore  one row per eventId                       *)
(* A "download" event completes its job in a serializable transaction      *)
(* (SimpleDownloadManager.onDownloadComplete), after which the user is     *)
(* notified and the batch of the job is checked, and a scan is queued.     *)
(* Any "other" event is one transaction.                                   *)
(*                                                                         *)
(* Each event has a job of its own and Lidarr stays configured.  Two       *)
(* payloads with one eventId (the same type and downloadId) are one event  *)
(* here; the event's row is never deleted (cleanupOldEvents keeps 30 days).*)
(***************************************************************************)
EXTENDS Naturals

CONSTANTS
    Events,
    Downloads,      \* the events of type Download, AlbumDownload, TrackRetag or Rename
    Deliveries,     \* POST requests Lidarr makes, some for the same event
    EventOf,        \* the event of each
    Reconciler,     \* the loop of webhookReconciliation
    NoEvent,
    MaxRetries,     \* MAX_RETRIES
    MaxFaults,      \* bound: rejected database, Redis or Lidarr calls
    MaxCrashes      \* bound: process restarts

ASSUME EventAssumption == Downloads \subseteq Events /\ EventOf \in [Deliveries -> Events]
ASSUME TaskAssumption == Reconciler \notin Deliveries
ASSUME BoundAssumption == {MaxRetries, MaxFaults, MaxCrashes} \subseteq Nat

Tasks == Deliveries \cup {Reconciler}

VARIABLES
    rows,       \* the events that have a row
    processed,  \* WebhookEvent.processed of each event
    retries,    \* WebhookEvent.retryCount of each event
    answered,   \* events a delivery of which got its 200
    eventJob,   \* the download job of each event; "completed" once the event's transaction is in
    followed,   \* how often its completion was notified and its batch checked
    scans,      \* scans queued for it
    handler,    \* where each delivery's handler and the reconciler are
    at, todo,   \* the reconciler's current row, and the rest of unprocessedEvents
    faults, crashes

rowVars    == <<rows, processed, retries, answered>>
effectVars == <<eventJob, followed, scans>>
loopVars   == <<at, todo>>
boundVars  == <<faults, crashes>>
eventVars  == <<rowVars, effectVars, handler, loopVars, boundVars>>

Steps == {"apply", "follow", "scan", "mark", "markFailed"}

EventTypeOK ==
    /\ rows \subseteq Events
    /\ processed \in [Events -> BOOLEAN]
    /\ retries \in [Events -> Nat]
    /\ answered \subseteq Events
    /\ eventJob \in [Events -> {"active", "completed"}]
    /\ followed \in [Events -> Nat]
    /\ scans \in [Events -> Nat]
    /\ handler \in [Tasks -> {"idle", "done"} \cup Steps]
    /\ at \in Events \cup {NoEvent}
    /\ handler[Reconciler] # "idle" => at \in Events
    /\ todo \subseteq Events
    /\ faults \in Nat
    /\ crashes \in Nat

EventInit ==
    /\ rows = {}
    /\ processed = [e \in Events |-> FALSE]
    /\ retries = [e \in Events |-> 0]
    /\ answered = {}
    /\ eventJob = [e \in Events |-> "active"]
    /\ followed = [e \in Events |-> 0]
    /\ scans = [e \in Events |-> 0]
    /\ handler = [t \in Tasks |-> "idle"]
    /\ at = NoEvent
    /\ todo = {}
    /\ faults = 0
    /\ crashes = 0

Current(t) == IF t = Reconciler THEN at ELSE EventOf[t]
GoOn(t, l) == handler' = [handler EXCEPT ![t] = l]

-----------------------------------------------------------------------------
(* POST /webhooks/lidarr                                                    *)

\* storeEvent: a duplicate eventId returns the existing row, processed or not.
StoreEvent(e) == rows' = rows \cup {e}

Deliver(d) ==
    /\ handler[d] = "idle"
    /\ StoreEvent(EventOf[d])
    /\ answered' = answered \cup {EventOf[d]}
    /\ GoOn(d, "apply")
    /\ UNCHANGED <<processed, retries, effectVars, loopVars, boundVars>>

\* The insert is rejected and the request gets a 500.
DeliverFails(d) ==
    /\ handler[d] = "idle"
    /\ faults < MaxFaults
    /\ faults' = faults + 1
    /\ GoOn(d, "done")
    /\ UNCHANGED <<rowVars, effectVars, loopVars, crashes>>

-----------------------------------------------------------------------------
(* processWebhookEvent, and processEvent of the reconciler.                 *)

\* The handler of a Download queues a scan, whether or not it was the one that
\* completed the job; the reconciler's handler has no scanQueue.add.
ScanIfFresh(t, fresh) == IF t \in Deliveries /\ fresh THEN "scan" ELSE "mark"   \* mutant
AfterJob(t, fresh) == IF t \in Deliveries THEN "scan" ELSE "mark"

\* onDownloadComplete returns the user of the job only where it found it active.
AlwaysFresh(e) == TRUE   \* mutant
FoundActive(e) == eventJob[e] = "active"

\* The transaction of onDownloadComplete; onDownloadGrabbed and onImportFailed are
\* one transaction of the same shape.
Apply(t) ==
    LET e == Current(t) IN
    /\ handler[t] = "apply"
    /\ eventJob' = [eventJob EXCEPT ![e] = "completed"]
    /\ GoOn(t, IF e \notin Downloads THEN "mark"
               ELSE IF FoundActive(e) THEN "follow" ELSE AfterJob(t, FALSE))
    /\ UNCHANGED <<rowVars, followed, scans, loopVars, boundVars>>

\* notifyDownloadComplete, checkBatchCompletion and checkImportCompletion.
FollowUp(t) ==
    /\ handler[t] = "follow"
    /\ followed' = [followed EXCEPT ![Current(t)] = @ + 1]
    /\ GoOn(t, AfterJob(t, TRUE))
    /\ UNCHANGED <<rowVars, eventJob, scans, loopVars, boundVars>>

QueueScan(t) ==
    /\ handler[t] = "scan"
    /\ scans' = [scans EXCEPT ![Current(t)] = @ + 1]
    /\ GoOn(t, "mark")
    /\ UNCHANGED <<rowVars, eventJob, followed, loopVars, boundVars>>

\* The reconciler's cycle is over until its timer fires.
Rest == GoOn(Reconciler, "idle") /\ at' = NoEvent /\ todo' = {}

\* A handler ends; the reconciler turns to another of its rows, in any order (the code
\* takes them by createdAt).
NextEvent(t) ==
    \/ /\ t \in Deliveries
       /\ GoOn(t, "done")
       /\ UNCHANGED loopVars
    \/ t = Reconciler /\ todo = {} /\ Rest
    \/ /\ t = Reconciler
       /\ \E e \in todo : at' = e /\ todo' = todo \ {e}
       /\ GoOn(t, "apply")

MarkProcessed(t) ==
    /\ handler[t] = "mark"
    /\ processed' = [processed EXCEPT ![Current(t)] = TRUE]
    /\ NextEvent(t)
    /\ UNCHANGED <<rows, retries, answered, effectVars, boundVars>>

\* Any call of the step rejects.
Throws(t) ==
    /\ handler[t] \in Steps \ {"markFailed"}
    /\ faults < MaxFaults
    /\ faults' = faults + 1
    /\ GoOn(t, "markFailed")
    /\ UNCHANGED <<rowVars, effectVars, loopVars, crashes>>

KeepUnprocessed(e) == UNCHANGED processed

MarkFailed(t) ==
    /\ handler[t] = "markFailed"
    /\ retries' = [retries EXCEPT ![Current(t)] = @ + 1]
    /\ KeepUnprocessed(Current(t))
    /\ NextEvent(t)
    /\ UNCHANGED <<rows, answered, effectVars, boundVars>>

\* markFailed rejects: the handler's promise is caught and logged, the reconciler's
\* cycle is abandoned.
MarkFailedThrows(t) ==
    /\ handler[t] = "markFailed"
    /\ faults < MaxFaults
    /\ faults' = faults + 1
    /\ IF t = Reconciler THEN Rest ELSE GoOn(t, "done") /\ UNCHANGED loopVars
    /\ UNCHANGED <<rowVars, effectVars, crashes>>

-----------------------------------------------------------------------------
\* getUnprocessedEvents, every five minutes.
FirstTryOnly(e) == ~processed[e] /\ retries[e] = 0   \* mutant
Unprocessed(e) == ~processed[e] /\ retries[e] < MaxRetries

UnprocessedEvents == {e \in rows : Unprocessed(e)}

Reconcile ==
    /\ handler[Reconciler] = "idle"
    /\ \E e \in UnprocessedEvents : at' = e /\ todo' = UnprocessedEvents \ {e}
    /\ GoOn(Reconciler, "apply")
    /\ UNCHANGED <<rowVars, effectVars, boundVars>>

\* The process restarts: handlers are gone, rows and jobs stay.
Crash ==
    /\ crashes < MaxCrashes
    /\ crashes' = crashes + 1
    /\ handler' = [t \in Tasks |-> IF t \in Deliveries /\ handler[t] \in Steps THEN "done"
                              ELSE IF t = Reconciler THEN "idle" ELSE handler[t]]
    /\ at' = NoEvent /\ todo' = {}
    /\ UNCHANGED <<rowVars, effectVars, faults>>

Step(t) ==
    \/ Apply(t) \/ FollowUp(t) \/ QueueScan(t) \/ MarkProcessed(t)
    \/ Throws(t) \/ MarkFailed(t) \/ MarkFailedThrows(t)

EventNext ==
    \/ \E d \in Deliveries : Deliver(d) \/ DeliverFails(d)
    \/ \E t \in Tasks : Step(t)
    \/ Reconcile
    \/ Crash

EventSpec == EventInit /\ [][EventNext]_eventVars

\* Promises settle and the reconciler's timer fires; Lidarr need not send anything.
FairEventSpec == EventSpec /\ WF_eventVars(Reconcile) /\ \A t \in Tasks : WF_eventVars(Step(t))

-----------------------------------------------------------------------------
\* An event counts as processed only after its transaction committed, whichever of a
\* duplicate delivery, a crashed handler and the reconciler marked it.
ProcessedIsApplied == \A e \in Events : processed[e] => eventJob[e] = "completed"

\* Redelivered, replayed after a crash or processed by two tasks at a time, a completed
\* download is announced and counted towards its batch at most once.
FollowedUpOnce == \A e \in Events : followed[e] <= 1

\* webhooks.ts:9 "No webhook events are lost": a 200 promises that the event takes effect,
\* whatever restarts, as long as fewer than MaxRetries attempts fail.
AnsweredIsApplied ==
    MaxFaults < MaxRetries =>
        \A e \in Events : e \in answered ~> eventJob[e] = "completed"

\* The files of a completed download are scanned, also where the reconciler overtakes
\* the handler, unless a restart or a rejected call comes between.
CompletedIsScanned ==
    \A e \in Downloads : eventJob[e] = "completed" ~> scans[e] > 0 \/ faults + crashes > 0

=============================================================================
