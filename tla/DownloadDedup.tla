----------------------------- MODULE DownloadDedup -----------------------------
(***************************************************************************)
(* How the requests for one album of one user decide whether to create a   *)
(* DownloadJob, and what they start:                                       *)
(*   "download"  POST /downloads, a transaction with FOR UPDATE SKIP LOCKED*)
(*   "artist"    the same for each album of an artist, which also skips an *)
(*               album that failed less than 30 s ago                      *)
(*   "release"   POST /releases/:mbid/download, under a distributed lock   *)
(*   "acquire"   AcquisitionService.createDownloadJob, double-checked under*)
(*               another lock (an import, without a discovery batch)       *)
(*   "keep"      POST /downloads/keep-track, which does not look           *)
(*                                                                         *)
(* The partial unique index of migration 20260214115252 covers jobs in     *)
(* 'pending' or 'downloading' per (user, album, batch); the batch of these *)
(* jobs is NULL, and NULLs never conflict, so the index stops none of them.*)
(* Locks are taken as in module DistributedLock with callbacks far shorter *)
(* than their TTL of 5 s.                                                  *)
(***************************************************************************)
EXTENDS FiniteSets

CONSTANTS
    Requests,
    KindOf,     \* the kind of each request
    Nobody      \* no request holds the lock

Kinds == {"download", "artist", "release", "acquire", "keep"}

ASSUME KindAssumption == KindOf \in [Requests -> Kinds] /\ Nobody \notin Requests

VARIABLES
    job,        \* status of the job each request created, "none" before
    pc,         \* where each request is
    target,     \* the request whose job this one will work on, or Nobody
    rowLock,    \* the transaction that locked each row, or Nobody
    mutex,      \* the request inside each kind's distributed lock, or Nobody
    launches    \* the requests that have set out to download each row's album

vars == <<job, pc, target, rowLock, mutex, launches>>

Active == {"pending", "processing"}

TypeOK ==
    /\ job \in [Requests -> {"none", "recentlyFailed", "closed"} \cup Active]
    /\ pc \in [Requests -> {"idle", "select", "insert", "skip", "lock", "check", "create",
                            "unlock", "launch", "done"}]
    /\ target \in [Requests -> Requests \cup {Nobody}]
    /\ rowLock \in [Requests -> Requests \cup {Nobody}]
    /\ mutex \in [{"release", "acquire"} -> Requests \cup {Nobody}]
    /\ launches \in [Requests -> SUBSET Requests]

Init ==
    /\ job = [r \in Requests |-> "none"]
    /\ pc = [r \in Requests |-> "idle"]
    /\ target = [r \in Requests |-> Nobody]
    /\ rowLock = [r \in Requests |-> Nobody]
    /\ mutex = [k \in {"release", "acquire"} |-> Nobody]
    /\ launches = [r \in Requests |-> {}]

Goto(r, l) == pc' = [pc EXCEPT ![r] = l]

\* Rows in one of the given states.
JobsIn(S) == {i \in Requests : job[i] \in S}

\* status IN ('pending', 'downloading'): no DownloadJob is ever 'downloading'
DedupSeen == JobsIn({"pending"})

Create(r) ==
    /\ job' = [job EXCEPT ![r] = "pending"]
    /\ target' = [target EXCEPT ![r] = r]

-----------------------------------------------------------------------------
(* POST /downloads and processArtistDownload: one transaction.              *)

Begin(r) ==
    /\ pc[r] = "idle"
    /\ Goto(r, CASE KindOf[r] \in {"download", "artist"} -> "select"
                 [] KindOf[r] = "release" -> "lock"
                 [] KindOf[r] = "acquire" -> IF DedupSeen = {} THEN "lock" ELSE "launch"
                 [] KindOf[r] = "keep" -> "create")
    /\ IF KindOf[r] = "acquire" /\ DedupSeen # {}
       THEN \E i \in DedupSeen : target' = [target EXCEPT ![r] = i]
       ELSE UNCHANGED target
    /\ UNCHANGED <<job, rowLock, mutex, launches>>

\* SELECT ... FOR UPDATE SKIP LOCKED sees committed rows nobody has locked.  The two
\* queries of an artist request are one step here.
Selectable(r) ==
    {i \in JobsIn(IF KindOf[r] = "artist" THEN Active \cup {"recentlyFailed"} ELSE Active) :
        rowLock[i] = Nobody}

Select(r) ==
    /\ pc[r] = "select"
    /\ rowLock' = [i \in Requests |-> IF i \in Selectable(r) THEN r ELSE rowLock[i]]
    /\ Goto(r, IF Selectable(r) = {} THEN "insert" ELSE "skip")
    /\ UNCHANGED <<job, target, mutex, launches>>

\* The existing job is reported and the transaction ends.
SkipDuplicate(r) ==
    /\ pc[r] = "skip"
    /\ rowLock' = [i \in Requests |-> IF rowLock[i] = r THEN Nobody ELSE rowLock[i]]
    /\ Goto(r, "done")
    /\ UNCHANGED <<job, target, mutex, launches>>

\* The insert becomes visible when the transaction commits.
InsertCommit(r) ==
    /\ pc[r] = "insert"
    /\ Create(r)
    /\ Goto(r, "launch")
    /\ UNCHANGED <<rowLock, mutex, launches>>

-----------------------------------------------------------------------------
(* Under a distributed lock.                                                *)

\* A refused acquisition throws: the request fails.
LockFree(r) == TRUE   \* mutant
Lockable(r) == mutex[KindOf[r]] = Nobody

Lock(r) ==
    /\ pc[r] = "lock"
    /\ IF Lockable(r)
       THEN mutex' = [mutex EXCEPT ![KindOf[r]] = r] /\ Goto(r, "check")
       ELSE UNCHANGED mutex /\ Goto(r, "done")
    /\ UNCHANGED <<job, target, rowLock, launches>>

\* The check under the lock: an existing job is returned.
Check(r) ==
    /\ pc[r] = "check"
    /\ IF DedupSeen = {}
       THEN Goto(r, "create") /\ UNCHANGED target
       ELSE /\ Goto(r, "unlock")
            /\ \E i \in DedupSeen : target' = [target EXCEPT ![r] = i]
    /\ UNCHANGED <<job, rowLock, mutex, launches>>

CreateJob(r) ==
    /\ pc[r] = "create"
    /\ Create(r)
    /\ Goto(r, IF KindOf[r] = "keep" THEN "done" ELSE "unlock")
    /\ UNCHANGED <<rowLock, mutex, launches>>

\* A reused job is not launched again by the releases route; acquireAlbum goes on
\* with whatever job it was given.
AlwaysLaunches(r) == TRUE   \* mutant
Launches(r) == KindOf[r] = "acquire" \/ target[r] = r

Unlock(r) ==
    /\ pc[r] = "unlock"
    /\ mutex' = [mutex EXCEPT ![KindOf[r]] = IF @ = r THEN Nobody ELSE @]
    /\ Goto(r, IF Launches(r) THEN "launch" ELSE "done")
    /\ UNCHANGED <<job, target, rowLock, launches>>

-----------------------------------------------------------------------------
\* startDownload, in the background: the album is queued in Lidarr and the job
\* becomes "processing", whatever it was.
Launch(r) ==
    /\ pc[r] = "launch"
    /\ rowLock[target[r]] = Nobody
    /\ job' = [job EXCEPT ![target[r]] = "processing"]
    /\ launches' = [launches EXCEPT ![target[r]] = @ \cup {r}]
    /\ Goto(r, "done")
    /\ UNCHANGED <<target, rowLock, mutex>>

\* The album could not be queued.
LaunchFails(r) ==
    /\ pc[r] = "launch"
    /\ rowLock[target[r]] = Nobody
    /\ job' = [job EXCEPT ![target[r]] = "recentlyFailed"]
    /\ launches' = [launches EXCEPT ![target[r]] = @ \cup {r}]
    /\ Goto(r, "done")
    /\ UNCHANGED <<target, rowLock, mutex>>

\* A webhook or a timeout settles the job.
Settle(i) ==
    /\ job[i] = "processing"
    /\ rowLock[i] = Nobody
    /\ \E s \in {"closed", "recentlyFailed"} : job' = [job EXCEPT ![i] = s]
    /\ UNCHANGED <<pc, target, rowLock, mutex, launches>>

\* 30 seconds pass.
FailureAges(i) ==
    /\ job[i] = "recentlyFailed"
    /\ rowLock[i] = Nobody
    /\ job' = [job EXCEPT ![i] = "closed"]
    /\ UNCHANGED <<pc, target, rowLock, mutex, launches>>

Next ==
    \E r \in Requests :
        \/ Begin(r) \/ Select(r) \/ SkipDuplicate(r) \/ InsertCommit(r)
        \/ Lock(r) \/ Check(r) \/ CreateJob(r) \/ Unlock(r)
        \/ Launch(r) \/ LaunchFails(r) \/ Settle(r) \/ FailureAges(r)

Spec == Init /\ [][Next]_vars

-----------------------------------------------------------------------------
\* What the locks do give: of the jobs created under one of them, at most one waits
\* for its download to start.
WaitingOf(k) == {i \in JobsIn({"pending"}) : KindOf[i] = k}
OneWaitingPerLock ==
    \A k \in {"release", "acquire"} : \A i, j \in WaitingOf(k) : i = j

\* "re-triggering would start a duplicate download and race two status writers on the
\* same row" (releases.ts:312): what became of a download is overwritten only where an
\* acquisition, which goes on with any row that waits, set out beside the row's creator.
Finished == {"recentlyFailed", "closed"}
FinishedStays ==
    [][\A i \in Requests :
          job[i] \in Finished /\ job'[i] \notin {job[i], "closed"} =>
              \E r \in launches'[i] \ {i} : KindOf[r] = "acquire" /\ launches'[i] # {r}]_vars
=============================================================================
