------------------------- MODULE SpotifyImportProofs -------------------------
(***************************************************************************)
(* One import with any albums and visitors, any number of failures,        *)
(* refusals and losses of Redis, cancellations and restarts.               *)
(***************************************************************************)
EXTENDS SpotifyImport, TLAPS

USE VisitorsAssumption, ConcurrencyAssumption

(* The rows, copies, labels and counters stay well formed, in five parts.   *)

JobsTyped == db \in Jobs /\ cache \in Jobs /\ mem \in Jobs
Tasked ==
    /\ pc \in [Tasks -> UNION {Labels(t) : t \in Tasks}] /\ \A t \in Tasks : pc[t] \in Labels(t)
    /\ io \in [Tasks -> {"none", "find", "fill", "setex"}] /\ copy \in [Tasks -> Jobs]
    /\ \A t \in Tasks : (io[t] = "setex" => pc[t] \in Writes) /\ (io[t] \in {"find", "fill"} => pc[t] \in Reads)
Flags ==
    /\ preview \in BOOLEAN /\ aborted \in BOOLEAN /\ stale \in BOOLEAN /\ crossed \in BOOLEAN
    /\ missed \in BOOLEAN /\ empty \in BOOLEAN
    /\ broken \subseteq {"import", "made", "task"} /\ cancelled \in {"no", "quiet", "busy"}
Work ==
    /\ queued \in {"new", "lost", "waiting", "active", "ending", "done"}
    /\ stage \in [Albums -> {"none", "todo", "running", "answered", "stored"}]
    /\ download \in [Albums -> {"none", "open", "late", "completed", "failed"}]
Counts == scans \in Nat /\ playlists \in Nat /\ request \in Requests /\ left \in [Bounds -> Nat]

LEMMA TypeParts == TypeOK <=> JobsTyped /\ Tasked /\ Flags /\ Work /\ Counts
BY DEF TypeOK, JobsTyped, Tasked, Flags, Work, Counts

LEMMA TypeAfter == JobsTyped' /\ Tasked' /\ Flags' /\ Work' /\ Counts' => TypeOK'
BY DEF TypeOK, JobsTyped, Tasked, Flags, Work, Counts

States == {"gone", "pending", "fetching", "downloading", "scanning", "creating_playlist", "completed", "failed"}

LEMMA GoneIsAJob == Gone \in Jobs
BY DEF Gone, Jobs

LEMMA Edits == \A j \in Jobs : \A st \in States :
                 /\ [j EXCEPT !.st = st] \in Jobs
                 /\ [j EXCEPT !.tracks = TRUE, !.total = TRUE] \in Jobs
                 /\ [j EXCEPT !.made = TRUE, !.st = st] \in Jobs
                 /\ \A k \in Jobs : [j EXCEPT !.tracks = k.tracks] \in Jobs
BY DEF Jobs, States

\* Which task can be at which label.
LEMMA Owners ==
  ASSUME Tasked, NEW t \in Tasks
  PROVE  /\ pc[t] \in {"off", "request", "offer", "enqueue", "load", "unpack", "fetching", "reread", "named", "tracked",
                       "keep", "begin", "albums", "poll", "look", "failed", "fail"} => t = "importer"
         /\ pc[t] = "scan" => t = "scanner"
         /\ pc[t] = "asked" => t = "user"
         /\ pc[t] \in {"view", "overdue", "late"} => t \in Visitors
         /\ pc[t] \in Checking => t = "importer" \/ t \in Visitors
         /\ pc[t] \in Building => t \in {"importer", "scanner"}
         /\ pc[t] \in Cleaning => t \in {"importer", "user"}
BY DEF Tasked, Tasks, Labels, Checking, Building, Cleaning

\* The labels of each, without CASE.
LEMMA LabelsOf ==
  /\ Labels("importer") = {"off", "request", "offer", "enqueue", "load", "unpack", "fetching", "reread", "named", "tracked",
                           "keep", "begin", "albums", "poll", "look", "failed", "fail"} \cup Checking \cup Building \cup Cleaning
  /\ Labels("scanner") = {"idle", "scan"} \cup Building
  /\ Labels("user") = {"idle", "asked"} \cup Cleaning
  /\ \A v \in Visitors : Labels(v) = {"idle", "view", "overdue", "late"} \cup Checking
BY DEF Labels

LEMMA Movers == /\ "importer" \in Tasks /\ "scanner" \in Tasks /\ "user" \in Tasks
                /\ \A v \in Visitors : v \in Tasks /\ v \notin {"importer", "scanner", "user"}
                /\ \A t \in Tasks : Rest(t) \in Labels(t)
BY LabelsOf DEF Tasks, Rest

LEMMA WithTyped ==
  ASSUME Tasked, NEW t \in Tasks, NEW job \in Jobs, NEW label \in Labels(t), With(t, job, label)
  PROVE  Tasked'
<1>1. /\ pc' = [pc EXCEPT ![t] = label] /\ io' = [io EXCEPT ![t] = "none"] /\ copy' = [copy EXCEPT ![t] = job]
  BY DEF With
<1>2. label \in UNION {Labels(u) : u \in Tasks}
  OBVIOUS
<1>3. pc' \in [Tasks -> UNION {Labels(u) : u \in Tasks}]
  BY <1>1, <1>2 DEF Tasked
<1>4. \A u \in Tasks : pc'[u] \in Labels(u)
  BY <1>1 DEF Tasked
<1>5. io' \in [Tasks -> {"none", "find", "fill", "setex"}] /\ copy' \in [Tasks -> Jobs]
  BY <1>1 DEF Tasked
<1>6. \A u \in Tasks : (io'[u] = "setex" => pc'[u] \in Writes) /\ (io'[u] \in {"find", "fill"} => pc'[u] \in Reads)
  BY <1>1 DEF Tasked
<1>. QED
  BY <1>3, <1>4, <1>5, <1>6 DEF Tasked

LEMMA GotoTyped ==
  ASSUME Tasked, NEW t \in Tasks, NEW label \in Labels(t), Goto(t, label)
  PROVE  Tasked'
BY WithTyped, GoneIsAJob DEF Goto

LEMMA KeepTyped ==
  ASSUME Tasked, NEW t \in Tasks, NEW label \in Labels(t), Keep(t, label)
  PROVE  Tasked'
<1>1. copy[t] \in Jobs
  BY DEF Tasked
<1>. QED
  BY <1>1, WithTyped DEF Keep

LEMMA SpendTyped ==
  ASSUME Counts, NEW b \in Bounds, Spend(b)
  PROVE  left' \in [Bounds -> Nat]
BY DEF Counts, Spend

LEMMA CrossesTyped == ASSUME Flags, NEW t, Crosses(t) PROVE crossed' \in BOOLEAN
BY DEF Flags, Crosses

LEMMA SetexTyped ==
  ASSUME TypeOK, NEW t, NEW job \in Jobs, Setex(t, job)
  PROVE  /\ cache' \in Jobs /\ crossed' \in BOOLEAN /\ stale' \in BOOLEAN /\ missed' \in BOOLEAN
         /\ left' \in [Bounds -> Nat]
<1>1. crossed' \in BOOLEAN
  BY CrossesTyped, TypeParts DEF Setex
<1>2. cache' \in Jobs
  BY TypeParts DEF Setex, JobsTyped
<1>3. stale' \in BOOLEAN /\ missed' \in BOOLEAN
  <2>1. job.made \in BOOLEAN
    BY DEF Jobs
  <2>. QED
    BY <2>1, TypeParts DEF Setex, Forgets, Flags
<1>4. left' \in [Bounds -> Nat]
  BY SpendTyped, TypeParts DEF Setex, Bounds, Counts
<1>. QED
  BY <1>1, <1>2, <1>3, <1>4

LEMMA UpsertTyped ==
  ASSUME TypeOK, NEW t, NEW job \in Jobs, Upsert(t, job)
  PROVE  db' \in Jobs /\ crossed' \in BOOLEAN /\ stale' \in BOOLEAN
<1>1. crossed' \in BOOLEAN
  BY CrossesTyped, TypeParts DEF Upsert
<1>2. db' \in Jobs
  BY TypeParts, Edits DEF Upsert, JobsTyped, States
<1>3. stale' \in BOOLEAN
  BY TypeParts DEF Upsert, Forgets, Flags
<1>. QED
  BY <1>1, <1>2, <1>3

LEMMA ReturnTyped == ASSUME TypeOK, Return PROVE Tasked' /\ queued' = "done"
BY TypeParts, GotoTyped, Movers, LabelsOf DEF Return

LEMMA ThrowTyped == ASSUME TypeOK, Throw PROVE Tasked' /\ queued' = "done"
BY TypeParts, GotoTyped, Movers, LabelsOf DEF Throw

LEMMA ProceedTyped ==
  ASSUME TypeOK, NEW label \in Labels("importer"), Proceed(label)
  PROVE  Tasked' /\ queued' = queued
BY TypeParts, GotoTyped, Movers DEF Proceed

LEMMA LeaveTyped == ASSUME TypeOK, NEW t \in Tasks, Leave(t) PROVE Tasked' /\ queued' \in {queued, "done"}
<1>1. CASE t # "importer"
  BY <1>1, TypeParts, GotoTyped, Movers DEF Leave
<1>2. CASE t = "importer"
  BY <1>2, ReturnTyped, ProceedTyped, LabelsOf DEF Leave
<1>. QED
  BY <1>1, <1>2

LEMMA ProcessTyped ==
  ASSUME TypeOK, NEW job \in Jobs, Process(job)
  PROVE  Tasked' /\ queued' \in {queued, "done"} /\ mem' \in Jobs /\ aborted' = FALSE
<1>1. aborted' = FALSE /\ mem' \in Jobs
  BY Edits DEF Process, States
<1>2. Tasked' /\ queued' \in {queued, "done"}
  <2>1. "begin" \in Labels("importer") /\ "building" \in Labels("importer")
    BY LabelsOf DEF Building
  <2>. QED
    BY <2>1, ReturnTyped, ProceedTyped DEF Process
<1>. QED
  BY <1>1, <1>2

Queues == {"new", "lost", "waiting", "active", "ending", "done"}
Stages == [Albums -> {"none", "todo", "running", "answered", "stored"}]

LEMMA NothingStaged == TypeOK => NoStage \in Stages /\ stage \in Stages /\ queued \in Queues
BY TypeParts DEF NoStage, Stages, Work, Queues

LEMMA AnsweredTyped ==
  ASSUME TypeOK, NEW t \in Tasks, NEW job \in Jobs, Answered(t, job)
  PROVE  Tasked' /\ queued' \in Queues /\ mem' \in Jobs /\ aborted' \in BOOLEAN /\ stage' \in Stages
<1>a. /\ Tasked /\ mem \in Jobs /\ aborted \in BOOLEAN /\ stage \in Stages /\ queued \in Queues /\ "done" \in Queues
  BY TypeParts, NothingStaged DEF JobsTyped, Flags, Queues
<1>1. CASE pc[t] = "load" /\ Loaded(job) /\ UNCHANGED <<aborted, stage>>
  <2>1. mem' \in Jobs
    BY <1>1, <1>a, Edits DEF Loaded, States
  <2>2. Tasked' /\ queued' \in Queues
    BY <1>1, <1>a, ThrowTyped, ProceedTyped, LabelsOf DEF Loaded
  <2>. QED
    BY <1>1, <1>a, <2>1, <2>2
<1>2. CASE pc[t] = "reread" /\ Reread(job) /\ UNCHANGED <<aborted, stage>>
  <2>1. mem' \in Jobs
    BY <1>2, <1>a, Edits DEF Reread, States
  <2>2. Tasked' /\ queued' \in Queues
    BY <1>2, <1>a, ReturnTyped, ProceedTyped, LabelsOf DEF Reread
  <2>. QED
    BY <1>2, <1>a, <2>1, <2>2
<1>3. CASE pc[t] = "look" /\ Looked(job) /\ UNCHANGED <<mem, aborted, stage>>
  BY <1>3, <1>a, ReturnTyped, ProceedTyped, LabelsOf DEF Looked
<1>4. CASE pc[t] = "failed" /\ Failed(job) /\ UNCHANGED <<mem, aborted, stage>>
  <2>1. [job EXCEPT !.st = "failed"] \in Jobs
    BY Edits DEF States
  <2>2. "off" \in Labels("importer") /\ "fail" \in Labels("importer") /\ "drop" \in Labels("importer")
    BY LabelsOf DEF Cleaning
  <2>. QED
    BY <1>4, <1>a, <2>1, <2>2, GotoTyped, WithTyped, Movers DEF Failed
<1>5. CASE pc[t] = "asked" /\ Asked(job) /\ UNCHANGED mem
  <2>0. t = "user" /\ "drop" \in Labels("user") /\ "idle" \in Labels("user") /\ "off" \in Labels("importer")
    BY <1>5, <1>a, Owners, LabelsOf DEF Cleaning
  <2>1. CASE Abort
    <3>1. queued' \in Queues /\ aborted' \in BOOLEAN
      BY <2>1, <1>a DEF Abort
    <3>2. stage' \in Stages
      BY <2>1, <1>a DEF Abort, Stages
    <3>3. /\ pc' \in [Tasks -> UNION {Labels(u) : u \in Tasks}] /\ \A u \in Tasks : pc'[u] \in Labels(u)
      <4>1. pc' \in [Tasks -> UNION {Labels(u) : u \in Tasks}]
        BY <2>1, <2>0, <1>a, Movers DEF Abort, Tasked
      <4>2. \A u \in Tasks : pc'[u] \in Labels(u)
        BY <2>1, <2>0, <1>a, Movers DEF Abort, Tasked
      <4>. QED
        BY <4>1, <4>2
    <3>4. io' \in [Tasks -> {"none", "find", "fill", "setex"}] /\ copy' \in [Tasks -> Jobs]
      BY <2>1, <1>a DEF Abort, Tasked
    <3>5. \A u \in Tasks : (io'[u] = "setex" => pc'[u] \in Writes) /\ (io'[u] \in {"find", "fill"} => pc'[u] \in Reads)
      BY <2>1, <1>a, Movers DEF Abort, Tasked, Writes, OwnJob, Reads
    <3>. QED
      BY <1>5, <1>a, <3>1, <3>2, <3>3, <3>4, <3>5 DEF Tasked
  <2>2. CASE Goto("user", IF job.st = "failed" THEN "drop" ELSE "idle") /\ UNCHANGED <<queued, aborted, stage>>
    BY <2>2, <2>0, <1>5, <1>a, GotoTyped, Movers
  <2>. QED
    BY <2>1, <2>2, <1>5 DEF Asked
<1>6. CASE pc[t] = "check" /\ Checked(t, job) /\ UNCHANGED <<mem, aborted, stage>>
  <2>1. "count" \in Labels(t)
    BY <1>6, <1>a, Owners, LabelsOf DEF Checking
  <2>. QED
    BY <1>6, <1>a, <2>1, LeaveTyped, WithTyped DEF Checked
<1>7. CASE pc[t] = "scan" /\ Scanned(job) /\ UNCHANGED <<queued, mem, aborted, stage>>
  <2>1. [job EXCEPT !.st = "creating_playlist"] \in Jobs
    BY Edits DEF States
  <2>2. "building" \in Labels("scanner") /\ "idle" \in Labels("scanner")
    BY LabelsOf DEF Building
  <2>. QED
    BY <1>7, <1>a, <2>1, <2>2, GotoTyped, WithTyped, Movers DEF Scanned
<1>8. CASE pc[t] = "view" /\ Goto(t, Rest(t)) /\ UNCHANGED <<queued, mem, aborted, stage>>
  BY <1>8, <1>a, GotoTyped, Movers
<1>. QED
  BY <1>1, <1>2, <1>3, <1>4, <1>5, <1>6, <1>7, <1>8 DEF Answered

LEMMA SavedTyped ==
  ASSUME TypeOK, NEW t \in Tasks, Saved(t)
  PROVE  Tasked' /\ queued' \in Queues /\ mem' \in Jobs /\ stage' \in Stages
<1>a. Tasked /\ mem \in Jobs /\ stage \in Stages /\ queued \in Queues /\ "done" \in Queues
  BY TypeParts, NothingStaged DEF JobsTyped, Queues
<1>1. CASE pc[t] = "named" /\ Named /\ UNCHANGED stage
  BY <1>1, <1>a, Edits, ProceedTyped, LabelsOf DEF Named, WithTracks, States
<1>2. CASE pc[t] = "begin" /\ Begun /\ UNCHANGED mem
  <2>1. stage' \in Stages
    BY <1>2, <1>a DEF Begun, Stages
  <2>. QED
    BY <1>2, <1>a, <2>1, ReturnTyped, ProceedTyped, LabelsOf DEF Begun
<1>3. CASE pc[t] = "built" /\ UNCHANGED <<mem, stage>> /\ Goto(t, Rest(t)) /\ queued' = IF t = "importer" THEN "done" ELSE queued
  BY <1>3, <1>a, GotoTyped, Movers
<1>4. CASE UNCHANGED <<queued, mem, stage>> /\ pc[t] = "request" /\ Goto(t, IF request.quick THEN "enqueue" ELSE "offer")
  BY <1>4, <1>a, GotoTyped, Owners, LabelsOf
<1>5. CASE UNCHANGED <<queued, mem, stage>> /\ pc[t] = "fetching" /\ Goto(t, "reread")
  BY <1>5, <1>a, GotoTyped, Owners, LabelsOf
<1>6. CASE UNCHANGED <<queued, mem, stage>> /\ pc[t] = "tracked" /\ Goto(t, "keep")
  BY <1>6, <1>a, GotoTyped, Owners, LabelsOf
<1>7. CASE UNCHANGED <<queued, mem, stage>> /\ pc[t] = "building" /\ Keep(t, "create")
  <2>1. "create" \in Labels(t)
    BY <1>7, <1>a, Owners, LabelsOf DEF Building
  <2>. QED
    BY <1>7, <1>a, <2>1, KeepTyped
<1>8. CASE UNCHANGED <<queued, mem, stage>> /\ pc[t] = "fail" /\ Goto(t, Rest(t))
  BY <1>8, <1>a, GotoTyped, Movers
<1>9. CASE pc[t] \in {"void", "wait", "hand"} /\ Leave(t) /\ UNCHANGED <<mem, stage>>
  BY <1>9, <1>a, LeaveTyped
<1>. QED
  BY <1>1, <1>2, <1>3, <1>4, <1>5, <1>6, <1>7, <1>8, <1>9 DEF Saved

LEMMA ObjTyped == TypeOK => \A t \in Tasks : Obj(t) \in Jobs
BY TypeParts DEF Obj, JobsTyped, Tasked

LEMMA WaitTyped ==
  ASSUME TypeOK, NEW t \in Tasks,
         \/ Wait(t, "find") /\ pc[t] \in Reads /\ copy' = copy
         \/ Wait(t, "fill") /\ pc[t] \in Reads /\ copy' = [copy EXCEPT ![t] = db]
         \/ Wait(t, "setex") /\ pc[t] \in Writes /\ copy' = copy
  PROVE  Tasked'
BY TypeParts DEF Tasked, Wait, JobsTyped

LEMMA AccessTyped == ASSUME TypeOK, NEW t \in Tasks, Accesses(t) PROVE TypeOK'
<1>a. JobsTyped /\ Tasked /\ Flags /\ Work /\ Counts /\ Gone \in Jobs
  BY TypeParts, GoneIsAJob
<1>b. copy[t] \in Jobs /\ Obj(t) \in Jobs
  BY <1>a, ObjTyped DEF Tasked
<1>1. CASE Get(t)
  <2>1. Tasked' /\ queued' \in Queues /\ mem' \in Jobs /\ aborted' \in BOOLEAN /\ stage' \in Stages
    <3>1. CASE Wait(t, "find") /\ UNCHANGED <<copy, queued, mem, aborted, stage>>
      BY <3>1, <1>1, <1>a, WaitTyped, NothingStaged DEF Get, JobsTyped, Flags
    <3>2. CASE Answered(t, cache)
      BY <3>2, <1>a, AnsweredTyped DEF JobsTyped
    <3>. QED
      BY <1>1, <3>1, <3>2 DEF Get
  <2>. QED
    BY <2>1, <1>1, <1>a, TypeAfter DEF Get, factVars, historyVars, JobsTyped, Flags, Work, Counts, Queues, Stages
<1>2. CASE Find(t)
  <2>1. Tasked' /\ queued' \in Queues /\ mem' \in Jobs /\ aborted' \in BOOLEAN /\ stage' \in Stages
    <3>0. pc[t] \in Reads
      BY <1>2, <1>a DEF Find, Tasked
    <3>1. CASE Wait(t, "fill") /\ copy' = [copy EXCEPT ![t] = db] /\ UNCHANGED <<queued, mem, aborted, stage>>
      BY <3>1, <3>0, <1>a, WaitTyped, NothingStaged DEF JobsTyped, Flags
    <3>2. CASE Answered(t, Gone)
      BY <3>2, <1>a, AnsweredTyped
    <3>. QED
      BY <1>2, <3>1, <3>2 DEF Find
  <2>2. missed' \in BOOLEAN
    BY <1>2, <1>a DEF Find, Flags
  <2>. QED
    BY <2>1, <2>2, <1>2, <1>a, TypeAfter DEF Find, factVars, JobsTyped, Flags, Work, Counts, Queues, Stages
<1>3. CASE Fill(t)
  <2>1. Tasked' /\ queued' \in Queues /\ mem' \in Jobs /\ aborted' \in BOOLEAN /\ stage' \in Stages
    BY <1>3, <1>b, AnsweredTyped DEF Fill
  <2>2. cache' \in Jobs /\ crossed' \in BOOLEAN /\ stale' \in BOOLEAN /\ missed' \in BOOLEAN /\ left' \in [Bounds -> Nat]
    BY <1>3, <1>b, SetexTyped DEF Fill
  <2>. QED
    BY <2>1, <2>2, <1>3, <1>a, TypeAfter DEF Fill, factVars, JobsTyped, Flags, Work, Counts, Queues, Stages
<1>4. CASE Store(t)
  <2>1. Tasked'
    BY <1>4, <1>a, WaitTyped DEF Store
  <2>2. db' \in Jobs /\ crossed' \in BOOLEAN /\ stale' \in BOOLEAN
    BY <1>4, <1>b, UpsertTyped DEF Store
  <2>. QED
    BY <2>1, <2>2, <1>4, <1>a, TypeAfter DEF Store, factVars, JobsTyped, Flags, Work, Counts
<1>5. CASE Share(t)
  <2>1. Tasked' /\ queued' \in Queues /\ mem' \in Jobs /\ stage' \in Stages
    BY <1>5, SavedTyped DEF Share
  <2>2. cache' \in Jobs /\ crossed' \in BOOLEAN /\ stale' \in BOOLEAN /\ missed' \in BOOLEAN /\ left' \in [Bounds -> Nat]
    BY <1>5, <1>b, SetexTyped DEF Share
  <2>. QED
    BY <2>1, <2>2, <1>5, <1>a, TypeAfter DEF Share, factVars, JobsTyped, Flags, Work, Counts, Queues, Stages
<1>6. CASE Miss(t)
  <2>0. Tasked'
    <3>1. Wait(t, "find") /\ pc[t] \in Reads /\ copy' = copy
      BY <1>6 DEF Miss
    <3>. QED
      BY <3>1, WaitTyped
  <2>1. left' \in [Bounds -> Nat] /\ missed' \in BOOLEAN
    <3>1. Spend("refuse") /\ missed' = TRUE
      BY <1>6 DEF Miss
    <3>2. left \in [Bounds -> Nat] /\ "refuse" \in Bounds
      BY <1>a DEF Counts, Bounds
    <3>. QED
      BY <3>1, <3>2 DEF Spend
  <2>. QED
    BY <2>0, <2>1, <1>6, <1>a, TypeAfter DEF Miss, factVars, JobsTyped, Flags, Work, Counts
<1>. QED
  BY <1>1, <1>2, <1>3, <1>4, <1>5, <1>6 DEF Accesses

LEMMA TypeInit == Init => TypeOK
<1>. SUFFICES ASSUME Init PROVE TypeOK
  OBVIOUS
<1>1. left \in [Bounds -> Nat] /\ request \in Requests
  BY ScenarioAssumption DEF Init
<1>2. JobsTyped
  BY <1>1, GoneIsAJob DEF Init, JobsTyped, Jobs, Requests
<1>3. Tasked
  <2>1. pc \in [Tasks -> UNION {Labels(u) : u \in Tasks}] /\ \A t \in Tasks : pc[t] \in Labels(t)
    <3>1. \A t \in Tasks : (IF t = "importer" THEN "request" ELSE "idle") \in Labels(t)
      BY LabelsOf DEF Tasks
    <3>. QED
      BY <3>1 DEF Init
  <2>. QED
    BY <2>1, GoneIsAJob DEF Init, Tasked
<1>4. Flags /\ Work /\ Counts
  BY <1>1 DEF Init, Flags, Work, Counts, NoStage
<1>. QED
  BY <1>2, <1>3, <1>4, TypeParts

LEMMA MoreScansTyped == scans \in Nat /\ MoreScans => scans' \in Nat
BY DEF MoreScans

LEMMA AlbumTyped == ASSUME TypeOK, NEW a \in Albums, Album(a) \/ Settle(a) \/ TenMinutes(a) PROVE TypeOK'
<1>a. JobsTyped /\ Tasked /\ Flags /\ Work /\ Counts
  BY TypeParts
<1>b. UNCHANGED taskVars => Tasked'
  BY <1>a DEF taskVars, Tasked
<1>1. CASE Acquire(a)
  BY <1>1, <1>a, <1>b, TypeAfter DEF Acquire, jobVars, ruleVars, historyVars, taskVars, JobsTyped, Flags, Work, Counts
<1>2. CASE Answer(a)
  BY <1>2, <1>a, <1>b, TypeAfter DEF Answer, jobVars, ruleVars, historyVars, taskVars, JobsTyped, Flags, Work, Counts
<1>3. CASE StoreAlbum(a)
  <2>1. db' \in Jobs /\ crossed' \in BOOLEAN /\ stale' \in BOOLEAN
    BY <1>3, <1>a, UpsertTyped DEF StoreAlbum, JobsTyped
  <2>. QED
    BY <2>1, <1>3, <1>a, <1>b, TypeAfter DEF StoreAlbum, ruleVars, taskVars, JobsTyped, Flags, Work, Counts
<1>4. CASE ShareAlbum(a)
  <2>1. cache' \in Jobs /\ crossed' \in BOOLEAN /\ stale' \in BOOLEAN /\ missed' \in BOOLEAN /\ left' \in [Bounds -> Nat]
    BY <1>4, <1>a, SetexTyped DEF ShareAlbum, JobsTyped
  <2>. QED
    BY <2>1, <1>4, <1>a, <1>b, TypeAfter DEF ShareAlbum, taskVars, JobsTyped, Flags, Work, Counts
<1>5. CASE Settle(a)
  BY <1>5, <1>a, <1>b, TypeAfter DEF Settle, jobVars, ruleVars, historyVars, taskVars, JobsTyped, Flags, Work, Counts
<1>6. CASE TenMinutes(a)
  BY <1>6, <1>a, <1>b, TypeAfter DEF TenMinutes, jobVars, ruleVars, historyVars, taskVars, JobsTyped, Flags, Work, Counts
<1>. QED
  BY <1>1, <1>2, <1>3, <1>4, <1>5, <1>6 DEF Album

LEMMA CheckTyped == ASSUME TypeOK, NEW t \in Tasks, Check(t) PROVE TypeOK'
<1>a. JobsTyped /\ Tasked /\ Flags /\ Work /\ Counts /\ copy[t] \in Jobs
  BY TypeParts DEF Tasked
<1>b. pc[t] \in {"count", "expire", "queue"} => {"void", "queue", "expire", "wait", "hand"} \subseteq Labels(t)
  BY <1>a, Owners, LabelsOf DEF Checking
<1>c. [copy[t] EXCEPT !.st = "failed"] \in Jobs /\ [copy[t] EXCEPT !.st = "scanning"] \in Jobs
  BY <1>a, Edits DEF States
<1>1. CASE Count(t)
  <2>1. Tasked'
    <3>1. CASE With(t, [copy[t] EXCEPT !.st = "failed"], "void")
      BY <3>1, <1>1, <1>a, <1>b, <1>c, WithTyped DEF Count, At
    <3>2. CASE Keep(t, IF ~Waiting THEN "queue" ELSE IF Late THEN "expire" ELSE "wait")
      BY <3>2, <1>1, <1>a, <1>b, KeepTyped DEF Count, At
    <3>. QED
      BY <3>1, <3>2, <1>1 DEF Count
  <2>. QED
    BY <2>1, <1>1, <1>a, TypeAfter DEF Count, jobVars, albumVars, ruleVars, historyVars, JobsTyped, Flags, Work, Counts
<1>2. CASE Expire(t)
  <2>1. Tasked'
    BY <1>2, <1>a, <1>b, KeepTyped DEF Expire, At
  <2>. QED
    BY <2>1, <1>2, <1>a, TypeAfter DEF Expire, jobVars, ruleVars, historyVars, JobsTyped, Flags, Work, Counts
<1>3. CASE QueueScan(t)
  <2>1. Tasked'
    BY <1>3, <1>a, <1>b, <1>c, WithTyped DEF QueueScan, At
  <2>. QED
    BY <2>1, <1>3, <1>a, MoreScansTyped, TypeAfter DEF QueueScan, jobVars, albumVars, ruleVars, historyVars, JobsTyped, Flags, Work, Counts
<1>. QED
  BY <1>1, <1>2, <1>3 DEF Check

LEMMA CreateTyped == ASSUME TypeOK, NEW t \in Tasks, Create(t) PROVE TypeOK'
<1>a. JobsTyped /\ Tasked /\ Flags /\ Work /\ Counts /\ copy[t] \in Jobs
  BY TypeParts DEF Tasked
<1>b. "built" \in Labels(t)
  BY <1>a, Owners, LabelsOf DEF Building, Create, At
<1>c. \A j \in Jobs : Built(j) \in Jobs
  BY Edits DEF Built, States
<1>1. Tasked'
  BY <1>a, <1>b, <1>c, GotoTyped, WithTyped DEF Create, JobsTyped
<1>2. mem' \in Jobs
  BY <1>a, <1>c DEF Create, JobsTyped
<1>3. empty' \in BOOLEAN
  BY <1>a DEF Create, Flags
<1>. QED
  BY <1>1, <1>2, <1>3, <1>a, TypeAfter DEF Create, jobVars, albumVars, ruleVars, JobsTyped, Flags, Work, Counts

LEMMA CleanTyped == ASSUME TypeOK, NEW t \in Tasks, Clean(t) PROVE TypeOK'
<1>a. JobsTyped /\ Tasked /\ Flags /\ Work /\ Counts /\ Gone \in Jobs
  BY TypeParts, GoneIsAJob
<1>b. pc[t] \in Cleaning => Cleaning \subseteq Labels(t)
  BY <1>a, Owners, LabelsOf
<1>1. CASE Drop(t)
  <2>1. Tasked'
    BY <1>1, <1>a, <1>b, GotoTyped DEF Drop, At, Cleaning
  <2>. QED
    BY <2>1, <1>1, <1>a, TypeAfter DEF Drop, jobVars, ruleVars, historyVars, JobsTyped, Flags, Work, Counts
<1>2. CASE Delete(t)
  <2>1. Tasked' /\ crossed' \in BOOLEAN
    BY <1>2, <1>a, <1>b, GotoTyped, CrossesTyped DEF Delete, At, Cleaning
  <2>. QED
    BY <2>1, <1>2, <1>a, TypeAfter DEF Delete, albumVars, ruleVars, JobsTyped, Flags, Work, Counts
<1>3. CASE Del(t)
  <2>1. Tasked' /\ crossed' \in BOOLEAN
    BY <1>3, <1>a, <1>b, Movers, GotoTyped, CrossesTyped DEF Del, At, Cleaning
  <2>2. left' \in [Bounds -> Nat]
    BY <1>3, <1>a, SpendTyped DEF Del, Bounds, Counts
  <2>. QED
    BY <2>1, <2>2, <1>3, <1>a, TypeAfter DEF Del, albumVars, JobsTyped, Flags, Work, Counts
<1>4. CASE DelPreview(t)
  <2>1. Tasked'
    BY <1>4, <1>a, Movers, GotoTyped DEF DelPreview
  <2>. QED
    BY <2>1, <1>4, <1>a, TypeAfter DEF DelPreview, albumVars, ruleVars, JobsTyped, Flags, Work, Counts
<1>. QED
  BY <1>1, <1>2, <1>3, <1>4 DEF Clean

LEMMA ImportsTyped == ASSUME TypeOK, Imports PROVE TypeOK'
<1>a. JobsTyped /\ Tasked /\ Flags /\ Work /\ Counts /\ "importer" \in Tasks /\ mem \in Jobs
  BY TypeParts, Movers DEF JobsTyped
<1>b. {"off", "enqueue", "load", "poll", "check"} \subseteq Labels("importer")
  BY LabelsOf DEF Checking
<1>c. Offer => preview' \in BOOLEAN /\ left' \in [Bounds -> Nat]
  BY <1>a, SpendTyped DEF Offer, Bounds, Flags, Counts
<1>1. CASE OfferPreview
  <2>1. Tasked'
    BY <1>1, <1>a, <1>b, GotoTyped DEF OfferPreview
  <2>. QED
    BY <2>1, <1>1, <1>a, <1>c, TypeAfter DEF OfferPreview, albumVars, historyVars, JobsTyped, Flags, Work, Counts
<1>2. CASE Enqueue
  <2>1. Tasked'
    BY <1>2, <1>a, <1>b, GotoTyped DEF Enqueue
  <2>. QED
    BY <2>1, <1>2, <1>a, TypeAfter DEF Enqueue, jobVars, albumVars, ruleVars, historyVars, JobsTyped, Flags, Work, Counts
<1>3. CASE Begin
  <2>1. Tasked'
    BY <1>3, <1>a, <1>b, GotoTyped DEF Begin
  <2>. QED
    BY <2>1, <1>3, <1>a, TypeAfter DEF Begin, jobVars, albumVars, ruleVars, historyVars, JobsTyped, Flags, Work, Counts
<1>4. CASE Unpack
  <2>1. Tasked' /\ queued' \in {queued, "done"} /\ mem' \in Jobs /\ aborted' \in BOOLEAN
    BY <1>4, <1>a, ProcessTyped, ThrowTyped DEF Unpack, Flags
  <2>. QED
    BY <2>1, <1>4, <1>a, TypeAfter DEF Unpack, jobVars, albumVars, ruleVars, historyVars, JobsTyped, Flags, Work, Counts
<1>5. CASE KeepPreview
  <2>1. Tasked' /\ queued' \in {queued, "done"} /\ mem' \in Jobs /\ aborted' \in BOOLEAN
    BY <1>5, <1>a, ProcessTyped DEF KeepPreview
  <2>. QED
    BY <2>1, <1>5, <1>a, <1>c, TypeAfter DEF KeepPreview, albumVars, historyVars, JobsTyped, Flags, Work, Counts
<1>6. CASE Joined
  <2>1. Tasked'
    BY <1>6, <1>a, <1>b, GotoTyped DEF Joined
  <2>. QED
    BY <2>1, <1>6, <1>a, TypeAfter DEF Joined, jobVars, albumVars, ruleVars, historyVars, JobsTyped, Flags, Work, Counts
<1>7. CASE Poll
  <2>1. Tasked' /\ queued' \in {queued, "done"}
    BY <1>7, <1>a, <1>b, GotoTyped, ReturnTyped DEF Poll
  <2>. QED
    BY <2>1, <1>7, <1>a, TypeAfter DEF Poll, jobVars, albumVars, ruleVars, historyVars, JobsTyped, Flags, Work, Counts
<1>8. CASE GiveUp
  <2>1. Tasked'
    BY <1>8, <1>a, <1>b, GotoTyped DEF GiveUp
  <2>. QED
    BY <2>1, <1>8, <1>a, TypeAfter DEF GiveUp, jobVars, albumVars, ruleVars, historyVars, JobsTyped, Flags, Work, Counts
<1>. QED
  BY <1>1, <1>2, <1>3, <1>4, <1>5, <1>6, <1>7, <1>8, <1>a, CheckTyped, CreateTyped, CleanTyped, AccessTyped DEF Imports

LEMMA OthersTyped ==
  ASSUME TypeOK,
         TakeScan \/ Cancel \/ (\E v \in Visitors : Visit(v) \/ Rescan(v) \/ TimeOut(v))
  PROVE  TypeOK'
<1>a. JobsTyped /\ Tasked /\ Flags /\ Work /\ Counts
  BY TypeParts
<1>1. CASE TakeScan
  <2>1. Tasked'
    BY <1>1, <1>a, Movers, LabelsOf, GotoTyped DEF TakeScan
  <2>. QED
    BY <2>1, <1>1, <1>a, TypeAfter DEF TakeScan, jobVars, albumVars, ruleVars, historyVars, JobsTyped, Flags, Work, Counts
<1>2. CASE Cancel
  <2>1. Tasked' /\ left' \in [Bounds -> Nat]
    BY <1>2, <1>a, Movers, LabelsOf, GotoTyped, SpendTyped DEF Cancel, Bounds
  <2>. QED
    BY <2>1, <1>2, <1>a, TypeAfter DEF Cancel, jobVars, albumVars, historyVars, JobsTyped, Flags, Work, Counts
<1>3. ASSUME NEW v \in Visitors, Visit(v) PROVE TypeOK'
  <2>1. {"view", "check", "overdue", "late"} \subseteq Labels(v) /\ v \in Tasks
    BY LabelsOf, Movers DEF Checking
  <2>2. Tasked' /\ left' \in [Bounds -> Nat]
    BY <1>3, <1>a, <2>1, GotoTyped, SpendTyped DEF Visit, Bounds
  <2>. QED
    BY <2>2, <1>3, <1>a, TypeAfter DEF Visit, jobVars, albumVars, historyVars, JobsTyped, Flags, Work, Counts
<1>4. ASSUME NEW v \in Visitors, Rescan(v) PROVE TypeOK'
  <2>1. Tasked'
    BY <1>4, <1>a, LabelsOf, Movers, GotoTyped DEF Rescan
  <2>. QED
    BY <2>1, <1>4, <1>a, MoreScansTyped, TypeAfter DEF Rescan, jobVars, albumVars, ruleVars, historyVars, JobsTyped, Flags, Work, Counts
<1>5. ASSUME NEW v \in Visitors, TimeOut(v) PROVE TypeOK'
  <2>1. Tasked' /\ crossed' \in BOOLEAN
    BY <1>5, <1>a, LabelsOf, Movers, GotoTyped, CrossesTyped DEF TimeOut
  <2>2. db' \in Jobs
    BY <1>5, <1>a, Edits, GoneIsAJob DEF TimeOut, JobsTyped, States
  <2>. QED
    BY <2>1, <2>2, <1>5, <1>a, TypeAfter DEF TimeOut, albumVars, ruleVars, JobsTyped, Flags, Work, Counts
<1>. QED
  BY <1>1, <1>2, <1>3, <1>4, <1>5

LEMMA BreaksTyped ==
  ASSUME Flags, NEW t, NEW kind \in SUBSET {"task"}, Breaks(t, kind)
  PROVE  broken' \subseteq {"import", "made", "task"}
BY DEF Flags, Breaks

LEMMA FailuresTyped ==
  ASSUME TypeOK, FailImport \/ FailRequest \/ (\E t \in Tasks : FailTask(t)) \/ LoseRedis \/ Crash
  PROVE  TypeOK'
<1>a. JobsTyped /\ Tasked /\ Flags /\ Work /\ Counts /\ Gone \in Jobs
  BY TypeParts, GoneIsAJob
<1>1. CASE FailImport
  <2>1. Tasked' /\ queued' = "done" /\ left' \in [Bounds -> Nat] /\ broken' \subseteq {"import", "made", "task"}
    BY <1>1, <1>a, ReturnTyped, ThrowTyped, SpendTyped, BreaksTyped DEF FailImport, Bounds
  <2>. QED
    BY <2>1, <1>1, <1>a, TypeAfter DEF FailImport, jobVars, albumVars, JobsTyped, Flags, Work, Counts
<1>2. CASE FailRequest
  <2>1. Tasked' /\ left' \in [Bounds -> Nat] /\ broken' \subseteq {"import", "made", "task"}
    BY <1>2, <1>a, Movers, LabelsOf, GotoTyped, SpendTyped, BreaksTyped DEF FailRequest, Bounds
  <2>. QED
    BY <2>1, <1>2, <1>a, TypeAfter DEF FailRequest, jobVars, albumVars, JobsTyped, Flags, Work, Counts
<1>3. ASSUME NEW t \in Tasks, FailTask(t) PROVE TypeOK'
  <2>1. Tasked' /\ left' \in [Bounds -> Nat] /\ broken' \subseteq {"import", "made", "task"}
    BY <1>3, <1>a, Movers, GotoTyped, SpendTyped, BreaksTyped DEF FailTask, Bounds
  <2>. QED
    BY <2>1, <1>3, <1>a, TypeAfter DEF FailTask, jobVars, albumVars, JobsTyped, Flags, Work, Counts
<1>4. CASE LoseRedis
  <2>1. Tasked' /\ left' \in [Bounds -> Nat]
    BY <1>4, <1>a, SpendTyped DEF LoseRedis, Bounds, taskVars, Tasked
  <2>. QED
    BY <2>1, <1>4, <1>a, TypeAfter DEF LoseRedis, albumVars, JobsTyped, Flags, Work, Counts
<1>5. CASE Crash
  <2>1. Tasked'
    <3>1. \A t \in Tasks : Rest(t) \in Labels(t)
      BY Movers
    <3>. QED
      BY <3>1, <1>5, <1>a DEF Crash, Tasked
  <2>2. scans' \in Nat /\ queued' \in Queues /\ left' \in [Bounds -> Nat]
    BY <1>5, <1>a, MoreScansTyped, NothingStaged, SpendTyped DEF Crash, Counts, Bounds, Queues
  <2>3. stage' \in Stages /\ broken' \subseteq {"import", "made", "task"}
    BY <1>5, <1>a, NothingStaged DEF Crash, Flags
  <2>. QED
    BY <2>1, <2>2, <2>3, <1>5, <1>a, TypeAfter DEF Crash, jobVars, JobsTyped, Flags, Work, Counts, Queues, Stages
<1>. QED
  BY <1>1, <1>2, <1>3, <1>4, <1>5

LEMMA TypeStep == TypeOK /\ [Next]_vars => TypeOK'
<1>. SUFFICES ASSUME TypeOK, [Next]_vars PROVE TypeOK'
  OBVIOUS
<1>1. CASE Imports
  BY <1>1, ImportsTyped
<1>2. CASE Scans
  BY <1>2, Movers, OthersTyped, CreateTyped, AccessTyped DEF Scans
<1>3. CASE Cancels
  BY <1>3, Movers, CleanTyped, AccessTyped DEF Cancels
<1>4. CASE Cancel
  BY <1>4, OthersTyped
<1>5. ASSUME NEW v \in Visitors, Visit(v) \/ Visits(v) PROVE TypeOK'
  BY <1>5, Movers, OthersTyped, CheckTyped, AccessTyped DEF Visits
<1>6. ASSUME NEW a \in Albums, Album(a) \/ Settle(a) \/ TenMinutes(a) PROVE TypeOK'
  BY <1>6, AlbumTyped
<1>7. CASE FailImport \/ FailRequest \/ (\E t \in Tasks : FailTask(t)) \/ LoseRedis \/ Crash
  BY <1>7, FailuresTyped
<1>8. CASE UNCHANGED vars
  <2>1. Tasked'
    BY <1>8, TypeParts DEF vars, taskVars, Tasked
  <2>. QED
    BY <2>1, <1>8, TypeParts, TypeAfter
       DEF vars, jobVars, albumVars, ruleVars, historyVars, JobsTyped, Flags, Work, Counts
<1>. QED
  BY <1>1, <1>2, <1>3, <1>4, <1>5, <1>6, <1>7, <1>8 DEF Next

-----------------------------------------------------------------------------
(* Where the import worker is, for every state of its BullMQ job.           *)

Idling == {"failed", "fail"} \cup Cleaning
Worker ==
    /\ queued = "new" => pc["importer"] \in {"request", "offer", "enqueue"} /\ mem.st = "pending"
    /\ queued \in {"lost", "waiting"} => pc["importer"] = "off"
    /\ queued = "active" => pc["importer"] \notin {"off", "request", "offer", "enqueue"} \cup Idling
    /\ queued = "ending" => pc["importer"] \in Checking
    /\ queued = "done" => pc["importer"] \in {"off"} \cup Idling
    /\ pc["importer"] \in OwnJob => mem.st # "scanning"
    /\ request.albums = {} => stage = NoStage /\ pc["importer"] \notin {"begin", "albums", "poll", "look"} \cup Checking
    /\ request.albums # {} => pc["importer"] \notin Building

\* A task that goes to a label takes nobody else along.
Moved(t, job, label) ==
    /\ pc'[t] = label /\ io'[t] = "none" /\ copy'[t] = job
    /\ \A u \in Tasks : u # t => pc'[u] = pc[u] /\ io'[u] = io[u] /\ copy'[u] = copy[u]

LEMMA Moving ==
  ASSUME TypeOK, NEW t \in Tasks
  PROVE  /\ \A job, label : With(t, job, label) => Moved(t, job, label)
         /\ \A label : Goto(t, label) => Moved(t, Gone, label)
         /\ \A label : Keep(t, label) => Moved(t, copy[t], label)
         /\ \A s : Wait(t, s) => /\ pc' = pc /\ io'[t] = s /\ \A u \in Tasks : u # t => io'[u] = io[u]
BY TypeParts DEF Tasked, With, Goto, Keep, Wait, Moved

\* What the import worker does when it returns, throws or goes on.
LEMMA Going ==
  ASSUME TypeOK
  PROVE  /\ Return => Moved("importer", Gone, "off") /\ queued' = "done"
         /\ Throw => Moved("importer", Gone, "failed") /\ queued' = "done"
         /\ \A label : Proceed(label) => Moved("importer", Gone, label) /\ queued' = queued
BY Moving, Movers DEF Return, Throw, Proceed

LEMMA Leaving ==
  ASSUME TypeOK, NEW t \in Tasks, Leave(t)
  PROVE  \/ t # "importer" /\ Moved(t, Gone, "idle") /\ queued' = queued
         \/ t = "importer" /\ queued = "ending" /\ Moved(t, Gone, "off") /\ queued' = "done"
         \/ t = "importer" /\ queued # "ending" /\ Moved(t, Gone, "look") /\ queued' = queued
BY Moving, Going DEF Leave, Rest

LEMMA AnsweredWorker ==
  ASSUME TypeOK, Worker, NEW t \in Tasks, NEW job \in Jobs, Answered(t, job), UNCHANGED request
  PROVE  Worker'
<1>a. Tasked /\ "importer" \in Tasks
  BY TypeParts, Movers
<1>1. CASE pc[t] = "load" /\ Loaded(job) /\ UNCHANGED <<aborted, stage>>
  <2>1. t = "importer"
    BY <1>1, <1>a, Owners
  <2>2. [job EXCEPT !.st = "fetching"].st = "fetching"
    BY DEF Jobs
  <2>3. \/ Throw
        \/ Proceed("fetching") /\ mem'.st = "fetching"
        \/ Proceed("unpack")
    BY <1>1, <2>2 DEF Loaded
  <2>. QED
    BY <1>1, <2>1, <2>3, Going DEF Worker, Moved, Idling, Cleaning, Checking, OwnJob, Building
<1>2. CASE pc[t] = "reread" /\ Reread(job) /\ UNCHANGED <<aborted, stage>>
  <2>1. t = "importer"
    BY <1>2, <1>a, Owners
  <2>2. [mem EXCEPT !.st = "downloading"].st = "downloading"
    BY TypeParts DEF JobsTyped, Jobs
  <2>3. (Return /\ mem' = mem) \/ (Proceed("named") /\ mem'.st = "downloading")
    BY <1>2, <2>2 DEF Reread
  <2>. QED
    BY <1>2, <2>1, <2>3, Going DEF Worker, Moved, Idling, Cleaning, Checking, OwnJob, Building
<1>3. CASE pc[t] = "look" /\ Looked(job) /\ UNCHANGED <<mem, aborted, stage>>
  <2>1. t = "importer"
    BY <1>3, <1>a, Owners
  <2>. QED
    BY <1>3, <2>1, Going DEF Looked, Worker, Moved, Idling, Cleaning, Checking, OwnJob, Building
<1>4. CASE pc[t] = "failed" /\ Failed(job) /\ UNCHANGED <<mem, aborted, stage>>
  <2>1. t = "importer"
    BY <1>4, <1>a, Owners
  <2>. QED
    BY <1>4, <1>a, <2>1, Moving DEF Failed, Worker, Moved, Idling, Cleaning, Checking, OwnJob, Building
<1>5. CASE pc[t] = "asked" /\ Asked(job) /\ UNCHANGED mem
  <2>1. t = "user" /\ "user" # "importer"
    BY <1>5, <1>a, Owners
  <2>2. CASE Abort
    <3>1. pc'["importer"] = IF pc["importer"] = "albums" THEN "off" ELSE pc["importer"]
      BY <2>2, <1>a DEF Abort, Tasked
    <3>2. queued' = (IF pc["importer"] = "albums" THEN "done" ELSE queued) /\ mem' = mem
      BY <2>2, <1>5 DEF Abort
    <3>3. stage = NoStage => stage' = NoStage
      BY <2>2 DEF Abort, NoStage
    <3>. QED
      BY <3>1, <3>2, <3>3 DEF Worker, Idling, Cleaning, Checking, OwnJob, Building
  <2>3. CASE Goto("user", IF job.st = "failed" THEN "drop" ELSE "idle") /\ UNCHANGED <<queued, aborted, stage>>
    BY <2>3, <2>1, <1>5, <1>a, Moving DEF Moved, Worker
  <2>. QED
    BY <2>2, <2>3, <1>5 DEF Asked
<1>6. CASE pc[t] = "check" /\ Checked(t, job) /\ UNCHANGED <<mem, aborted, stage>>
  <2>1. CASE Leave(t)
    BY <2>1, <1>6, <1>a, Leaving DEF Moved, Worker, Idling, Cleaning, Checking, OwnJob, Building
  <2>2. CASE With(t, job, "count") /\ UNCHANGED queued
    BY <2>2, <1>6, <1>a, Moving DEF Moved, Worker, Idling, Cleaning, Checking, OwnJob, Building
  <2>. QED
    BY <2>1, <2>2, <1>6 DEF Checked
<1>7. CASE ((pc[t] = "scan" /\ Scanned(job)) \/ (pc[t] = "view" /\ Goto(t, Rest(t)))) /\ UNCHANGED <<queued, mem, aborted, stage>>
  <2>1. t # "importer"
    BY <1>7, <1>a, Owners
  <2>2. pc'["importer"] = pc["importer"]
    BY <1>7, <1>a, <2>1, Owners, Moving, Movers DEF Scanned, Moved
  <2>. QED
    BY <2>2, <1>7 DEF Worker
<1>. QED
  BY <1>1, <1>2, <1>3, <1>4, <1>5, <1>6, <1>7 DEF Answered

LEMMA SavedWorker ==
  ASSUME TypeOK, Worker, NEW t \in Tasks, Saved(t), UNCHANGED request
  PROVE  Worker'
<1>a. Tasked /\ "importer" \in Tasks /\ pc[t] \in Labels(t)
  BY TypeParts, Movers DEF Tasked
<1>1. CASE pc[t] = "named" /\ Named /\ UNCHANGED stage
  <2>1. t = "importer"
    BY <1>1, <1>a, Owners
  <2>2. WithTracks(mem).st = mem.st
    BY TypeParts DEF JobsTyped, Jobs, WithTracks
  <2>. QED
    BY <1>1, <2>1, <2>2, Going DEF Named, Worker, Moved, Idling, Cleaning, Checking, OwnJob, Building
<1>2. CASE pc[t] = "begin" /\ Begun /\ UNCHANGED mem
  <2>1. t = "importer"
    BY <1>2, <1>a, Owners
  <2>. QED
    BY <1>2, <2>1, Going DEF Begun, Worker, Moved, Idling, Cleaning, Checking, OwnJob, Building
<1>3. CASE pc[t] = "built" /\ UNCHANGED <<mem, stage>> /\ Goto(t, Rest(t)) /\ queued' = IF t = "importer" THEN "done" ELSE queued
  BY <1>3, <1>a, Moving DEF Rest, Worker, Moved, Idling, Cleaning, Checking, OwnJob, Building
<1>4. CASE UNCHANGED <<queued, mem, stage>> /\ pc[t] = "request" /\ Goto(t, IF request.quick THEN "enqueue" ELSE "offer")
  BY <1>4, <1>a, Owners, Moving DEF Worker, Moved, Idling, Cleaning, Checking, OwnJob, Building
<1>5. CASE UNCHANGED <<queued, mem, stage>> /\ pc[t] = "fetching" /\ Goto(t, "reread")
  BY <1>5, <1>a, Owners, Moving DEF Worker, Moved, Idling, Cleaning, Checking, OwnJob, Building
<1>6. CASE UNCHANGED <<queued, mem, stage>> /\ pc[t] = "tracked" /\ Goto(t, "keep")
  BY <1>6, <1>a, Owners, Moving DEF Worker, Moved, Idling, Cleaning, Checking, OwnJob, Building
<1>7. CASE UNCHANGED <<queued, mem, stage>> /\ pc[t] = "building" /\ Keep(t, "create")
  BY <1>7, <1>a, Moving DEF Worker, Moved, Idling, Cleaning, Checking, OwnJob, Building
<1>8. CASE UNCHANGED <<queued, mem, stage>> /\ pc[t] = "fail" /\ Goto(t, Rest(t))
  BY <1>8, <1>a, Owners, Moving DEF Rest, Worker, Moved, Idling, Cleaning, Checking, OwnJob, Building
<1>9. CASE pc[t] \in {"void", "wait", "hand"} /\ Leave(t) /\ UNCHANGED <<mem, stage>>
  BY <1>9, <1>a, Leaving DEF Worker, Moved, Idling, Cleaning, Checking, OwnJob, Building
<1>. QED
  BY <1>1, <1>2, <1>3, <1>4, <1>5, <1>6, <1>7, <1>8, <1>9 DEF Saved

LEMMA AccessWorker == ASSUME TypeOK, Worker, NEW t \in Tasks, Accesses(t) PROVE Worker'
<1>a. cache \in Jobs /\ Gone \in Jobs /\ copy[t] \in Jobs
  BY TypeParts, GoneIsAJob DEF JobsTyped, Tasked
<1>1. CASE Get(t)
  <2>1. CASE Wait(t, "find") /\ UNCHANGED <<copy, queued, mem, aborted, stage>>
    BY <1>1, <2>1, Moving DEF Get, factVars, Worker
  <2>2. CASE Answered(t, cache)
    BY <1>1, <2>2, <1>a, AnsweredWorker DEF Get, factVars
  <2>. QED
    BY <1>1, <2>1, <2>2 DEF Get
<1>2. CASE Find(t)
  <2>1. CASE Wait(t, "fill") /\ UNCHANGED <<queued, mem, aborted, stage>>
    BY <1>2, <2>1, Moving DEF Find, factVars, Worker
  <2>2. CASE Answered(t, Gone)
    BY <1>2, <2>2, <1>a, AnsweredWorker DEF Find, factVars
  <2>. QED
    BY <1>2, <2>1, <2>2 DEF Find
<1>3. CASE Fill(t)
  BY <1>3, <1>a, AnsweredWorker DEF Fill, factVars
<1>4. CASE Store(t)
  BY <1>4, Moving DEF Store, factVars, Worker
<1>5. CASE Share(t)
  BY <1>5, SavedWorker DEF Share, factVars
<1>6. CASE Miss(t)
  BY <1>6, Moving DEF Miss, factVars, Worker
<1>. QED
  BY <1>1, <1>2, <1>3, <1>4, <1>5, <1>6 DEF Accesses

LEMMA ProcessWorker ==
  ASSUME TypeOK, Worker, NEW job \in Jobs, Process(job), pc["importer"] \in {"unpack", "keep"}, UNCHANGED <<request, stage>>
  PROVE  Worker'
<1>1. [job EXCEPT !.st = "downloading"].st = "downloading" /\ [job EXCEPT !.st = "creating_playlist"].st = "creating_playlist"
  BY DEF Jobs
<1>2. \/ Return /\ request.albums = {}
      \/ Proceed("begin") /\ mem'.st = "downloading" /\ request.albums # {}
      \/ Proceed("building") /\ mem'.st = "creating_playlist" /\ request.albums = {}
  BY <1>1 DEF Process
<1>. QED
  BY <1>2, Going DEF Worker, Moved, Idling, Cleaning, Checking, OwnJob, Building

\* A step of another task that leaves the worker's variables alone.
LEMMA ElsewhereWorker ==
  ASSUME Worker, pc'["importer"] = pc["importer"], UNCHANGED <<queued, mem, stage, request>>
  PROVE  Worker'
BY DEF Worker

LEMMA CheckWorker == ASSUME TypeOK, Worker, NEW t \in Tasks, Check(t) PROVE Worker'
<1>1. CASE t # "importer"
  <2>1. pc'["importer"] = pc["importer"]
    BY <1>1, Moving, Movers DEF Check, Count, Expire, QueueScan, Moved
  <2>. QED
    BY <2>1, ElsewhereWorker DEF Check, Count, Expire, QueueScan, jobVars, albumVars, ruleVars, historyVars
<1>2. CASE t = "importer"
  <2>1. \E label \in Checking : pc["importer"] \in Checking /\ pc'["importer"] = label /\ label \notin OwnJob
    BY <1>2, Moving, Movers DEF Check, Count, Expire, QueueScan, Moved, At, Checking, OwnJob
  <2>2. UNCHANGED <<queued, mem, stage, request>>
    BY DEF Check, Count, Expire, QueueScan, jobVars, albumVars, ruleVars, historyVars
  <2>. QED
    BY <2>1, <2>2 DEF Worker, Checking, Idling, Cleaning, Building, OwnJob
<1>. QED
  BY <1>1, <1>2

LEMMA CreateWorker == ASSUME TypeOK, Worker, NEW t \in Tasks, Create(t) PROVE Worker'
<1>1. UNCHANGED <<queued, stage, request>>
  BY DEF Create, jobVars, albumVars, ruleVars
<1>2. CASE t # "importer"
  BY <1>1, <1>2, Moving, Movers, ElsewhereWorker DEF Create, Moved
<1>3. CASE t = "importer"
  <2>1. pc["importer"] = "create" /\ pc'["importer"] = "built" /\ mem'.st = "completed"
    BY <1>3, Moving, TypeParts DEF Create, Moved, At, Built, JobsTyped, Jobs
  <2>. QED
    BY <1>1, <2>1 DEF Worker, Checking, Idling, Cleaning, Building, OwnJob
<1>. QED
  BY <1>2, <1>3

LEMMA CleanWorker == ASSUME TypeOK, Worker, NEW t \in Tasks, Clean(t) PROVE Worker'
<1>1. UNCHANGED <<queued, mem, stage, request>>
  BY DEF Clean, Drop, Delete, Del, DelPreview, jobVars, albumVars, ruleVars
<1>2. CASE t # "importer"
  <2>1. pc'["importer"] = pc["importer"]
    BY <1>2, Moving, Movers DEF Clean, Drop, Delete, Del, DelPreview, Moved
  <2>. QED
    BY <1>1, <2>1, ElsewhereWorker
<1>3. CASE t = "importer"
  <2>1. pc["importer"] \in Cleaning /\ pc'["importer"] \in Cleaning \cup {"off"}
    BY <1>3, Moving, Movers DEF Clean, Drop, Delete, Del, DelPreview, Moved, At, Cleaning, Rest
  <2>. QED
    BY <1>1, <2>1, TypeParts DEF Worker, Work, Checking, Idling, Cleaning, Building, OwnJob
<1>. QED
  BY <1>2, <1>3

LEMMA WorkerInit == Init => Worker
BY Movers DEF Init, Worker, OwnJob, Building, Checking, NoStage

LEMMA WorkerStep == ASSUME TypeOK, Worker, [Next]_vars PROVE Worker'
<1>a. "importer" \in Tasks /\ pc["importer"] \in Labels("importer") /\ mem \in Jobs
  BY TypeParts, Movers DEF Tasked, JobsTyped
<1>1. CASE OfferPreview \/ Enqueue \/ Begin \/ Joined \/ Poll \/ GiveUp
  <2>1. UNCHANGED <<mem, stage, request>>
    BY <1>1 DEF OfferPreview, Enqueue, Begin, Joined, Poll, GiveUp, jobVars, albumVars, ruleVars
  <2>2. CASE OfferPreview
    <3>1. pc["importer"] = "offer" /\ pc'["importer"] = "enqueue" /\ queued' = queued
      BY <2>2, <1>a, Moving DEF OfferPreview, At, Moved
    <3>. QED
      BY <2>1, <3>1 DEF Worker, Checking, Idling, Cleaning, Building, OwnJob
  <2>3. CASE Enqueue
    <3>1. pc'["importer"] = "off" /\ queued' = "waiting"
      BY <2>3, <1>a, Moving DEF Enqueue, Moved
    <3>. QED
      BY <2>1, <3>1 DEF Worker, Checking, Idling, Cleaning, Building, OwnJob
  <2>4. CASE Begin
    <3>1. pc'["importer"] = "load" /\ queued' = "active"
      BY <2>4, <1>a, Moving DEF Begin, Moved
    <3>. QED
      BY <2>1, <3>1 DEF Worker, Checking, Idling, Cleaning, Building, OwnJob
  <2>5. CASE Joined
    <3>1. pc["importer"] = "albums" /\ pc'["importer"] = "poll" /\ queued' = queued
      BY <2>5, <1>a, Moving DEF Joined, At, Moved
    <3>. QED
      BY <2>1, <3>1 DEF Worker, Checking, Idling, Cleaning, Building, OwnJob
  <2>6. CASE Poll
    <3>1. /\ pc["importer"] = "poll"
          /\ (pc'["importer"] = "check" /\ queued' = queued) \/ (pc'["importer"] = "off" /\ queued' = "done")
      BY <2>6, <1>a, Moving, Going DEF Poll, At, Moved
    <3>. QED
      BY <2>1, <3>1 DEF Worker, Checking, Idling, Cleaning, Building, OwnJob
  <2>7. CASE GiveUp
    <3>1. pc["importer"] = "poll" /\ pc'["importer"] = "check" /\ queued' = "ending"
      BY <2>7, <1>a, Moving DEF GiveUp, At, Moved
    <3>. QED
      BY <2>1, <3>1 DEF Worker, Checking, Idling, Cleaning, Building, OwnJob
  <2>. QED
    BY <1>1, <2>2, <2>3, <2>4, <2>5, <2>6, <2>7
<1>2. CASE Unpack \/ KeepPreview
  <2>1. UNCHANGED <<stage, request>> /\ pc["importer"] \in {"unpack", "keep"}
    BY <1>2 DEF Unpack, KeepPreview, albumVars, ruleVars, At
  <2>2. Process(mem) \/ (Throw /\ UNCHANGED mem)
    BY <1>2 DEF Unpack, KeepPreview
  <2>3. CASE Throw /\ UNCHANGED mem
    BY <2>1, <2>3, Going DEF Moved, Worker, Checking, Idling, Cleaning, Building, OwnJob
  <2>. QED
    BY <2>1, <2>2, <2>3, <1>a, ProcessWorker
<1>3. ASSUME NEW t \in Tasks, Accesses(t) \/ Check(t) \/ Create(t) \/ Clean(t) PROVE Worker'
  BY <1>3, AccessWorker, CheckWorker, CreateWorker, CleanWorker
<1>4. ASSUME TakeScan \/ Cancel \/ (\E v \in Visitors : Visit(v) \/ Rescan(v) \/ TimeOut(v)) PROVE Worker'
  <2>1. UNCHANGED <<queued, mem, stage, request>>
    BY <1>4 DEF TakeScan, Cancel, Visit, Rescan, TimeOut, jobVars, albumVars, ruleVars
  <2>2. pc'["importer"] = pc["importer"]
    BY <1>4, Moving, Movers DEF TakeScan, Cancel, Visit, Rescan, TimeOut, Moved
  <2>. QED
    BY <2>1, <2>2, ElsewhereWorker
<1>5. ASSUME NEW a \in Albums, Album(a) \/ Settle(a) \/ TenMinutes(a) PROVE Worker'
  <2>1. UNCHANGED <<queued, mem, pc, request>>
    BY <1>5 DEF Album, Acquire, Answer, StoreAlbum, ShareAlbum, Settle, TenMinutes, jobVars, ruleVars, taskVars
  <2>2. stage = NoStage => stage' = stage
    BY <1>5 DEF Album, Acquire, Answer, StoreAlbum, ShareAlbum, Settle, TenMinutes, NoStage
  <2>. QED
    BY <2>1, <2>2 DEF Worker
<1>6. ASSUME FailImport PROVE Worker'
  <2>1. UNCHANGED <<mem, stage, request>> /\ queued' = "done" /\ pc'["importer"] \in {"off", "failed"}
    BY <1>6, Going DEF FailImport, albumVars, Moved
  <2>. QED
    BY <2>1 DEF Worker, Checking, Idling, Cleaning, Building, OwnJob
<1>7. ASSUME FailRequest PROVE Worker'
  <2>1. UNCHANGED <<mem, stage, request>> /\ queued' = "lost" /\ pc'["importer"] = "off"
    BY <1>7, <1>a, Moving DEF FailRequest, albumVars, Moved
  <2>. QED
    BY <2>1 DEF Worker, Checking, Idling, Cleaning, Building, OwnJob
<1>8. ASSUME NEW t \in Tasks, FailTask(t) PROVE Worker'
  <2>1. UNCHANGED <<queued, mem, stage, request>>
    BY <1>8 DEF FailTask, albumVars
  <2>2. CASE t # "importer"
    BY <1>8, <2>1, <2>2, Moving, Movers, ElsewhereWorker DEF FailTask, Moved
  <2>3. CASE t = "importer"
    <3>1. pc["importer"] \in Idling /\ pc'["importer"] = "off"
      BY <1>8, <2>3, Moving DEF FailTask, Moved, Rest, Idling, Cleaning
    <3>. QED
      BY <2>1, <3>1, TypeParts DEF Work, Worker, Checking, Idling, Cleaning, Building, OwnJob
  <2>. QED
    BY <2>2, <2>3
<1>9. CASE LoseRedis
  BY <1>9 DEF LoseRedis, taskVars, albumVars, Worker
<1>10. CASE Crash
  <2>1. pc'["importer"] = "off" /\ stage' = NoStage /\ UNCHANGED <<mem, request>>
    BY <1>10, <1>a DEF Crash, Rest, jobVars
  <2>2. queued' \in {"waiting", "lost", "done"}
    BY <1>10, TypeParts DEF Crash, Work
  <2>. QED
    BY <2>1, <2>2 DEF Worker, Checking, Idling, Cleaning, Building, OwnJob
<1>11. CASE UNCHANGED vars
  BY <1>11 DEF vars, taskVars, albumVars, ruleVars, Worker
<1>. QED
  BY <1>1, <1>2, <1>3, <1>4, <1>5, <1>6, <1>7, <1>8, <1>9, <1>10, <1>11, Movers
     DEF Next, Imports, Scans, Cancels, Visits

-----------------------------------------------------------------------------
(* Before its albums are begun, an import has no scans and no checks.       *)

Beginning == {"load", "unpack", "fetching", "reread", "named", "tracked", "keep", "begin"}
Early ==
    \/ queued \in {"new", "lost", "waiting"}
    \/ pc["importer"] \in Beginning
    \/ request.albums = {} /\ pc["importer"] # "off"
Virgin ==
    /\ stage = NoStage /\ \A a \in Albums : download[a] = "none"
    /\ scans = 0 /\ pc["scanner"] = "idle" /\ \A v \in Visitors : pc[v] \in {"idle", "view", "late"}
    /\ db.st # "scanning"
EarlyVirgin ==
    /\ "import" \notin broken =>
         /\ Early => Virgin
         /\ queued \in {"new", "lost", "waiting"} => db.st \in {"gone", "pending", "failed"}
    /\ pc["importer"] = "fail" => copy["importer"].st = "failed"

Tracked == {"tracked", "keep", "begin", "albums", "poll", "look"} \cup Checking \cup Building

\* A step of anybody leaves the worker where it is, or takes it from label to label.
Onwards ==
    /\ pc'["importer"] \in Beginning => pc["importer"] \in Beginning \/ queued = "waiting"
    /\ pc'["importer"] # "off" => pc["importer"] # "off" \/ queued = "waiting"
    /\ queued' \in {"new", "lost", "waiting"} => queued \in {"new", "lost", "waiting"}
    /\ pc'["importer"] = "fail" => \/ copy'["importer"].st = "failed"
                                   \/ pc["importer"] = "fail" /\ copy'["importer"] = copy["importer"]
    /\ pc'["importer"] \in Tracked => pc["importer"] \in Tracked \cup {"unpack"} \/ mem' = WithTracks(mem)
    /\ pc'["importer"] = "unpack" => pc["importer"] = "unpack" \/ ~request.quick
    /\ pc'["importer"] = "delPreview" => pc["importer"] = "delPreview" \/ cache' = Gone

LEMMA AnsweredOnwards ==
  ASSUME TypeOK, Worker, NEW t \in Tasks, NEW job \in Jobs, pc[t] \in Reads, Answered(t, job)
  PROVE  Onwards
<1>a. Tasked /\ "importer" \in Tasks
  BY TypeParts, Movers
<1>1. CASE t # "importer"
  <2>1. CASE pc[t] = "asked"
    <3>1. CASE Abort
      <4>1. /\ pc'["importer"] = IF pc["importer"] = "albums" THEN "off" ELSE pc["importer"]
            /\ queued' = IF pc["importer"] = "albums" THEN "done" ELSE queued
            /\ copy'["importer"] = copy["importer"]
        BY <1>a, <3>1 DEF Abort, Tasked
      <4>. QED
        BY <4>1 DEF Onwards, Beginning, Tracked, Checking, Building
    <3>2. CASE Goto("user", IF job.st = "failed" THEN "drop" ELSE "idle") /\ UNCHANGED queued
      BY <1>1, <1>a, <2>1, <3>2, Owners, Moving DEF Onwards, Moved, Beginning, Tracked, Checking, Building
    <3>. QED
      BY <2>1, <3>1, <3>2 DEF Answered, Asked
  <2>2. CASE pc[t] # "asked"
    <3>1. pc'["importer"] = pc["importer"] /\ copy'["importer"] = copy["importer"] /\ queued' = queued
      BY <1>1, <1>a, <2>2, Owners, Moving, Leaving, Movers DEF Answered, Moved, Checked, Scanned
    <3>. QED
      BY <3>1 DEF Onwards
  <2>. QED
    BY <2>1, <2>2
<1>2. CASE t = "importer"
  <2>a. pc["importer"] \notin {"asked", "scan", "view"}
    BY <1>a, Owners, Movers
  <2>1. CASE pc[t] = "load" /\ Loaded(job)
    BY <1>2, <2>1, Going DEF Loaded, Onwards, Moved, Beginning, Tracked, Checking, Building
  <2>2. CASE pc[t] = "reread" /\ Reread(job)
    BY <1>2, <2>2, Going DEF Reread, Onwards, Moved, Beginning, Tracked, Checking, Building
  <2>3. CASE pc[t] = "look" /\ Looked(job)
    BY <1>2, <2>3, Going DEF Looked, Onwards, Moved, Beginning, Tracked, Checking, Building
  <2>4. CASE pc[t] = "failed" /\ Failed(job)
    <3>1. [job EXCEPT !.st = "failed"].st = "failed"
      BY DEF Jobs
    <3>2. queued' = queued /\ \/ Moved("importer", Gone, "off") \/ Moved("importer", Gone, "drop")
                              \/ Moved("importer", [job EXCEPT !.st = "failed"], "fail")
      BY <1>a, <2>4, Moving DEF Failed
    <3>. QED
      BY <1>2, <2>4, <3>1, <3>2 DEF Onwards, Moved, Beginning, Tracked, Checking, Building
  <2>5. CASE pc[t] = "check" /\ Checked(t, job)
    BY <1>a, <1>2, <2>5, Moving, Leaving DEF Checked, Onwards, Moved, Beginning, Tracked, Checking, Building
  <2>. QED
    BY <1>2, <2>a, <2>1, <2>2, <2>3, <2>4, <2>5 DEF Answered
<1>. QED
  BY <1>1, <1>2

LEMMA SavedOnwards == ASSUME TypeOK, NEW t \in Tasks, pc[t] \in Writes, Saved(t) PROVE Onwards
<1>a. Tasked /\ "importer" \in Tasks
  BY TypeParts, Movers
<1>1. CASE t # "importer"
  <2>1. pc'["importer"] = pc["importer"] /\ copy'["importer"] = copy["importer"] /\ queued' = queued
    BY <1>1, <1>a, Owners, Moving, Leaving, Movers DEF Saved, Moved
  <2>. QED
    BY <2>1 DEF Onwards
<1>2. CASE t = "importer"
  <2>1. CASE pc[t] = "named" /\ Named
    BY <1>2, <2>1, Going DEF Named, Onwards, Moved, Beginning, Tracked, Checking, Building
  <2>2. CASE pc[t] = "begin" /\ Begun
    BY <1>2, <2>2, Going DEF Begun, Onwards, Moved, Beginning, Tracked, Checking, Building
  <2>3. CASE pc[t] = "built" /\ Goto(t, Rest(t)) /\ queued' = IF t = "importer" THEN "done" ELSE queued
    BY <1>a, <1>2, <2>3, Moving DEF Rest, Onwards, Moved, Beginning, Tracked, Checking, Building
  <2>4. CASE /\ queued' = queued
             /\ \/ pc[t] = "request"  /\ Goto(t, IF request.quick THEN "enqueue" ELSE "offer")
                \/ pc[t] = "fetching" /\ Goto(t, "reread")
                \/ pc[t] = "tracked"  /\ Goto(t, "keep")
                \/ pc[t] = "building" /\ Keep(t, "create")
                \/ pc[t] = "fail"     /\ Goto(t, Rest(t))
    BY <1>a, <1>2, <2>4, Moving DEF Rest, Onwards, Moved, Beginning, Tracked, Checking, Building
  <2>5. CASE pc[t] \in {"void", "wait", "hand"} /\ Leave(t)
    BY <1>a, <1>2, <2>5, Leaving DEF Onwards, Moved, Beginning, Tracked, Checking, Building
  <2>. QED
    BY <1>2, <2>1, <2>2, <2>3, <2>4, <2>5 DEF Saved
<1>. QED
  BY <1>1, <1>2

LEMMA AccessOnwards == ASSUME TypeOK, Worker, NEW t \in Tasks, Accesses(t) PROVE Onwards
<1>a. cache \in Jobs /\ db \in Jobs /\ Gone \in Jobs /\ copy[t] \in Jobs /\ Tasked /\ "importer" \in Tasks
  BY TypeParts, GoneIsAJob, Movers DEF JobsTyped, Tasked
<1>b. (io[t] \in {"find", "fill"} => pc[t] \in Reads) /\ (io[t] = "setex" => pc[t] \in Writes)
  BY <1>a DEF Tasked
<1>1. CASE UNCHANGED queued /\ \/ Wait(t, "find") /\ UNCHANGED copy
                               \/ Wait(t, "fill") /\ pc[t] \in Reads /\ copy' = [copy EXCEPT ![t] = db]
                               \/ Wait(t, "setex") /\ UNCHANGED copy
  <2>1. pc' = pc /\ (pc["importer"] = "fail" => copy'["importer"] = copy["importer"])
    BY <1>1, <1>a DEF Wait, Reads, Tasked
  <2>. QED
    BY <1>1, <2>1 DEF Onwards
<1>2. CASE \E job \in Jobs : pc[t] \in Reads /\ Answered(t, job)
  BY <1>2, AnsweredOnwards
<1>3. CASE Saved(t) /\ pc[t] \in Writes
  BY <1>3, SavedOnwards
<1>. QED
  BY <1>a, <1>b, <1>1, <1>2, <1>3 DEF Accesses, Get, Miss, Find, Fill, Store, Share

LEMMA Steps == ASSUME TypeOK, Worker, [Next]_vars PROVE Crash \/ Onwards
<1>a. "importer" \in Tasks /\ Tasked
  BY TypeParts, Movers
<1>1. ASSUME OfferPreview \/ Enqueue \/ Begin \/ Joined \/ Poll \/ GiveUp PROVE Onwards
  <2>1. \/ pc["importer"] = "offer" /\ Moved("importer", Gone, "enqueue") /\ queued' = queued
        \/ pc["importer"] = "enqueue" /\ Moved("importer", Gone, "off") /\ queued' = "waiting" /\ queued = "new"
        \/ queued = "waiting" /\ Moved("importer", Gone, "load") /\ queued' = "active"
        \/ pc["importer"] = "albums" /\ Moved("importer", Gone, "poll") /\ queued' = queued
        \/ pc["importer"] = "poll" /\ Moved("importer", Gone, "off") /\ queued' = "done"
        \/ pc["importer"] = "poll" /\ Moved("importer", Gone, "check") /\ queued' \in {queued, "ending"}
    <3>1. pc["importer"] = "enqueue" => queued = "new"
      BY TypeParts DEF Worker, Work, Checking, Idling, Cleaning
    <3>. QED
      BY <1>1, <1>a, <3>1, Moving, Going DEF OfferPreview, Enqueue, Begin, Joined, Poll, GiveUp, At
  <2>. QED
    BY <2>1 DEF Moved, Onwards, Beginning, Tracked, Checking, Building
<1>2. ASSUME Unpack \/ KeepPreview PROVE Onwards
  BY <1>2, <1>a, Going DEF Unpack, KeepPreview, Process, At, Moved, Onwards, Beginning, Tracked, Checking, Building
<1>3. ASSUME NEW t \in Tasks, Accesses(t) PROVE Onwards
  BY <1>3, AccessOnwards
<1>4. ASSUME NEW t \in Tasks, Check(t) PROVE Onwards
  <2>1. queued' = queued /\ pc[t] \in {"count", "expire", "queue"} /\ pc'[t] \in {"void", "wait", "queue", "expire", "hand"}
    BY <1>4, Moving DEF Check, Count, Expire, QueueScan, At, Moved
  <2>2. t # "importer" => pc'["importer"] = pc["importer"] /\ copy'["importer"] = copy["importer"]
    BY <1>4, <1>a, Moving DEF Check, Count, Expire, QueueScan, Moved
  <2>. QED
    BY <2>1, <2>2 DEF Onwards, Beginning, Tracked, Checking, Building
<1>5. ASSUME NEW t \in Tasks, Create(t) PROVE Onwards
  <2>1. queued' = queued /\ pc[t] = "create" /\ pc'[t] = "built"
    BY <1>5, Moving DEF Create, At, Moved
  <2>2. t # "importer" => pc'["importer"] = pc["importer"] /\ copy'["importer"] = copy["importer"]
    BY <1>5, <1>a, Moving DEF Create, Moved
  <2>. QED
    BY <2>1, <2>2 DEF Onwards, Beginning, Tracked, Checking, Building
<1>6. ASSUME NEW t \in Tasks, Clean(t) PROVE Onwards
  <2>1. /\ queued' = queued /\ pc[t] \in Cleaning /\ pc'[t] \in Cleaning \cup {Rest(t)}
        /\ pc'[t] = "delPreview" => cache' = Gone
    BY <1>6, Moving DEF Clean, Drop, Delete, Del, DelPreview, At, Moved, Cleaning, Rest
  <2>2. t # "importer" => pc'["importer"] = pc["importer"] /\ copy'["importer"] = copy["importer"]
    BY <1>6, <1>a, Moving DEF Clean, Drop, Delete, Del, DelPreview, Moved
  <2>. QED
    BY <2>1, <2>2 DEF Onwards, Beginning, Tracked, Checking, Building, Cleaning, Rest
<1>7. ASSUME TakeScan \/ Cancel \/ (\E v \in Visitors : Visit(v) \/ Rescan(v) \/ TimeOut(v)) PROVE Onwards
  <2>1. pc'["importer"] = pc["importer"] /\ copy'["importer"] = copy["importer"] /\ queued' = queued
    BY <1>7, <1>a, Moving, Movers DEF TakeScan, Cancel, Visit, Rescan, TimeOut, Moved
  <2>. QED
    BY <2>1 DEF Onwards
<1>8. ASSUME (\E a \in Albums : Album(a) \/ Settle(a) \/ TenMinutes(a)) \/ LoseRedis \/ UNCHANGED vars PROVE Onwards
  <2>1. UNCHANGED <<pc, copy, queued>>
    BY <1>8 DEF Album, Acquire, Answer, StoreAlbum, ShareAlbum, Settle, TenMinutes, LoseRedis, vars, taskVars
  <2>. QED
    BY <2>1 DEF Onwards
<1>9. ASSUME FailImport \/ FailRequest PROVE Onwards
  <2>1. pc["importer"] # "off" /\ pc'["importer"] \in {"off", "failed"} /\ (queued' = "done" \/ (queued' = "lost" /\ queued = "new"))
    <3>1. CASE FailImport
      BY <3>1, <1>a, Going DEF FailImport, Moved, Breaks, Rest
    <3>2. CASE FailRequest
      <4>1. queued = "new"
        BY <3>2, TypeParts DEF FailRequest, Worker, Work, Checking, Idling, Cleaning
      <4>. QED
        BY <3>2, <4>1, <1>a, Moving DEF FailRequest, Moved, Breaks, Rest
    <3>. QED
      BY <1>9, <3>1, <3>2
  <2>. QED
    BY <2>1 DEF Onwards, Beginning, Tracked, Checking, Building
<1>10. ASSUME NEW t \in Tasks, FailTask(t) PROVE Onwards
  <2>1. queued' = queued /\ pc'[t] = Rest(t)
    BY <1>10, Moving DEF FailTask, Moved
  <2>2. t # "importer" => pc'["importer"] = pc["importer"] /\ copy'["importer"] = copy["importer"]
    BY <1>10, <1>a, Moving DEF FailTask, Moved
  <2>. QED
    BY <2>1, <2>2 DEF Onwards, Beginning, Tracked, Checking, Building, Rest
<1>. QED
  BY <1>1, <1>2, <1>3, <1>4, <1>5, <1>6, <1>7, <1>8, <1>9, <1>10, Movers DEF Next, Imports, Scans, Cancels, Visits

\* An access to the job moves nobody else, but for a cancellation that ends the importer's wait.
Alone(t) ==
    /\ \A u \in Tasks : u # t => /\ io'[u] = io[u] /\ copy'[u] = copy[u]
                                 /\ \/ pc'[u] = pc[u]
                                    \/ u = "importer" /\ t = "user" /\ pc[u] = "albums" /\ pc'[u] = "off" /\ queued' = "done"
    /\ \/ stage' = stage
       \/ t = "importer" /\ pc[t] = "begin" /\ pc'[t] = "albums" /\ queued' = queued
       \/ t = "user" /\ \A a \in Albums : stage'[a] \in {stage[a], "none"}
    /\ t = "importer" \/ queued' = queued \/ (t = "user" /\ pc["importer"] = "albums")

LEMMA AnsweredAlone == ASSUME TypeOK, NEW t \in Tasks, NEW job, Answered(t, job) PROVE Alone(t)
<1>a. Tasked /\ "importer" \in Tasks /\ "user" \in Tasks /\ "scanner" \in Tasks
  BY TypeParts, Movers
<1>1. CASE pc[t] = "asked" /\ Asked(job)
  <2>1. t = "user"
    BY <1>1, <1>a, Owners
  <2>2. CASE Abort
    <3>1. \A u \in Tasks : u # "user" => /\ io'[u] = io[u] /\ copy'[u] = copy[u]
                                         /\ pc'[u] = IF u = "importer" /\ pc[u] = "albums" THEN "off" ELSE pc[u]
      BY <1>a, <2>2 DEF Abort, Tasked
    <3>2. IF pc["importer"] = "albums" THEN queued' = "done" ELSE queued' = queued
      BY <2>2 DEF Abort
    <3>3. \A a \in Albums : stage'[a] \in {stage[a], "none"}
      BY <2>2 DEF Abort
    <3>. QED
      BY <2>1, <3>1, <3>2, <3>3 DEF Alone
  <2>3. CASE Goto("user", IF job.st = "failed" THEN "drop" ELSE "idle") /\ UNCHANGED <<queued, stage>>
    BY <1>a, <2>1, <2>3, Moving DEF Moved, Alone
  <2>. QED
    BY <1>1, <2>2, <2>3 DEF Asked
<1>2. CASE pc[t] # "asked"
  <2>1. stage' = stage /\ (t # "importer" => queued' = queued)
    BY <1>2, <1>a, Owners DEF Answered, Checked, Leave
  <2>2. \E j, label : Moved(t, j, label)
    <3>1. CASE pc[t] = "load" /\ Loaded(job)
      BY <1>a, <3>1, Owners, Going DEF Loaded
    <3>2. CASE pc[t] = "reread" /\ Reread(job)
      BY <1>a, <3>2, Owners, Going DEF Reread
    <3>3. CASE pc[t] = "look" /\ Looked(job)
      BY <1>a, <3>3, Owners, Going DEF Looked
    <3>4. CASE pc[t] = "failed" /\ Failed(job)
      BY <1>a, <3>4, Owners, Moving DEF Failed
    <3>5. CASE pc[t] = "check" /\ Checked(t, job)
      BY <1>a, <3>5, Leaving, Moving DEF Checked
    <3>6. CASE pc[t] = "scan" /\ Scanned(job)
      BY <1>a, <3>6, Owners, Moving DEF Scanned
    <3>7. CASE pc[t] = "view" /\ Goto(t, Rest(t))
      BY <3>7, Moving
    <3>. QED
      BY <1>2, <3>1, <3>2, <3>3, <3>4, <3>5, <3>6, <3>7 DEF Answered
  <2>. QED
    BY <2>1, <2>2 DEF Moved, Alone
<1>. QED
  BY <1>1, <1>2 DEF Answered

LEMMA SavedAlone == ASSUME TypeOK, NEW t \in Tasks, Saved(t) PROVE Alone(t)
<1>a. Tasked /\ "importer" \in Tasks
  BY TypeParts, Movers
<1>1. CASE pc[t] = "named" /\ Named /\ UNCHANGED stage
  BY <1>a, <1>1, Owners, Going DEF Named, Moved, Alone
<1>2. CASE pc[t] = "begin" /\ Begun
  BY <1>a, <1>2, Owners, Going DEF Begun, Moved, Alone
<1>3. CASE UNCHANGED stage /\ (t # "importer" => queued' = queued) /\ \E label : Goto(t, label) \/ Keep(t, label)
  BY <1>3, Moving DEF Moved, Alone
<1>4. CASE UNCHANGED stage /\ Leave(t)
  BY <1>4, Leaving DEF Moved, Alone
<1>. QED
  BY <1>1, <1>2, <1>3, <1>4, <1>a, Owners DEF Saved

LEMMA AccessAlone ==
  ASSUME TypeOK, NEW t \in Tasks, Accesses(t)
  PROVE  /\ Alone(t) /\ pc[t] \in Reads \cup Writes
         /\ UNCHANGED <<download, scans, playlists, request, broken, empty, cancelled, preview>>
<1>a. Tasked
  BY TypeParts
<1>b. (io[t] \in {"find", "fill"} => pc[t] \in Reads) /\ (io[t] = "setex" => pc[t] \in Writes)
  BY <1>a DEF Tasked
<1>1. UNCHANGED <<download, scans, playlists, request, broken, empty, cancelled, preview>>
  BY DEF Accesses, Get, Miss, Find, Fill, Store, Share, factVars, historyVars
<1>2. \/ \E job : Answered(t, job)
      \/ Saved(t)
      \/ Wait(t, "find") /\ UNCHANGED <<copy, stage, queued>>
      \/ Wait(t, "fill") /\ copy' = [copy EXCEPT ![t] = db] /\ UNCHANGED <<stage, queued>>
      \/ Wait(t, "setex") /\ UNCHANGED <<copy, stage, queued>>
  BY DEF Accesses, Get, Miss, Find, Fill, Store, Share
<1>3. Alone(t)
  BY <1>2, <1>a, AnsweredAlone, SavedAlone, Moving DEF Alone, Tasked
<1>. QED
  BY <1>1, <1>3, <1>b DEF Accesses, Get, Miss, Find, Fill, Store, Share

LEMMA AccessRow ==
  ASSUME TypeOK, NEW t \in Tasks, Accesses(t)
  PROVE  db'.st = db.st \/ (pc[t] \in Writes /\ db'.st = Obj(t).st)
<1>1. CASE Store(t)
  <2>1. Obj(t) \in Jobs
    BY ObjTyped
  <2>2. db' = (IF db = Gone THEN Obj(t) ELSE [Obj(t) EXCEPT !.tracks = db.tracks])
    BY <1>1 DEF Store, Upsert
  <2>. QED
    BY <1>1, <2>1, <2>2 DEF Store, Jobs
<1>2. CASE db' = db
  BY <1>2
<1>. QED
  BY <1>1, <1>2 DEF Accesses, Get, Miss, Find, Fill, Share

\* The same while an import that has failed before its albums is being marked and cleaned up.
Fresh == Early \/ pc["importer"] \in {"failed"} \cup Cleaning
Unbegun == queued \in {"new", "lost", "waiting"} => db.st \in {"gone", "pending", "failed"}

LEMMA AccessVirgin ==
  ASSUME TypeOK, Worker, EarlyVirgin, Fresh, Virgin, Unbegun, NEW t \in Tasks, Accesses(t), Onwards, Fresh'
  PROVE  Virgin' /\ Unbegun'
<1>a. Alone(t) /\ pc[t] \in Reads \cup Writes /\ UNCHANGED <<download, scans, request>>
  BY AccessAlone
<1>b. Tasked /\ "importer" \in Tasks /\ "scanner" \in Tasks /\ "user" \in Tasks
  BY TypeParts, Movers
<1>c. t # "scanner"
  BY <1>a DEF Virgin, Reads, Writes, OwnJob
<1>1. stage' = NoStage
  <2>1. CASE stage' = stage
    BY <2>1 DEF Virgin
  <2>2. CASE t = "importer" /\ pc[t] = "begin" /\ pc'[t] = "albums" /\ queued' = queued
    <3>1. queued = "active" /\ request.albums # {}
      BY <2>2, TypeParts DEF Worker, Work, Checking, Idling, Cleaning
    <3>. QED
      BY <3>1, <2>2, <1>a DEF Fresh, Early, Beginning, Cleaning
  <2>3. CASE \A a \in Albums : stage'[a] \in {stage[a], "none"}
    <3>1. stage' \in Stages
      BY AccessTyped, TypeAfter DEF TypeOK, Stages
    <3>. QED
      BY <2>3, <3>1 DEF Virgin, NoStage, Stages
  <2>. QED
    BY <1>a, <2>1, <2>2, <2>3 DEF Alone
<1>2. pc'["scanner"] = "idle"
  BY <1>a, <1>b, <1>c DEF Alone, Virgin
<1>3. \A v \in Visitors : pc'[v] \in {"idle", "view", "late"}
  <2>1. SUFFICES ASSUME NEW v \in Visitors PROVE pc'[v] \in {"idle", "view", "late"}
    OBVIOUS
  <2>2. v \in Tasks /\ v # "importer"
    BY Movers
  <2>3. CASE t # v
    BY <2>2, <2>3, <1>a DEF Alone, Virgin
  <2>4. CASE t = v
    <3>1. pc[v] = "view"
      BY <2>4, <1>a DEF Virgin, Reads, Writes, OwnJob
    <3>2. Goto(v, Rest(v)) \/ pc' = pc
      BY <3>1, <2>4, <1>b DEF Accesses, Get, Miss, Find, Fill, Store, Share, Answered, Wait, Tasked, Writes, OwnJob
    <3>. QED
      BY <3>1, <3>2, <2>2, Moving DEF Moved, Rest
  <2>. QED
    BY <2>3, <2>4
<1>4. db'.st # "scanning" /\ Unbegun'
  <2>1. CASE db'.st = db.st
    BY <2>1 DEF Virgin, Unbegun, Onwards
  <2>2. CASE pc[t] \in Writes /\ db'.st = Obj(t).st
    <3>1. t = "importer"
      BY <2>2, <1>b, <1>c, Owners, Movers DEF Virgin, Writes, OwnJob, Building, Checking, Tasks
    <3>2. pc[t] \notin {"void", "wait", "hand"}
      BY <3>1, TypeParts DEF Fresh, Early, Worker, Work, Checking, Beginning, Idling, Cleaning
    <3>3. Obj(t).st # "scanning"
      BY <2>2, <3>1, <3>2 DEF Obj, Worker, EarlyVirgin, Writes
    <3>4. queued' \in {"new", "lost", "waiting"} => queued = "new"
      BY <2>2, <3>1 DEF Onwards, Worker, Writes, OwnJob
    <3>5. queued = "new" => Obj(t).st = "pending"
      BY <2>2, <3>1 DEF Obj, Worker, Writes, OwnJob
    <3>. QED
      BY <2>2, <3>3, <3>4, <3>5 DEF Unbegun
  <2>. QED
    BY <2>1, <2>2, AccessRow
<1>. QED
  BY <1>a, <1>1, <1>2, <1>3, <1>4 DEF Virgin

LEMMA VirginInit == Init => EarlyVirgin
BY Movers DEF Init, EarlyVirgin, Virgin, Gone, NoStage

LEMMA VirginStays ==
  ASSUME TypeOK, Worker, EarlyVirgin, [Next]_vars, "import" \notin broken', Fresh, Fresh', Virgin, Unbegun
  PROVE  Virgin' /\ Unbegun'
<1>a. Crash \/ Onwards
  BY Steps
<1>b. Tasked /\ "importer" \in Tasks /\ "scanner" \in Tasks /\ "user" \in Tasks /\ \A v \in Visitors : v \in Tasks /\ v \notin {"importer", "scanner"}
  BY TypeParts, Movers
<1>5. CASE Crash
  <2>1. pc["importer"] = "off" /\ queued \in {"lost", "waiting"}
    BY <1>5, <1>b, TypeParts DEF Crash, Fresh, Early, Cleaning, Rest, Beginning, Worker, Work, Checking
  <2>. QED
    BY <1>5, <1>b, <2>1 DEF Crash, Rest, Virgin, Unbegun, jobVars
<1>6. CASE Onwards
  <2>b. Fresh /\ Virgin /\ Unbegun
    OBVIOUS
  <2>c. ASSUME pc'["scanner"] = "idle", \A v \in Visitors : pc'[v] = pc[v], UNCHANGED <<stage, download, scans>>,
               db' = db \/ db'.st = "gone"
        PROVE  Virgin' /\ Unbegun'
    BY <1>6, <2>b, <2>c DEF Virgin, Unbegun, Onwards
  <2>d. ASSUME NEW t \in {"importer", "user"}, NEW j, NEW label, Moved(t, j, label)
        PROVE  pc'["scanner"] = "idle" /\ \A v \in Visitors : pc'[v] = pc[v]
    BY <1>b, <2>b, <2>d, VisitorsAssumption DEF Moved, Virgin
  <2>1. ASSUME OfferPreview \/ Enqueue \/ Begin \/ Unpack \/ KeepPreview \/ Joined \/ Poll \/ GiveUp PROVE Virgin' /\ Unbegun'
    <3>1. \E j, label : Moved("importer", j, label)
      BY <2>1, <1>b, Moving, Going DEF OfferPreview, Enqueue, Begin, Unpack, KeepPreview, Process, Joined, Poll, GiveUp
    <3>2. UNCHANGED <<stage, download, scans, db>>
      BY <2>1 DEF OfferPreview, Enqueue, Begin, Unpack, KeepPreview, Joined, Poll, GiveUp, jobVars, albumVars
    <3>. QED
      BY <2>c, <2>d, <3>1, <3>2
  <2>2. ASSUME NEW t \in Tasks, Accesses(t) PROVE Virgin' /\ Unbegun'
    BY <1>6, <2>2, AccessVirgin
  <2>3. ASSUME NEW t \in Tasks, Check(t) PROVE FALSE
    <3>1. pc[t] \in {"count", "expire", "queue"}
      BY <2>3 DEF Check, Count, Expire, QueueScan, At
    <3>2. t = "importer"
      BY <1>b, <2>b, <3>1, Owners DEF Virgin, Checking
    <3>. QED
      BY <3>1, <3>2, <2>b, TypeParts DEF Fresh, Early, Worker, Work, Checking, Beginning, Idling, Cleaning
  <2>4. ASSUME NEW t \in Tasks, Create(t) PROVE Virgin' /\ Unbegun'
    <3>1. t = "importer"
      BY <1>b, <2>4, <2>b, Owners DEF Create, At, Virgin, Building
    <3>2. \E j, label : Moved("importer", j, label)
      BY <1>b, <2>4, <3>1, Moving DEF Create
    <3>3. UNCHANGED <<stage, download, scans, db>>
      BY <2>4 DEF Create, jobVars, albumVars
    <3>. QED
      BY <2>c, <2>d, <3>2, <3>3
  <2>5. ASSUME NEW t \in {"importer", "user"}, Clean(t) PROVE Virgin' /\ Unbegun'
    <3>1. \E j, label : Moved(t, j, label)
      BY <1>b, <2>5, Moving DEF Clean, Drop, Delete, Del, DelPreview
    <3>2. UNCHANGED <<stage, scans>> /\ (db' = db \/ db'.st = "gone")
      BY <2>5 DEF Clean, Drop, Delete, Del, DelPreview, jobVars, albumVars, Gone
    <3>3. \A a \in Albums : download'[a] = "none"
      BY <2>5, <2>b DEF Clean, Drop, Delete, Del, DelPreview, albumVars, Virgin
    <3>. QED
      BY <1>6, <2>b, <2>d, <3>1, <3>2, <3>3 DEF Virgin, Unbegun, Onwards
  <2>6. ASSUME TakeScan PROVE FALSE
    BY <2>6, <2>b DEF TakeScan, Virgin
  <2>7. ASSUME Cancel PROVE Virgin' /\ Unbegun'
    <3>1. \E j, label : Moved("user", j, label)
      BY <1>b, <2>7, Moving DEF Cancel
    <3>2. UNCHANGED <<stage, download, scans, db>>
      BY <2>7 DEF Cancel, jobVars, albumVars
    <3>. QED
      BY <2>c, <2>d, <3>1, <3>2
  <2>8. ASSUME NEW v \in Visitors, Visit(v) \/ Rescan(v) \/ TimeOut(v) PROVE Virgin' /\ Unbegun'
    <3>1. ~Rescan(v)
      BY <2>b DEF Rescan, At, Virgin
    <3>2. CASE Visit(v)
      <4>1. ~MayCheck
        BY <2>b, <3>2 DEF MayCheck, Virgin, Unbegun, Fresh, Early, Cleaning, Visit, Beginning, Worker
      <4>2. db.st # "scanning" /\ UNCHANGED <<stage, download, scans, db>>
        BY <2>b, <3>2 DEF Virgin, Visit, jobVars, albumVars
      <4>3. \E label \in {"view", "late"} : Moved(v, Gone, label)
        BY <1>b, <3>2, <4>1, <4>2, Moving DEF Visit
      <4>4. pc'["scanner"] = "idle" /\ \A u \in Visitors : pc'[u] \in {"idle", "view", "late"}
        BY <1>b, <2>b, <4>3 DEF Moved, Virgin
      <4>. QED
        BY <1>6, <2>b, <4>2, <4>4 DEF Virgin, Unbegun, Onwards
    <3>3. CASE TimeOut(v)
      <4>1. UNCHANGED <<stage, download, scans>> /\ db'.st \in {"gone", "failed"}
        BY <3>3, TypeParts DEF TimeOut, albumVars, Gone, JobsTyped, Jobs
      <4>2. pc'["scanner"] = "idle" /\ \A u \in Visitors : pc'[u] \in {"idle", "view", "late"}
        BY <1>b, <2>b, <3>3, Moving DEF TimeOut, Moved, Virgin
      <4>. QED
        BY <1>6, <2>b, <4>1, <4>2 DEF Virgin, Unbegun, Onwards
    <3>. QED
      BY <2>8, <3>1, <3>2, <3>3
  <2>9. ASSUME NEW a \in Albums, Album(a) \/ Settle(a) \/ TenMinutes(a) PROVE FALSE
    BY <2>9, <2>b DEF Album, Acquire, Answer, StoreAlbum, ShareAlbum, Settle, TenMinutes, Virgin, NoStage
  <2>10. ASSUME FailImport \/ FailRequest \/ \E t \in Tasks : FailTask(t) PROVE Virgin' /\ Unbegun'
    <3>1. UNCHANGED <<stage, download, scans, db>>
      BY <2>10 DEF FailImport, FailRequest, FailTask, jobVars, albumVars
    <3>2. \E t \in Tasks : \E j, label : Moved(t, j, label) /\ (t # "importer" => label = Rest(t))
      BY <1>b, <2>10, Moving, Going DEF FailImport, FailRequest, FailTask
    <3>3. pc'["scanner"] = "idle" /\ \A u \in Visitors : pc'[u] \in {"idle", "view", "late"}
      BY <1>b, <2>b, <3>2 DEF Moved, Virgin, Rest
    <3>. QED
      BY <1>6, <2>b, <3>1, <3>3 DEF Virgin, Unbegun, Onwards
  <2>11. CASE LoseRedis
    BY <1>6, <2>11, <2>b DEF LoseRedis, taskVars, albumVars, Virgin, Unbegun, Onwards
  <2>12. CASE UNCHANGED vars
    BY <1>6, <2>12, <2>b DEF vars, jobVars, taskVars, albumVars, Virgin, Unbegun, Onwards
  <2>. QED
    BY <1>5, <2>1, <2>2, <2>3, <2>4, <2>5, <2>6, <2>7, <2>8, <2>9, <2>10, <2>11, <2>12, Movers
       DEF Next, Imports, Scans, Cancels, Visits
<1>. QED
  BY <1>a, <1>5, <1>6

LEMMA Lasting ==
  ASSUME [Next]_vars
  PROVE  request' = request /\ broken \subseteq broken' /\ (missed => missed')
<1>1. ASSUME OfferPreview \/ Enqueue \/ Begin \/ Unpack \/ KeepPreview \/ Joined \/ Poll \/ GiveUp \/ TakeScan \/ Cancel
      PROVE  request' = request /\ UNCHANGED <<broken, missed>>
  BY <1>1 DEF OfferPreview, Enqueue, Begin, Unpack, KeepPreview, Joined, Poll, GiveUp, TakeScan, Cancel, ruleVars, historyVars
<1>2. ASSUME NEW t \in Tasks, Accesses(t) \/ Check(t) \/ Create(t) \/ Clean(t)
      PROVE  request' = request /\ broken' = broken /\ (missed => missed')
  <2>1. CASE Accesses(t)
    <3>1. CASE Find(t)
      BY <3>1 DEF Find, factVars
    <3>2. CASE Get(t) \/ Store(t)
      BY <3>2 DEF Get, Store, factVars, historyVars
    <3>3. CASE Fill(t) \/ Share(t)
      <4>1. request' = request /\ broken' = broken /\ \E job : Setex(t, job)
        BY <3>3 DEF Fill, Share, factVars
      <4>. QED
        BY <4>1 DEF Setex
    <3>4. CASE Miss(t)
      BY <3>4 DEF Miss, factVars
    <3>. QED
      BY <2>1, <3>1, <3>2, <3>3, <3>4 DEF Accesses
  <2>2. CASE Check(t) \/ Create(t)
    BY <2>2 DEF Check, Count, Expire, QueueScan, Create, ruleVars, historyVars
  <2>3. CASE Clean(t)
    BY <2>3 DEF Clean, Drop, Delete, Del, DelPreview, ruleVars, historyVars
  <2>. QED
    BY <1>2, <2>1, <2>2, <2>3
<1>3. ASSUME NEW v \in Visitors, Visit(v) \/ Rescan(v) \/ TimeOut(v) PROVE request' = request /\ UNCHANGED <<broken, missed>>
  BY <1>3 DEF Visit, Rescan, TimeOut, ruleVars, historyVars
<1>4. ASSUME NEW a \in Albums, Album(a) \/ Settle(a) \/ TenMinutes(a)
      PROVE  request' = request /\ broken' = broken /\ (missed => missed')
  BY <1>4 DEF Album, Acquire, Answer, StoreAlbum, ShareAlbum, Setex, Settle, TenMinutes, ruleVars, historyVars
<1>5. ASSUME FailImport \/ FailRequest \/ (\E t \in Tasks : FailTask(t)) \/ LoseRedis \/ Crash
      PROVE  request' = request /\ broken \subseteq broken' /\ (missed => missed')
  BY <1>5 DEF FailImport, FailRequest, FailTask, Breaks, LoseRedis, Crash
<1>6. CASE UNCHANGED vars
  BY <1>6 DEF vars, ruleVars, historyVars
<1>. QED
  BY <1>1, <1>2, <1>3, <1>4, <1>5, <1>6, Movers DEF Next, Imports, Scans, Cancels, Visits

LEMMA VirginStep == ASSUME TypeOK, Worker, EarlyVirgin, [Next]_vars PROVE EarlyVirgin'
<1>a. Crash \/ Onwards
  BY Steps
<1>b. Tasked /\ "importer" \in Tasks
  BY TypeParts, Movers
<1>1. pc'["importer"] = "fail" => copy'["importer"].st = "failed"
  BY <1>a, <1>b DEF Onwards, EarlyVirgin, Crash, Rest
<1>2. SUFFICES ASSUME "import" \notin broken', Early' PROVE Virgin' /\ Unbegun'
  BY <1>1 DEF EarlyVirgin, Early, Unbegun
<1>3. "import" \notin broken
  BY <1>2, Lasting
<1>4. Early
  <2>1. CASE Crash
    <3>1. pc["importer"] = "off" /\ pc'["importer"] = "off"
      BY <1>2, <1>b, <2>1 DEF Crash, Rest
    <3>. QED
      BY <1>2, <2>1, <3>1, TypeParts DEF Crash, Early, Beginning, Worker, Work, Checking
  <2>2. CASE Onwards
    BY <1>2, <2>2, Lasting DEF Onwards, Early
  <2>. QED
    BY <1>a, <2>1, <2>2
<1>. QED
  BY <1>2, <1>3, <1>4, VirginStays DEF EarlyVirgin, Fresh, Unbegun

-----------------------------------------------------------------------------
(* Who has a copy of the job to work on has one with its tracks.            *)

Held == {"count", "expire", "queue", "void", "wait", "hand", "fail"}
Has(t) == pc[t] \in Held \/ (t # "importer" /\ pc[t] \in Building) \/ io[t] = "fill"
AllHave == \A t \in Tasks : Has(t) => copy[t].tracks
Whole(job) == job = Gone \/ job.tracks

LEMMA HaveElsewhere ==
  ASSUME TypeOK, AllHave, NEW t \in Tasks,
         Alone(t) \/ (\E job, label : Moved(t, job, label)), Has(t)' => copy'[t].tracks
  PROVE  AllHave'
<1>. SUFFICES ASSUME NEW u \in Tasks, u # t, Has(u)' PROVE copy'[u].tracks
  BY DEF AllHave, Has
<1>1. /\ io'[u] = io[u] /\ copy'[u] = copy[u]
      /\ pc'[u] = pc[u] \/ (pc'[u] = "off" /\ u = "importer")
  BY DEF Alone, Moved
<1>. QED
  BY <1>1 DEF AllHave, Has, Held

LEMMA AnsweredHave ==
  ASSUME TypeOK, AllHave, NEW t \in Tasks, NEW job \in Jobs, Answered(t, job),
         Whole(job) \/ pc[t] \notin {"check", "scan"}
  PROVE  AllHave'
<1>a. Tasked /\ "importer" \in Tasks /\ "scanner" \in Tasks /\ "user" \in Tasks
  BY TypeParts, Movers
<1>b. \A st \in States : [job EXCEPT !.st = st].tracks = job.tracks
  BY DEF Jobs
<1>1. Has(t)' => copy'[t].tracks
  <2>1. ASSUME NEW label, Moved(t, Gone, label), label \notin Held, t = "importer" \/ label \notin Building PROVE ~Has(t)'
    BY <2>1 DEF Moved, Has
  <2>2. CASE pc[t] \in {"load", "reread", "look"}
    <3>1. t = "importer" /\ \E label \in {"off", "failed", "fetching", "unpack", "named", "poll"} : Moved(t, Gone, label)
      BY <2>2, <1>a, Owners, Going DEF Answered, Loaded, Reread, Looked
    <3>. QED
      BY <2>1, <3>1 DEF Held
  <2>3. CASE pc[t] = "failed" /\ Failed(job)
    <3>1. t = "importer"
      BY <2>3, <1>a, Owners
    <3>2. CASE job # Gone /\ job.tracks /\ With("importer", [job EXCEPT !.st = "failed"], "fail")
      BY <3>1, <3>2, <1>a, <1>b, Moving DEF Moved, States
    <3>3. CASE \E label \in {"off", "drop"} : Goto("importer", label)
      BY <2>1, <3>1, <3>3, <1>a, Moving DEF Held
    <3>. QED
      BY <2>3, <3>2, <3>3 DEF Failed
  <2>4. CASE pc[t] = "asked" /\ Asked(job)
    <3>1. t = "user"
      BY <2>4, <1>a, Owners
    <3>2. pc'["user"] \in {"drop", "idle"} /\ io'["user"] = "none"
      <4>1. CASE Abort
        BY <4>1, <1>a DEF Abort, Tasked
      <4>2. CASE Goto("user", IF job.st = "failed" THEN "drop" ELSE "idle")
        BY <4>2, <1>a, Moving DEF Moved
      <4>. QED
        BY <2>4, <4>1, <4>2 DEF Asked
    <3>. QED
      BY <3>1, <3>2 DEF Has, Held, Building
  <2>5. CASE pc[t] = "check" /\ Checked(t, job)
    <3>1. CASE job.st \in PastDownload /\ Leave(t)
      BY <2>1, <3>1, Leaving DEF Held, Building
    <3>2. CASE job.st \notin PastDownload /\ With(t, job, "count")
      <4>1. job.tracks
        BY <2>5, <3>2 DEF Whole, PastDownload, Gone
      <4>. QED
        BY <3>2, <4>1, Moving DEF Moved
    <3>. QED
      BY <2>5, <3>1, <3>2 DEF Checked
  <2>6. CASE pc[t] = "scan" /\ Scanned(job)
    <3>1. t = "scanner"
      BY <2>6, <1>a, Owners
    <3>2. CASE Goto("scanner", "idle")
      BY <2>1, <3>1, <3>2, <1>a, Moving DEF Held, Building
    <3>3. CASE ~Over(job) /\ With("scanner", [job EXCEPT !.st = "creating_playlist"], "building")
      <4>1. job.tracks
        BY <2>6, <3>3 DEF Whole, Over, Gone
      <4>. QED
        BY <3>1, <3>3, <4>1, <1>a, <1>b, Moving DEF Moved, States
    <3>. QED
      BY <2>6, <3>2, <3>3 DEF Scanned
  <2>7. CASE pc[t] = "view" /\ Goto(t, Rest(t))
    BY <2>1, <2>7, Moving DEF Held, Building, Rest
  <2>. QED
    BY <2>2, <2>3, <2>4, <2>5, <2>6, <2>7 DEF Answered
<1>. QED
  BY <1>1, AnsweredAlone, HaveElsewhere

LEMMA SavedHave == ASSUME TypeOK, AllHave, NEW t \in Tasks, Saved(t) PROVE AllHave'
<1>a. Tasked /\ "importer" \in Tasks
  BY TypeParts, Movers
<1>1. Has(t)' => copy'[t].tracks
  <2>1. ASSUME NEW label, Moved(t, Gone, label), label \notin Held, t = "importer" \/ label \notin Building PROVE ~Has(t)'
    BY <2>1 DEF Moved, Has
  <2>2. CASE pc[t] = "named" /\ Named
    BY <2>1, <2>2, <1>a, Owners, Going DEF Named, Held
  <2>3. CASE pc[t] = "begin" /\ Begun
    BY <2>1, <2>3, <1>a, Owners, Going DEF Begun, Held
  <2>4. CASE pc[t] = "building" /\ Keep(t, "create")
    BY <2>4, Moving DEF AllHave, Has, Moved, Building, Held
  <2>5. CASE pc[t] \in {"void", "wait", "hand"} /\ Leave(t)
    BY <2>1, <2>5, Leaving DEF Held, Building
  <2>6. CASE \/ pc[t] \in {"built", "fail"} /\ Goto(t, Rest(t))
             \/ pc[t] = "request"  /\ Goto(t, IF request.quick THEN "enqueue" ELSE "offer")
             \/ pc[t] = "fetching" /\ Goto(t, "reread")
             \/ pc[t] = "tracked"  /\ Goto(t, "keep")
    <3>1. \E label \in {"off", "idle", "enqueue", "offer", "reread", "keep"} : Moved(t, Gone, label)
      BY <2>6, Moving DEF Rest
    <3>. QED
      BY <2>1, <3>1 DEF Held, Building
  <2>. QED
    BY <2>2, <2>3, <2>4, <2>5, <2>6 DEF Saved
<1>. QED
  BY <1>1, SavedAlone, HaveElsewhere

LEMMA HaveStep ==
  ASSUME TypeOK, AllHave, [Next]_vars,
         (\E t \in Tasks : pc[t] \in {"check", "scan"} /\ Get(t)) => Whole(cache),
         (\E t \in Tasks : Find(t)) => Whole(db)
  PROVE  AllHave'
<1>a. Tasked /\ JobsTyped /\ Gone \in Jobs /\ \A t \in Tasks : copy[t] \in Jobs
  BY TypeParts, GoneIsAJob DEF Tasked
<1>1. ASSUME NEW t \in Tasks, NEW label, Moved(t, Gone, label), label \notin Held,
             t = "importer" \/ label \notin Building
      PROVE  AllHave'
  BY <1>1, HaveElsewhere DEF Moved, Has
<1>2. ASSUME NEW t \in Tasks, Accesses(t) PROVE AllHave'
  <2>1. CASE Get(t)
    <3>1. CASE Wait(t, "find") /\ UNCHANGED copy
      BY <3>1, Moving DEF AllHave, Has
    <3>2. CASE Answered(t, cache)
      BY <2>1, <3>2, <1>a, AnsweredHave DEF JobsTyped
    <3>. QED
      BY <2>1, <3>1, <3>2 DEF Get
  <2>2. CASE Find(t)
    <3>1. CASE db # Gone /\ Wait(t, "fill") /\ copy' = [copy EXCEPT ![t] = db]
      BY <2>2, <3>1, <1>a, Moving DEF AllHave, Has, Whole, Tasked
    <3>2. CASE Answered(t, Gone)
      BY <3>2, <1>a, AnsweredHave DEF Whole
    <3>. QED
      BY <2>2, <3>1, <3>2 DEF Find
  <2>3. CASE Fill(t)
    BY <2>3, <1>a, AnsweredHave DEF Fill, AllHave, Has, Whole
  <2>4. CASE Store(t)
    BY <2>4, Moving DEF Store, AllHave, Has
  <2>5. CASE Share(t)
    BY <2>5, SavedHave DEF Share
  <2>6. CASE Miss(t)
    BY <2>6, Moving DEF Miss, AllHave, Has
  <2>. QED
    BY <1>2, <2>1, <2>2, <2>3, <2>4, <2>5, <2>6 DEF Accesses
<1>3. ASSUME OfferPreview \/ Enqueue \/ Begin \/ Unpack \/ KeepPreview \/ Joined \/ Poll \/ GiveUp PROVE AllHave'
  <2>1. \E label \in {"enqueue", "off", "load", "begin", "building", "failed", "poll", "check"} : Moved("importer", Gone, label)
    BY <1>3, Movers, Moving, Going DEF OfferPreview, Enqueue, Begin, Unpack, KeepPreview, Process, Joined, Poll, GiveUp
  <2>. QED
    BY <1>1, <2>1, Movers DEF Held
<1>4. ASSUME NEW t \in Tasks, Check(t) PROVE AllHave'
  <2>1. pc[t] \in Held
    BY <1>4 DEF Check, Count, Expire, QueueScan, At, Held
  <2>2. \E job, label : Moved(t, job, label) /\ job.tracks = copy[t].tracks
    <3>1. \A st \in States : [copy[t] EXCEPT !.st = st].tracks = copy[t].tracks
      BY <1>a DEF Jobs
    <3>. QED
      BY <1>4, <3>1, Moving DEF Check, Count, Expire, QueueScan, States
  <2>. QED
    BY <2>1, <2>2, HaveElsewhere DEF Moved, AllHave, Has
<1>5. ASSUME NEW t \in Tasks, Create(t) PROVE AllHave'
  <2>1. CASE t = "importer"
    BY <1>1, <1>5, <2>1, Moving DEF Create, Held
  <2>2. CASE t # "importer"
    <3>1. Built(copy[t]).tracks = copy[t].tracks
      BY <1>a DEF Built, Jobs
    <3>. QED
      BY <1>5, <2>2, <3>1, Moving, HaveElsewhere DEF Create, At, Moved, AllHave, Has, Building
  <2>. QED
    BY <2>1, <2>2
<1>6. ASSUME NEW t \in Tasks, Clean(t) PROVE AllHave'
  <2>1. \E label \in Cleaning \cup {Rest(t)} : Moved(t, Gone, label)
    BY <1>6, Moving DEF Clean, Drop, Delete, Del, DelPreview, Cleaning
  <2>. QED
    BY <1>1, <2>1 DEF Held, Building, Cleaning, Rest
<1>7. ASSUME TakeScan \/ Cancel PROVE AllHave'
  <2>1. \E t \in {"scanner", "user"}, label \in {"scan", "asked"} : Moved(t, Gone, label)
    BY <1>7, Movers, Moving DEF TakeScan, Cancel
  <2>. QED
    BY <1>1, <2>1, Movers DEF Held, Building
<1>8. ASSUME NEW v \in Visitors, Visit(v) \/ Rescan(v) \/ TimeOut(v) PROVE AllHave'
  <2>1. \E label \in {"view", "check", "overdue", "late", "idle"} : Moved(v, Gone, label)
    BY <1>8, Movers, Moving DEF Visit, Rescan, TimeOut
  <2>. QED
    BY <1>1, <2>1, Movers DEF Held, Building
<1>9. ASSUME (\E a \in Albums : Album(a) \/ Settle(a) \/ TenMinutes(a)) \/ LoseRedis \/ UNCHANGED vars PROVE AllHave'
  <2>1. UNCHANGED <<pc, io, copy>>
    BY <1>9 DEF Album, Acquire, Answer, StoreAlbum, ShareAlbum, Settle, TenMinutes, LoseRedis, vars, taskVars
  <2>. QED
    BY <2>1 DEF AllHave, Has
<1>10. ASSUME FailImport \/ FailRequest PROVE AllHave'
  <2>1. \E label \in {"off", "failed"} : Moved("importer", Gone, label)
    BY <1>10, Movers, Moving, Going DEF FailImport, FailRequest
  <2>. QED
    BY <1>1, <2>1, Movers DEF Held
<1>11. ASSUME NEW t \in Tasks, FailTask(t) PROVE AllHave'
  <2>1. Moved(t, Gone, Rest(t))
    BY <1>11, Moving DEF FailTask
  <2>. QED
    BY <1>1, <2>1 DEF Held, Building, Rest
<1>12. CASE Crash
  BY <1>12 DEF Crash, AllHave, Has, Rest, Held, Building
<1>. QED
  BY <1>2, <1>3, <1>4, <1>5, <1>6, <1>7, <1>8, <1>9, <1>10, <1>11, <1>12, Movers DEF Next, Imports, Scans, Cancels, Visits

-----------------------------------------------------------------------------
(* Who writes the row, the copy in Redis, and the object in memory.         *)

LEMMA AlbumStages == TypeOK => \A a \in Albums : stage[a] # "none" => stage # NoStage
BY TypeParts DEF Work, NoStage

RowWritten ==
    \/ db' \in {db, Gone} \/ (db # Gone /\ db' = [db EXCEPT !.st = "failed"])
    \/ \E t \in Tasks : pc[t] \in Writes /\ io[t] = "none" /\ io'[t] = "setex" /\ pc' = pc /\ Upsert(t, Obj(t))
    \/ stage # NoStage /\ Upsert("importer", mem) /\ pc' = pc /\ io' = io

CacheWritten ==
    \/ cache' \in {cache, Gone}
    \/ \E t \in Tasks : pc[t] \in Writes /\ io[t] = "setex" /\ Share(t) /\ cache' = Obj(t)
    \/ \E t \in Tasks : pc[t] \in Reads /\ io[t] = "fill" /\ Fill(t) /\ cache' = copy[t]
    \/ stage # NoStage /\ Setex("importer", mem) /\ cache' = mem

MemWritten ==
    \/ mem' = mem \/ mem' = WithTracks(mem) \/ (\E st \in States : mem' = [mem EXCEPT !.st = st])
    \/ pc["importer"] = "create" /\ mem' = Built(mem)
    \/ \E job \in {cache, copy["importer"]} :
           /\ pc["importer"] = "load" /\ job \in Jobs /\ job # Gone /\ (mem' = job \/ mem' = [job EXCEPT !.st = "fetching"])
           /\ job = cache \/ io["importer"] = "fill"

LEMMA AnsweredMem ==
  ASSUME TypeOK, NEW t \in Tasks, NEW job \in Jobs, Answered(t, job), job = cache \/ job = Gone \/ (io[t] = "fill" /\ job = copy[t])
  PROVE  MemWritten
<1>a. Tasked
  BY TypeParts
<1>1. CASE pc[t] = "load" /\ Loaded(job)
  BY <1>1, <1>a, Owners DEF Loaded, MemWritten
<1>2. CASE pc[t] = "reread" /\ Reread(job)
  BY <1>2 DEF Reread, MemWritten, States
<1>3. CASE mem' = mem
  BY <1>3 DEF MemWritten
<1>. QED
  BY <1>1, <1>2, <1>3 DEF Answered

LEMMA Writing == ASSUME TypeOK, [Next]_vars PROVE RowWritten /\ CacheWritten /\ MemWritten
<1>a. Tasked /\ JobsTyped /\ Gone \in Jobs /\ \A t \in Tasks : copy[t] \in Jobs
  BY TypeParts, GoneIsAJob DEF Tasked
<1>b. \A t \in Tasks : (io[t] \in {"find", "fill"} => pc[t] \in Reads) /\ (io[t] = "setex" => pc[t] \in Writes)
  BY <1>a DEF Tasked
<1>c. mem' = mem => MemWritten
  BY DEF MemWritten
<1>1. ASSUME NEW t \in Tasks, Accesses(t) PROVE RowWritten /\ CacheWritten /\ MemWritten
  <2>1. CASE Get(t)
    <3>1. UNCHANGED <<db, cache>> /\ (mem' = mem \/ Answered(t, cache))
      BY <2>1 DEF Get
    <3>. QED
      BY <3>1, <1>a, <1>c, AnsweredMem DEF RowWritten, CacheWritten, JobsTyped
  <2>2. CASE Find(t)
    <3>1. UNCHANGED <<db, cache>> /\ (mem' = mem \/ Answered(t, Gone))
      BY <2>2 DEF Find
    <3>. QED
      BY <3>1, <1>a, <1>c, AnsweredMem DEF RowWritten, CacheWritten
  <2>3. CASE Fill(t)
    <3>1. db' = db /\ cache' \in {cache, copy[t]} /\ io[t] = "fill" /\ Answered(t, copy[t])
      BY <2>3 DEF Fill, Setex
    <3>. QED
      BY <2>3, <3>1, <1>a, <1>b, AnsweredMem DEF RowWritten, CacheWritten
  <2>4. CASE Store(t)
    <3>1. UNCHANGED <<cache, mem>> /\ pc[t] \in Writes /\ io[t] = "none" /\ io'[t] = "setex" /\ pc' = pc /\ Upsert(t, Obj(t))
      BY <2>4, Moving DEF Store
    <3>. QED
      BY <3>1, <1>c DEF RowWritten, CacheWritten
  <2>5. CASE Share(t)
    <3>1. db' = db /\ cache' \in {cache, Obj(t)} /\ io[t] = "setex" /\ mem' \in {mem, WithTracks(mem)}
      BY <2>5 DEF Share, Setex, Saved, Named
    <3>. QED
      BY <2>5, <3>1, <1>b DEF RowWritten, CacheWritten, MemWritten
  <2>6. CASE Miss(t)
    BY <2>6, <1>c DEF Miss, RowWritten, CacheWritten
  <2>. QED
    BY <1>1, <2>1, <2>2, <2>3, <2>4, <2>5, <2>6 DEF Accesses
<1>2. ASSUME OfferPreview \/ Enqueue \/ Begin \/ Joined \/ Poll \/ GiveUp \/ TakeScan \/ Cancel PROVE RowWritten /\ CacheWritten /\ MemWritten
  BY <1>2 DEF OfferPreview, Enqueue, Begin, Joined, Poll, GiveUp, TakeScan, Cancel, jobVars, RowWritten, CacheWritten, MemWritten
<1>3. ASSUME Unpack \/ KeepPreview PROVE RowWritten /\ CacheWritten /\ MemWritten
  <2>1. UNCHANGED <<db, cache>> /\ (mem' = mem \/ \E st \in {"downloading", "creating_playlist"} : mem' = [mem EXCEPT !.st = st])
    BY <1>3 DEF Unpack, KeepPreview, Process, jobVars
  <2>. QED
    BY <2>1 DEF RowWritten, CacheWritten, MemWritten, States
<1>4. ASSUME NEW t \in Tasks, Check(t) \/ Create(t) PROVE RowWritten /\ CacheWritten /\ MemWritten
  <2>1. UNCHANGED <<db, cache>> /\ (mem' = mem \/ (pc["importer"] = "create" /\ mem' = Built(mem)))
    BY <1>4 DEF Check, Count, Expire, QueueScan, Create, At, jobVars
  <2>. QED
    BY <2>1 DEF RowWritten, CacheWritten, MemWritten
<1>5. ASSUME NEW t \in Tasks, Clean(t) PROVE RowWritten /\ CacheWritten /\ MemWritten
  <2>1. db' \in {db, Gone} /\ cache' \in {cache, Gone} /\ mem' = mem
    BY <1>5 DEF Clean, Drop, Delete, Del, DelPreview, jobVars
  <2>. QED
    BY <2>1 DEF RowWritten, CacheWritten, MemWritten
<1>6. ASSUME NEW v \in Visitors, Visit(v) \/ Rescan(v) \/ TimeOut(v) PROVE RowWritten /\ CacheWritten /\ MemWritten
  <2>1. UNCHANGED <<cache, mem>> /\ (db' \in {db, Gone} \/ (db # Gone /\ db' = [db EXCEPT !.st = "failed"]))
    BY <1>6 DEF Visit, Rescan, TimeOut, jobVars
  <2>. QED
    BY <2>1 DEF RowWritten, CacheWritten, MemWritten
<1>7. ASSUME NEW a \in Albums, Album(a) \/ Settle(a) \/ TenMinutes(a) PROVE RowWritten /\ CacheWritten /\ MemWritten
  <2>1. mem' = mem
    BY <1>7 DEF Album, Acquire, Answer, StoreAlbum, ShareAlbum, Settle, TenMinutes
  <2>2. CASE StoreAlbum(a)
    <3>1. cache' = cache /\ stage # NoStage /\ Upsert("importer", mem) /\ pc' = pc /\ io' = io
      BY <2>2, AlbumStages DEF StoreAlbum, taskVars
    <3>. QED
      BY <2>1, <3>1 DEF RowWritten, CacheWritten, MemWritten
  <2>3. CASE ShareAlbum(a)
    <3>1. db' = db /\ stage # NoStage /\ Setex("importer", mem) /\ cache' \in {cache, mem}
      BY <2>3, AlbumStages DEF ShareAlbum, Setex
    <3>. QED
      BY <2>1, <3>1 DEF RowWritten, CacheWritten, MemWritten
  <2>4. CASE UNCHANGED jobVars
    BY <2>1, <2>4 DEF jobVars, RowWritten, CacheWritten, MemWritten
  <2>. QED
    BY <1>7, <2>2, <2>3, <2>4 DEF Album, Acquire, Answer, Settle, TenMinutes
<1>8. ASSUME FailImport \/ FailRequest \/ (\E t \in Tasks : FailTask(t)) \/ LoseRedis \/ Crash PROVE RowWritten /\ CacheWritten /\ MemWritten
  <2>1. db' = db /\ cache' \in {cache, Gone} /\ mem' = mem
    BY <1>8 DEF FailImport, FailRequest, FailTask, LoseRedis, Crash, jobVars
  <2>. QED
    BY <2>1 DEF RowWritten, CacheWritten, MemWritten
<1>9. CASE UNCHANGED vars
  BY <1>9 DEF vars, jobVars, RowWritten, CacheWritten, MemWritten
<1>. QED
  BY <1>1, <1>2, <1>3, <1>4, <1>5, <1>6, <1>7, <1>8, <1>9, Movers DEF Next, Imports, Scans, Cancels, Visits

-----------------------------------------------------------------------------
(* An import with a preview has its tracks from the beginning.              *)

PlainTracks == ~request.quick => Whole(db) /\ Whole(cache) /\ mem.tracks /\ AllHave

LEMMA PlainInit == Init => PlainTracks
<1>. SUFFICES ASSUME Init, ~request.quick PROVE PlainTracks
  BY DEF PlainTracks
<1>1. mem.tracks
  BY DEF Init
<1>2. AllHave
  BY DEF Init, AllHave, Has, Held, Building
<1>. QED
  BY <1>1, <1>2 DEF Init, PlainTracks, Whole

LEMMA WriterHas ==
  ASSUME TypeOK, AllHave, NEW t \in Tasks, pc[t] \in Writes, mem.tracks \/ t # "importer" \/ pc[t] \notin OwnJob
  PROVE  Obj(t).tracks
<1>1. pc[t] \in OwnJob /\ t # "importer" => pc[t] \in Building
  BY TypeParts, Owners DEF OwnJob, Building
<1>. QED
  BY <1>1 DEF Obj, AllHave, Has, Writes, Held

LEMMA PlainStep == ASSUME TypeOK, PlainTracks, [Next]_vars PROVE PlainTracks'
<1>1. SUFFICES ASSUME ~request.quick PROVE (Whole(db) /\ Whole(cache) /\ mem.tracks /\ AllHave)'
  BY Lasting DEF PlainTracks
<1>a. Whole(db) /\ Whole(cache) /\ mem.tracks /\ AllHave
  BY <1>1 DEF PlainTracks
<1>b. JobsTyped /\ RowWritten /\ CacheWritten /\ MemWritten /\ \A t \in Tasks : copy[t] \in Jobs
  BY TypeParts, Writing DEF Tasked
<1>c. \A t \in Tasks : pc[t] \in Writes => Obj(t).tracks /\ Obj(t) \in Jobs
  BY <1>a, WriterHas, ObjTyped
<1>2. AllHave'
  BY <1>a, HaveStep
<1>3. Whole(db)'
  <2>1. ASSUME NEW t, NEW job \in Jobs, job.tracks, Upsert(t, job) PROVE Whole(db)'
    BY <2>1, <1>a, <1>b DEF Upsert, Whole, Jobs, JobsTyped
  <2>2. CASE db' \in {db, Gone} \/ (db # Gone /\ db' = [db EXCEPT !.st = "failed"])
    BY <2>2, <1>a, <1>b DEF Whole, Jobs, JobsTyped
  <2>. QED
    BY <2>1, <2>2, <1>a, <1>b, <1>c DEF RowWritten, JobsTyped
<1>4. Whole(cache)'
  <2>1. \A t \in Tasks : io[t] = "fill" => copy[t].tracks
    BY <1>a DEF AllHave, Has
  <2>. QED
    BY <2>1, <1>a, <1>b, <1>c DEF CacheWritten, Whole
<1>5. mem'.tracks
  <2>1. \A job \in Jobs : \A st \in States : [job EXCEPT !.st = st].tracks = job.tracks
    BY DEF Jobs
  <2>2. WithTracks(mem).tracks /\ Built(mem).tracks = mem.tracks
    BY <1>b DEF WithTracks, Built, JobsTyped, Jobs
  <2>3. io["importer"] = "fill" => copy["importer"].tracks
    BY <1>a, Movers DEF AllHave, Has
  <2>4. CASE mem' \in {mem, WithTracks(mem), Built(mem)} \/ (\E st \in States : mem' = [mem EXCEPT !.st = st])
    BY <2>1, <2>2, <2>4, <1>a, <1>b DEF JobsTyped
  <2>5. CASE \E job \in {cache, copy["importer"]} :
               /\ job \in Jobs /\ job # Gone /\ (mem' = job \/ mem' = [job EXCEPT !.st = "fetching"])
               /\ job = cache \/ io["importer"] = "fill"
    <3>1. PICK job \in {cache, copy["importer"]} :
            /\ job \in Jobs /\ job # Gone /\ (mem' = job \/ mem' = [job EXCEPT !.st = "fetching"])
            /\ job = cache \/ io["importer"] = "fill"
      BY <2>5
    <3>2. job.tracks
      BY <3>1, <2>3, <1>a DEF Whole
    <3>3. [job EXCEPT !.st = "fetching"].tracks = job.tracks
      BY <2>1, <3>1 DEF States
    <3>. QED
      BY <3>1, <3>2, <3>3
  <2>. QED
    BY <2>4, <2>5, <1>b DEF MemWritten
<1>. QED
  BY <1>2, <1>3, <1>4, <1>5

-----------------------------------------------------------------------------
(* A quick import keeps the tracks it has fetched, as long as Redis keeps   *)
(* and takes everything and no task is broken off.                          *)

Starting ==
    \/ queued \in {"new", "waiting"}
    \/ pc["importer"] \in {"load", "fetching", "reread", "named", "tracked", "failed"} \cup Cleaning
QuickTracks == request.quick /\ ~missed /\ broken = {} =>
    /\ AllHave /\ \A t \in Tasks : io[t] # "fill"
    /\ pc["importer"] # "unpack" /\ (pc["importer"] \in Tracked => mem.tracks)
    /\ stage # NoStage => mem.tracks
    /\ Whole(cache) \/ (Starting /\ Virgin)
    /\ io["importer"] = "find" \/ pc["importer"] = "delPreview" => Whole(cache)

LEMMA QuickInit == Init => QuickTracks
BY Movers DEF Init, QuickTracks, Whole, AllHave, Has, Held, Building, Tracked, Checking

\* Until its copy in Redis has the tracks, the import is only starting, or being marked and cleaned up.
LEMMA StartingStep ==
  ASSUME TypeOK, Worker, [Next]_vars, QuickTracks, request.quick, ~missed', broken' = {}, Starting, ~Whole(cache)
  PROVE  Starting' \/ Whole(cache)'
<1>a. Tasked /\ "importer" \in Tasks /\ "user" \in Tasks /\ "scanner" \in Tasks /\ cache # Gone /\ queued \in Queues
  BY TypeParts, Movers, NothingStaged DEF Whole
<1>b. /\ ~missed /\ broken = {} /\ io["importer"] # "find" /\ pc["importer"] # "delPreview"
      /\ \A t \in Tasks : io[t] # "fill"
  BY Lasting DEF QuickTracks
<1>c. pc["importer"] # "albums" /\ pc["importer"] \notin Registered
  BY <1>a DEF Starting, Worker, Cleaning, Registered
<1>1. ASSUME UNCHANGED queued, pc'["importer"] = pc["importer"] PROVE Starting'
  BY <1>1 DEF Starting
<1>2. ASSUME NEW t \in Tasks, Accesses(t) PROVE Starting' \/ Whole(cache)'
  <2>1. CASE t # "importer"
    BY <1>1, <1>2, <2>1, <1>a, <1>c, AccessAlone DEF Alone
  <2>2. CASE t = "importer" /\ Get(t)
    <3>1. Answered(t, cache)
      BY <2>2, <1>a DEF Get
    <3>2. CASE pc[t] = "load" /\ Loaded(cache)
      BY <2>2, <3>2, <1>a, Going DEF Loaded, Starting, Moved
    <3>3. CASE pc[t] = "reread" /\ Reread(cache)
      BY <2>2, <3>3, <1>a, Going DEF Reread, CancelledMeanwhile, Starting, Moved
    <3>4. CASE pc[t] = "failed" /\ Failed(cache)
      BY <2>2, <3>4, <1>a, Moving DEF Failed, Whole, Starting, Moved, Cleaning
    <3>5. pc[t] \in {"load", "reread", "failed"}
      BY <2>2, <1>a, <1>c, Owners DEF Get, Reads, Registered
    <3>. QED
      BY <3>1, <3>2, <3>3, <3>4, <3>5 DEF Answered
  <2>3. CASE t = "importer" /\ (Find(t) \/ Fill(t))
    BY <2>3, <1>b DEF Find, Fill
  <2>4. CASE t = "importer" /\ Store(t)
    BY <1>1, <2>4, Moving DEF Store
  <2>5. CASE t = "importer" /\ Share(t)
    <3>1. cache' = Obj(t) /\ Saved(t) /\ pc[t] \in Writes
      BY <2>5, <1>a DEF Share, Setex, Tasked
    <3>2. CASE pc[t] = "fail"
      BY <2>5, <3>1, <3>2, <1>b DEF QuickTracks, AllHave, Has, Held, Obj, OwnJob, Whole
    <3>3. CASE pc[t] = "tracked"
      BY <2>5, <3>1, <3>3, <1>b DEF QuickTracks, Obj, OwnJob, Whole, Tracked
    <3>4. CASE pc[t] \in {"request", "fetching", "named"}
      <4>1. /\ queued' = queued
            /\ (pc[t] = "fetching" => pc'[t] = "reread") /\ (pc[t] = "named" => pc'[t] = "tracked")
        BY <2>5, <3>1, <3>4, Going, Moving DEF Saved, Named, Moved
      <4>2. pc[t] = "request" => queued = "new"
        BY <2>5, <1>a DEF Worker, Queues, Checking, Idling, Cleaning
      <4>. QED
        BY <2>5, <3>4, <4>1, <4>2 DEF Starting
    <3>. QED
      BY <2>5, <3>1, <3>2, <3>3, <3>4, <1>c DEF Writes, OwnJob, Registered
  <2>6. CASE Miss(t)
    BY <2>6 DEF Miss
  <2>. QED
    BY <1>2, <2>1, <2>2, <2>3, <2>4, <2>5, <2>6 DEF Accesses
<1>3. ASSUME OfferPreview \/ Enqueue \/ Begin \/ Unpack \/ KeepPreview \/ Joined \/ Poll \/ GiveUp PROVE Starting'
  <2>1. pc["importer"] \notin {"unpack", "keep", "albums", "poll"}
    BY <1>a, <1>b, <1>c DEF QuickTracks, Starting, Worker, Registered, Cleaning
  <2>2. CASE OfferPreview
    BY <2>2, <1>a, Moving DEF OfferPreview, At, Starting, Cleaning
  <2>3. CASE Enqueue
    BY <2>3 DEF Enqueue, Starting
  <2>4. CASE Begin
    BY <2>4, <1>a, Moving DEF Begin, Moved, Starting
  <2>. QED
    BY <1>3, <2>1, <2>2, <2>3, <2>4 DEF Unpack, KeepPreview, Joined, Poll, GiveUp, At
<1>4. ASSUME NEW t \in Tasks, Check(t) \/ Create(t) PROVE Starting'
  <2>1. t # "importer"
    BY <1>4, <1>c DEF Check, Count, Expire, QueueScan, Create, At, Registered
  <2>. QED
    BY <1>1, <1>4, <2>1, <1>a, Moving DEF Check, Count, Expire, QueueScan, Create, Moved
<1>5. ASSUME NEW t \in Tasks, Clean(t) PROVE Starting' \/ Whole(cache)'
  <2>1. CASE t # "importer"
    BY <1>1, <1>5, <2>1, <1>a, Moving DEF Clean, Drop, Delete, Del, DelPreview, Moved
  <2>2. CASE t = "importer"
    BY <1>5, <2>2, <1>a, <1>b, Moving DEF Clean, Drop, Delete, Del, DelPreview, At, Moved, Starting, Cleaning, Whole
  <2>. QED
    BY <2>1, <2>2
<1>6. ASSUME TakeScan \/ Cancel \/ (\E v \in Visitors : Visit(v) \/ Rescan(v) \/ TimeOut(v)) PROVE Starting'
  BY <1>1, <1>6, <1>a, Movers, Moving DEF TakeScan, Cancel, Visit, Rescan, TimeOut, Moved
<1>7. ASSUME (\E a \in Albums : Album(a) \/ Settle(a) \/ TenMinutes(a)) \/ UNCHANGED vars PROVE Starting'
  <2>1. UNCHANGED <<pc, queued>>
    BY <1>7 DEF Album, Acquire, Answer, StoreAlbum, ShareAlbum, Settle, TenMinutes, vars, taskVars
  <2>. QED
    BY <1>1, <2>1
<1>8. ASSUME FailImport PROVE Starting'
  BY <1>8, <1>c, Going DEF FailImport, Starting, Moved
<1>9. ASSUME FailRequest \/ LoseRedis PROVE FALSE
  BY <1>9 DEF FailRequest, LoseRedis, Breaks
<1>10. ASSUME NEW t \in Tasks, FailTask(t) PROVE Starting'
  <2>1. t # "importer"
    BY <1>10, VisitorsAssumption DEF FailTask, Breaks
  <2>. QED
    BY <1>1, <1>10, <2>1, <1>a, Moving DEF FailTask, Moved
<1>11. ASSUME Crash PROVE Starting' \/ Whole(cache)'
  BY <1>11, <1>a, <1>b DEF Crash, Starting, Queues, Cleaning, Worker
<1>. QED
  BY <1>2, <1>3, <1>4, <1>5, <1>6, <1>7, <1>8, <1>9, <1>10, <1>11, Movers DEF Next, Imports, Scans, Cancels, Visits

Accessing(t) ==
    \/ io'[t] \in {"none", io[t]}
    \/ Get(t) /\ cache = Gone /\ io'[t] = "find"
    \/ Miss(t) /\ io'[t] = "find"
    \/ Find(t) /\ db # Gone /\ io'[t] = "fill"
    \/ Store(t) /\ io'[t] = "setex"

LEMMA AccessIo == ASSUME TypeOK, NEW t \in Tasks, Accesses(t) PROVE \A u \in Tasks : Accessing(u)
<1>a. Tasked /\ "importer" \in Tasks
  BY TypeParts, Movers
<1>1. ASSUME NEW job, Answered(t, job) PROVE io'[t] \in {"none", io[t]}
  <2>1. CASE pc[t] = "asked"
    <3>1. t = "user" /\ Asked(job)
      BY <1>1, <2>1, <1>a, Owners DEF Answered
    <3>. QED
      BY <3>1, <1>a, Moving DEF Asked, Abort, Moved, Tasked
  <2>2. CASE pc[t] # "asked"
    BY <1>1, <2>2, <1>a, Owners, Going, Leaving, Moving, Movers
       DEF Answered, Loaded, Reread, Looked, Failed, Checked, Scanned, Moved
  <2>. QED
    BY <2>1, <2>2
<1>2. ASSUME Saved(t) PROVE io'[t] = "none"
  BY <1>2, <1>a, Owners, Going, Leaving, Moving DEF Saved, Named, Begun, Moved
<1>3. Accessing(t)
  BY <1>1, <1>2, Moving DEF Accesses, Get, Miss, Find, Fill, Store, Share, Accessing
<1>. QED
  BY <1>3, AccessAlone DEF Alone, Accessing

LEMMA IoStep == ASSUME TypeOK, [Next]_vars PROVE \A u \in Tasks : Accessing(u)
<1>a. "importer" \in Tasks /\ "scanner" \in Tasks /\ "user" \in Tasks /\ \A v \in Visitors : v \in Tasks
  BY Movers
<1>b. (\E t \in Tasks : \E job, label : Moved(t, job, label)) => \A u \in Tasks : Accessing(u)
  BY DEF Moved, Accessing
<1>1. ASSUME NEW t \in Tasks, Check(t) \/ Create(t) \/ Clean(t) PROVE \A u \in Tasks : Accessing(u)
  BY <1>1, <1>b, Moving DEF Check, Count, Expire, QueueScan, Create, Clean, Drop, Delete, Del, DelPreview
<1>2. ASSUME OfferPreview \/ Enqueue \/ Begin \/ Unpack \/ KeepPreview \/ Joined \/ Poll \/ GiveUp PROVE \A u \in Tasks : Accessing(u)
  BY <1>2, <1>a, <1>b, Moving, Going DEF OfferPreview, Enqueue, Begin, Unpack, KeepPreview, Process, Joined, Poll, GiveUp
<1>3. ASSUME TakeScan \/ Cancel \/ (\E v \in Visitors : Visit(v) \/ Rescan(v) \/ TimeOut(v)) PROVE \A u \in Tasks : Accessing(u)
  BY <1>3, <1>a, <1>b, Moving DEF TakeScan, Cancel, Visit, Rescan, TimeOut
<1>4. ASSUME FailImport \/ FailRequest \/ \E t \in Tasks : FailTask(t) PROVE \A u \in Tasks : Accessing(u)
  BY <1>4, <1>a, <1>b, Moving, Going DEF FailImport, FailRequest, FailTask
<1>5. ASSUME (\E a \in Albums : Album(a) \/ Settle(a) \/ TenMinutes(a)) \/ LoseRedis \/ UNCHANGED vars PROVE \A u \in Tasks : Accessing(u)
  <2>1. io' = io
    BY <1>5 DEF Album, Acquire, Answer, StoreAlbum, ShareAlbum, Settle, TenMinutes, LoseRedis, vars, taskVars
  <2>. QED
    BY <2>1 DEF Accessing
<1>6. CASE Crash
  BY <1>6 DEF Crash, Accessing
<1>. QED
  BY <1>a, <1>1, <1>2, <1>3, <1>4, <1>5, <1>6, AccessIo DEF Next, Imports, Scans, Cancels, Visits

LEMMA StageStep ==
  ASSUME TypeOK, [Next]_vars, stage = NoStage, stage' # NoStage
  PROVE  pc["importer"] = "begin" /\ mem' = mem
<1>1. ASSUME NEW t \in Tasks, Accesses(t) PROVE pc["importer"] = "begin" /\ mem' = mem
  <2>1. stage' \in Stages
    BY <1>1, AccessTyped, TypeAfter DEF TypeOK, Stages
  <2>2. t = "importer" /\ pc[t] = "begin"
    BY <1>1, <2>1, AccessAlone DEF Alone, NoStage, Stages
  <2>. QED
    BY <1>1, <2>2 DEF Accesses, Get, Miss, Find, Fill, Store, Share, Answered, Saved, Reads
<1>2. ASSUME NEW t \in Tasks, Check(t) \/ Create(t) \/ Clean(t) PROVE FALSE
  BY <1>2 DEF Check, Count, Expire, QueueScan, Create, Clean, Drop, Delete, Del, DelPreview, albumVars
<1>3. ASSUME NEW a \in Albums, Album(a) \/ Settle(a) \/ TenMinutes(a) PROVE FALSE
  BY <1>3 DEF Album, Acquire, Answer, StoreAlbum, ShareAlbum, Settle, TenMinutes, NoStage
<1>4. ASSUME \/ OfferPreview \/ Enqueue \/ Begin \/ Unpack \/ KeepPreview \/ Joined \/ Poll \/ GiveUp \/ TakeScan \/ Cancel
             \/ (\E v \in Visitors : Visit(v) \/ Rescan(v) \/ TimeOut(v))
             \/ FailImport \/ FailRequest \/ (\E t \in Tasks : FailTask(t)) \/ LoseRedis \/ Crash \/ UNCHANGED vars
      PROVE  FALSE
  BY <1>4 DEF OfferPreview, Enqueue, Begin, Unpack, KeepPreview, Joined, Poll, GiveUp, TakeScan, Cancel, Visit, Rescan, TimeOut,
     FailImport, FailRequest, FailTask, LoseRedis, Crash, vars, albumVars
<1>. QED
  BY <1>1, <1>2, <1>3, <1>4, Movers DEF Next, Imports, Scans, Cancels, Visits

LEMMA QuickStep == ASSUME TypeOK, Worker, EarlyVirgin, QuickTracks, [Next]_vars PROVE QuickTracks'
<1>. SUFFICES ASSUME request.quick, ~missed', broken' = {}
              PROVE  /\ AllHave' /\ \A t \in Tasks : io'[t] # "fill"
                     /\ pc'["importer"] # "unpack" /\ (pc'["importer"] \in Tracked => mem'.tracks)
                     /\ stage' # NoStage => mem'.tracks
                     /\ Whole(cache)' \/ (Starting' /\ Virgin')
                     /\ io'["importer"] = "find" \/ pc'["importer"] = "delPreview" => Whole(cache)'
  BY Lasting DEF QuickTracks, NoStage
<1>a. /\ AllHave /\ \A t \in Tasks : io[t] # "fill"
      /\ pc["importer"] # "unpack" /\ (pc["importer"] \in Tracked => mem.tracks)
      /\ stage # NoStage => mem.tracks
      /\ Whole(cache) \/ (Starting /\ Virgin)
      /\ io["importer"] = "find" \/ pc["importer"] = "delPreview" => Whole(cache)
  BY Lasting DEF QuickTracks
<1>b. Tasked /\ JobsTyped /\ queued \in Queues /\ "importer" \in Tasks /\ "scanner" \in Tasks
  BY TypeParts, Movers, NothingStaged
<1>c. (Crash \/ Onwards) /\ CacheWritten /\ MemWritten /\ (\A t \in Tasks : Accessing(t)) /\ "import" \notin broken /\ "import" \notin broken'
  BY Steps, Writing, IoStep, Lasting
<1>d. EarlyVirgin'
  BY VirginStep
<1>e. \A t \in Tasks : Find(t) => db = Gone
  BY DEF Find
<1>1. AllHave'
  <2>1. ASSUME NEW t \in Tasks, pc[t] \in {"check", "scan"} PROVE Whole(cache)
    <3>1. CASE Starting /\ Virgin
      <4>1. t = "importer"
        BY <2>1, <3>1, <1>b, Owners DEF Virgin, Checking
      <4>. QED
        BY <2>1, <3>1, <4>1, <1>b DEF Starting, Worker, Cleaning
    <3>. QED
      BY <3>1, <1>a
  <2>. QED
    BY <2>1, <1>a, <1>e, HaveStep DEF Whole
<1>2. \A t \in Tasks : io'[t] # "fill"
  BY <1>a, <1>c, <1>e DEF Accessing
<1>3. mem'.tracks \/ mem'.tracks = mem.tracks \/ pc["importer"] = "load"
  <2>1. \A st \in States : [mem EXCEPT !.st = st].tracks = mem.tracks
    BY <1>b DEF JobsTyped, Jobs
  <2>2. WithTracks(mem).tracks /\ Built(mem).tracks = mem.tracks
    BY <1>b DEF WithTracks, Built, JobsTyped, Jobs
  <2>. QED
    BY <2>1, <2>2, <1>c DEF MemWritten
<1>4. pc'["importer"] # "unpack" /\ (pc'["importer"] \in Tracked => mem'.tracks)
  <2>1. WithTracks(mem).tracks
    BY <1>b DEF WithTracks, JobsTyped, Jobs
  <2>2. CASE Crash
    BY <2>2, <1>b DEF Crash, Rest, Tracked, Checking, Building
  <2>3. CASE Onwards
    BY <2>1, <2>3, <1>3, <1>a DEF Onwards, Tracked, Checking, Building
  <2>. QED
    BY <2>2, <2>3, <1>c
<1>5. stage' # NoStage => mem'.tracks
  <2>1. CASE stage = NoStage
    BY <2>1, <1>a, StageStep DEF Tracked
  <2>2. CASE stage # NoStage
    <3>1. pc["importer"] # "load"
      BY <2>2, <1>c DEF EarlyVirgin, Early, Beginning, Virgin
    <3>. QED
      BY <2>2, <3>1, <1>3, <1>a
  <2>. QED
    BY <2>1, <2>2
<1>6. ASSUME Whole(cache) PROVE \/ Whole(cache)'
                                \/ Share("importer") /\ pc["importer"] \in {"request", "fetching", "named"}
  <2>1. ASSUME NEW t \in Tasks, pc[t] \in Writes, Share(t), cache' = Obj(t)
        PROVE  Whole(cache)' \/ (t = "importer" /\ pc[t] \in {"request", "fetching", "named"})
    <3>1. CASE mem.tracks \/ t # "importer" \/ pc[t] \notin OwnJob
      BY <2>1, <3>1, <1>a, WriterHas DEF Whole
    <3>2. CASE ~mem.tracks /\ t = "importer" /\ pc[t] \in OwnJob
      BY <3>2, <1>a DEF OwnJob, Tracked, Building
    <3>. QED
      BY <3>1, <3>2
  <2>2. CASE cache' \in {cache, Gone}
    BY <1>6, <2>2 DEF Whole
  <2>3. CASE stage # NoStage /\ cache' = mem
    BY <2>3, <1>a DEF Whole
  <2>. QED
    BY <2>1, <2>2, <2>3, <1>a, <1>c DEF CacheWritten
<1>7. Whole(cache)' \/ (Starting' /\ Virgin')
  <2>1. CASE ~Whole(cache)
    <3>1. Starting /\ Virgin /\ Unbegun /\ (Starting' \/ Whole(cache)')
      BY <2>1, <1>a, <1>c, StartingStep DEF EarlyVirgin, Unbegun
    <3>2. (Starting => Fresh) /\ (Starting' => Fresh')
      BY DEF Starting, Fresh, Early, Beginning, Cleaning
    <3>. QED
      BY <3>1, <3>2, <1>c, VirginStays
  <2>2. CASE Share("importer") /\ pc["importer"] \in {"request", "fetching", "named"}
    <3>1. /\ queued' = queued
          /\ (pc["importer"] = "fetching" => pc'["importer"] = "reread") /\ (pc["importer"] = "named" => pc'["importer"] = "tracked")
      BY <2>2, <1>b, Going, Moving DEF Share, Saved, Named, Moved
    <3>2. pc["importer"] = "request" => queued = "new"
      BY <1>b DEF Worker, Queues, Checking, Idling, Cleaning
    <3>3. Starting' /\ Early'
      BY <2>2, <3>1, <3>2 DEF Starting, Early, Beginning
    <3>. QED
      BY <3>3, <1>c, <1>d DEF EarlyVirgin
  <2>. QED
    BY <2>1, <2>2, <1>6
<1>8. io'["importer"] = "find" \/ pc'["importer"] = "delPreview" => Whole(cache)'
  <2>1. Share("importer") => io'["importer"] = "none" /\ pc'["importer"] # "delPreview"
    BY <1>b, Going, Leaving, Moving DEF Share, Saved, Named, Begun, Rest, Moved
  <2>2. CASE io'["importer"] = "find"
    <3>1. CASE io["importer"] = "find"
      BY <2>1, <2>2, <3>1, <1>a, <1>6
    <3>2. CASE Get("importer") /\ cache = Gone
      BY <3>2 DEF Get, Whole
    <3>3. ~Miss("importer")
      BY DEF Miss
    <3>. QED
      BY <2>2, <3>1, <3>2, <3>3, <1>b, <1>c DEF Accessing
  <2>3. CASE pc'["importer"] = "delPreview"
    <3>1. CASE Crash
      BY <2>3, <3>1, <1>b DEF Crash, Rest
    <3>2. CASE Onwards
      BY <2>1, <2>3, <3>2, <1>a, <1>6 DEF Onwards, Whole
    <3>. QED
      BY <3>1, <3>2, <1>c
  <2>. QED
    BY <2>2, <2>3
<1>. QED
  BY <1>1, <1>2, <1>4, <1>5, <1>7, <1>8

-----------------------------------------------------------------------------
(* A cancellation that met nobody with a copy to save has the last word.    *)

Inert(t) ==
    \/ pc[t] \in {"off", "idle", "poll", "overdue", "late"} \cup Cleaning
    \/ pc[t] \in Reads /\ io[t] \in {"none", "find"}
CancelQuiet == cancelled = "quiet" =>
    db = Gone /\ cache = Gone /\ playlists = 0 /\ stage = NoStage /\ \A t \in Tasks : Inert(t)

LEMMA CancelInit == Init => CancelQuiet
BY DEF Init, CancelQuiet

\* A read that finds nothing leaves its task without a copy.
LEMMA NothingFound ==
  ASSUME TypeOK, NEW t \in Tasks, Answered(t, Gone)
  PROVE  \E label \in {"off", "idle", "failed", "look"} : Moved(t, Gone, label)
<1>a. Tasked /\ "importer" \in Tasks /\ "scanner" \in Tasks /\ "user" \in Tasks
  BY TypeParts, Movers
<1>1. CASE pc[t] = "load" /\ Loaded(Gone)
  BY <1>1, <1>a, Owners, Going DEF Loaded
<1>2. CASE pc[t] = "reread" /\ Reread(Gone)
  BY <1>2, <1>a, Owners, Going DEF Reread, CancelledMeanwhile
<1>3. CASE pc[t] = "look" /\ Looked(Gone)
  BY <1>3, <1>a, Owners, Going DEF Looked, HandedOn, Gone
<1>4. CASE pc[t] = "failed" /\ Failed(Gone)
  BY <1>4, <1>a, Owners, Moving DEF Failed
<1>5. CASE pc[t] = "asked" /\ Asked(Gone)
  BY <1>5, <1>a, Owners, Moving DEF Asked, Gone
<1>6. CASE pc[t] = "check" /\ Checked(t, Gone)
  BY <1>6, <1>a, Leaving DEF Checked, PastDownload, Gone
<1>7. CASE pc[t] = "scan" /\ Scanned(Gone)
  BY <1>7, <1>a, Owners, Moving DEF Scanned, Over, Gone
<1>8. CASE pc[t] = "view" /\ Goto(t, Rest(t))
  BY <1>8, Moving DEF Rest
<1>. QED
  BY <1>1, <1>2, <1>3, <1>4, <1>5, <1>6, <1>7, <1>8 DEF Answered

LEMMA QuietStays ==
  ASSUME TypeOK, [Next]_vars, db = Gone, cache = Gone, playlists = 0, stage = NoStage, \A t \in Tasks : Inert(t)
  PROVE  /\ db' = Gone /\ cache' = Gone /\ playlists' = 0 /\ stage' = NoStage
         /\ \A t \in Tasks : Inert(t)'
<1>a. Tasked /\ "importer" \in Tasks /\ "scanner" \in Tasks /\ "user" \in Tasks /\ \A v \in Visitors : v \in Tasks
  BY TypeParts, Movers
<1>b. \A t \in Tasks : /\ pc[t] \notin Writes \cup {"offer", "enqueue", "unpack", "keep", "albums", "create", "count", "expire", "queue"}
                       /\ io[t] \in {"none", "find"}
  BY <1>a DEF Inert, Cleaning, Reads, Writes, OwnJob, Tasked
<1>c. ASSUME NEW t \in Tasks, NEW job,
             NEW label \in {"off", "idle", "poll", "overdue", "late"} \cup Cleaning \cup Reads, Moved(t, job, label)
      PROVE  \A u \in Tasks : Inert(u)'
  BY <1>c DEF Moved, Inert
<1>1. ASSUME NEW t \in Tasks, Accesses(t)
      PROVE  UNCHANGED <<db, cache, playlists, stage>> /\ \A u \in Tasks : Inert(u)'
  <2>1. Get(t) \/ Find(t)
    BY <1>1, <1>b DEF Accesses, Miss, Fill, Store, Share
  <2>2. UNCHANGED <<db, cache, playlists>>
    BY <2>1 DEF Get, Find, factVars
  <2>3. CASE Wait(t, "find") /\ UNCHANGED stage
    BY <2>1, <2>2, <2>3, <1>a, Moving DEF Get, Find, Inert, Tasked
  <2>4. CASE Answered(t, Gone)
    <3>1. stage' = stage
      BY <2>4 DEF Answered, Asked, Gone
    <3>. QED
      BY <2>2, <2>4, <3>1, <1>c, NothingFound DEF Reads
  <2>. QED
    BY <2>1, <2>3, <2>4 DEF Get, Find
<1>2. ASSUME NEW t \in Tasks, Check(t) \/ Create(t) PROVE FALSE
  BY <1>2, <1>b DEF Check, Count, Expire, QueueScan, Create, At
<1>3. ASSUME NEW t \in Tasks, Clean(t)
      PROVE  db' = Gone /\ cache' = Gone /\ UNCHANGED <<playlists, stage>> /\ \A u \in Tasks : Inert(u)'
  <2>1. db' = Gone /\ cache' = Gone /\ UNCHANGED <<playlists, stage>>
    BY <1>3 DEF Clean, Drop, Delete, Del, DelPreview, jobVars, albumVars
  <2>2. \E label \in Cleaning \cup {Rest(t)} : Moved(t, Gone, label)
    BY <1>3, Moving DEF Clean, Drop, Delete, Del, DelPreview, Cleaning
  <2>. QED
    BY <2>1, <2>2, <1>c DEF Rest
<1>4. ASSUME \/ OfferPreview \/ Enqueue \/ Begin \/ Unpack \/ KeepPreview \/ Joined \/ Poll \/ GiveUp \/ TakeScan \/ Cancel
             \/ (\E v \in Visitors : Visit(v) \/ Rescan(v))
      PROVE  UNCHANGED <<db, cache, playlists, stage>> /\ \A u \in Tasks : Inert(u)'
  <2>1. Begin \/ Poll \/ GiveUp \/ TakeScan \/ Cancel \/ \E v \in Visitors : Visit(v) \/ Rescan(v)
    BY <1>4, <1>a, <1>b DEF OfferPreview, Enqueue, Unpack, KeepPreview, Joined, At
  <2>2. UNCHANGED <<db, cache, playlists, stage>>
    BY <2>1 DEF Begin, Poll, GiveUp, TakeScan, Cancel, Visit, Rescan, jobVars, albumVars
  <2>3. \E t \in Tasks, label \in {"off", "idle", "overdue", "late"} \cup Reads : Moved(t, Gone, label)
    BY <2>1, <1>a, Moving, Going DEF Begin, Poll, GiveUp, TakeScan, Cancel, Visit, Rescan, Reads
  <2>. QED
    BY <2>2, <2>3, <1>c
<1>5. ASSUME NEW v \in Visitors, TimeOut(v)
      PROVE  db' = Gone /\ UNCHANGED <<cache, playlists, stage>> /\ \A u \in Tasks : Inert(u)'
  BY <1>5, <1>a, <1>c, Moving DEF TimeOut, albumVars
<1>6. ASSUME NEW a \in Albums, Album(a) \/ Settle(a) \/ TenMinutes(a)
      PROVE  UNCHANGED <<db, cache, playlists, stage>> /\ \A u \in Tasks : Inert(u)'
  <2>1. Settle(a) \/ TenMinutes(a)
    BY <1>6 DEF Album, Acquire, Answer, StoreAlbum, ShareAlbum, NoStage
  <2>. QED
    BY <2>1 DEF Settle, TenMinutes, jobVars, taskVars, Inert
<1>7. ASSUME FailImport \/ FailRequest \/ (\E t \in Tasks : FailTask(t))
      PROVE  UNCHANGED <<db, cache, playlists, stage>> /\ \A u \in Tasks : Inert(u)'
  <2>1. UNCHANGED <<db, cache, playlists, stage>>
    BY <1>7 DEF FailImport, FailRequest, FailTask, jobVars, albumVars
  <2>2. \E t \in Tasks, label \in {"off", "idle", "failed"} : Moved(t, Gone, label)
    BY <1>7, <1>a, Moving, Going DEF FailImport, FailRequest, FailTask, Rest
  <2>. QED
    BY <2>1, <2>2, <1>c DEF Reads
<1>8. ~LoseRedis
  BY DEF LoseRedis
<1>9. ASSUME Crash PROVE UNCHANGED <<db, cache, playlists>> /\ stage' = NoStage /\ \A u \in Tasks : Inert(u)'
  BY <1>9 DEF Crash, jobVars, Rest, Inert
<1>10. ASSUME UNCHANGED vars PROVE UNCHANGED <<db, cache, playlists, stage>> /\ \A u \in Tasks : Inert(u)'
  BY <1>10 DEF vars, jobVars, taskVars, albumVars, Inert
<1>. QED
  BY <1>1, <1>2, <1>3, <1>4, <1>5, <1>6, <1>7, <1>8, <1>9, <1>10, Movers DEF Next, Imports, Scans, Cancels, Visits

LEMMA CancelledStep ==
  ASSUME TypeOK, [Next]_vars, cancelled' = "quiet", cancelled # "quiet"
  PROVE  Quiet /\ DelPreview("user")
<1>1. ASSUME NEW t \in Tasks, Accesses(t) \/ Check(t) \/ Create(t) \/ Drop(t) \/ Delete(t) \/ Del(t) PROVE cancelled' = cancelled
  BY <1>1, AccessAlone DEF Check, Count, Expire, QueueScan, Create, Drop, Delete, Del, historyVars
<1>2. ASSUME \/ OfferPreview \/ Enqueue \/ Begin \/ Unpack \/ KeepPreview \/ Joined \/ Poll \/ GiveUp \/ TakeScan \/ Cancel
             \/ (\E v \in Visitors : Visit(v) \/ Rescan(v) \/ TimeOut(v))
             \/ (\E a \in Albums : Album(a) \/ Settle(a) \/ TenMinutes(a))
             \/ FailImport \/ FailRequest \/ (\E t \in Tasks : FailTask(t)) \/ LoseRedis \/ Crash \/ UNCHANGED vars
      PROVE  cancelled' = cancelled
  BY <1>2 DEF OfferPreview, Enqueue, Begin, Unpack, KeepPreview, Joined, Poll, GiveUp, TakeScan, Cancel, Visit, Rescan, TimeOut,
     Album, Acquire, Answer, StoreAlbum, ShareAlbum, Settle, TenMinutes,
     FailImport, FailRequest, FailTask, LoseRedis, Crash, vars, historyVars
<1>3. \E t \in Tasks : DelPreview(t)
  BY <1>1, <1>2, Movers DEF Next, Imports, Scans, Cancels, Visits, Clean
<1>. QED
  BY <1>3 DEF DelPreview

LEMMA CancelStep == ASSUME TypeOK, CancelQuiet, [Next]_vars PROVE CancelQuiet'
<1>1. CASE cancelled' # "quiet"
  BY <1>1 DEF CancelQuiet
<1>2. CASE cancelled = "quiet"
  BY <1>2, QuietStays DEF CancelQuiet, NoStage
<1>3. CASE cancelled' = "quiet" /\ cancelled # "quiet"
  <2>1. Quiet /\ DelPreview("user")
    BY <1>3, CancelledStep
  <2>2. db' = Gone /\ cache' = Gone /\ playlists' = 0 /\ stage' = NoStage
    BY <2>1 DEF Quiet, DelPreview, albumVars, NoStage
  <2>3. \A t \in Tasks : Inert(t)'
    BY <2>1, Movers, Moving DEF DelPreview, Quiet, Harmless, Inert, Moved, Rest
  <2>. QED
    BY <2>2, <2>3 DEF CancelQuiet, NoStage
<1>. QED
  BY <1>1, <1>2, <1>3

-----------------------------------------------------------------------------
(* A playlist that is made is known to the row and to Redis, or its builder *)
(* is about to save it.                                                     *)

Made(job) == job = Gone \/ job.made
BuiltOnce == ~stale /\ broken \cap {"import", "made"} = {} =>
    /\ playlists <= 1
    /\ pc["importer"] = "built" => mem.made /\ playlists = 1 /\ (io["importer"] = "setex" => Made(db))
    /\ pc["scanner"] = "built" => copy["scanner"].made /\ playlists = 1 /\ (io["scanner"] = "setex" => Made(db))
    /\ request.albums = {} /\ (queued \in {"new", "lost", "waiting"} \/ pc["importer"] \notin {"off", "built"}) => playlists = 0
    /\ playlists = 1 =>
         /\ pc["scanner"] \notin {"building", "create"}
         /\ pc["importer"] # "built" /\ pc["scanner"] # "built" => Made(db) /\ Made(cache)
         /\ pc["scanner"] = "scan" /\ io["scanner"] = "fill" => Made(copy["scanner"])

LEMMA BuiltInit == Init => BuiltOnce
BY Movers DEF Init, BuiltOnce

\* How a builder comes to have built, and how it goes on.
Builds(b) ==
    /\ pc'[b] = "built" => (pc[b] = "built" /\ copy'[b] = copy[b]) \/ Create(b)
    /\ pc[b] = "built" => pc'[b] = "built" \/ (Share(b) /\ pc'[b] = Rest(b)) \/ broken' \cap {"import", "made"} # {}
    /\ b = "scanner" =>
         /\ pc'[b] \in {"building", "create"} =>
              \/ pc[b] \in {"building", "create"}
              \/ pc[b] = "scan" /\ ~Over(cache) /\ cache # Gone
              \/ pc[b] = "scan" /\ ~Over(copy[b]) /\ io[b] = "fill"
         /\ pc'[b] = "scan" /\ io'[b] = "fill" =>
              \/ pc[b] = "scan" /\ io[b] = "fill" /\ copy'[b] = copy[b]
              \/ pc[b] = "scan" /\ Find(b) /\ copy'[b] = db
    /\ playlists' = playlists \/ Create("importer") \/ Create("scanner")

LEMMA SameBuilds ==
  ASSUME NEW b, pc'[b] = pc[b], io'[b] = io[b], copy'[b] = copy[b], playlists' = playlists PROVE Builds(b)
BY DEF Builds

LEMMA AccessBuilds == ASSUME TypeOK, NEW b \in {"importer", "scanner"}, NEW t \in Tasks, Accesses(t) PROVE Builds(b)
<1>a. Tasked /\ b \in Tasks /\ "importer" \in Tasks /\ "scanner" \in Tasks /\ playlists' = playlists
  BY TypeParts, Movers, AccessAlone
<1>1. CASE t # b
  <2>1. CASE pc'[b] = pc[b]
    BY <1>1, <1>a, <2>1, AccessAlone, SameBuilds DEF Alone
  <2>2. CASE b = "importer" /\ pc[b] = "albums" /\ pc'[b] = "off"
    BY <2>2, <1>a DEF Builds
  <2>. QED
    BY <1>1, <1>a, <2>1, <2>2, AccessAlone DEF Alone
<1>2. CASE t = b /\ Get(t)
  <2>1. CASE Wait(t, "find") /\ UNCHANGED copy
    BY <1>2, <1>a, <2>1, Moving DEF Builds
  <2>2. CASE Answered(t, cache) /\ cache # Gone
    <3>1. pc'[b] # "built" /\ pc[b] # "built" /\ io'[b] = "none"
      BY <1>2, <1>a, <2>2, Owners, Going, Leaving, Moving
         DEF Answered, Loaded, Reread, Looked, Failed, Checked, Scanned, Moved, Get, Reads, Rest
    <3>2. b = "scanner" => (pc'[b] \in {"building", "create"} => pc[b] = "scan" /\ ~Over(cache))
      BY <1>2, <1>a, <2>2, Owners, Leaving, Moving DEF Answered, Checked, Scanned, Moved, Rest, Checking
    <3>. QED
      BY <1>a, <2>2, <3>1, <3>2 DEF Builds
  <2>. QED
    BY <1>2, <2>1, <2>2 DEF Get
<1>3. CASE t = b /\ Find(t)
  <2>0. pc[b] \in Reads
    BY <1>3, <1>a DEF Find, Tasked
  <2>1. CASE Wait(t, "fill") /\ copy' = [copy EXCEPT ![t] = db]
    BY <1>3, <1>a, <2>0, <2>1, Moving DEF Builds, Reads, Tasked
  <2>2. CASE Answered(t, Gone)
    BY <1>3, <1>a, <2>0, <2>2, NothingFound DEF Moved, Builds, Reads
  <2>. QED
    BY <1>3, <2>1, <2>2 DEF Find
<1>4. CASE t = b /\ Fill(t)
  <2>0. pc[b] \in Reads /\ io[b] = "fill" /\ Answered(b, copy[b])
    BY <1>4, <1>a DEF Fill, Tasked
  <2>1. pc'[b] # "built" /\ pc[b] # "built" /\ io'[b] = "none"
    BY <1>4, <1>a, <2>0, Owners, Going, Leaving, Moving
       DEF Answered, Loaded, Reread, Looked, Failed, Checked, Scanned, Moved, Reads, Rest
  <2>2. b = "scanner" => (pc'[b] \in {"building", "create"} => pc[b] = "scan" /\ ~Over(copy[b]))
    BY <1>a, <2>0, Owners, Leaving, Moving DEF Answered, Checked, Scanned, Moved, Rest, Checking
  <2>. QED
    BY <1>a, <2>0, <2>1, <2>2 DEF Builds
<1>5. CASE t = b /\ Store(t)
  BY <1>5, <1>a, Moving DEF Store, Builds, Writes, OwnJob
<1>6. CASE t = b /\ Share(t)
  <2>0. Saved(b) /\ pc[b] \in Writes
    BY <1>6, <1>a DEF Share, Tasked
  <2>1. pc'[b] # "built" /\ io'[b] = "none" /\ (pc[b] = "built" => pc'[b] = Rest(b))
    BY <1>a, <2>0, Owners, Going, Leaving, Moving DEF Saved, Named, Begun, Moved, Rest
  <2>2. b = "scanner" => (pc'[b] \in {"building", "create"} => pc[b] = "building")
    BY <1>a, <2>0, Owners, Leaving, Moving DEF Saved, Moved, Rest, Checking
  <2>. QED
    BY <1>6, <1>a, <2>1, <2>2 DEF Builds
<1>7. CASE t = b /\ Miss(t)
  BY <1>7, <1>a, Moving DEF Miss, Builds
<1>. QED
  BY <1>1, <1>2, <1>3, <1>4, <1>5, <1>6, <1>7 DEF Accesses

LEMMA BuildersStep == ASSUME TypeOK, Worker, [Next]_vars, NEW b \in {"importer", "scanner"} PROVE Builds(b)
<1>a. Tasked /\ b \in Tasks /\ "importer" \in Tasks /\ "scanner" \in Tasks /\ "user" \in Tasks /\ \A v \in Visitors : v \in Tasks /\ v # b
  BY TypeParts, Movers
<1>b. ASSUME NEW t \in Tasks, NEW job, NEW label, Moved(t, job, label), playlists' = playlists,
             t # b \/ (label \notin Building /\ pc[b] # "built") \/ (b = "importer" /\ label # "built" /\ pc[b] # "built")
      PROVE  Builds(b)
  BY <1>a, <1>b, SameBuilds DEF Moved, Builds, Building
<1>1. ASSUME NEW t \in Tasks, Accesses(t) PROVE Builds(b)
  BY <1>1, AccessBuilds
<1>2. ASSUME NEW t \in Tasks, Create(t) PROVE Builds(b)
  <2>1. t \in {"importer", "scanner"}
    BY <1>2, <1>a, Owners DEF Create, At, Building
  <2>2. pc[t] = "create" /\ pc'[t] = "built" /\ (\E job : Moved(t, job, "built"))
    BY <1>2, Moving DEF Create, At, Moved
  <2>3. CASE t = b
    BY <1>2, <2>1, <2>2, <2>3 DEF Builds
  <2>4. CASE t # b
    BY <1>2, <1>a, <2>1, <2>2, <2>4 DEF Builds, Moved
  <2>. QED
    BY <2>3, <2>4
<1>3. ASSUME NEW t \in Tasks, Check(t) \/ Clean(t) PROVE Builds(b)
  <2>1. playlists' = playlists /\ pc[t] # "built"
    BY <1>3 DEF Check, Count, Expire, QueueScan, Clean, Drop, Delete, Del, DelPreview, At
  <2>2. \E job, label : Moved(t, job, label) /\ label \notin Building
    BY <1>3, Moving DEF Check, Count, Expire, QueueScan, Clean, Drop, Delete, Del, DelPreview, Building, Rest
  <2>. QED
    BY <1>b, <2>1, <2>2
<1>4. ASSUME OfferPreview \/ Enqueue \/ Begin \/ Unpack \/ KeepPreview \/ Joined \/ Poll \/ GiveUp PROVE Builds(b)
  <2>1. playlists' = playlists /\ pc["importer"] # "built"
    BY <1>4 DEF OfferPreview, Enqueue, Begin, Unpack, KeepPreview, Joined, Poll, GiveUp, At, Worker
  <2>2. \E job, label : Moved("importer", job, label) /\ label # "built"
    BY <1>4, <1>a, Moving, Going DEF OfferPreview, Enqueue, Begin, Unpack, KeepPreview, Process, Joined, Poll, GiveUp
  <2>. QED
    BY <1>a, <1>b, <2>1, <2>2
<1>5. ASSUME TakeScan \/ Cancel \/ (\E v \in Visitors : Visit(v) \/ Rescan(v) \/ TimeOut(v)) PROVE Builds(b)
  <2>1. playlists' = playlists /\ (TakeScan => pc["scanner"] # "built")
    BY <1>5 DEF TakeScan, Cancel, Visit, Rescan, TimeOut, At
  <2>2. \E t \in Tasks : \E label : Moved(t, Gone, label) /\ label \notin Building /\ (t # b \/ (t = "scanner" /\ TakeScan))
    BY <1>5, <1>a, Moving DEF TakeScan, Cancel, Visit, Rescan, TimeOut, Building
  <2>. QED
    BY <1>b, <2>1, <2>2
<1>6. ASSUME (\E a \in Albums : Album(a) \/ Settle(a) \/ TenMinutes(a)) \/ LoseRedis \/ UNCHANGED vars PROVE Builds(b)
  <2>1. UNCHANGED <<pc, io, copy, playlists>>
    BY <1>6 DEF Album, Acquire, Answer, StoreAlbum, ShareAlbum, Settle, TenMinutes, LoseRedis, vars, taskVars
  <2>. QED
    BY <2>1, SameBuilds
<1>7. ASSUME FailImport \/ FailRequest \/ \E t \in Tasks : FailTask(t) PROVE Builds(b)
  <2>1. playlists' = playlists
    BY <1>7 DEF FailImport, FailRequest, FailTask
  <2>2. \E t \in Tasks, label \in {"off", "idle", "failed"} : Moved(t, Gone, label) /\ (pc[t] = "built" => broken' \cap {"import", "made"} # {})
    BY <1>7, <1>a, Moving, Going DEF FailImport, FailRequest, FailTask, Breaks, Rest
  <2>. QED
    BY <1>a, <2>1, <2>2, SameBuilds DEF Moved, Builds, Building
<1>8. ASSUME Crash PROVE Builds(b)
  <2>1. pc'[b] = Rest(b) /\ io'[b] = "none" /\ playlists' = playlists
    BY <1>8, <1>a DEF Crash
  <2>2. pc[b] = "built" => broken' \cap {"import", "made"} # {}
    BY <1>8 DEF Crash
  <2>. QED
    BY <2>1, <2>2 DEF Builds, Rest
<1>. QED
  BY <1>1, <1>2, <1>3, <1>4, <1>5, <1>6, <1>7, <1>8, Movers DEF Next, Imports, Scans, Cancels, Visits

\* As long as no save has forgotten the playlist, what is written knows of it.
LEMMA Remembering ==
  ASSUME TypeOK, [Next]_vars, ~stale', playlists > 0
  PROVE  (Made(db) => Made(db)') /\ (Made(cache) => Made(cache)')
<1>a. RowWritten /\ CacheWritten /\ JobsTyped /\ \A t \in Tasks : Obj(t) \in Jobs /\ copy[t] \in Jobs
  BY TypeParts, Writing, ObjTyped DEF Tasked
<1>1. ASSUME NEW t, NEW job \in Jobs, Upsert(t, job) PROVE Made(db)'
  <2>1. job.made
    BY <1>1 DEF Upsert, Forgets
  <2>. QED
    BY <1>1, <2>1, <1>a DEF Upsert, Made, Jobs, JobsTyped
<1>2. ASSUME db' \in {db, Gone} \/ (db # Gone /\ db' = [db EXCEPT !.st = "failed"]) PROVE Made(db) => Made(db)'
  BY <1>2, <1>a DEF Made, Jobs, JobsTyped
<1>3. ASSUME NEW t, NEW job, Setex(t, job), cache' = job PROVE cache' = cache \/ Made(cache)'
  BY <1>3 DEF Setex, Forgets, Made
<1>4. Made(cache) => Made(cache)'
  BY <1>3, <1>a DEF CacheWritten, Share, Fill, Made
<1>5. ASSUME \E t \in Tasks : Upsert(t, Obj(t)) PROVE Made(db)'
  BY <1>1, <1>5, <1>a
<1>6. ASSUME Upsert("importer", mem) PROVE Made(db)'
  BY <1>1, <1>6, <1>a DEF JobsTyped
<1>7. \/ db' \in {db, Gone} \/ (db # Gone /\ db' = [db EXCEPT !.st = "failed"])
      \/ (\E t \in Tasks : Upsert(t, Obj(t))) \/ Upsert("importer", mem)
  BY <1>a DEF RowWritten
<1>. QED
  BY <1>2, <1>4, <1>5, <1>6, <1>7

LEMMA StaleStays == ASSUME [Next]_vars PROVE stale => stale'
<1>1. ASSUME NEW t \in Tasks, Accesses(t) PROVE stale => stale'
  <2>1. CASE \E job : Setex(t, job)
    BY <2>1 DEF Setex
  <2>2. CASE \E job : Upsert(t, job)
    BY <2>2 DEF Upsert
  <2>3. CASE stale' = stale
    BY <2>3
  <2>. QED
    BY <1>1, <2>1, <2>2, <2>3 DEF Accesses, Get, Miss, Find, Fill, Store, Share, historyVars
<1>2. ASSUME NEW a \in Albums, Album(a) \/ Settle(a) \/ TenMinutes(a) PROVE stale => stale'
  <2>1. CASE \E t, job : Setex(t, job)
    BY <2>1 DEF Setex
  <2>2. CASE \E t, job : Upsert(t, job)
    BY <2>2 DEF Upsert
  <2>3. CASE stale' = stale
    BY <2>3
  <2>. QED
    BY <1>2, <2>1, <2>2, <2>3 DEF Album, Acquire, Answer, StoreAlbum, ShareAlbum, Settle, TenMinutes, historyVars
<1>3. ASSUME NEW t \in Tasks, Check(t) \/ Create(t) \/ Clean(t) PROVE stale' = stale
  BY <1>3 DEF Check, Count, Expire, QueueScan, Create, Clean, Drop, Delete, Del, DelPreview, historyVars
<1>4. ASSUME \/ OfferPreview \/ Enqueue \/ Begin \/ Unpack \/ KeepPreview \/ Joined \/ Poll \/ GiveUp \/ TakeScan \/ Cancel
             \/ (\E v \in Visitors : Visit(v) \/ Rescan(v) \/ TimeOut(v))
             \/ FailImport \/ FailRequest \/ (\E t \in Tasks : FailTask(t)) \/ LoseRedis \/ Crash \/ UNCHANGED vars
      PROVE  stale' = stale
  BY <1>4 DEF OfferPreview, Enqueue, Begin, Unpack, KeepPreview, Joined, Poll, GiveUp, TakeScan, Cancel, Visit, Rescan, TimeOut,
     FailImport, FailRequest, FailTask, LoseRedis, Crash, vars, historyVars
<1>. QED
  BY <1>1, <1>2, <1>3, <1>4, Movers DEF Next, Imports, Scans, Cancels, Visits

LEMMA BuiltStep == ASSUME TypeOK, Worker, EarlyVirgin, BuiltOnce, [Next]_vars PROVE BuiltOnce'
<1>. SUFFICES ASSUME ~stale', broken' \cap {"import", "made"} = {}
              PROVE  /\ playlists' <= 1
                     /\ pc'["importer"] = "built" => mem'.made /\ playlists' = 1 /\ (io'["importer"] = "setex" => Made(db)')
                     /\ pc'["scanner"] = "built" => copy'["scanner"].made /\ playlists' = 1 /\ (io'["scanner"] = "setex" => Made(db)')
                     /\ request.albums = {} /\ (queued' \in {"new", "lost", "waiting"} \/ pc'["importer"] \notin {"off", "built"})
                          => playlists' = 0
                     /\ playlists' = 1 =>
                          /\ pc'["scanner"] \notin {"building", "create"}
                          /\ pc'["importer"] # "built" /\ pc'["scanner"] # "built" => Made(db)' /\ Made(cache)'
                          /\ pc'["scanner"] = "scan" /\ io'["scanner"] = "fill" => Made(copy["scanner"])'
  BY Lasting DEF BuiltOnce
<1>a. ~stale /\ broken \cap {"import", "made"} = {} /\ "import" \notin broken
  BY StaleStays, Lasting
<1>b. /\ playlists <= 1
      /\ pc["importer"] = "built" => mem.made /\ playlists = 1 /\ (io["importer"] = "setex" => Made(db))
      /\ pc["scanner"] = "built" => copy["scanner"].made /\ playlists = 1 /\ (io["scanner"] = "setex" => Made(db))
      /\ request.albums = {} /\ (queued \in {"new", "lost", "waiting"} \/ pc["importer"] \notin {"off", "built"}) => playlists = 0
      /\ playlists = 1 =>
           /\ pc["scanner"] \notin {"building", "create"}
           /\ pc["importer"] # "built" /\ pc["scanner"] # "built" => Made(db) /\ Made(cache)
           /\ pc["scanner"] = "scan" /\ io["scanner"] = "fill" => Made(copy["scanner"])
  BY <1>a DEF BuiltOnce
<1>c. Tasked /\ JobsTyped /\ playlists \in Nat /\ queued \in Queues /\ "importer" \in Tasks /\ "scanner" \in Tasks /\ copy["scanner"] \in Jobs
  BY TypeParts, Movers, NothingStaged DEF Counts, Tasked
<1>d. (Crash \/ Onwards) /\ MemWritten /\ Builds("importer") /\ Builds("scanner") /\ \A t \in Tasks : Accessing(t)
  BY Steps, Writing, BuildersStep, IoStep
<1>e. pc["importer"] \in Building => request.albums = {} /\ pc["scanner"] = "idle" /\ queued = "active"
  <2>1. ASSUME pc["importer"] \in Building PROVE request.albums = {} /\ queued = "active"
    BY <2>1, <1>c DEF Worker, Building, Queues, Checking, Idling, Cleaning
  <2>. QED
    BY <1>a, <2>1 DEF EarlyVirgin, Early, Virgin, Building
<1>f. request.albums = {} /\ (queued \in {"new", "lost", "waiting"} \/ pc["importer"] # "off") => pc["scanner"] = "idle"
  BY <1>a DEF EarlyVirgin, Early, Virgin
<1>g. /\ Create("importer") => /\ pc["importer"] = "create" /\ pc'["importer"] = "built" /\ io'["importer"] = "none" /\ mem'.made
                               /\ playlists' = playlists + 1 /\ queued' = queued /\ pc'["scanner"] = pc["scanner"]
      /\ Create("scanner") => /\ pc["scanner"] = "create" /\ pc'["scanner"] = "built" /\ io'["scanner"] = "none" /\ copy'["scanner"].made
                              /\ playlists' = playlists + 1 /\ pc'["importer"] = pc["importer"]
  <2>1. Built(mem).made /\ Built(copy["scanner"]).made
    BY <1>c DEF Built, Jobs, JobsTyped
  <2>2. ASSUME Create("importer") PROVE Moved("importer", Gone, "built")
    BY <2>2, <1>c, Moving DEF Create
  <2>3. ASSUME Create("scanner") PROVE Moved("scanner", Built(copy["scanner"]), "built")
    BY <2>3, <1>c, Moving DEF Create
  <2>4. Create("importer") => /\ pc["importer"] = "create" /\ mem' = Built(mem) /\ playlists' = playlists + 1 /\ queued' = queued
    BY DEF Create, At
  <2>5. Create("scanner") => pc["scanner"] = "create" /\ playlists' = playlists + 1
    BY DEF Create, At
  <2>. QED
    BY <2>1, <2>2, <2>3, <2>4, <2>5, <1>c DEF Moved
<1>h. playlists' = playlists \/ Create("importer") \/ Create("scanner")
  BY <1>d DEF Builds
<1>i. (Create("importer") => playlists = 0) /\ (Create("scanner") => playlists = 0)
  BY <1>b, <1>c, <1>e, <1>g DEF Building
<1>j. ASSUME playlists = 1 PROVE (Made(db) => Made(db)') /\ (Made(cache) => Made(cache)')
  BY <1>j, Remembering
<1>k. ASSUME NEW t \in {"importer", "scanner"}, Store(t), Obj(t).made, Obj(t) \in Jobs PROVE Made(db)'
  BY <1>k, <1>c DEF Store, Upsert, Made, Jobs, JobsTyped
<1>1. playlists' <= 1
  BY <1>b, <1>c, <1>g, <1>h, <1>i
<1>2. ASSUME pc'["importer"] = "built"
      PROVE  mem'.made /\ playlists' = 1 /\ (io'["importer"] = "setex" => Made(db)')
  <2>1. CASE Create("importer")
    BY <2>1, <1>g, <1>i, <1>c
  <2>2. CASE pc["importer"] = "built"
    <3>1. mem.made /\ playlists = 1 /\ playlists' = 1
      BY <2>2, <1>b, <1>e, <1>g, <1>h DEF Building
    <3>2. mem'.made
      <4>1. WithTracks(mem).made = mem.made /\ \A st \in States : [mem EXCEPT !.st = st].made = mem.made
        BY <1>c DEF WithTracks, JobsTyped, Jobs
      <4>. QED
        BY <2>2, <3>1, <4>1, <1>d DEF MemWritten
    <3>3. Obj("importer") = mem
      BY <2>2 DEF Obj, OwnJob
    <3>4. io'["importer"] = "setex" => Made(db)'
      BY <2>2, <3>1, <3>3, <1>b, <1>c, <1>d, <1>j, <1>k DEF Accessing, JobsTyped
    <3>. QED
      BY <3>1, <3>2, <3>4
  <2>. QED
    BY <1>2, <1>d, <2>1, <2>2 DEF Builds
<1>3. ASSUME pc'["scanner"] = "built"
      PROVE  copy'["scanner"].made /\ playlists' = 1 /\ (io'["scanner"] = "setex" => Made(db)')
  <2>1. CASE Create("scanner")
    BY <2>1, <1>g, <1>i, <1>c
  <2>2. CASE pc["scanner"] = "built" /\ copy'["scanner"] = copy["scanner"]
    <3>1. copy["scanner"].made /\ playlists = 1 /\ playlists' = 1
      BY <2>2, <1>b, <1>e, <1>g, <1>h DEF Building
    <3>2. Obj("scanner") = copy["scanner"]
      BY DEF Obj
    <3>3. io'["scanner"] = "setex" => Made(db)'
      BY <2>2, <3>1, <3>2, <1>b, <1>c, <1>d, <1>j, <1>k DEF Accessing
    <3>. QED
      BY <2>2, <3>1, <3>3
  <2>. QED
    BY <1>3, <1>d, <2>1, <2>2 DEF Builds
<1>4. ASSUME request.albums = {}, queued' \in {"new", "lost", "waiting"} \/ pc'["importer"] \notin {"off", "built"}
      PROVE  playlists' = 0
  <2>1. queued \in {"new", "lost", "waiting"} \/ pc["importer"] \notin {"off", "built"}
    <3>1. CASE Crash
      <4>1. pc["importer"] = "off" /\ pc'["importer"] = "off"
        BY <3>1, <1>c DEF Crash, Rest
      <4>. QED
        BY <3>1, <4>1, <1>4, <1>c DEF Crash, Queues, Worker, Checking
    <3>2. CASE Onwards
      BY <3>2, <1>4, <1>d DEF Onwards, Builds, Rest
    <3>. QED
      BY <3>1, <3>2, <1>d
  <2>2. playlists = 0 /\ pc["scanner"] = "idle"
    BY <2>1, <1>4, <1>b, <1>f
  <2>3. ~Create("importer")
    BY <1>4, <1>e, <1>g DEF Building
  <2>. QED
    BY <2>2, <2>3, <1>g, <1>h
<1>5. ASSUME playlists' = 1, pc'["scanner"] \in {"building", "create"} PROVE FALSE
  <2>1. pc["scanner"] \in {"scan", "building", "create"}
    BY <1>5, <1>d DEF Builds
  <2>2. pc["importer"] \notin Building /\ ~Create("importer") /\ ~Create("scanner") /\ playlists = 1
    BY <1>5, <2>1, <1>e, <1>g, <1>h DEF Building
  <2>3. pc["scanner"] = "scan" /\ Made(cache)
    BY <2>1, <2>2, <1>b DEF Building
  <2>4. \A job : Made(job) => Over(job)
    BY DEF Made, Over, Gone
  <2>. QED
    BY <1>5, <2>2, <2>3, <2>4, <1>b, <1>d DEF Builds
<1>6. ASSUME playlists' = 1, pc'["importer"] # "built", pc'["scanner"] # "built" PROVE Made(db)' /\ Made(cache)'
  <2>1. playlists = 1
    BY <1>6, <1>g, <1>h
  <2>2. ASSUME NEW t \in {"importer", "scanner"}, Share(t), Obj(t).made, Made(db) PROVE Made(db)' /\ Made(cache)'
    BY <2>1, <2>2 DEF Share, Setex, Made
  <2>3. CASE pc["importer"] = "built"
    <3>1. Share("importer") /\ Obj("importer") = mem /\ io["importer"] = "setex"
      BY <1>6, <2>3, <1>d DEF Builds, Obj, OwnJob, Share
    <3>. QED
      BY <2>2, <2>3, <3>1, <1>b
  <2>4. CASE pc["scanner"] = "built"
    <3>1. Share("scanner") /\ Obj("scanner") = copy["scanner"] /\ io["scanner"] = "setex"
      BY <1>6, <2>4, <1>d DEF Builds, Obj, Share
    <3>. QED
      BY <2>2, <2>4, <3>1, <1>b
  <2>5. CASE pc["importer"] # "built" /\ pc["scanner"] # "built"
    BY <2>1, <2>5, <1>b, <1>j
  <2>. QED
    BY <2>3, <2>4, <2>5
<1>7. ASSUME playlists' = 1, pc'["scanner"] = "scan", io'["scanner"] = "fill" PROVE Made(copy["scanner"])'
  <2>1. pc["scanner"] = "scan"
    BY <1>7, <1>d DEF Builds
  <2>2. playlists = 1 /\ pc["importer"] # "built"
    BY <1>7, <2>1, <1>e, <1>g, <1>h DEF Building
  <2>. QED
    BY <1>7, <2>1, <2>2, <1>b, <1>d DEF Builds, Made
<1>. QED
  BY <1>1, <1>2, <1>3, <1>4, <1>5, <1>6, <1>7

-----------------------------------------------------------------------------
(* Nobody builds a playlist from a job without its tracks.                  *)

LEMMA EmptyStep ==
  ASSUME TypeOK, [Next]_vars
  PROVE  \/ empty' = empty
         \/ pc["importer"] = "create" /\ empty' = (empty \/ ~mem.tracks)
         \/ pc["scanner"] = "create" /\ empty' = (empty \/ ~copy["scanner"].tracks)
<1>1. ASSUME NEW t \in Tasks, Accesses(t) \/ Check(t) \/ Clean(t) \/ FailTask(t) PROVE empty' = empty
  BY <1>1 DEF Accesses, Get, Miss, Find, Fill, Store, Share, Check, Count, Expire, QueueScan, Clean, Drop, Delete, Del, DelPreview,
     FailTask, historyVars
<1>2. ASSUME NEW a \in Albums, Album(a) \/ Settle(a) \/ TenMinutes(a) PROVE empty' = empty
  BY <1>2 DEF Album, Acquire, Answer, StoreAlbum, ShareAlbum, Settle, TenMinutes, historyVars
<1>3. ASSUME \/ OfferPreview \/ Enqueue \/ Begin \/ Unpack \/ KeepPreview \/ Joined \/ Poll \/ GiveUp \/ TakeScan \/ Cancel
             \/ (\E v \in Visitors : Visit(v) \/ Rescan(v) \/ TimeOut(v))
             \/ FailImport \/ FailRequest \/ LoseRedis \/ Crash \/ UNCHANGED vars
      PROVE  empty' = empty
  BY <1>3 DEF OfferPreview, Enqueue, Begin, Unpack, KeepPreview, Joined, Poll, GiveUp, TakeScan, Cancel, Visit, Rescan, TimeOut,
     FailImport, FailRequest, LoseRedis, Crash, vars, historyVars
<1>4. ASSUME Create("importer") PROVE pc["importer"] = "create" /\ empty' = (empty \/ ~mem.tracks)
  BY <1>4 DEF Create, At
<1>5. ASSUME Create("scanner") PROVE pc["scanner"] = "create" /\ empty' = (empty \/ ~copy["scanner"].tracks)
  BY <1>5 DEF Create, At
<1>. QED
  BY <1>1, <1>2, <1>3, <1>4, <1>5, Movers DEF Next, Imports, Scans, Cancels, Visits

LEMMA TracksStep == ASSUME TypeOK, PlainTracks, QuickTracks, NotBuiltFromNothing, [Next]_vars PROVE NotBuiltFromNothing'
<1>1. SUFFICES ASSUME empty', request.quick => ~missed /\ broken = {} PROVE FALSE
  BY Lasting DEF NotBuiltFromNothing
<1>2. ~empty /\ "scanner" \in Tasks
  BY <1>1, Movers DEF NotBuiltFromNothing
<1>3. AllHave /\ (pc["importer"] = "create" => mem.tracks)
  BY <1>1 DEF PlainTracks, QuickTracks, Tracked, Building
<1>4. pc["scanner"] = "create" => copy["scanner"].tracks
  BY <1>2, <1>3 DEF AllHave, Has, Building
<1>. QED
  BY <1>1, <1>2, <1>3, <1>4, EmptyStep

-----------------------------------------------------------------------------
(* The inductive invariant, and what it gives.                              *)

IInv ==
    /\ TypeOK /\ Worker /\ EarlyVirgin
    /\ PlainTracks /\ QuickTracks /\ NotBuiltFromNothing
    /\ CancelQuiet /\ BuiltOnce

LEMMA InvInit == Init => IInv
BY TypeInit, WorkerInit, VirginInit, PlainInit, QuickInit, CancelInit, BuiltInit DEF IInv, NotBuiltFromNothing, Init

LEMMA InvStep == IInv /\ [Next]_vars => IInv'
<1>. SUFFICES ASSUME IInv, [Next]_vars PROVE IInv'
  OBVIOUS
<1>1. TypeOK' /\ Worker' /\ EarlyVirgin'
  BY TypeStep, WorkerStep, VirginStep DEF IInv
<1>2. PlainTracks' /\ QuickTracks' /\ NotBuiltFromNothing'
  BY PlainStep, QuickStep, TracksStep DEF IInv
<1>3. CancelQuiet' /\ BuiltOnce'
  BY CancelStep, BuiltStep DEF IInv
<1>. QED
  BY <1>1, <1>2, <1>3 DEF IInv

\* Behind the three properties below: where the import worker is and what has happened by then, who
\* holds a copy of the job and what is in it, what is left of a cancelled import, and what the row and
\* its copy know of a playlist.
THEOREM Invariance == Spec => []IInv
BY InvInit, InvStep, PTL DEF Spec

\* Rows, copies and tasks are well formed, and the worker and the scan worker build the playlist from
\* the tracks of the import, although every save writes all of a copy read earlier; only a quick import
\* may lose its tracks, when Redis lost or refused something or a task was broken off.
THEOREM ImportSafe == Spec => []ImportConsistent
<1>1. IInv => ImportConsistent
  BY DEF IInv, ImportConsistent
<1>. QED
  BY <1>1, Invariance, PTL

\* A cancellation that ends when nobody has a copy of the job to save has the last word over all reads,
\* retries, scans and visits that come after it.
THEOREM CancelSafe == Spec => []CancelSticks
<1>1. IInv => CancelSticks
  BY DEF IInv, CancelQuiet, CancelSticks
<1>. QED
  BY <1>1, Invariance, PTL

\* However often the library is scanned and whoever checks, an import makes one playlist, unless a
\* restart broke off the worker, a playlist was made and its job not saved, or a late save forgot it.
THEOREM PlaylistSafe == Spec => []OnePlaylist
<1>1. IInv => OnePlaylist
  <2>1. ASSUME IInv, playlists > 1, ~stale, broken \cap {"import", "made"} = {} PROVE FALSE
    BY <2>1, TypeParts DEF IInv, BuiltOnce, Counts
  <2>. QED
    BY <2>1 DEF OnePlaylist
<1>. QED
  BY <1>1, Invariance, PTL
==============================================================================
