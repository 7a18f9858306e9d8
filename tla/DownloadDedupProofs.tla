------------------------- MODULE DownloadDedupProofs -------------------------
(***************************************************************************)
(* What the two distributed locks give, for any number of requests of each *)
(* kind; then the lock of utils/distributedLock.ts itself, for any number  *)
(* of processes and sections, any TTL, any lost replies and restarts; and  *)
(* the store of Lidarr's events, which complete the jobs, for any number   *)
(* of events, deliveries, faults and restarts.                             *)
(***************************************************************************)
EXTENDS DownloadDedup, DistributedLock, WebhookEvents, TLAPS

USE KindAssumption

Labels == {"idle", "select", "insert", "skip", "lock", "check", "create", "unlock", "launch", "done"}
Locks == {"release", "acquire"}

\* A request is where its kind can be, and inside a lock it is the lock's holder.
Inside(r) == pc[r] \in {"check", "create", "unlock"}
HolderInside ==
    \A r \in Requests :
        /\ pc[r] \in {"lock", "check", "unlock"} => KindOf[r] \in Locks
        /\ pc[r] = "create" => KindOf[r] \in Locks \cup {"keep"}
        /\ pc[r] \in {"select", "insert"} => KindOf[r] \notin Locks
        /\ Inside(r) /\ KindOf[r] \in Locks => mutex[KindOf[r]] = r

\* Whoever has passed the check still finds no waiting job of its kind when it creates one.
CheckedStands == \A r \in Requests : pc[r] = "create" /\ KindOf[r] \in Locks => WaitingOf(KindOf[r]) = {}

\* Only an acquisition sets out to download for a row it has not created; whoever has
\* set out is done, and no row gets beyond waiting without one.
OwnTarget == \A r \in Requests : pc[r] = "launch" => target[r] = r \/ KindOf[r] = "acquire"
Launched ==
    \A i \in Requests :
        /\ \A r \in launches[i] : pc[r] = "done" /\ (r = i \/ KindOf[r] = "acquire")
        /\ job[i] \in Finished \cup {"processing"} => launches[i] # {}

\* A request has no row until it creates one, and works only on rows that exist.
Existing ==
    \A r \in Requests :
        /\ pc[r] \in {"idle", "select", "insert", "lock", "check", "create"} => job[r] = "none"
        /\ pc[r] \in {"unlock", "launch"} => target[r] \in Requests /\ job[target[r]] # "none"

IInv ==
    /\ TypeOK /\ HolderInside /\ CheckedStands /\ OneWaitingPerLock
    /\ OwnTarget /\ Launched /\ Existing

-----------------------------------------------------------------------------
\* The rows, requests and locks stay well formed.
LEMMA TypingStep == TypeOK /\ [Next]_vars => TypeOK'
<1>. SUFFICES ASSUME TypeOK, [Next]_vars PROVE TypeOK'
  OBVIOUS
<1>. USE DEF Active, Labels
<1>1. ASSUME NEW r \in Requests, Begin(r) PROVE TypeOK'
  <2>1. pc' \in [Requests -> Labels]
    BY <1>1 DEF Begin, Goto, TypeOK, Kinds
  <2>2. target' \in [Requests -> Requests \cup {Nobody}]
    BY <1>1 DEF Begin, TypeOK, DedupSeen, JobsIn
  <2>. QED
    BY <1>1, <2>1, <2>2 DEF Begin, TypeOK
<1>2. ASSUME NEW r \in Requests, Select(r) \/ SkipDuplicate(r) PROVE TypeOK'
  BY <1>2 DEF Select, SkipDuplicate, Goto, TypeOK
<1>3. ASSUME NEW r \in Requests, InsertCommit(r) \/ CreateJob(r) PROVE TypeOK'
  BY <1>3 DEF InsertCommit, CreateJob, Create, Goto, TypeOK
<1>4. ASSUME NEW r \in Requests, Lock(r) \/ Unlock(r) PROVE TypeOK'
  BY <1>4 DEF Lock, Unlock, Goto, TypeOK
<1>5. ASSUME NEW r \in Requests, Check(r) PROVE TypeOK'
  BY <1>5 DEF Check, Goto, TypeOK, DedupSeen, JobsIn
<1>6. ASSUME NEW r \in Requests, Launch(r) \/ LaunchFails(r) PROVE TypeOK'
  <2>1. pc' \in [Requests -> Labels] /\ UNCHANGED <<target, rowLock, mutex>>
    BY <1>6 DEF Launch, LaunchFails, Goto, TypeOK
  <2>2. job' \in [Requests -> {"none", "recentlyFailed", "closed"} \cup Active]
    BY <1>6 DEF Launch, LaunchFails, TypeOK
  <2>3. launches' \in [Requests -> SUBSET Requests]
    BY <1>6 DEF Launch, LaunchFails, TypeOK
  <2>. QED
    BY <2>1, <2>2, <2>3 DEF TypeOK
<1>7. ASSUME NEW i \in Requests, Settle(i) \/ FailureAges(i) PROVE TypeOK'
  BY <1>7 DEF Settle, FailureAges, TypeOK
<1>8. CASE UNCHANGED vars
  BY <1>8 DEF vars, TypeOK
<1>. QED
  BY <1>1, <1>2, <1>3, <1>4, <1>5, <1>6, <1>7, <1>8 DEF Next

\* What a row does in one step: a row begins to wait only when its own request creates it.
LEMMA WaitingStep ==
  ASSUME IInv, Next, NEW i \in Requests, job'[i] = "pending", job[i] # "pending"
  PROVE  pc[i] \in {"insert", "create"} /\ pc'[i] \notin {"insert", "create"}
<1>. USE DEF IInv, TypeOK
<1>1. ASSUME NEW r \in Requests, InsertCommit(r) \/ CreateJob(r) PROVE i = r
  BY <1>1 DEF InsertCommit, CreateJob, Create
<1>2. PICK r \in Requests : InsertCommit(r) \/ CreateJob(r)
  BY DEF Next, Begin, Select, SkipDuplicate, Lock, Check, Unlock, Launch, LaunchFails, Settle,
     FailureAges
<1>. QED
  BY <1>1, <1>2 DEF InsertCommit, CreateJob, Goto

\* A section keeps its lock until it leaves: nobody else can take or free it.
LEMMA HolderStep == IInv /\ [Next]_vars => HolderInside'
<1>. SUFFICES ASSUME IInv, [Next]_vars PROVE HolderInside'
  OBVIOUS
<1>. USE DEF IInv, HolderInside, Inside, Locks, Labels, TypeOK
<1>1. ASSUME NEW r \in Requests, Begin(r) PROVE HolderInside'
  <2>1. pc'[r] = "lock" => KindOf[r] \in Locks
    BY <1>1 DEF Begin, Goto, Kinds
  <2>2. pc'[r] = "create" => KindOf[r] = "keep"
    BY <1>1 DEF Begin, Goto, Kinds
  <2>3. pc'[r] = "select" => KindOf[r] \notin Locks
    BY <1>1 DEF Begin, Goto, Kinds
  <2>4. pc'[r] \in {"select", "lock", "launch", "create"}
    BY <1>1 DEF Begin, Goto, Kinds
  <2>5. UNCHANGED mutex /\ \A q \in Requests : q # r => pc'[q] = pc[q]
    BY <1>1 DEF Begin, Goto
  <2>. QED
    BY <2>1, <2>2, <2>3, <2>4, <2>5
<1>2. ASSUME NEW r \in Requests, Select(r) \/ SkipDuplicate(r) \/ InsertCommit(r) PROVE HolderInside'
  BY <1>2 DEF Select, SkipDuplicate, InsertCommit, Goto
<1>3. ASSUME NEW r \in Requests, Lock(r) PROVE HolderInside'
  BY <1>3 DEF Lock, Lockable, Goto
<1>4. ASSUME NEW r \in Requests, Check(r) \/ CreateJob(r) PROVE HolderInside'
  BY <1>4 DEF Check, CreateJob, Goto
<1>5. ASSUME NEW r \in Requests, Unlock(r) PROVE HolderInside'
  BY <1>5 DEF Unlock, Goto
<1>6. ASSUME NEW r \in Requests, Launch(r) \/ LaunchFails(r) PROVE HolderInside'
  BY <1>6 DEF Launch, LaunchFails, Goto
<1>7. ASSUME NEW i \in Requests, Settle(i) \/ FailureAges(i) PROVE HolderInside'
  BY <1>7 DEF Settle, FailureAges
<1>8. CASE UNCHANGED vars
  BY <1>8 DEF vars
<1>. QED
  BY <1>1, <1>2, <1>3, <1>4, <1>5, <1>6, <1>7, <1>8 DEF Next

\* Two requests of one kind are never both past the check of that kind's lock.
LEMMA OneCreator ==
  ASSUME HolderInside, NEW q \in Requests, NEW r \in Requests,
         pc[q] = "create", Inside(r), KindOf[q] = KindOf[r], KindOf[q] \in Locks
  PROVE  q = r
BY DEF HolderInside, Inside

\* The check made under the lock still holds when the job is created: only holders of the same
\* lock add a waiting job of this kind.
LEMMA CheckedStep == IInv /\ [Next]_vars => CheckedStands'
<1>. SUFFICES ASSUME IInv, Next, NEW q \in Requests, pc'[q] = "create", KindOf[q] \in Locks,
                     NEW i \in Requests, job'[i] = "pending", KindOf[i] = KindOf[q]
              PROVE  FALSE
  BY DEF CheckedStands, WaitingOf, JobsIn, vars, IInv
<1>. USE DEF IInv, TypeOK
<1>1. HolderInside' /\ HolderInside
  BY HolderStep
<1>2. pc[q] \in {"check", "create"}
  BY DEF Next, Begin, Select, SkipDuplicate, InsertCommit, Lock, Check, CreateJob, Unlock, Launch,
     LaunchFails, Settle, FailureAges, Goto, Locks
<1>3. CASE job[i] = "pending"
  <2>1. pc[q] = "check"
    BY <1>2, <1>3 DEF CheckedStands, WaitingOf, JobsIn
  <2>2. Check(q)
    <3>1. PICK r \in Requests :
            \/ Begin(r) \/ Select(r) \/ SkipDuplicate(r) \/ InsertCommit(r)
            \/ Lock(r) \/ Check(r) \/ CreateJob(r) \/ Unlock(r)
            \/ Launch(r) \/ LaunchFails(r) \/ Settle(r) \/ FailureAges(r)
      BY DEF Next
    <3>2. pc'[q] = pc[q] \/ (r = q /\ ~Settle(r) /\ ~FailureAges(r))
      BY <3>1 DEF Begin, Select, SkipDuplicate, InsertCommit, Lock, Check, CreateJob, Unlock, Launch,
                  LaunchFails, Settle, FailureAges, Goto
    <3>. QED
      BY <2>1, <3>1, <3>2 DEF Begin, Select, SkipDuplicate, InsertCommit, Lock, CreateJob, Unlock,
         Launch,
                  LaunchFails
  <2>3. DedupSeen = {}
    BY <2>1, <2>2 DEF Check, Goto
  <2>. QED
    BY <1>3, <2>3 DEF DedupSeen, JobsIn
<1>4. CASE job[i] # "pending"
  <2>1. pc[i] \in {"insert", "create"} /\ pc'[i] # "create"
    BY <1>4, WaitingStep
  <2>2. pc[i] = "create"
    BY <2>1, <1>1 DEF HolderInside
  <2>3. Inside(q)
    BY <1>2 DEF Inside
  <2>4. i = q
    BY <1>1, <2>2, <2>3, OneCreator
  <2>. QED
    BY <2>1, <2>4
<1>. QED
  BY <1>3, <1>4

\* A row that begins to wait finds no other of its kind waiting.
LEMMA WaitingOnce == IInv /\ [Next]_vars => OneWaitingPerLock'
<1>. SUFFICES ASSUME IInv, Next, NEW i \in Requests, NEW j \in Requests, KindOf[i] = KindOf[j],
                     KindOf[i] \in Locks, job'[i] = "pending", job'[j] = "pending"
              PROVE  i = j
  BY DEF OneWaitingPerLock, WaitingOf, JobsIn, vars, IInv, Locks
<1>. USE DEF IInv
<1>1. ASSUME NEW a \in Requests, NEW b \in Requests, KindOf[a] = KindOf[b], KindOf[a] \in Locks,
             job'[a] = "pending", job[a] # "pending", job[b] = "pending"
      PROVE  FALSE
  <2>1. pc[a] = "create"
    BY <1>1, WaitingStep DEF HolderInside
  <2>. QED
    BY <1>1, <2>1 DEF CheckedStands, WaitingOf, JobsIn
<1>2. CASE job[i] = "pending" /\ job[j] = "pending"
  BY <1>2 DEF OneWaitingPerLock, WaitingOf, JobsIn, Locks
<1>3. CASE job[i] # "pending" /\ job[j] # "pending"
  <2>1. pc[i] = "create" /\ pc[j] = "create"
    BY <1>3, WaitingStep DEF HolderInside
  <2>. QED
    BY <2>1, OneCreator DEF Inside
<1>. QED
  BY <1>1, <1>2, <1>3

\* A request that is to launch has its own row in hand, an acquisition excepted.
LEMMA TargetStep == IInv /\ [Next]_vars => OwnTarget'
<1>. SUFFICES ASSUME IInv, [Next]_vars PROVE OwnTarget'
  OBVIOUS
<1>. USE DEF IInv, OwnTarget, TypeOK
<1>1. ASSUME NEW r \in Requests, Begin(r) PROVE OwnTarget'
  <2>1. pc'[r] = "launch" => KindOf[r] = "acquire"
    BY <1>1 DEF Begin, Goto, Kinds
  <2>2. \A q \in Requests : q # r => pc'[q] = pc[q] /\ target'[q] = target[q]
    BY <1>1 DEF Begin, Goto
  <2>. QED
    BY <1>1, <2>1, <2>2 DEF Begin
<1>2. ASSUME NEW r \in Requests, Select(r) \/ SkipDuplicate(r) \/ Lock(r) \/ Check(r) \/ CreateJob(r)
      PROVE  OwnTarget'
  BY <1>2 DEF Select, SkipDuplicate, Lock, Check, CreateJob, Create, Goto
<1>3. ASSUME NEW r \in Requests, InsertCommit(r) PROVE OwnTarget'
  BY <1>3 DEF InsertCommit, Create, Goto
<1>4. ASSUME NEW r \in Requests, Unlock(r) PROVE OwnTarget'
  BY <1>4 DEF Unlock, Launches, Goto
<1>5. ASSUME NEW r \in Requests, Launch(r) \/ LaunchFails(r) PROVE OwnTarget'
  BY <1>5 DEF Launch, LaunchFails, Goto
<1>6. ASSUME NEW i \in Requests, Settle(i) \/ FailureAges(i) PROVE OwnTarget'
  BY <1>6 DEF Settle, FailureAges
<1>7. CASE UNCHANGED vars
  BY <1>7 DEF vars
<1>. QED
  BY <1>1, <1>2, <1>3, <1>4, <1>5, <1>6, <1>7 DEF Next

\* Rows come into being once and stay.
LEMMA ExistingStep == IInv /\ [Next]_vars => Existing'
<1>. SUFFICES ASSUME IInv, [Next]_vars PROVE Existing'
  OBVIOUS
<1>. USE DEF IInv, TypeOK, Existing
<1>1. ASSUME NEW r \in Requests, Begin(r) \/ Check(r) PROVE Existing'
  <2>1. /\ pc[r] \in {"idle", "check"} /\ job' = job
        /\ \A q \in Requests : q # r => pc'[q] = pc[q] /\ target'[q] = target[q]
    BY <1>1 DEF Begin, Check, Goto
  <2>2. pc'[r] \in {"unlock", "launch"} => target'[r] \in DedupSeen
    BY <1>1, KindAssumption DEF Begin, Check, Goto, Kinds
  <2>3. \A i \in DedupSeen : i \in Requests /\ job[i] = "pending"
    BY DEF DedupSeen, JobsIn
  <2>. QED
    BY <2>1, <2>2, <2>3
<1>2. ASSUME NEW r \in Requests, Select(r) \/ SkipDuplicate(r) \/ Lock(r) \/ Unlock(r) PROVE Existing'
  <2>1. /\ job' = job /\ target' = target
        /\ \A q \in Requests : q # r => pc'[q] = pc[q]
        /\ pc'[r] \in {"insert", "skip", "done", "check", "launch"}
        /\ pc'[r] = "launch" => pc[r] = "unlock"
        /\ pc'[r] \in {"insert", "check"} => pc[r] \in {"select", "lock"}
    BY <1>2 DEF Select, SkipDuplicate, Lock, Unlock, Goto
  <2>. QED
    BY <2>1
<1>3. ASSUME NEW r \in Requests, InsertCommit(r) \/ CreateJob(r) PROVE Existing'
  <2>1. /\ job' = [job EXCEPT ![r] = "pending"] /\ target' = [target EXCEPT ![r] = r]
        /\ \A q \in Requests : q # r => pc'[q] = pc[q]
        /\ pc'[r] \in {"launch", "unlock", "done"}
    BY <1>3 DEF InsertCommit, CreateJob, Create, Goto
  <2>. QED
    BY <2>1
<1>4. ASSUME NEW r \in Requests, Launch(r) \/ LaunchFails(r) PROVE Existing'
  <2>1. /\ pc[r] = "launch" /\ pc' = [pc EXCEPT ![r] = "done"] /\ target' = target
        /\ \A i \in Requests : i # target[r] => job'[i] = job[i]
        /\ job'[target[r]] # "none" /\ target[r] \in Requests /\ job[target[r]] # "none"
    BY <1>4 DEF Launch, LaunchFails, Goto
  <2>. QED
    BY <2>1
<1>5. ASSUME NEW i \in Requests, Settle(i) \/ FailureAges(i) PROVE Existing'
  BY <1>5 DEF Settle, FailureAges
<1>6. CASE UNCHANGED vars
  BY <1>6 DEF vars
<1>. QED
  BY <1>1, <1>2, <1>3, <1>4, <1>5, <1>6 DEF Next

\* Whoever sets out leaves a trace, and no row moves on without one.
LEMMA LaunchedStep == IInv /\ [Next]_vars => Launched'
<1>. SUFFICES ASSUME IInv, [Next]_vars PROVE Launched'
  OBVIOUS
<1>. USE DEF IInv, TypeOK, Launched, Finished
<1>1. ASSUME NEW r \in Requests, pc[r] # "done", \A q \in Requests : q # r => pc'[q] = pc[q],
             launches' = launches, \A i \in Requests : job'[i] = job[i] \/ job'[i] = "pending"
      PROVE  Launched'
  BY <1>1
<1>2. ASSUME NEW r \in Requests,
             Begin(r) \/ Select(r) \/ SkipDuplicate(r) \/ InsertCommit(r)
                 \/ Lock(r) \/ Check(r) \/ CreateJob(r) \/ Unlock(r)
      PROVE  Launched'
  <2>1. /\ pc[r] # "done" /\ launches' = launches
        /\ \A q \in Requests : q # r => pc'[q] = pc[q]
    BY <1>2 DEF Begin, Select, SkipDuplicate, InsertCommit, Lock, Check, CreateJob, Unlock, Create, Goto
  <2>2. \A i \in Requests : job'[i] = job[i] \/ job'[i] = "pending"
    BY <1>2 DEF Begin, Select, SkipDuplicate, InsertCommit, Lock, Check, CreateJob, Unlock, Create
  <2>. QED
    BY <1>1, <2>1, <2>2
<1>3. ASSUME NEW r \in Requests, Launch(r) \/ LaunchFails(r) PROVE Launched'
  <2>1. /\ pc[r] = "launch" /\ pc' = [pc EXCEPT ![r] = "done"]
        /\ launches' = [launches EXCEPT ![target[r]] = @ \cup {r}]
        /\ \A i \in Requests : i # target[r] => job'[i] = job[i]
    BY <1>3 DEF Launch, LaunchFails, Goto
  <2>2. target[r] = r \/ KindOf[r] = "acquire"
    BY <2>1 DEF OwnTarget
  <2>. QED
    BY <2>1, <2>2
<1>4. ASSUME NEW i \in Requests, Settle(i) \/ FailureAges(i) PROVE Launched'
  BY <1>4 DEF Settle, FailureAges
<1>5. CASE UNCHANGED vars
  BY <1>5 DEF vars
<1>. QED
  BY <1>2, <1>3, <1>4, <1>5 DEF Next

-----------------------------------------------------------------------------
\* The inductive invariant: what the locks protect between the check and the insert.
THEOREM Invariance == Spec => []IInv
<1>1. Init => IInv
  BY DEF Init, IInv, TypeOK, HolderInside, Inside, CheckedStands, WaitingOf, JobsIn, OneWaitingPerLock,
         OwnTarget, Launched, Existing, Finished, Active
<1>2. IInv /\ [Next]_vars => IInv'
  BY TypingStep, HolderStep, CheckedStep, WaitingOnce, TargetStep, LaunchedStep, ExistingStep DEF IInv
<1>. QED
  BY <1>1, <1>2, PTL DEF Spec

\* Rows, requests and locks stay well formed.
THEOREM Typing == Spec => []TypeOK
BY Invariance, PTL DEF IInv

\* Of the jobs created under one lock at most one waits for its download to start.
THEOREM WaitingSafe == Spec => []OneWaitingPerLock
BY Invariance, PTL DEF IInv

\* Who overwrites the end of a download, or whoever set out before it, is an acquisition
\* that took over another request's row.
LEMMA FinishedStep ==
  IInv /\ [Next]_vars =>
    [\A i \in Requests :
        job[i] \in Finished /\ job'[i] \notin {job[i], "closed"} =>
            \E r \in launches'[i] \ {i} : KindOf[r] = "acquire" /\ launches'[i] # {r}]_vars
<1>. SUFFICES ASSUME IInv, Next, NEW i \in Requests, job[i] \in Finished, job'[i] \notin {job[i], "closed"}
              PROVE  \E r \in launches'[i] \ {i} : KindOf[r] = "acquire" /\ launches'[i] # {r}
  OBVIOUS
<1>1. PICK r \in Requests : Launch(r) \/ LaunchFails(r)
  <2>. SUFFICES ASSUME NEW r \in Requests, ~Launch(r), ~LaunchFails(r) PROVE
           ~(Begin(r) \/ Select(r) \/ SkipDuplicate(r) \/ InsertCommit(r)
             \/ Lock(r) \/ Check(r) \/ CreateJob(r) \/ Unlock(r) \/ Settle(r) \/ FailureAges(r))
    BY DEF Next
  <2>1. ~(Begin(r) \/ Select(r) \/ SkipDuplicate(r) \/ Lock(r) \/ Check(r) \/ Unlock(r))
    BY DEF Begin, Select, SkipDuplicate, Lock, Check, Unlock
  <2>2. ~(Settle(r) \/ FailureAges(r))
    BY DEF Settle, FailureAges, IInv, TypeOK, Finished
  <2>3. ~(InsertCommit(r) \/ CreateJob(r))
    <3>1. (InsertCommit(r) \/ CreateJob(r)) => job[r] = "none" /\ job' = [job EXCEPT ![r] = "pending"]
      BY DEF IInv, Existing, InsertCommit, CreateJob, Create
    <3>. QED
      BY <3>1 DEF IInv, TypeOK, Finished
  <2>. QED
    BY <2>1, <2>2, <2>3
<1>2. /\ pc[r] = "launch" /\ i = target[r]
      /\ launches'[i] = launches[i] \cup {r}
      /\ r = i \/ KindOf[r] = "acquire"
  BY <1>1 DEF Launch, LaunchFails, IInv, OwnTarget, TypeOK
<1>3. PICK q \in launches[i] : TRUE
  BY DEF IInv, Launched
<1>4. q # r /\ (q = i \/ KindOf[q] = "acquire")
  BY <1>2, <1>3 DEF IInv, Launched
<1>. QED
  BY <1>2, <1>3, <1>4

\* The end of a download is overwritten only beside an acquisition that took its row over.
THEOREM FinishedSafe == Spec => FinishedStays
BY Invariance, FinishedStep, PTL DEF Spec, FinishedStays

-----------------------------------------------------------------------------
(* The lock of utils/distributedLock.ts.                                    *)

USE TimeAssumption, LossAssumption

\* The key and the sections stay well formed.
THEOREM LockTyping == LockSpec => []LockTypeOK
<1>. USE DEF LockTypeOK, Busy
<1>1. LockInit => LockTypeOK
  BY DEF LockInit
<1>2. LockTypeOK /\ [LockNext]_lockVars => LockTypeOK'
  <2>. SUFFICES ASSUME LockTypeOK, [LockNext]_lockVars PROVE LockTypeOK'
    OBVIOUS
  <2>0. \A s \in Sections : LockValue(s) \in LockValues
    BY SectionAssumption DEF LockValue, LockValues
  <2>1. ASSUME NEW s \in Sections, Acquire(s) PROVE LockTypeOK'
    BY <2>0, <2>1 DEF Acquire, SetKey
  <2>2. ASSUME NEW s \in Sections, AcquireReplyLost(s) PROVE LockTypeOK'
    BY <2>0, <2>2 DEF AcquireReplyLost, SetKey
  <2>3. ASSUME NEW s \in Sections, CallbackSettles(s) PROVE LockTypeOK'
    BY <2>3 DEF CallbackSettles
  <2>4. ASSUME NEW s \in Sections, Release(s) PROVE LockTypeOK'
    BY <2>4 DEF Release, CompareAndDel, DelKey
  <2>5. ASSUME NEW s \in Sections, ReleaseFails(s) PROVE LockTypeOK'
    BY <2>5 DEF ReleaseFails
  <2>6. CASE Tick
    BY <2>6 DEF Tick, Expire, DelKey
  <2>7. ASSUME NEW p \in Processes, Death(p) PROVE LockTypeOK'
    BY <2>7 DEF Death
  <2>8. CASE UNCHANGED lockVars
    BY <2>8 DEF lockVars
  <2>. QED
    BY <2>1, <2>2, <2>3, <2>4, <2>5, <2>6, <2>7, <2>8 DEF LockNext, Section
<1>. QED
  BY <1>1, <1>2, PTL DEF LockSpec

-----------------------------------------------------------------------------
\* A section within its TTL that nobody robbed owns the key, and the key outlives what
\* the section has left.
KeyCoversSection ==
    \A s \in Busy : Protected(s) =>
        holder = s /\ value = LockValue(s) /\ left + held[s] = TTL

LEMMA KeyCoversSectionInvariant == LockSpec => []KeyCoversSection
<1>. DEFINE Owns(s) == holder = s /\ value = LockValue(s) /\ left + held[s] = TTL
<1>1. LockInit => KeyCoversSection
  BY DEF LockInit, KeyCoversSection, Busy
<1>2. LockTypeOK /\ KeyCoversSection /\ [LockNext]_lockVars => KeyCoversSection'
  <2>. SUFFICES ASSUME LockTypeOK, KeyCoversSection, [LockNext]_lockVars,
                       NEW t \in Busy', Protected(t)'
                PROVE  Owns(t)'
    BY DEF KeyCoversSection
  <2>0. /\ \A s \in Busy : Protected(s) => Owns(s)
        /\ held'[t] < TTL /\ t \notin robbed'
        /\ t \in Sections /\ section'[t] # "idle" /\ t # NoOne
        /\ section \in [Sections -> {"idle", "inside", "releasing"}]
        /\ held \in [Sections -> 0..MaxHold]
        /\ left \in 0..TTL
    BY SectionAssumption DEF KeyCoversSection, Protected, Busy, LockTypeOK
  <2>1. ASSUME NEW s \in Sections, Acquire(s) PROVE Owns(t)'
    <3>1. CASE t = s
      BY <2>0, <2>1, <3>1 DEF Acquire, SetKey, LockValue
    <3>2. CASE t # s
      <4>1. t \in Busy /\ Protected(t)
        BY <2>0, <2>1, <3>2 DEF Acquire, Busy, Protected
      <4>. QED
        BY <2>0, <2>1, <4>1 DEF Acquire, SetKey, KeyFree
    <3>. QED
      BY <3>1, <3>2
  <2>2. ASSUME NEW s \in Sections, AcquireReplyLost(s) PROVE Owns(t)'
    <3>1. t \in Busy /\ Protected(t)
      BY <2>0, <2>2 DEF AcquireReplyLost, Busy, Protected
    <3>. QED
      BY <2>0, <2>2, <3>1 DEF AcquireReplyLost, SetKey, KeyFree
  <2>3. ASSUME NEW s \in Sections, CallbackSettles(s) PROVE Owns(t)'
    <3>1. t \in Busy /\ Protected(t)
      BY <2>0, <2>3 DEF CallbackSettles, Busy, Protected
    <3>. QED
      BY <2>0, <2>3, <3>1 DEF CallbackSettles, LockValue
  <2>4. ASSUME NEW s \in Sections, Release(s) PROVE Owns(t)'
    <3>1. t \in Busy /\ s # t /\ held'[t] = held[t]
      BY <2>0, <2>4 DEF Release, Busy
    <3>2. robbed' = (IF holder' = holder THEN robbed ELSE robbed \cup ({holder} \cap Busy)) \ {s}
      BY <2>4 DEF Release
    <3>3. t \notin robbed
      BY <2>0, <3>1, <3>2
    <3>4. Owns(t)
      BY <2>0, <3>1, <3>3 DEF Protected
    <3>5. holder' = holder
      BY <2>0, <3>1, <3>2, <3>4
    <3>6. UNCHANGED <<holder, value, left, life>>
      BY <2>0, <2>4, <3>4, <3>5 DEF Release, CompareAndDel, DelKey
    <3>. QED
      BY <2>0, <3>1, <3>4, <3>6 DEF LockValue
  <2>5. ASSUME NEW s \in Sections, ReleaseFails(s) PROVE Owns(t)'
    <3>1. t \in Busy /\ Protected(t)
      BY <2>0, <2>5 DEF ReleaseFails, Busy, Protected
    <3>. QED
      BY <2>0, <2>5, <3>1 DEF ReleaseFails, LockValue
  <2>6. CASE Tick
    <3>1. t \in Busy /\ held'[t] = held[t] + 1 /\ robbed' = robbed
      BY <2>0, <2>6 DEF Tick, Busy
    <3>2. held[t] < TTL /\ Owns(t) /\ left > 1
      BY <2>0, <3>1 DEF Protected
    <3>3. left' = left - 1 /\ UNCHANGED <<holder, value, life>>
      BY <2>6, <3>2 DEF Tick, Expire
    <3>. QED
      BY <2>0, <3>1, <3>2, <3>3 DEF LockValue
  <2>7. ASSUME NEW p \in Processes, Death(p) PROVE Owns(t)'
    <3>1. ProcessOf[t] # p /\ t \in Busy /\ Protected(t)
      BY <2>0, <2>7 DEF Death, Busy, Protected
    <3>2. LockValue(t)' = LockValue(t)
      BY <2>7, <3>1, SectionAssumption DEF Death, LockValue, LockTypeOK
    <3>. QED
      BY <2>0, <2>7, <3>1, <3>2 DEF Death
  <2>8. CASE UNCHANGED lockVars
    BY <2>0, <2>8 DEF lockVars, Busy, Protected, LockValue
  <2>. QED
    BY <2>1, <2>2, <2>3, <2>4, <2>5, <2>6, <2>7, <2>8 DEF LockNext, Section
<1>. QED
  BY <1>1, <1>2, LockTyping, PTL DEF LockSpec

\* Two callbacks overlap only when one of them has outlived its TTL or been robbed.
THEOREM ExclusionSafe == LockSpec => []MutualExclusion
<1>1. KeyCoversSection => MutualExclusion
  BY DEF KeyCoversSection, MutualExclusion
<1>. QED
  BY <1>1, KeyCoversSectionInvariant, PTL

\* Where no callback outlives its TTL nobody is ever robbed, so that no two callbacks
\* overlap at all, whatever replies are lost and however often a process restarts.
THEOREM ShortCallbacksExclude ==
  ASSUME MaxHold < TTL
  PROVE  LockSpec => [](\A s, t \in Busy : s = t)
<1>. DEFINE Safe == robbed = {}
<1>1. LockInit => Safe
  BY DEF LockInit
<1>2. LockTypeOK /\ KeyCoversSection /\ Safe /\ [LockNext]_lockVars => Safe'
  <2>. SUFFICES ASSUME LockTypeOK, KeyCoversSection, Safe, [LockNext]_lockVars PROVE Safe'
    OBVIOUS
  <2>1. ASSUME NEW s \in Sections, Release(s) PROVE Safe'
    <3>1. s \in Busy /\ held[s] \in 0..MaxHold
      BY <2>1 DEF Release, Busy, LockTypeOK
    <3>2. holder = s
      BY <3>1 DEF KeyCoversSection, Protected
    <3>. QED
      BY <2>1, <3>2 DEF Release
  <2>. QED
    BY <2>1 DEF LockNext, Section, Acquire, AcquireReplyLost, CallbackSettles, ReleaseFails, Tick,
       Death, lockVars
<1>3. LockTypeOK /\ KeyCoversSection /\ Safe => \A s, t \in Busy : s = t
  <2>. SUFFICES ASSUME LockTypeOK, KeyCoversSection, Safe, NEW s \in Busy, NEW t \in Busy
                PROVE  s = t
    OBVIOUS
  <2>1. held[s] \in 0..MaxHold /\ held[t] \in 0..MaxHold
    BY DEF LockTypeOK, Busy
  <2>. QED
    BY <2>1 DEF KeyCoversSection, Protected
<1>. QED
  BY <1>1, <1>2, <1>3, KeyCoversSectionInvariant, LockTyping, PTL DEF LockSpec

-----------------------------------------------------------------------------
\* The key names the process whose section created it.
KeyNamesProcess ==
    holder # NoOne => holder \in Sections /\ value.process = ProcessOf[holder]

LEMMA KeyNamesProcessInvariant == LockSpec => []KeyNamesProcess
<1>1. LockInit => KeyNamesProcess
  BY DEF LockInit, KeyNamesProcess
<1>2. KeyNamesProcess /\ [LockNext]_lockVars => KeyNamesProcess'
  <2>. SUFFICES ASSUME KeyNamesProcess, [LockNext]_lockVars PROVE KeyNamesProcess'
    OBVIOUS
  <2>1. CASE UNCHANGED <<holder, value>>
    BY <2>1 DEF KeyNamesProcess
  <2>2. CASE DelKey
    BY <2>2 DEF DelKey, KeyNamesProcess
  <2>3. ASSUME NEW s \in Sections, SetKey(s) PROVE KeyNamesProcess'
    BY <2>3 DEF SetKey, LockValue, KeyNamesProcess
  <2>. QED
    BY <2>1, <2>2, <2>3 DEF LockNext, Section, Acquire, AcquireReplyLost, CallbackSettles, Release,
       ReleaseFails, CompareAndDel, Tick, Expire, Death, lockVars
<1>. QED
  BY <1>1, <1>2, PTL DEF LockSpec

\* Whatever the number of sections of one process and however long its callbacks run, a
\* release spares the keys of other processes, and those of its own process too as long as
\* its section is within its TTL and has not been robbed.
THEOREM ReleaseSafe == LockSpec => ReleasesOwnKey
<1>1. LockTypeOK /\ KeyCoversSection /\ KeyNamesProcess /\ [LockNext]_lockVars =>
        [\A s \in Sections :
            section[s] = "releasing" /\ section'[s] = "idle" /\ life' = life
                /\ holder # NoOne /\ holder' = NoOne =>
            holder = s \/ (ProcessOf[holder] = ProcessOf[s] /\ ~Protected(s))]_lockVars
  <2>. SUFFICES ASSUME LockTypeOK, KeyCoversSection, KeyNamesProcess, LockNext, NEW s \in Sections,
                       section[s] = "releasing", section'[s] = "idle", life' = life,
                       holder # NoOne, holder' = NoOne
                PROVE  holder = s \/ (ProcessOf[holder] = ProcessOf[s] /\ ~Protected(s))
    OBVIOUS
  <2>0. section \in [Sections -> {"idle", "inside", "releasing"}] /\ life \in [Processes -> Nat]
    BY DEF LockTypeOK
  <2>1. Release(s)
    <3>1. ~Tick
      BY <2>0 DEF Tick
    <3>2. ASSUME NEW p \in Processes, Death(p) PROVE FALSE
      BY <2>0, <3>2 DEF Death
    <3>3. ASSUME NEW t \in Sections, Acquire(t) \/ AcquireReplyLost(t) \/ CallbackSettles(t) \/ ReleaseFails(t)
          PROVE  FALSE
      BY <2>0, <3>3, SectionAssumption DEF Acquire, AcquireReplyLost, SetKey, CallbackSettles,
         ReleaseFails
    <3>4. ASSUME NEW t \in Sections, Release(t), t # s PROVE FALSE
      BY <2>0, <3>4 DEF Release
    <3>. QED
      BY <3>1, <3>2, <3>3, <3>4 DEF LockNext, Section
  <2>2. value = LockValue(s)
    BY <2>1 DEF Release, CompareAndDel
  <2>3. ProcessOf[holder] = ProcessOf[s]
    BY <2>2 DEF KeyNamesProcess, LockValue
  <2>4. Protected(s) => holder = s
    BY DEF KeyCoversSection, Busy
  <2>. QED
    BY <2>3, <2>4
<1>. QED
  BY <1>1, KeyCoversSectionInvariant, KeyNamesProcessInvariant, LockTyping, PTL
     DEF LockSpec, ReleasesOwnKey

-----------------------------------------------------------------------------
(* The event store of services/webhookEventStore.ts.                        *)

USE EventAssumption, TaskAssumption, BoundAssumption

Handlers == [Tasks -> {"idle", "done"} \cup Steps]

\* The event a task works on is an event.
LEMMA CurrentIsEvent ==
  ASSUME EventTypeOK, NEW t \in Tasks, handler[t] \in Steps
  PROVE  Current(t) \in Events
BY DEF Current, EventTypeOK, Tasks, Steps

LEMMA GotoKeepsPC ==
  ASSUME NEW t \in Tasks, NEW l \in {"idle", "done"} \cup Steps, handler \in Handlers, GoOn(t, l)
  PROVE  handler' \in Handlers /\ handler'[t] = l /\ \A u \in Tasks : u # t => handler'[u] = handler[u]
BY DEF GoOn, Handlers

\* What a task does after its event leaves the loop's variables well formed.
LEMMA NextEventTyping ==
  ASSUME EventTypeOK, NEW t \in Tasks, handler[t] \in Steps, NextEvent(t) \/ (t = Reconciler /\ Rest)
  PROVE  /\ handler' \in Handlers
         /\ at' \in Events \cup {NoEvent} /\ todo' \subseteq Events
         /\ handler'[Reconciler] # "idle" => at' \in Events
         /\ handler'[t] \in {"idle", "done", "apply"}
         /\ t # Reconciler => handler'[t] = "done" /\ UNCHANGED loopVars
         /\ \A u \in Tasks : u # t => handler'[u] = handler[u]
<1>. USE DEF NextEvent, Rest, GoOn, Handlers, EventTypeOK, Steps, Tasks, loopVars
<1>1. CASE t \in Deliveries /\ GoOn(t, "done") /\ UNCHANGED loopVars
  BY <1>1
<1>2. CASE t = Reconciler /\ Rest
  BY <1>2
<1>3. CASE t = Reconciler /\ (\E e \in todo : at' = e /\ todo' = todo \ {e}) /\ GoOn(t, "apply")
  BY <1>3
<1>. QED
  BY <1>1, <1>2, <1>3

\* Rows, effects and tasks stay well formed.
THEOREM EventTyping == EventSpec => []EventTypeOK
<1>1. EventInit => EventTypeOK
  BY DEF EventInit, EventTypeOK, Tasks
<1>2. EventTypeOK /\ [EventNext]_eventVars => EventTypeOK'
  <2>. SUFFICES ASSUME EventTypeOK, [EventNext]_eventVars PROVE EventTypeOK'
    OBVIOUS
  <2>0. handler \in Handlers /\ Reconciler \in Tasks /\ Deliveries \subseteq Tasks
    BY DEF EventTypeOK, Handlers, Tasks
  <2>1. ASSUME NEW d \in Deliveries, Deliver(d) PROVE EventTypeOK'
    <3>1. handler' \in Handlers /\ handler'[Reconciler] = handler[Reconciler]
      BY <2>0, <2>1, GotoKeepsPC DEF Deliver, Steps
    <3>. QED
      BY <2>1, <3>1 DEF Deliver, StoreEvent, EventTypeOK, Handlers, effectVars, loopVars, boundVars
  <2>2. ASSUME NEW d \in Deliveries, DeliverFails(d) PROVE EventTypeOK'
    <3>1. handler' \in Handlers /\ handler'[Reconciler] = handler[Reconciler]
      BY <2>0, <2>2, GotoKeepsPC DEF DeliverFails
    <3>. QED
      BY <2>2, <3>1 DEF DeliverFails, EventTypeOK, Handlers, rowVars, effectVars, loopVars
  <2>3. ASSUME NEW t \in Tasks, Apply(t) PROVE EventTypeOK'
    <3>1. handler' \in Handlers /\ (handler'[Reconciler] # "idle" => handler[Reconciler] # "idle")
      BY <2>0, <2>3, GotoKeepsPC DEF Apply, AfterJob, Steps
    <3>. QED
      BY <2>3, <3>1 DEF Apply, EventTypeOK, Handlers, rowVars, loopVars, boundVars
  <2>4. ASSUME NEW t \in Tasks, FollowUp(t) PROVE EventTypeOK'
    <3>1. handler' \in Handlers /\ (handler'[Reconciler] # "idle" => handler[Reconciler] # "idle")
      BY <2>0, <2>4, GotoKeepsPC DEF FollowUp, AfterJob, Steps
    <3>2. Current(t) \in Events
      BY <2>4, CurrentIsEvent DEF FollowUp, Steps
    <3>. QED
      BY <2>4, <3>1, <3>2 DEF FollowUp, EventTypeOK, Handlers, rowVars, loopVars, boundVars
  <2>5. ASSUME NEW t \in Tasks, QueueScan(t) PROVE EventTypeOK'
    <3>1. handler' \in Handlers /\ (handler'[Reconciler] # "idle" => handler[Reconciler] # "idle")
      BY <2>0, <2>5, GotoKeepsPC DEF QueueScan, Steps
    <3>2. Current(t) \in Events
      BY <2>5, CurrentIsEvent DEF QueueScan, Steps
    <3>. QED
      BY <2>5, <3>1, <3>2 DEF QueueScan, EventTypeOK, Handlers, rowVars, loopVars, boundVars
  <2>6. ASSUME NEW t \in Tasks, MarkProcessed(t) PROVE EventTypeOK'
    BY <2>6, NextEventTyping DEF MarkProcessed, EventTypeOK, Handlers, effectVars, boundVars, Steps
  <2>7. ASSUME NEW t \in Tasks, Throws(t) PROVE EventTypeOK'
    <3>1. handler' \in Handlers /\ (handler'[Reconciler] # "idle" => handler[Reconciler] # "idle")
      BY <2>0, <2>7, GotoKeepsPC DEF Throws, Steps
    <3>. QED
      BY <2>7, <3>1 DEF Throws, EventTypeOK, Handlers, rowVars, effectVars, loopVars
  <2>8. ASSUME NEW t \in Tasks, MarkFailed(t) PROVE EventTypeOK'
    BY <2>8, NextEventTyping, CurrentIsEvent DEF MarkFailed, KeepUnprocessed, EventTypeOK, Handlers,
       effectVars, boundVars, Steps
  <2>9. ASSUME NEW t \in Tasks, MarkFailedThrows(t) PROVE EventTypeOK'
    <3>1. NextEvent(t) \/ (t = Reconciler /\ Rest)
      BY <2>9 DEF MarkFailedThrows, NextEvent, Tasks
    <3>. QED
      BY <2>9, <3>1, NextEventTyping DEF MarkFailedThrows, EventTypeOK, Handlers, rowVars, effectVars,
         Steps
  <2>10. CASE Reconcile
    <3>1. handler' \in Handlers
      BY <2>0, <2>10, GotoKeepsPC DEF Reconcile, Steps
    <3>. QED
      BY <2>10, <3>1 DEF Reconcile, UnprocessedEvents, EventTypeOK, Handlers, rowVars, effectVars,
         boundVars
  <2>11. CASE Crash
    BY <2>0, <2>11 DEF Crash, EventTypeOK, Handlers, rowVars, effectVars
  <2>12. CASE UNCHANGED eventVars
    BY <2>12 DEF eventVars, EventTypeOK, rowVars, effectVars, loopVars, boundVars
  <2>. QED
    BY <2>1, <2>2, <2>3, <2>4, <2>5, <2>6, <2>7, <2>8, <2>9, <2>10, <2>11, <2>12 DEF EventNext, Step
<1>. QED
  BY <1>1, <1>2, PTL DEF EventSpec

-----------------------------------------------------------------------------
\* The stretch of a task after its transaction.
Later == {"follow", "scan", "mark"}

\* Nothing happens to an event before its transaction, which one task at most has found
\* the job active in.
TransactionFirst ==
    /\ \A e \in Events : eventJob[e] = "active" => ~processed[e] /\ followed[e] = 0
    /\ \A t \in Tasks : handler[t] \in Later => eventJob[Current(t)] = "completed"
OneFollowUp ==
    /\ \A e \in Events : followed[e] <= 1
    /\ \A t \in Tasks : handler[t] = "follow" => followed[Current(t)] = 0
    /\ \A t, u \in Tasks :
          handler[t] = "follow" /\ handler[u] = "follow" /\ Current(t) = Current(u) => t = u
EffectOrder == TransactionFirst /\ OneFollowUp

\* Steps that bring no task past a transaction and leave the effects alone.
LEMMA QuietStep ==
  ASSUME EffectOrder, UNCHANGED <<eventJob, followed>>,
         \A e \in Events : processed'[e] => processed[e] \/ eventJob[e] = "completed",
         \A u \in Tasks : handler'[u] \in Later => handler'[u] = handler[u] /\ Current(u)' = Current(u),
         EventTypeOK
  PROVE  EffectOrder'
BY DEF EffectOrder, TransactionFirst, OneFollowUp, Later, EventTypeOK

\* The transaction, and the two steps that may follow it.
LEMMA TransactionStep ==
  ASSUME EventTypeOK, EffectOrder, NEW t \in Tasks, Apply(t)
  PROVE  EffectOrder'
<1>0. /\ Current(t) \in Events /\ eventJob' = [eventJob EXCEPT ![Current(t)] = "completed"]
      /\ UNCHANGED <<processed, followed, at>> /\ handler \in Handlers
      /\ \A u \in Tasks : Current(u)' = Current(u)
  BY CurrentIsEvent DEF Apply, Steps, rowVars, loopVars, Current, EventTypeOK, Handlers
<1>1. /\ \A u \in Tasks : u # t => handler'[u] = handler[u]
      /\ handler'[t] = "follow" => eventJob[Current(t)] = "active"
  BY <1>0 DEF Apply, GoOn, Handlers, AfterJob, FoundActive
<1>2. \A e \in Events : eventJob[e] = "completed" => eventJob'[e] = "completed"
  BY <1>0 DEF EventTypeOK
<1>3. eventJob'[Current(t)] = "completed"
  BY <1>0 DEF EventTypeOK
<1>4. TransactionFirst'
  <2>1. \A u \in Tasks : handler'[u] \in Later => eventJob'[Current(u)] = "completed"
    <3>. SUFFICES ASSUME NEW u \in Tasks, u # t, handler[u] \in Later
                  PROVE  eventJob'[Current(u)] = "completed"
      BY <1>1, <1>3
    <3>. QED
      BY <1>2, CurrentIsEvent DEF EffectOrder, TransactionFirst, Later, Steps
  <2>. QED
    BY <1>0, <2>1 DEF EffectOrder, TransactionFirst, EventTypeOK
<1>5. OneFollowUp'
  <2>1. ASSUME handler'[t] = "follow" PROVE followed[Current(t)] = 0
    BY <1>0, <1>1, <2>1 DEF EffectOrder, TransactionFirst
  <2>2. ASSUME handler'[t] = "follow", NEW u \in Tasks, u # t, handler'[u] = "follow"
        PROVE  Current(u) # Current(t)
    BY <1>1, <2>2 DEF EffectOrder, TransactionFirst, Later
  <2>. QED
    BY <1>0, <1>1, <2>1, <2>2 DEF EffectOrder, OneFollowUp
<1>. QED
  BY <1>4, <1>5 DEF EffectOrder

LEMMA FollowUpStep ==
  ASSUME EventTypeOK, EffectOrder, NEW t \in Tasks, FollowUp(t)
  PROVE  EffectOrder'
<1>0. /\ Current(t) \in Events /\ followed' = [followed EXCEPT ![Current(t)] = @ + 1]
      /\ UNCHANGED <<processed, eventJob, at>> /\ handler \in Handlers /\ handler[t] = "follow"
      /\ \A u \in Tasks : Current(u)' = Current(u)
      /\ handler'[t] \in {"scan", "mark"} /\ \A u \in Tasks : u # t => handler'[u] = handler[u]
  BY CurrentIsEvent DEF FollowUp, Steps, rowVars, loopVars, Current, EventTypeOK, Handlers, GoOn,
     AfterJob
<1>1. eventJob[Current(t)] = "completed" /\ followed[Current(t)] = 0
  BY <1>0 DEF EffectOrder, TransactionFirst, OneFollowUp, Later
<1>2. TransactionFirst'
  <2>1. \A e \in Events : eventJob[e] = "active" => followed'[e] = followed[e]
    BY <1>0, <1>1 DEF EventTypeOK
  <2>. QED
    BY <1>0, <1>1, <2>1 DEF EffectOrder, TransactionFirst, Later
<1>3. OneFollowUp'
  <2>1. followed'[Current(t)] = 1 /\ \A e \in Events : e # Current(t) => followed'[e] = followed[e]
    BY <1>0, <1>1 DEF EventTypeOK
  <2>2. ASSUME NEW u \in Tasks, handler'[u] = "follow" PROVE followed'[Current(u)] = 0
    <3>1. u # t /\ handler[u] = "follow" /\ Current(u) # Current(t) /\ Current(u) \in Events
      BY <1>0, <2>2, CurrentIsEvent DEF EffectOrder, OneFollowUp, Steps
    <3>. QED
      BY <2>1, <3>1 DEF EffectOrder, OneFollowUp
  <2>. QED
    BY <1>0, <2>1, <2>2 DEF EffectOrder, OneFollowUp
<1>. QED
  BY <1>2, <1>3 DEF EffectOrder

LEMMA EffectOrderInvariant == EventSpec => []EffectOrder
<1>1. EventInit => EffectOrder
  BY DEF EventInit, EffectOrder, TransactionFirst, OneFollowUp, Later
<1>2. EventTypeOK /\ EffectOrder /\ [EventNext]_eventVars => EffectOrder'
  <2>. SUFFICES ASSUME EventTypeOK, EffectOrder, [EventNext]_eventVars PROVE EffectOrder'
    OBVIOUS
  <2>0. handler \in Handlers /\ processed \in [Events -> BOOLEAN]
    BY DEF EventTypeOK, Handlers
  <2>1. ASSUME NEW d \in Deliveries, Deliver(d) \/ DeliverFails(d) PROVE EffectOrder'
    <3>1. \A u \in Tasks : handler'[u] \in Later => handler'[u] = handler[u] /\ Current(u)' = Current(u)
      BY <2>0, <2>1 DEF Deliver, DeliverFails, GoOn, Handlers, Later, Current, loopVars
    <3>. QED
      BY <2>1, <3>1, QuietStep DEF Deliver, DeliverFails, effectVars, rowVars
  <2>2. ASSUME NEW t \in Tasks, Apply(t) PROVE EffectOrder'
    BY <2>2, TransactionStep
  <2>3. ASSUME NEW t \in Tasks, FollowUp(t) PROVE EffectOrder'
    BY <2>3, FollowUpStep
  <2>4. ASSUME NEW t \in Tasks, QueueScan(t) PROVE EffectOrder'
    <3>1. handler[t] = "scan" /\ handler'[t] = "mark" /\ (\A u \in Tasks : u # t => handler'[u] = handler[u])
          /\ UNCHANGED <<eventJob, followed, processed, at>> /\ \A u \in Tasks : Current(u)' = Current(u)
      BY <2>0, <2>4 DEF QueueScan, GoOn, Handlers, rowVars, loopVars, Current
    <3>. QED
      BY <3>1 DEF EffectOrder, TransactionFirst, OneFollowUp, Later
  <2>5. ASSUME NEW t \in Tasks, MarkProcessed(t) \/ MarkFailed(t) \/ MarkFailedThrows(t)
        PROVE  EffectOrder'
    <3>1. handler[t] \in Steps /\ (NextEvent(t) \/ (t = Reconciler /\ Rest)) /\ UNCHANGED <<eventJob, followed>>
      BY <2>5 DEF MarkProcessed, MarkFailed, MarkFailedThrows, NextEvent, Tasks, Steps, effectVars
    <3>2. ASSUME NEW u \in Tasks, handler'[u] \in Later
          PROVE  handler'[u] = handler[u] /\ Current(u)' = Current(u)
      <4>1. u # t
        BY <3>1, <3>2, NextEventTyping DEF Later
      <4>2. handler'[u] = handler[u] /\ (t # Reconciler => UNCHANGED at)
        BY <3>1, <4>1, NextEventTyping DEF loopVars
      <4>. QED
        BY <4>1, <4>2 DEF Current
    <3>3. \A e \in Events : processed'[e] => processed[e] \/ eventJob[e] = "completed"
      <4>1. CASE MarkProcessed(t)
        BY <2>0, <4>1 DEF MarkProcessed, EffectOrder, TransactionFirst, Later
      <4>2. CASE MarkFailed(t) \/ MarkFailedThrows(t)
        BY <4>2 DEF MarkFailed, MarkFailedThrows, KeepUnprocessed, rowVars
      <4>. QED
        BY <2>5, <4>1, <4>2
    <3>. QED
      BY <3>1, <3>2, <3>3, QuietStep
  <2>6. ASSUME NEW t \in Tasks, Throws(t) PROVE EffectOrder'
    <3>1. \A u \in Tasks : handler'[u] \in Later => handler'[u] = handler[u] /\ Current(u)' = Current(u)
      BY <2>0, <2>6 DEF Throws, GoOn, Handlers, Later, Current, loopVars
    <3>. QED
      BY <2>6, <3>1, QuietStep DEF Throws, effectVars, rowVars
  <2>7. CASE Reconcile
    <3>1. \A u \in Tasks : handler'[u] \in Later => handler'[u] = handler[u] /\ Current(u)' = Current(u)
      BY <2>0, <2>7 DEF Reconcile, GoOn, Handlers, Later, Current, Tasks
    <3>. QED
      BY <2>7, <3>1, QuietStep DEF Reconcile, effectVars, rowVars
  <2>8. CASE Crash
    <3>1. \A u \in Tasks : handler'[u] \in Later => handler'[u] = handler[u] /\ Current(u)' = Current(u)
      BY <2>0, <2>8 DEF Crash, Handlers, Later, Steps, Current, Tasks
    <3>. QED
      BY <2>8, <3>1, QuietStep DEF Crash, effectVars, rowVars
  <2>9. CASE UNCHANGED eventVars
    <3>1. \A u \in Tasks : handler'[u] \in Later => handler'[u] = handler[u] /\ Current(u)' = Current(u)
      BY <2>9 DEF eventVars, Current, loopVars
    <3>. QED
      BY <2>9, <3>1, QuietStep DEF eventVars, effectVars, rowVars
  <2>. QED
    BY <2>1, <2>2, <2>3, <2>4, <2>5, <2>6, <2>7, <2>8, <2>9 DEF EventNext, Step
<1>. QED
  BY <1>1, <1>2, EventTyping, PTL DEF EventSpec

\* No event is marked processed before its transaction committed.
THEOREM ProcessedSafe == EventSpec => []ProcessedIsApplied
<1>1. EventTypeOK /\ EffectOrder => ProcessedIsApplied
  BY DEF EventTypeOK, EffectOrder, TransactionFirst, ProcessedIsApplied
<1>. QED
  BY <1>1, EventTyping, EffectOrderInvariant, PTL

\* However often an event is delivered and replayed, its follow-up runs at most once.
THEOREM FollowUpSafe == EventSpec => []FollowedUpOnce
<1>1. EffectOrder => FollowedUpOnce
  BY DEF EffectOrder, OneFollowUp, FollowedUpOnce
<1>. QED
  BY <1>1, EffectOrderInvariant, PTL
=============================================================================
