------------------------ MODULE DiscoveryBatchProofs ------------------------
(***************************************************************************)
(* Proofs about DiscoveryBatch, for every set of jobs and callers, every   *)
(* setting of the timeouts and any number of faults and crashes; then      *)
(* about the update of its row, updateBatchStatus, for any number of       *)
(* calls, any bound on retries and any behaviour of the writers that       *)
(* ignore the version.                                                     *)
(***************************************************************************)
EXTENDS DiscoveryBatch, OptimisticBatchUpdate, FiniteSetTheorems, TLAPS

PC == {"idle", "acquiring", "read", "again", "commit", "enqueue"}

\* Type correctness: every task of the process leaves the batch row, the jobs, the
\* scan queue and its own program counter well formed.
THEOREM Typing == Spec => []TypeOK
<1>. USE DEF Open, Terminal, Active, Cleaner
<1>1. Init => TypeOK
  <2>. SUFFICES ASSUME Init PROVE TypeOK
    OBVIOUS
  <2>1. snap \in [Checkers -> BOOLEAN] /\ pc \in [Checkers -> PC]
    BY DEF Init, PC
  <2>. QED
    BY <2>1 DEF Init, TypeOK, PC
<1>2. TypeOK /\ [Next]_vars => TypeOK'
  <2>. SUFFICES ASSUME TypeOK, [Next]_vars PROVE TypeOK'
    OBVIOUS
  <2>1. ASSUME NEW j \in Jobs, AcquireFallback(j) PROVE TypeOK'
    BY <2>1 DEF AcquireFallback, TypeOK, batchVars, checkVars, sweepVars, scanVars, envVars
  <2>2. ASSUME NEW j \in Jobs, AcquireStart(j) PROVE TypeOK'
    BY <2>2 DEF AcquireStart, TypeOK, batchVars, checkVars, sweepVars, scanVars, envVars
  <2>3. ASSUME NEW j \in Jobs, AcquireReturn(j) PROVE TypeOK'
    BY <2>3 DEF AcquireReturn, TypeOK, batchVars, checkVars, sweepVars, scanVars, envVars, Terminal
  <2>4. ASSUME NEW j \in Jobs, AcquireTimeout(j) PROVE TypeOK'
    BY <2>4 DEF AcquireTimeout, TypeOK, batchVars, checkVars, sweepVars, scanVars, envVars
  <2>5. ASSUME NEW j \in Jobs, AcquireLate(j) PROVE TypeOK'
    BY <2>5 DEF AcquireLate, TypeOK, batchVars, checkVars, sweepVars, scanVars, envVars, Terminal
  <2>6. ASSUME GeneratorSettled PROVE TypeOK'
    BY <2>6 DEF GeneratorSettled, TypeOK, batchVars, checkVars, sweepVars, scanVars, envVars, Checkers
  <2>7. ASSUME NEW c \in Callers, NEW j \in Jobs, SettleJob(c, j) PROVE TypeOK'
    BY <2>7 DEF SettleJob, TypeOK, batchVars, checkVars, sweepVars, scanVars, envVars, Terminal,
       Checkers
  <2>8. ASSUME NEW p \in Checkers, CheckRead(p) PROVE TypeOK'
    <3>1. snap' \in [Checkers -> BOOLEAN]
      BY <2>8 DEF CheckRead, TypeOK
    <3>2. pc' \in [Checkers -> PC]
      BY <2>8 DEF CheckRead, TypeOK, PC
    <3>. QED
      BY <2>8, <3>1, <3>2 DEF CheckRead, PC, TypeOK, batchVars, checkVars, sweepVars, scanVars, envVars
  <2>9. ASSUME NEW p \in Checkers, CheckAgain(p) PROVE TypeOK'
    <3>1. snap' \in [Checkers -> BOOLEAN] /\ pc' \in [Checkers -> PC]
      BY <2>9 DEF CheckAgain, TypeOK, PC
    <3>. QED
      BY <2>9, <3>1 DEF CheckAgain, PC, TypeOK, batchVars, checkVars, sweepVars, scanVars, envVars
  <2>10. ASSUME NEW p \in Checkers, CheckCommit(p) PROVE TypeOK'
    <3>1. snap' \in [Checkers -> BOOLEAN] /\ pc' \in [Checkers -> PC]
      BY <2>10 DEF CheckCommit, TypeOK, PC
    <3>3. status' \in Open \cup Terminal /\ scanRetried' \in BOOLEAN
      BY <2>10 DEF CheckCommit, WriteFromDownloading, WriteStatus, TypeOK
    <3>. QED
      BY <2>10, <3>1, <3>3 DEF CheckCommit, PC, TypeOK, batchVars, checkVars, sweepVars, scanVars,
         envVars
  <2>11. ASSUME NEW p \in Checkers, CheckEnqueue(p) PROVE TypeOK'
    BY <2>11 DEF CheckEnqueue, TypeOK, batchVars, checkVars, sweepVars, scanVars, envVars
  <2>12. ASSUME NEW p \in Checkers, CheckThrows(p) PROVE TypeOK'
    <3>1. snap' \in [Checkers -> BOOLEAN] /\ pc' \in [Checkers -> PC]
      BY <2>12 DEF CheckThrows, TypeOK, PC
    <3>. QED
      BY <2>12, <3>1 DEF CheckThrows, PC, TypeOK, batchVars, checkVars, sweepVars, scanVars, envVars
  <2>13. ASSUME CleanerStart PROVE TypeOK'
    BY <2>13 DEF CleanerStart, TypeOK, batchVars, checkVars, sweepVars, scanVars, envVars
  <2>14. ASSUME SweepRead PROVE TypeOK'
    BY <2>14 DEF SweepRead, TypeOK, batchVars, checkVars, sweepVars, scanVars, envVars
  <2>15. ASSUME SweepFailBatch PROVE TypeOK'
    BY <2>15 DEF SweepFailBatch, TypeOK, batchVars, checkVars, sweepVars, scanVars, envVars, WriteStatus
  <2>16. ASSUME SweepFailJobs PROVE TypeOK'
    BY <2>16 DEF SweepFailJobs, TypeOK, batchVars, checkVars, sweepVars, scanVars, envVars, FailJobsIn,
       Active, Terminal
  <2>17. ASSUME SweepRequeue PROVE TypeOK'
    BY <2>17 DEF SweepRequeue, TypeOK, batchVars, checkVars, sweepVars, scanVars, envVars
  <2>18. ASSUME SweepMark PROVE TypeOK'
    BY <2>18 DEF SweepMark, TypeOK, batchVars, checkVars, sweepVars, scanVars, envVars
  <2>19. ASSUME SweepTimeoutJobs PROVE TypeOK'
    BY <2>19 DEF SweepTimeoutJobs, TypeOK, batchVars, checkVars, sweepVars, scanVars, envVars,
       FailJobsIn, Active, Terminal, Checkers
  <2>20. ASSUME SweepChecked PROVE TypeOK'
    BY <2>20 DEF SweepChecked, TypeOK, batchVars, checkVars, sweepVars, scanVars, envVars
  <2>21. ASSUME SweepEnd PROVE TypeOK'
    <3>1. sweep' \in Cleaner /\ emptyChecks' \in Nat
      BY <2>21 DEF SweepEnd, TypeOK
    <3>. QED
      BY <2>21, <3>1 DEF SweepEnd, TypeOK, batchVars, checkVars, sweepVars, scanVars, envVars
  <2>22. ASSUME StaleRead PROVE TypeOK'
    BY <2>22 DEF StaleRead, TypeOK, batchVars, checkVars, sweepVars, scanVars, envVars
  <2>23. ASSUME StaleFailBatch PROVE TypeOK'
    BY <2>23 DEF StaleFailBatch, TypeOK, batchVars, checkVars, sweepVars, scanVars, envVars, WriteStatus
  <2>24. ASSUME StaleFailJobs PROVE TypeOK'
    BY <2>24 DEF StaleFailJobs, TypeOK, batchVars, checkVars, sweepVars, scanVars, envVars, FailJobsIn,
       Active, Terminal
  <2>25. ASSUME CancelRead PROVE TypeOK'
    BY <2>25 DEF CancelRead, TypeOK, batchVars, checkVars, sweepVars, scanVars, envVars
  <2>26. ASSUME CancelJobs PROVE TypeOK'
    BY <2>26 DEF CancelJobs, TypeOK, batchVars, checkVars, sweepVars, scanVars, envVars, FailJobsIn,
       Active, Terminal
  <2>27. ASSUME CancelBatch PROVE TypeOK'
    BY <2>27 DEF CancelBatch, TypeOK, batchVars, checkVars, sweepVars, scanVars, envVars,
       CancelAsFailed, WriteStatus
  <2>28. ASSUME ScanTake PROVE TypeOK'
    BY <2>28 DEF ScanTake, TypeOK, batchVars, checkVars, sweepVars, scanVars, envVars
  <2>29. ASSUME ScanLost PROVE TypeOK'
    BY <2>29 DEF ScanLost, TypeOK, batchVars, checkVars, sweepVars, scanVars, envVars
  <2>30. ASSUME BuildRead PROVE TypeOK'
    BY <2>30 DEF BuildRead, TypeOK, batchVars, checkVars, sweepVars, scanVars, envVars, BuildNotNeeded
  <2>31. ASSUME BuildNoTracks PROVE TypeOK'
    BY <2>31 DEF BuildNoTracks, TypeOK, batchVars, checkVars, sweepVars, scanVars, envVars, WriteStatus
  <2>32. ASSUME BuildCommit PROVE TypeOK'
    BY <2>32 DEF BuildCommit, TypeOK, batchVars, checkVars, sweepVars, scanVars, envVars, WriteStatus
  <2>33. ASSUME BuildThrows PROVE TypeOK'
    <3>1. status' \in Open \cup Terminal /\ scanRetried' \in BOOLEAN
      BY <2>33 DEF BuildThrows, WriteStatus, TypeOK
    <3>. QED
      BY <2>33, <3>1 DEF BuildThrows, TypeOK, batchVars, checkVars, sweepVars, scanVars, envVars
  <2>34. ASSUME Tick PROVE TypeOK'
    BY <2>34 DEF Tick, TypeOK, batchVars, checkVars, sweepVars, scanVars, envVars
  <2>35. ASSUME Crash PROVE TypeOK'
    <3>1. snap' \in [Checkers -> BOOLEAN] /\ pc' \in [Checkers -> PC]
      BY <2>35 DEF Crash, PC
    <3>2. acq' \in [Jobs -> {"running", "fallback", "started", "zombie", "done"}]
      BY <2>35 DEF Crash
    <3>3. scans' \in Nat /\ crashes' \in Nat
      BY <2>35 DEF Crash, TypeOK
    <3>. QED
      BY <2>35, <3>1, <3>2, <3>3 DEF Crash, PC, TypeOK, batchVars, checkVars, sweepVars, scanVars,
         envVars
  <2>36. CASE UNCHANGED vars
    BY <2>36 DEF vars, TypeOK, batchVars, checkVars, sweepVars, scanVars, envVars
  <2>. QED
    BY <2>1, <2>2, <2>3, <2>4, <2>5, <2>6, <2>7, <2>8, <2>9, <2>10, <2>11, <2>12, <2>13, <2>14, <2>15,
       <2>16, <2>17, <2>18, <2>19, <2>20, <2>21, <2>22, <2>23, <2>24, <2>25, <2>26, <2>27, <2>28, <2>29,
       <2>30, <2>31, <2>32, <2>33, <2>34, <2>35, <2>36 DEF Next, Acquire, Check, Sweep, StaleCleanup,
       CancelRequest, Scan
<1>. QED
  BY <1>1, <1>2, PTL DEF Spec

(***************************************************************************)
(* The inductive invariant behind the safety properties.                   *)
(***************************************************************************)

\* A committed playlist closes the batch, so the worker that passed the guard of
\* buildFinalPlaylist is the only one that ever commits.
PlaylistOnce ==
    /\ built > 0 => status \in Terminal
    /\ scanner \in {"building", "empty"} => built = 0
    /\ built <= 1
    /\ status = "completed" => built = 1

\* Whoever is about to queue a scan has seen, or made, the batch leave "downloading",
\* and no write brings it back there.
ScanOrder ==
    /\ \A p \in Checkers : pc[p] = "enqueue" => status # "downloading"
    /\ sweep \in {"requeue", "mark"} => status # "downloading"
    /\ scans > 0 \/ scanner # "idle" => status # "downloading"

\* A retry scan is still owed only while none has been queued since the last restart.
RetryCount ==
    /\ retryScans <= 1 + crashes
    /\ sweep = "requeue" => retryScans <= crashes
    /\ status \in Open /\ ~scanRetried /\ sweep # "mark" => retryScans <= crashes

\* The guard of buildFinalPlaylist, with one scan worker, is enough for one build.
LEMMA PlaylistOnceInvariant == Spec => []PlaylistOnce
<1>. USE DEF Open, Terminal, Active, Checkers
<1>1. Init => PlaylistOnce
  BY TaskAssumption DEF Init, PlaylistOnce
<1>2. TypeOK /\ PlaylistOnce /\ [Next]_vars => PlaylistOnce'
  <2>. SUFFICES ASSUME TypeOK, PlaylistOnce, [Next]_vars PROVE PlaylistOnce'
    OBVIOUS
  <2>1. ASSUME NEW j \in Jobs, AcquireFallback(j) PROVE PlaylistOnce'
    BY <2>1 DEF AcquireFallback, TypeOK, PlaylistOnce, batchVars, checkVars, sweepVars, scanVars,
       envVars
  <2>2. ASSUME NEW j \in Jobs, AcquireStart(j) PROVE PlaylistOnce'
    BY <2>2 DEF AcquireStart, TypeOK, PlaylistOnce, batchVars, checkVars, sweepVars, scanVars, envVars
  <2>3. ASSUME NEW j \in Jobs, AcquireReturn(j) PROVE PlaylistOnce'
    BY <2>3 DEF AcquireReturn, TypeOK, PlaylistOnce, batchVars, checkVars, sweepVars, scanVars, envVars
  <2>4. ASSUME NEW j \in Jobs, AcquireTimeout(j) PROVE PlaylistOnce'
    BY <2>4 DEF AcquireTimeout, TypeOK, PlaylistOnce, batchVars, checkVars, sweepVars, scanVars, envVars
  <2>5. ASSUME NEW j \in Jobs, AcquireLate(j) PROVE PlaylistOnce'
    BY <2>5 DEF AcquireLate, TypeOK, PlaylistOnce, batchVars, checkVars, sweepVars, scanVars, envVars
  <2>6. ASSUME GeneratorSettled PROVE PlaylistOnce'
    BY <2>6 DEF GeneratorSettled, TypeOK, PlaylistOnce, batchVars, checkVars, sweepVars, scanVars,
       envVars
  <2>7. ASSUME NEW c \in Callers, NEW j \in Jobs, SettleJob(c, j) PROVE PlaylistOnce'
    BY <2>7 DEF SettleJob, TypeOK, PlaylistOnce, batchVars, checkVars, sweepVars, scanVars, envVars
  <2>8. ASSUME NEW p \in Checkers, CheckRead(p) PROVE PlaylistOnce'
    BY <2>8 DEF CheckRead, TypeOK, PlaylistOnce, batchVars, checkVars, sweepVars, scanVars, envVars
  <2>9. ASSUME NEW p \in Checkers, CheckAgain(p) PROVE PlaylistOnce'
    BY <2>9 DEF CheckAgain, TypeOK, PlaylistOnce, batchVars, checkVars, sweepVars, scanVars, envVars
  <2>10. ASSUME NEW p \in Checkers, CheckCommit(p) PROVE PlaylistOnce'
    BY <2>10 DEF CheckCommit, TypeOK, PlaylistOnce, batchVars, checkVars, sweepVars, scanVars, envVars,
       WriteFromDownloading, WriteStatus, Open
  <2>11. ASSUME NEW p \in Checkers, CheckEnqueue(p) PROVE PlaylistOnce'
    BY <2>11 DEF CheckEnqueue, TypeOK, PlaylistOnce, batchVars, checkVars, sweepVars, scanVars, envVars
  <2>12. ASSUME NEW p \in Checkers, CheckThrows(p) PROVE PlaylistOnce'
    BY <2>12 DEF CheckThrows, TypeOK, PlaylistOnce, batchVars, checkVars, sweepVars, scanVars, envVars
  <2>13. ASSUME CleanerStart PROVE PlaylistOnce'
    BY <2>13 DEF CleanerStart, TypeOK, PlaylistOnce, batchVars, checkVars, sweepVars, scanVars, envVars
  <2>14. ASSUME SweepRead PROVE PlaylistOnce'
    BY <2>14 DEF SweepRead, TypeOK, PlaylistOnce, batchVars, checkVars, sweepVars, scanVars, envVars,
       BatchTooOld, ScanFailDue, ScanRetryDue, DownloadsStuck
  <2>15. ASSUME SweepFailBatch PROVE PlaylistOnce'
    BY <2>15 DEF SweepFailBatch, TypeOK, PlaylistOnce, batchVars, checkVars, sweepVars, scanVars,
       envVars, WriteStatus
  <2>16. ASSUME SweepFailJobs PROVE PlaylistOnce'
    BY <2>16 DEF SweepFailJobs, TypeOK, PlaylistOnce, batchVars, checkVars, sweepVars, scanVars, envVars
  <2>17. ASSUME SweepRequeue PROVE PlaylistOnce'
    BY <2>17 DEF SweepRequeue, TypeOK, PlaylistOnce, batchVars, checkVars, sweepVars, scanVars, envVars
  <2>18. ASSUME SweepMark PROVE PlaylistOnce'
    BY <2>18 DEF SweepMark, TypeOK, PlaylistOnce, batchVars, checkVars, sweepVars, scanVars, envVars
  <2>19. ASSUME SweepTimeoutJobs PROVE PlaylistOnce'
    BY <2>19 DEF SweepTimeoutJobs, TypeOK, PlaylistOnce, batchVars, checkVars, sweepVars, scanVars,
       envVars
  <2>20. ASSUME SweepChecked PROVE PlaylistOnce'
    BY <2>20 DEF SweepChecked, TypeOK, PlaylistOnce, batchVars, checkVars, sweepVars, scanVars, envVars
  <2>21. ASSUME SweepEnd PROVE PlaylistOnce'
    BY <2>21 DEF SweepEnd, TypeOK, PlaylistOnce, batchVars, checkVars, sweepVars, scanVars, envVars
  <2>22. ASSUME StaleRead PROVE PlaylistOnce'
    BY <2>22 DEF StaleRead, TypeOK, PlaylistOnce, batchVars, checkVars, sweepVars, scanVars, envVars
  <2>23. ASSUME StaleFailBatch PROVE PlaylistOnce'
    BY <2>23 DEF StaleFailBatch, TypeOK, PlaylistOnce, batchVars, checkVars, sweepVars, scanVars,
       envVars, WriteStatus
  <2>24. ASSUME StaleFailJobs PROVE PlaylistOnce'
    BY <2>24 DEF StaleFailJobs, TypeOK, PlaylistOnce, batchVars, checkVars, sweepVars, scanVars, envVars
  <2>25. ASSUME CancelRead PROVE PlaylistOnce'
    BY <2>25 DEF CancelRead, TypeOK, PlaylistOnce, batchVars, checkVars, sweepVars, scanVars, envVars
  <2>26. ASSUME CancelJobs PROVE PlaylistOnce'
    BY <2>26 DEF CancelJobs, TypeOK, PlaylistOnce, batchVars, checkVars, sweepVars, scanVars, envVars
  <2>27. ASSUME CancelBatch PROVE PlaylistOnce'
    BY <2>27 DEF CancelBatch, TypeOK, PlaylistOnce, batchVars, checkVars, sweepVars, scanVars, envVars,
       CancelAsFailed, WriteStatus
  <2>28. ASSUME ScanTake PROVE PlaylistOnce'
    BY <2>28 DEF ScanTake, TypeOK, PlaylistOnce, batchVars, checkVars, sweepVars, scanVars, envVars
  <2>29. ASSUME ScanLost PROVE PlaylistOnce'
    BY <2>29 DEF ScanLost, TypeOK, PlaylistOnce, batchVars, checkVars, sweepVars, scanVars, envVars
  <2>30. ASSUME BuildRead PROVE PlaylistOnce'
    BY <2>30 DEF BuildRead, TypeOK, PlaylistOnce, batchVars, checkVars, sweepVars, scanVars, envVars,
       BuildNotNeeded
  <2>31. ASSUME BuildNoTracks PROVE PlaylistOnce'
    BY <2>31 DEF BuildNoTracks, TypeOK, PlaylistOnce, batchVars, checkVars, sweepVars, scanVars,
       envVars, WriteStatus
  <2>32. ASSUME BuildCommit PROVE PlaylistOnce'
    BY <2>32 DEF BuildCommit, TypeOK, PlaylistOnce, batchVars, checkVars, sweepVars, scanVars, envVars,
       WriteStatus
  <2>33. ASSUME BuildThrows PROVE PlaylistOnce'
    BY <2>33 DEF BuildThrows, TypeOK, PlaylistOnce, batchVars, checkVars, sweepVars, scanVars, envVars,
       WriteStatus
  <2>34. ASSUME Tick PROVE PlaylistOnce'
    BY <2>34 DEF Tick, TypeOK, PlaylistOnce, batchVars, checkVars, sweepVars, scanVars, envVars
  <2>35. ASSUME Crash PROVE PlaylistOnce'
    BY <2>35 DEF Crash, TypeOK, PlaylistOnce, batchVars, checkVars, sweepVars, scanVars, envVars
  <2>36. CASE UNCHANGED vars
    BY <2>36 DEF vars, TypeOK, PlaylistOnce, batchVars, checkVars, sweepVars, scanVars, envVars
  <2>. QED
    BY <2>1, <2>2, <2>3, <2>4, <2>5, <2>6, <2>7, <2>8, <2>9, <2>10, <2>11, <2>12, <2>13, <2>14, <2>15,
       <2>16, <2>17, <2>18, <2>19, <2>20, <2>21, <2>22, <2>23, <2>24, <2>25, <2>26, <2>27, <2>28, <2>29,
       <2>30, <2>31, <2>32, <2>33, <2>34, <2>35, <2>36 DEF Next, Acquire, Check, Sweep, StaleCleanup,
       CancelRequest, Scan
<1>. QED
  BY <1>1, <1>2, Typing, PTL DEF Spec

\* No scan is queued, or about to be, for a batch that still downloads.
LEMMA ScanOrderInvariant == Spec => []ScanOrder
<1>. USE DEF Open, Terminal, Active, Checkers
<1>1. Init => ScanOrder
  BY TaskAssumption DEF Init, ScanOrder
<1>2. TypeOK /\ ScanOrder /\ [Next]_vars => ScanOrder'
  <2>. SUFFICES ASSUME TypeOK, ScanOrder, [Next]_vars PROVE ScanOrder'
    OBVIOUS
  <2>1. ASSUME NEW j \in Jobs, AcquireFallback(j) PROVE ScanOrder'
    BY <2>1 DEF AcquireFallback, TypeOK, ScanOrder, batchVars, checkVars, sweepVars, scanVars, envVars
  <2>2. ASSUME NEW j \in Jobs, AcquireStart(j) PROVE ScanOrder'
    BY <2>2 DEF AcquireStart, TypeOK, ScanOrder, batchVars, checkVars, sweepVars, scanVars, envVars
  <2>3. ASSUME NEW j \in Jobs, AcquireReturn(j) PROVE ScanOrder'
    BY <2>3 DEF AcquireReturn, TypeOK, ScanOrder, batchVars, checkVars, sweepVars, scanVars, envVars
  <2>4. ASSUME NEW j \in Jobs, AcquireTimeout(j) PROVE ScanOrder'
    BY <2>4 DEF AcquireTimeout, TypeOK, ScanOrder, batchVars, checkVars, sweepVars, scanVars, envVars
  <2>5. ASSUME NEW j \in Jobs, AcquireLate(j) PROVE ScanOrder'
    BY <2>5 DEF AcquireLate, TypeOK, ScanOrder, batchVars, checkVars, sweepVars, scanVars, envVars
  <2>6. ASSUME GeneratorSettled PROVE ScanOrder'
    BY <2>6 DEF GeneratorSettled, TypeOK, ScanOrder, batchVars, checkVars, sweepVars, scanVars, envVars
  <2>7. ASSUME NEW c \in Callers, NEW j \in Jobs, SettleJob(c, j) PROVE ScanOrder'
    BY <2>7 DEF SettleJob, TypeOK, ScanOrder, batchVars, checkVars, sweepVars, scanVars, envVars
  <2>8. ASSUME NEW p \in Checkers, CheckRead(p) PROVE ScanOrder'
    BY <2>8 DEF CheckRead, TypeOK, ScanOrder, batchVars, checkVars, sweepVars, scanVars, envVars
  <2>9. ASSUME NEW p \in Checkers, CheckAgain(p) PROVE ScanOrder'
    BY <2>9 DEF CheckAgain, TypeOK, ScanOrder, batchVars, checkVars, sweepVars, scanVars, envVars
  <2>10. ASSUME NEW p \in Checkers, CheckCommit(p) PROVE ScanOrder'
    BY <2>10 DEF CheckCommit, TypeOK, ScanOrder, batchVars, checkVars, sweepVars, scanVars, envVars,
       WriteFromDownloading, WriteStatus, Open
  <2>11. ASSUME NEW p \in Checkers, CheckEnqueue(p) PROVE ScanOrder'
    BY <2>11 DEF CheckEnqueue, TypeOK, ScanOrder, batchVars, checkVars, sweepVars, scanVars, envVars
  <2>12. ASSUME NEW p \in Checkers, CheckThrows(p) PROVE ScanOrder'
    BY <2>12 DEF CheckThrows, TypeOK, ScanOrder, batchVars, checkVars, sweepVars, scanVars, envVars
  <2>13. ASSUME CleanerStart PROVE ScanOrder'
    BY <2>13 DEF CleanerStart, TypeOK, ScanOrder, batchVars, checkVars, sweepVars, scanVars, envVars
  <2>14. ASSUME SweepRead PROVE ScanOrder'
    BY <2>14 DEF SweepRead, TypeOK, ScanOrder, batchVars, checkVars, sweepVars, scanVars, envVars,
       BatchTooOld, ScanFailDue, ScanRetryDue, DownloadsStuck
  <2>15. ASSUME SweepFailBatch PROVE ScanOrder'
    BY <2>15 DEF SweepFailBatch, TypeOK, ScanOrder, batchVars, checkVars, sweepVars, scanVars, envVars,
       WriteStatus
  <2>16. ASSUME SweepFailJobs PROVE ScanOrder'
    BY <2>16 DEF SweepFailJobs, TypeOK, ScanOrder, batchVars, checkVars, sweepVars, scanVars, envVars
  <2>17. ASSUME SweepRequeue PROVE ScanOrder'
    BY <2>17 DEF SweepRequeue, TypeOK, ScanOrder, batchVars, checkVars, sweepVars, scanVars, envVars
  <2>18. ASSUME SweepMark PROVE ScanOrder'
    BY <2>18 DEF SweepMark, TypeOK, ScanOrder, batchVars, checkVars, sweepVars, scanVars, envVars
  <2>19. ASSUME SweepTimeoutJobs PROVE ScanOrder'
    BY <2>19 DEF SweepTimeoutJobs, TypeOK, ScanOrder, batchVars, checkVars, sweepVars, scanVars, envVars
  <2>20. ASSUME SweepChecked PROVE ScanOrder'
    BY <2>20 DEF SweepChecked, TypeOK, ScanOrder, batchVars, checkVars, sweepVars, scanVars, envVars
  <2>21. ASSUME SweepEnd PROVE ScanOrder'
    BY <2>21 DEF SweepEnd, TypeOK, ScanOrder, batchVars, checkVars, sweepVars, scanVars, envVars
  <2>22. ASSUME StaleRead PROVE ScanOrder'
    BY <2>22 DEF StaleRead, TypeOK, ScanOrder, batchVars, checkVars, sweepVars, scanVars, envVars
  <2>23. ASSUME StaleFailBatch PROVE ScanOrder'
    BY <2>23 DEF StaleFailBatch, TypeOK, ScanOrder, batchVars, checkVars, sweepVars, scanVars, envVars,
       WriteStatus
  <2>24. ASSUME StaleFailJobs PROVE ScanOrder'
    BY <2>24 DEF StaleFailJobs, TypeOK, ScanOrder, batchVars, checkVars, sweepVars, scanVars, envVars
  <2>25. ASSUME CancelRead PROVE ScanOrder'
    BY <2>25 DEF CancelRead, TypeOK, ScanOrder, batchVars, checkVars, sweepVars, scanVars, envVars
  <2>26. ASSUME CancelJobs PROVE ScanOrder'
    BY <2>26 DEF CancelJobs, TypeOK, ScanOrder, batchVars, checkVars, sweepVars, scanVars, envVars
  <2>27. ASSUME CancelBatch PROVE ScanOrder'
    BY <2>27 DEF CancelBatch, TypeOK, ScanOrder, batchVars, checkVars, sweepVars, scanVars, envVars,
       CancelAsFailed, WriteStatus
  <2>28. ASSUME ScanTake PROVE ScanOrder'
    BY <2>28 DEF ScanTake, TypeOK, ScanOrder, batchVars, checkVars, sweepVars, scanVars, envVars
  <2>29. ASSUME ScanLost PROVE ScanOrder'
    BY <2>29 DEF ScanLost, TypeOK, ScanOrder, batchVars, checkVars, sweepVars, scanVars, envVars
  <2>30. ASSUME BuildRead PROVE ScanOrder'
    BY <2>30 DEF BuildRead, TypeOK, ScanOrder, batchVars, checkVars, sweepVars, scanVars, envVars,
       BuildNotNeeded
  <2>31. ASSUME BuildNoTracks PROVE ScanOrder'
    BY <2>31 DEF BuildNoTracks, TypeOK, ScanOrder, batchVars, checkVars, sweepVars, scanVars, envVars,
       WriteStatus
  <2>32. ASSUME BuildCommit PROVE ScanOrder'
    BY <2>32 DEF BuildCommit, TypeOK, ScanOrder, batchVars, checkVars, sweepVars, scanVars, envVars,
       WriteStatus
  <2>33. ASSUME BuildThrows PROVE ScanOrder'
    BY <2>33 DEF BuildThrows, TypeOK, ScanOrder, batchVars, checkVars, sweepVars, scanVars, envVars,
       WriteStatus
  <2>34. ASSUME Tick PROVE ScanOrder'
    BY <2>34 DEF Tick, TypeOK, ScanOrder, batchVars, checkVars, sweepVars, scanVars, envVars
  <2>35. ASSUME Crash PROVE ScanOrder'
    BY <2>35 DEF Crash, TypeOK, ScanOrder, batchVars, checkVars, sweepVars, scanVars, envVars
  <2>36. CASE UNCHANGED vars
    BY <2>36 DEF vars, TypeOK, ScanOrder, batchVars, checkVars, sweepVars, scanVars, envVars
  <2>. QED
    BY <2>1, <2>2, <2>3, <2>4, <2>5, <2>6, <2>7, <2>8, <2>9, <2>10, <2>11, <2>12, <2>13, <2>14, <2>15,
       <2>16, <2>17, <2>18, <2>19, <2>20, <2>21, <2>22, <2>23, <2>24, <2>25, <2>26, <2>27, <2>28, <2>29,
       <2>30, <2>31, <2>32, <2>33, <2>34, <2>35, <2>36 DEF Next, Acquire, Check, Sweep, StaleCleanup,
       CancelRequest, Scan
<1>. QED
  BY <1>1, <1>2, Typing, PTL DEF Spec

\* The mark in errorMessage accounts for every retry scan up to the restarts.
LEMMA RetryCountInvariant == Spec => []RetryCount
<1>. USE DEF Open, Terminal, Active, Checkers
<1>1. Init => RetryCount
  BY TaskAssumption DEF Init, RetryCount
<1>2. TypeOK /\ RetryCount /\ [Next]_vars => RetryCount'
  <2>. SUFFICES ASSUME TypeOK, RetryCount, [Next]_vars PROVE RetryCount'
    OBVIOUS
  <2>1. ASSUME NEW j \in Jobs, AcquireFallback(j) PROVE RetryCount'
    BY <2>1 DEF AcquireFallback, TypeOK, RetryCount, batchVars, checkVars, sweepVars, scanVars, envVars
  <2>2. ASSUME NEW j \in Jobs, AcquireStart(j) PROVE RetryCount'
    BY <2>2 DEF AcquireStart, TypeOK, RetryCount, batchVars, checkVars, sweepVars, scanVars, envVars
  <2>3. ASSUME NEW j \in Jobs, AcquireReturn(j) PROVE RetryCount'
    BY <2>3 DEF AcquireReturn, TypeOK, RetryCount, batchVars, checkVars, sweepVars, scanVars, envVars
  <2>4. ASSUME NEW j \in Jobs, AcquireTimeout(j) PROVE RetryCount'
    BY <2>4 DEF AcquireTimeout, TypeOK, RetryCount, batchVars, checkVars, sweepVars, scanVars, envVars
  <2>5. ASSUME NEW j \in Jobs, AcquireLate(j) PROVE RetryCount'
    BY <2>5 DEF AcquireLate, TypeOK, RetryCount, batchVars, checkVars, sweepVars, scanVars, envVars
  <2>6. ASSUME GeneratorSettled PROVE RetryCount'
    BY <2>6 DEF GeneratorSettled, TypeOK, RetryCount, batchVars, checkVars, sweepVars, scanVars, envVars
  <2>7. ASSUME NEW c \in Callers, NEW j \in Jobs, SettleJob(c, j) PROVE RetryCount'
    BY <2>7 DEF SettleJob, TypeOK, RetryCount, batchVars, checkVars, sweepVars, scanVars, envVars
  <2>8. ASSUME NEW p \in Checkers, CheckRead(p) PROVE RetryCount'
    BY <2>8 DEF CheckRead, TypeOK, RetryCount, batchVars, checkVars, sweepVars, scanVars, envVars
  <2>9. ASSUME NEW p \in Checkers, CheckAgain(p) PROVE RetryCount'
    BY <2>9 DEF CheckAgain, TypeOK, RetryCount, batchVars, checkVars, sweepVars, scanVars, envVars
  <2>10. ASSUME NEW p \in Checkers, CheckCommit(p) PROVE RetryCount'
    BY <2>10 DEF CheckCommit, TypeOK, RetryCount, batchVars, checkVars, sweepVars, scanVars, envVars,
       WriteFromDownloading, WriteStatus, Open
  <2>11. ASSUME NEW p \in Checkers, CheckEnqueue(p) PROVE RetryCount'
    BY <2>11 DEF CheckEnqueue, TypeOK, RetryCount, batchVars, checkVars, sweepVars, scanVars, envVars
  <2>12. ASSUME NEW p \in Checkers, CheckThrows(p) PROVE RetryCount'
    BY <2>12 DEF CheckThrows, TypeOK, RetryCount, batchVars, checkVars, sweepVars, scanVars, envVars
  <2>13. ASSUME CleanerStart PROVE RetryCount'
    BY <2>13 DEF CleanerStart, TypeOK, RetryCount, batchVars, checkVars, sweepVars, scanVars, envVars
  <2>14. ASSUME SweepRead PROVE RetryCount'
    BY <2>14 DEF SweepRead, TypeOK, RetryCount, batchVars, checkVars, sweepVars, scanVars, envVars,
       BatchTooOld, ScanFailDue, ScanRetryDue, DownloadsStuck
  <2>15. ASSUME SweepFailBatch PROVE RetryCount'
    BY <2>15 DEF SweepFailBatch, TypeOK, RetryCount, batchVars, checkVars, sweepVars, scanVars, envVars,
       WriteStatus
  <2>16. ASSUME SweepFailJobs PROVE RetryCount'
    BY <2>16 DEF SweepFailJobs, TypeOK, RetryCount, batchVars, checkVars, sweepVars, scanVars, envVars
  <2>17. ASSUME SweepRequeue PROVE RetryCount'
    BY <2>17 DEF SweepRequeue, TypeOK, RetryCount, batchVars, checkVars, sweepVars, scanVars, envVars
  <2>18. ASSUME SweepMark PROVE RetryCount'
    BY <2>18 DEF SweepMark, TypeOK, RetryCount, batchVars, checkVars, sweepVars, scanVars, envVars
  <2>19. ASSUME SweepTimeoutJobs PROVE RetryCount'
    BY <2>19 DEF SweepTimeoutJobs, TypeOK, RetryCount, batchVars, checkVars, sweepVars, scanVars,
       envVars
  <2>20. ASSUME SweepChecked PROVE RetryCount'
    BY <2>20 DEF SweepChecked, TypeOK, RetryCount, batchVars, checkVars, sweepVars, scanVars, envVars
  <2>21. ASSUME SweepEnd PROVE RetryCount'
    BY <2>21 DEF SweepEnd, TypeOK, RetryCount, batchVars, checkVars, sweepVars, scanVars, envVars
  <2>22. ASSUME StaleRead PROVE RetryCount'
    BY <2>22 DEF StaleRead, TypeOK, RetryCount, batchVars, checkVars, sweepVars, scanVars, envVars
  <2>23. ASSUME StaleFailBatch PROVE RetryCount'
    BY <2>23 DEF StaleFailBatch, TypeOK, RetryCount, batchVars, checkVars, sweepVars, scanVars, envVars,
       WriteStatus
  <2>24. ASSUME StaleFailJobs PROVE RetryCount'
    BY <2>24 DEF StaleFailJobs, TypeOK, RetryCount, batchVars, checkVars, sweepVars, scanVars, envVars
  <2>25. ASSUME CancelRead PROVE RetryCount'
    BY <2>25 DEF CancelRead, TypeOK, RetryCount, batchVars, checkVars, sweepVars, scanVars, envVars
  <2>26. ASSUME CancelJobs PROVE RetryCount'
    BY <2>26 DEF CancelJobs, TypeOK, RetryCount, batchVars, checkVars, sweepVars, scanVars, envVars
  <2>27. ASSUME CancelBatch PROVE RetryCount'
    BY <2>27 DEF CancelBatch, TypeOK, RetryCount, batchVars, checkVars, sweepVars, scanVars, envVars,
       CancelAsFailed, WriteStatus
  <2>28. ASSUME ScanTake PROVE RetryCount'
    BY <2>28 DEF ScanTake, TypeOK, RetryCount, batchVars, checkVars, sweepVars, scanVars, envVars
  <2>29. ASSUME ScanLost PROVE RetryCount'
    BY <2>29 DEF ScanLost, TypeOK, RetryCount, batchVars, checkVars, sweepVars, scanVars, envVars
  <2>30. ASSUME BuildRead PROVE RetryCount'
    BY <2>30 DEF BuildRead, TypeOK, RetryCount, batchVars, checkVars, sweepVars, scanVars, envVars,
       BuildNotNeeded
  <2>31. ASSUME BuildNoTracks PROVE RetryCount'
    BY <2>31 DEF BuildNoTracks, TypeOK, RetryCount, batchVars, checkVars, sweepVars, scanVars, envVars,
       WriteStatus
  <2>32. ASSUME BuildCommit PROVE RetryCount'
    BY <2>32 DEF BuildCommit, TypeOK, RetryCount, batchVars, checkVars, sweepVars, scanVars, envVars,
       WriteStatus
  <2>33. ASSUME BuildThrows PROVE RetryCount'
    <3>1. CASE WriteStatus("failed")
      BY <2>33, <3>1 DEF BuildThrows, TypeOK, RetryCount, sweepVars, WriteStatus
    <3>2. CASE UNCHANGED <<status, scanRetried>>
      BY <2>33, <3>2 DEF BuildThrows, TypeOK, RetryCount, sweepVars
    <3>. QED
      BY <2>33, <3>1, <3>2 DEF BuildThrows
  <2>34. ASSUME Tick PROVE RetryCount'
    BY <2>34 DEF Tick, TypeOK, RetryCount, batchVars, checkVars, sweepVars, scanVars, envVars
  <2>35. ASSUME Crash PROVE RetryCount'
    BY <2>35 DEF Crash, TypeOK, RetryCount, batchVars, checkVars, sweepVars, scanVars, envVars
  <2>36. CASE UNCHANGED vars
    BY <2>36 DEF vars, TypeOK, RetryCount, batchVars, checkVars, sweepVars, scanVars, envVars
  <2>. QED
    BY <2>1, <2>2, <2>3, <2>4, <2>5, <2>6, <2>7, <2>8, <2>9, <2>10, <2>11, <2>12, <2>13, <2>14, <2>15,
       <2>16, <2>17, <2>18, <2>19, <2>20, <2>21, <2>22, <2>23, <2>24, <2>25, <2>26, <2>27, <2>28, <2>29,
       <2>30, <2>31, <2>32, <2>33, <2>34, <2>35, <2>36 DEF Next, Acquire, Check, Sweep, StaleCleanup,
       CancelRequest, Scan
<1>. QED
  BY <1>1, <1>2, Typing, PTL DEF Spec

\* A playlist is committed at most once, whatever scans, retries, cancellations and
\* restarts hit the batch.
THEOREM PlaylistSafe == Spec => []PlaylistAtMostOnce
BY PlaylistOnceInvariant, PTL DEF PlaylistOnce, PlaylistAtMostOnce

\* A batch reads "completed" only with its playlist.
THEOREM CompletedSafe == Spec => []NoEmptyWeek
BY PlaylistOnceInvariant, PTL DEF PlaylistOnce, NoEmptyWeek

\* buildFinalPlaylist never runs for a batch that is still downloading.
THEOREM ScanSafe == Spec => []ScanAfterDownloading
BY ScanOrderInvariant, PTL DEF ScanOrder, ScanAfterDownloading

\* The cleaner re-queues the scan of a stuck batch once per process life.
THEOREM RetrySafe == Spec => []RetryScanOnce
BY RetryCountInvariant, PTL DEF RetryCount, RetryScanOnce

(***************************************************************************)
(* The only ways a step of any task changes the batch's status.            *)
(***************************************************************************)

StatusStep ==
    \/ UNCHANGED <<status, built>>
    \/ status' = "failed" /\ UNCHANGED built
    \/ status = "downloading" /\ status' = "scanning" /\ UNCHANGED built
    \/ BuildCommit

\* Of the writers that race for the row, only checkBatchCompletion writes a status
\* that is not final, and it names the status it expects.
LEMMA StatusSteps == [Next]_vars => StatusStep
<1>. SUFFICES ASSUME [Next]_vars PROVE StatusStep
  OBVIOUS
<1>1. ASSUME NEW p \in Checkers, CheckCommit(p) PROVE StatusStep
  BY <1>1 DEF CheckCommit, StatusStep, WriteFromDownloading, WriteStatus
<1>2. ASSUME SweepFailBatch PROVE StatusStep
  BY <1>2 DEF SweepFailBatch, StatusStep, WriteStatus
<1>3. ASSUME SweepMark PROVE StatusStep
  BY <1>3 DEF SweepMark, StatusStep
<1>4. ASSUME StaleFailBatch PROVE StatusStep
  BY <1>4 DEF StaleFailBatch, StatusStep, WriteStatus
<1>5. ASSUME CancelBatch PROVE StatusStep
  BY <1>5 DEF CancelBatch, StatusStep, CancelAsFailed, WriteStatus
<1>6. ASSUME BuildNoTracks PROVE StatusStep
  BY <1>6 DEF BuildNoTracks, StatusStep, WriteStatus
<1>7. ASSUME BuildCommit PROVE StatusStep
  BY <1>7 DEF BuildCommit, StatusStep
<1>8. ASSUME BuildThrows PROVE StatusStep
  BY <1>8 DEF BuildThrows, StatusStep, WriteStatus
<1>9. ASSUME UNCHANGED <<status, built>> PROVE StatusStep
  BY <1>9 DEF StatusStep
<1>. QED
  BY <1>1, <1>2, <1>3, <1>4, <1>5, <1>6, <1>7, <1>8, <1>9 DEF Next, Acquire, Check, Sweep, StaleCleanup,
     CancelRequest, Scan, vars, batchVars,
     AcquireFallback, AcquireStart, AcquireReturn, AcquireTimeout, AcquireLate, GeneratorSettled,
     SettleJob, CheckRead, CheckAgain, CheckEnqueue, CheckThrows, CleanerStart, SweepRead,
     SweepFailJobs, SweepRequeue, SweepTimeoutJobs, SweepChecked, SweepEnd, StaleRead,
     StaleFailJobs, CancelRead, CancelJobs, ScanTake, ScanLost, BuildRead, Tick, Crash

\* A closed batch is never reopened: the callers of checkBatchCompletion that lost the
\* race write nothing.
THEOREM NeverReopenedSafe == Spec => NeverReopened
<1>1. StatusStep => ((status \in Terminal) => (status' \in Terminal))
  BY DEF StatusStep, BuildCommit, WriteStatus, Terminal
<1>. QED
  BY <1>1, StatusSteps, PTL DEF Spec, NeverReopened

\* The batch row implements the life cycle its readers rely on.
THEOREM RefinesLifecycle == Spec => ImplementsLifecycle
<1>. USE DEF Terminal
<1>1. Init => Lifecycle!Init
  BY DEF Init, Lifecycle!Init
<1>2. /\ TypeOK
      /\ PlaylistOnce
      /\ ScanOrder
      /\ StatusStep
      => [Lifecycle!Next]_<<IF status \in Terminal THEN "closed" ELSE status, built>>
  <2>. SUFFICES ASSUME TypeOK, PlaylistOnce, ScanOrder, StatusStep
                PROVE  [Lifecycle!Next]_<<IF status \in Terminal THEN "closed" ELSE status, built>>
    OBVIOUS
  <2>1. CASE UNCHANGED <<status, built>>
    BY <2>1
  <2>2. CASE status' = "failed" /\ UNCHANGED built
    BY <2>2 DEF Lifecycle!Next, Lifecycle!Close
  <2>3. CASE status = "downloading" /\ status' = "scanning" /\ UNCHANGED built
    BY <2>3 DEF Lifecycle!Next, Lifecycle!StartScan
  <2>4. CASE BuildCommit
    <3>1. built = 0 /\ built' = 1 /\ status' = "completed" /\ status # "downloading"
      BY <2>4 DEF BuildCommit, WriteStatus, PlaylistOnce, ScanOrder
    <3>. QED
      BY <3>1 DEF Lifecycle!Next, Lifecycle!Publish, TypeOK, Open
  <2>. QED
    BY <2>1, <2>2, <2>3, <2>4 DEF StatusStep
<1>. QED
  BY <1>1, <1>2, StatusSteps, Typing, PlaylistOnceInvariant, ScanOrderInvariant, PTL
     DEF Spec, ImplementsLifecycle, Lifecycle!Spec
-----------------------------------------------------------------------------
(* updateBatchStatus, the write every task of the batch goes through.       *)

USE RetryAssumption

\* Every call, and every write around it, keeps the row and the loops well formed.
THEOREM UpdateTyping == UpdateSpec => []UpdateTypeOK
<1>. USE DEF UpdateTypeOK
<1>1. UpdateInit => UpdateTypeOK
  BY DEF UpdateInit
<1>2. UpdateTypeOK /\ [UpdateNext]_updateVars => UpdateTypeOK'
  <2>. SUFFICES ASSUME UpdateTypeOK, [UpdateNext]_updateVars PROVE UpdateTypeOK'
    OBVIOUS
  <2>1. ASSUME NEW c \in Calls, Find(c) PROVE UpdateTypeOK'
    BY <2>1 DEF Find, rowVars, boundVars, Returned
  <2>2. ASSUME NEW c \in Calls, Update(c) PROVE UpdateTypeOK'
    <3>1. call[c].to \in Statuses
      BY DEF Arguments
    <3>. QED
      BY <2>2, <3>1 DEF Update, Written, boundVars, Returned
  <2>3. ASSUME NEW c \in Calls, Conflict(c) PROVE UpdateTypeOK'
    BY <2>3 DEF Conflict, NextRetries, rowVars, boundVars, Returned
  <2>4. ASSUME NEW c \in Calls, Rejected(c) PROVE UpdateTypeOK'
    BY <2>4 DEF Rejected, rowVars, Returned
  <2>5. CASE DirectWrite
    BY <2>5 DEF DirectWrite, callVars
  <2>6. CASE Delete
    BY <2>6 DEF Delete, callVars, boundVars
  <2>7. CASE UNCHANGED updateVars
    BY <2>7 DEF updateVars, rowVars, callVars, boundVars
  <2>. QED
    BY <2>1, <2>2, <2>3, <2>4, <2>5, <2>6, <2>7 DEF UpdateNext, Call
<1>. QED
  BY <1>1, <1>2, PTL DEF UpdateSpec

-----------------------------------------------------------------------------
(* The refinement.                                                          *)

Outcome == [c \in Calls |-> IF stage[c] = "success" THEN "written"
                            ELSE IF stage[c] \in Returned THEN "refused" ELSE "pending"]

LEMMA OutcomeOf ==
  ASSUME UpdateTypeOK, NEW c \in Calls, NEW v, stage' = [stage EXCEPT ![c] = v]
  PROVE  Outcome' = [Outcome EXCEPT ![c] = IF v = "success" THEN "written"
                                           ELSE IF v \in Returned THEN "refused" ELSE "pending"]
BY DEF Outcome, UpdateTypeOK

\* The read and the conditional update of the loop, with any number of conflicts in
\* between, act as one conditional write at the moment of the update.
THEOREM RefinesAtomicUpdate == UpdateSpec => ImplementsAtomicUpdate
<1>1. UpdateInit => Atomic!Init
  BY DEF UpdateInit, Atomic!Init, Arguments, Returned
<1>2. UpdateTypeOK /\ [UpdateNext]_updateVars => [Atomic!Next]_<<rowStatus, call, Outcome>>
  <2>. SUFFICES ASSUME UpdateTypeOK, [UpdateNext]_updateVars
                PROVE  [Atomic!Next]_<<rowStatus, call, Outcome>>
    OBVIOUS
  <2>a. Outcome = [c \in Calls |-> IF stage[c] = "success" THEN "written"
                                   ELSE IF stage[c] \in Returned THEN "refused" ELSE "pending"]
    BY DEF Outcome
  <2>0. ASSUME NEW c \in Calls, stage[c] \in {"find", "update"}
        PROVE  Outcome[c] = "pending"
    BY <2>0 DEF Outcome, Returned
  <2>1. ASSUME NEW c \in Calls, Find(c) PROVE [Atomic!Next]_<<rowStatus, call, Outcome>>
    <3>1. CASE rowStatus = NoRow
      <4>1. Outcome' = [Outcome EXCEPT ![c] = "refused"]
        BY <2>1, <3>1, OutcomeOf DEF Find, Returned
      <4>2. Outcome[c] = "pending"
        BY <2>0, <2>1 DEF Find
      <4>. QED
        BY <2>1, <4>1, <4>2 DEF Find, rowVars, Atomic!Next, Atomic!Refuse, Outcome
    <3>2. CASE rowStatus # NoRow
      <4>1. Outcome' = [Outcome EXCEPT ![c] = "pending"]
        BY <2>1, <3>2, OutcomeOf DEF Find, Returned
      <4>2. Outcome' = Outcome
        BY <2>0, <2>1, <4>1 DEF Find, Outcome
      <4>. QED
        BY <2>1, <4>2 DEF Find, rowVars
    <3>. QED
      BY <3>1, <3>2
  <2>2. ASSUME NEW c \in Calls, Update(c) PROVE [Atomic!Next]_<<rowStatus, call, Outcome>>
    <3>1. Outcome' = [Outcome EXCEPT ![c] = "written"]
      BY <2>2, OutcomeOf DEF Update
    <3>2. Outcome[c] = "pending"
      BY <2>0, <2>2 DEF Update
    <3>. QED
      BY <2>2, <3>1, <3>2 DEF Update, Matches, Written, Atomic!Next, Atomic!Apply, Outcome
  <2>3. ASSUME NEW c \in Calls, Conflict(c) PROVE [Atomic!Next]_<<rowStatus, call, Outcome>>
    <3>0. Outcome[c] = "pending"
      BY <2>0, <2>3 DEF Conflict
    <3>1. CASE NoRetriesLeft(NextRetries(retries[c]))
      <4>1. Outcome' = [Outcome EXCEPT ![c] = "refused"]
        BY <2>3, <3>1, OutcomeOf DEF Conflict, Returned
      <4>. QED
        BY <2>3, <3>0, <4>1 DEF Conflict, rowVars, Atomic!Next, Atomic!Refuse, Outcome
    <3>2. CASE ~NoRetriesLeft(NextRetries(retries[c]))
      <4>1. Outcome' = [Outcome EXCEPT ![c] = "pending"]
        BY <2>3, <3>2, OutcomeOf DEF Conflict, Returned
      <4>2. Outcome' = Outcome
        BY <3>0, <4>1 DEF Outcome
      <4>. QED
        BY <2>3, <4>2 DEF Conflict, rowVars
    <3>. QED
      BY <3>1, <3>2
  <2>4. ASSUME NEW c \in Calls, Rejected(c) PROVE [Atomic!Next]_<<rowStatus, call, Outcome>>
    <3>1. Outcome' = [Outcome EXCEPT ![c] = "refused"]
      BY <2>4, OutcomeOf DEF Rejected, Returned
    <3>2. Outcome[c] = "pending"
      BY <2>0, <2>4 DEF Rejected
    <3>. QED
      BY <2>4, <3>1, <3>2 DEF Rejected, rowVars, Atomic!Next, Atomic!Refuse, Outcome
  <2>5. CASE DirectWrite
    BY <2>5 DEF DirectWrite, callVars, Atomic!Next, Atomic!Elsewhere, Outcome
  <2>6. CASE Delete
    BY <2>6 DEF Delete, callVars, Atomic!Next, Atomic!Elsewhere, Outcome
  <2>7. CASE UNCHANGED updateVars
    BY <2>7 DEF updateVars, rowVars, callVars, Outcome
  <2>. QED
    BY <2>1, <2>2, <2>3, <2>4, <2>5, <2>6, <2>7 DEF UpdateNext, Call
<1>. QED
  BY <1>1, <1>2, UpdateTyping, PTL
     DEF UpdateSpec, ImplementsAtomicUpdate, Atomic!Spec, Atomic!vars, Outcome

-----------------------------------------------------------------------------
(* No starvation.                                                           *)

Succeeded == {c \in Calls : stage[c] = "success"}
Unguarded == {c \in Calls : call[c].expected = NoExpectation}

\* The version counts the calls that succeeded, and a call without expectedStatus has
\* met at most as many conflicts as there were such calls before its latest read.
ConflictBound ==
    /\ version = Cardinality(Succeeded)
    /\ \A c \in Unguarded : rowStatus # NoRow =>
        /\ stage[c] = "find" => retries[c] <= version
        /\ stage[c] = "update" => retries[c] <= seen[c] /\ seen[c] <= version
        /\ Cardinality(Calls) <= MaxRetries + 1 => stage[c] # "exhausted"

\* A call that has not succeeded is not among those the version counts.
LEMMA VersionBelowCalls ==
  ASSUME UpdateTypeOK, version = Cardinality(Succeeded), NEW c \in Calls, stage[c] # "success"
  PROVE  version < Cardinality(Calls)
<1>1. Succeeded \in SUBSET (Calls \ {c})
  BY DEF Succeeded
<1>2. IsFiniteSet(Calls \ {c}) /\ Cardinality(Calls \ {c}) = Cardinality(Calls) - 1
  BY CallsAssumption, FS_RemoveElement
<1>3. Cardinality(Succeeded) <= Cardinality(Calls) - 1
  BY <1>1, <1>2, FS_Subset
<1>4. Cardinality(Calls) \in Nat
  BY CallsAssumption, FS_CardinalityType
<1>. QED
  BY <1>3, <1>4 DEF UpdateTypeOK

LEMMA ConflictBoundInvariant == UpdateSpec => []ConflictBound
<1>1. UpdateInit => ConflictBound
  <2>. SUFFICES ASSUME UpdateInit PROVE ConflictBound
    OBVIOUS
  <2>1. Succeeded = {}
    BY DEF UpdateInit, Succeeded
  <2>. QED
    BY <2>1, FS_EmptySet DEF UpdateInit, ConflictBound, Unguarded
<1>2. UpdateTypeOK /\ ConflictBound /\ [UpdateNext]_updateVars => ConflictBound'
  <2>. SUFFICES ASSUME UpdateTypeOK, ConflictBound, [UpdateNext]_updateVars PROVE ConflictBound'
    OBVIOUS
  <2>0. /\ version \in Nat
        /\ retries \in [Calls -> Nat]
        /\ seen \in [Calls -> Nat]
        /\ stage \in [Calls -> {"find", "update"} \cup Returned]
    BY DEF UpdateTypeOK
  <2>1. ASSUME NEW c \in Calls, Find(c) PROVE ConflictBound'
    <3>1. Succeeded' = Succeeded /\ Unguarded' = Unguarded
      BY <2>0, <2>1 DEF Find, Succeeded, Unguarded
    <3>. QED
      BY <2>0, <2>1, <3>1 DEF Find, ConflictBound, rowVars, Unguarded
  <2>2. ASSUME NEW c \in Calls, Update(c) PROVE ConflictBound'
    <3>1. Succeeded' = Succeeded \cup {c} /\ c \notin Succeeded /\ Unguarded' = Unguarded
      BY <2>0, <2>2 DEF Update, Succeeded, Unguarded
    <3>2. IsFiniteSet(Succeeded)
      BY CallsAssumption, FS_Subset DEF Succeeded
    <3>3. Cardinality(Succeeded') = version + 1
      BY <3>1, <3>2, FS_AddElement DEF ConflictBound
    <3>4. version' = version + 1
      BY <2>2 DEF Update, Matches
    <3>5. rowStatus # NoRow
      BY <2>2, StatusAssumption DEF Update, Matches, UpdateTypeOK, Arguments
    <3>. QED
      BY <2>0, <2>2, <3>1, <3>3, <3>4, <3>5 DEF Update, ConflictBound, Unguarded
  <2>3. ASSUME NEW c \in Calls, Conflict(c) PROVE ConflictBound'
    <3>1. Succeeded' = Succeeded /\ Unguarded' = Unguarded
      BY <2>0, <2>3 DEF Conflict, Succeeded, Unguarded
    <3>2. ASSUME c \in Unguarded, rowStatus # NoRow
          PROVE  retries[c] + 1 <= version
      <4>1. version # seen[c]
        BY <2>3, <3>2 DEF Conflict, Matches, Unguarded, UpdateTypeOK
      <4>2. retries[c] <= seen[c] /\ seen[c] <= version
        BY <2>3, <3>2 DEF Conflict, ConflictBound
      <4>. QED
        BY <2>0, <4>1, <4>2
    <3>3. version < Cardinality(Calls)
      BY <2>3, VersionBelowCalls DEF Conflict, ConflictBound
    <3>4. Cardinality(Calls) \in Nat
      BY CallsAssumption, FS_CardinalityType
    <3>5. ASSUME NEW d \in Unguarded, rowStatus # NoRow
          PROVE  /\ stage'[d] = "find" => retries'[d] <= version
                 /\ stage'[d] = "update" => retries'[d] <= seen[d] /\ seen[d] <= version
                 /\ Cardinality(Calls) <= MaxRetries + 1 => stage'[d] # "exhausted"
      <4>1. CASE d = c
        BY <2>0, <2>3, <3>2, <3>3, <3>4, <3>5, <4>1
           DEF Conflict, NextRetries, NoRetriesLeft, Unguarded
      <4>2. CASE d # c
        BY <2>0, <2>3, <3>5, <4>2 DEF Conflict, ConflictBound, Unguarded
      <4>. QED
        BY <4>1, <4>2
    <3>. QED
      BY <2>3, <3>1, <3>5 DEF Conflict, ConflictBound, rowVars
  <2>4. ASSUME NEW c \in Calls, Rejected(c) PROVE ConflictBound'
    <3>1. Succeeded' = Succeeded /\ Unguarded' = Unguarded
      BY <2>0, <2>4 DEF Rejected, Succeeded, Unguarded
    <3>. QED
      BY <2>0, <2>4, <3>1 DEF Rejected, ConflictBound, rowVars, Unguarded
  <2>5. CASE DirectWrite
    BY <2>5 DEF DirectWrite, callVars, ConflictBound, Succeeded, Unguarded
  <2>6. CASE Delete
    BY <2>6 DEF Delete, callVars, ConflictBound, Succeeded, Unguarded
  <2>7. CASE UNCHANGED updateVars
    BY <2>7 DEF updateVars, rowVars, callVars, ConflictBound, Succeeded, Unguarded
  <2>. QED
    BY <2>1, <2>2, <2>3, <2>4, <2>5, <2>6, <2>7 DEF UpdateNext, Call
<1>. QED
  BY <1>1, <1>2, UpdateTyping, PTL DEF UpdateSpec

\* With at most maxRetries concurrent callers besides it, a call without
\* expectedStatus never gives up on the row: checkStuckBatches and buildFinalPlaylist
\* may ignore the result of updateBatchStatus.
THEOREM UnguardedCallsSucceed == UpdateSpec => []NeverStarved
<1>1. ConflictBound => NeverStarved
  BY DEF ConflictBound, NeverStarved, Unguarded
<1>. QED
  BY <1>1, ConflictBoundInvariant, PTL

-----------------------------------------------------------------------------
\* The version a call read is still the row's only if the row was not written since.
VersionTracksRow ==
    \A c \in Calls : stage[c] = "update" =>
        seen[c] <= version /\ (direct = 0 /\ seen[c] = version => rowStatus \in {basis[c], NoRow})

LEMMA VersionTracksRowInvariant == UpdateSpec => []VersionTracksRow
<1>1. UpdateInit => VersionTracksRow
  BY DEF UpdateInit, VersionTracksRow
<1>2. UpdateTypeOK /\ VersionTracksRow /\ [UpdateNext]_updateVars => VersionTracksRow'
  <2>. SUFFICES ASSUME UpdateTypeOK, VersionTracksRow, [UpdateNext]_updateVars PROVE VersionTracksRow'
    OBVIOUS
  <2>0. /\ version \in Nat /\ direct \in Nat
        /\ stage \in [Calls -> {"find", "update"} \cup Returned]
        /\ seen \in [Calls -> Nat]
        /\ basis \in [Calls -> Statuses \cup {NoRow}]
    BY DEF UpdateTypeOK
  <2>1. ASSUME NEW c \in Calls, Find(c) PROVE VersionTracksRow'
    BY <2>0, <2>1 DEF Find, VersionTracksRow, rowVars, boundVars
  <2>2. ASSUME NEW c \in Calls, Update(c) PROVE VersionTracksRow'
    <3>1. version' = version + 1
      BY <2>2 DEF Update, Matches
    <3>. QED
      BY <2>0, <2>2, <3>1 DEF Update, VersionTracksRow
  <2>3. ASSUME NEW c \in Calls, Conflict(c) PROVE VersionTracksRow'
    BY <2>0, <2>3 DEF Conflict, VersionTracksRow, rowVars, boundVars
  <2>4. ASSUME NEW c \in Calls, Rejected(c) PROVE VersionTracksRow'
    BY <2>0, <2>4 DEF Rejected, VersionTracksRow, rowVars
  <2>5. CASE DirectWrite
    BY <2>0, <2>5 DEF DirectWrite, callVars, VersionTracksRow
  <2>6. CASE Delete
    BY <2>6 DEF Delete, callVars, boundVars, VersionTracksRow
  <2>7. CASE UNCHANGED updateVars
    BY <2>7 DEF updateVars, rowVars, callVars, boundVars, VersionTracksRow
  <2>. QED
    BY <2>1, <2>2, <2>3, <2>4, <2>5, <2>6, <2>7 DEF UpdateNext, Call
<1>. QED
  BY <1>1, <1>2, UpdateTyping, PTL DEF UpdateSpec

\* While every writer bumps the version, a call that writes builds on the row it read.
THEOREM WritesBuildOnRead == UpdateSpec => BuildsOnWhatItRead
<1>1. UpdateTypeOK /\ VersionTracksRow /\ [UpdateNext]_updateVars =>
        [\A c \in Calls :
            stage[c] = "update" /\ stage'[c] = "success" /\ direct = 0 => rowStatus = basis[c]]_updateVars
  <2>. SUFFICES ASSUME UpdateTypeOK, VersionTracksRow, UpdateNext, NEW c \in Calls,
                       stage[c] = "update", stage'[c] = "success", direct = 0
                PROVE  rowStatus = basis[c]
    OBVIOUS
  <2>0. stage \in [Calls -> {"find", "update"} \cup Returned]
    BY DEF UpdateTypeOK
  <2>1. Update(c)
    <3>1. ASSUME NEW d \in Calls, Find(d) \/ Conflict(d) \/ Rejected(d) PROVE FALSE
      BY <2>0, <3>1 DEF Find, Conflict, Rejected
    <3>2. ASSUME NEW d \in Calls, Update(d), d # c PROVE FALSE
      BY <2>0, <3>2 DEF Update
    <3>3. ~DirectWrite /\ ~Delete
      BY DEF DirectWrite, Delete, callVars
    <3>. QED
      BY <3>1, <3>2, <3>3 DEF UpdateNext, Call
  <2>2. rowStatus # NoRow /\ seen[c] = version
    BY <2>1, StatusAssumption DEF Update, Matches, UpdateTypeOK, Arguments
  <2>. QED
    BY <2>2 DEF VersionTracksRow
<1>. QED
  BY <1>1, VersionTracksRowInvariant, UpdateTyping, PTL DEF UpdateSpec, BuildsOnWhatItRead
=============================================================================
