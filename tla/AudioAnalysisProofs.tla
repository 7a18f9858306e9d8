------------------------- MODULE AudioAnalysisProofs -------------------------
(***************************************************************************)
(* The rows of the audio analysis, for any number of tracks, faults and    *)
(* restarts: results are real, condemnations earned, and an analysis is    *)
(* doubled only where a fault or a restart let its row be reset.  Then the *)
(* vibe queue, for whatever a scenario allows of claims, losses, failures, *)
(* pauses, routes and restarts.                                            *)
(***************************************************************************)
EXTENDS AudioAnalysis, VibeQueue, FiniteSetTheorems, TLAPS

USE TrackAssumption, BoundAssumption
USE DEF Fault, Update, SetStatus, CleanupRows, Validate, Returns, Overdue, Rescan, Add, Drop, None, In,
   Scanned,
        rows, redis, analyzer, backend, world, Statuses, Bags, Still, Purgatory, Ready, Lost, Gone, Charged,
        Popping,
        Claimable, InHand

-----------------------------------------------------------------------------
\* Types.

\* An empty list is waited for at most IdleCycles times.
IdleCounted == py # "reconcile" => empty < IdleCycles

BreakerType == [state : {"closed", "open", "half-open"}, failures : 0..Threshold, cooled : BOOLEAN]

LEMMA BreakerTyping ==
  ASSUME NEW b \in BreakerType
  PROVE  OnSuccess(b) \in BreakerType /\ OnFailure(b) \in BreakerType /\ [b EXCEPT !.cooled = TRUE] \in BreakerType
<1>1. ClosedBreaker \in BreakerType
  BY DEF ClosedBreaker, BreakerType
<1>2. OnSuccess(b) \in BreakerType
  BY <1>1 DEF OnSuccess
<1>3. [b EXCEPT !.cooled = TRUE] \in BreakerType
  BY DEF BreakerType
<1>4. OnFailure(b) \in BreakerType
  <2>. DEFINE n == IF b.failures < Threshold THEN b.failures + 1 ELSE Threshold
  <2>1. n \in 0..Threshold
    BY DEF BreakerType
  <2>2. [b EXCEPT !.state = "open", !.failures = n] \in BreakerType /\ [b EXCEPT !.failures = n] \in BreakerType
    BY <2>1 DEF BreakerType
  <2>. QED
    BY <2>2 DEF OnFailure
<1>. QED
  BY <1>2, <1>3, <1>4

LEMMA CompletedCounted == Cardinality(In({"completed"})) \in Nat
BY FS_Subset, FS_CardinalityType

\* One step per action: the analyzer's own, ...
LEMMA AnalyzerTyping ==
  ASSUME TypeOK, IdleCounted, PyOnce
  PROVE  TypeOK'
<1>. USE DEF TypeOK, IdleCounted
<1>1. CASE PyStart
  BY <1>1 DEF PyStart
<1>2. CASE PyReset
  BY <1>2 DEF PyReset
<1>3. CASE PyCleanup
  BY <1>3 DEF PyCleanup
<1>4. CASE PySkipCleanup
  BY <1>4 DEF PySkipCleanup
<1>5. CASE PyRetry
  BY <1>5 DEF PyRetry
<1>6. CASE PyPopScan
  BY <1>6 DEF PyPopScan
<1>7. CASE PyValidated
  BY <1>7 DEF PyValidated
<1>8. CASE PyPop
  BY <1>8 DEF PyPop
<1>9. CASE PyPopTimeout
  BY <1>9 DEF PyPopTimeout
<1>10. CASE PyReconcile
  BY <1>10 DEF PyReconcile
<1>11. CASE PyClaimed
  BY <1>11 DEF PyClaimed
<1>12. CASE PyRecreate
  BY <1>12 DEF PyRecreate
<1>13. CASE PyRan
  BY <1>13 DEF PyRan
<1>. QED
  BY <1>1, <1>2, <1>3, <1>4, <1>5, <1>6, <1>7, <1>8, <1>9, <1>10, <1>11, <1>12, <1>13 DEF PyOnce

\* ... those it takes for a track, ...
LEMMA TrackTyping ==
  ASSUME TypeOK, NEW t \in Tracks, Py(t)
  PROVE  TypeOK'
<1>. USE DEF TypeOK
<1>1. CASE PyValidate(t)
  BY <1>1 DEF PyValidate
<1>2. CASE PySave(t)
  BY <1>2 DEF PySave
<1>3. CASE PyFail(t)
  BY <1>3 DEF PyFail
<1>4. CASE PyInnocent(t)
  BY <1>4 DEF PyInnocent
<1>5. CASE PyClaim(t)
  <2>1. analysis' \in [Tracks -> Statuses] /\ stale' \subseteq Tracks
    <3>1. CASE Claimable(t)
      BY <1>5, <3>1 DEF PyClaim
    <3>2. CASE ~Claimable(t)
      BY <1>5, <3>2 DEF PyClaim
    <3>. QED
      BY <3>1, <3>2
  <2>2. batch' \in Bags /\ running' \in Bags
    BY <1>5 DEF PyClaim
  <2>3. py' \in {"claim", "recreate"}
    BY <1>5 DEF PyClaim
  <2>. QED
    BY <1>5, <2>1, <2>2, <2>3 DEF PyClaim
<1>. QED
  BY <1>1, <1>2, <1>3, <1>4, <1>5 DEF Py

\* ... the backend's, ...
LEMMA BackendTyping ==
  ASSUME TypeOK, NodeOnce \/ Cool
  PROVE  TypeOK'
<1>. USE DEF TypeOK
<1>1. CASE NodeRecover
  BY <1>1 DEF NodeRecover
<1>2. CASE NodeFlush
  BY <1>2 DEF NodeFlush
<1>3. CASE NodeRescan
  BY <1>3 DEF NodeRescan
<1>4. CASE NodeScan
  BY <1>4 DEF NodeScan
<1>5. CASE NodePush
  BY <1>5 DEF NodePush
<1>6. CASE NodeRetire
  BY <1>6 DEF NodeRetire
<1>7. CASE NodeScanned
  BY <1>7 DEF NodeScanned
<1>8. CASE NodeRechecked
  BY <1>8 DEF NodeRechecked
<1>9. CASE NodePurge
  BY <1>9 DEF NodePurge
<1>10. CASE NodeMark
  BY <1>10 DEF NodeMark
<1>11. CASE NodeAudio
  <2>1. breaker' \in BreakerType
    BY <1>11, BreakerTyping DEF NodeAudio, BreakerType
  <2>2. lastDone' \in Int
    BY <1>11, CompletedCounted DEF NodeAudio
  <2>. QED
    BY <1>11, <2>1, <2>2 DEF NodeAudio, BreakerType
<1>12. CASE NodeCleaned
  <2>1. breaker' \in BreakerType
    BY <1>12, BreakerTyping DEF NodeCleaned, BreakerType
  <2>. QED
    BY <1>12, <2>1 DEF NodeCleaned, BreakerType
<1>13. CASE NodeQueue
  <2>1. breaker' \in BreakerType
    BY <1>13, BreakerTyping DEF NodeQueue, BreakerType, Consulted
  <2>2. todo' \subseteq Tracks
    BY <1>13 DEF NodeQueue, kSubset
  <2>. QED
    BY <1>13, <2>1, <2>2 DEF NodeQueue, BreakerType
<1>14. CASE Cool
  <2>1. breaker' \in BreakerType
    BY <1>14, BreakerTyping DEF Cool, BreakerType
  <2>. QED
    BY <1>14, <2>1 DEF Cool, BreakerType
<1>. QED
  BY <1>1, <1>2, <1>3, <1>4, <1>5, <1>6, <1>7, <1>8, <1>9, <1>10, <1>11, <1>12, <1>13,
     <1>14 DEF NodeOnce

LEMMA BackendTrackTyping ==
  ASSUME TypeOK, NEW t \in Tracks, Node(t)
  PROVE  TypeOK'
<1>. USE DEF TypeOK
<1>1. CASE NodeHeader(t)
  BY <1>1 DEF NodeHeader
<1>2. CASE NodeRecheck(t)
  BY <1>2 DEF NodeRecheck
<1>3. CASE NodeFill(t)
  BY <1>3 DEF NodeFill
<1>4. CASE NodeCleanup(t)
  <2>1. analysis' \in [Tracks -> Statuses] /\ stale' \subseteq Tracks
    <3>1. CASE t \in Embedded
      BY <1>4, <3>1 DEF NodeCleanup
    <3>2. CASE t \notin Embedded
      BY <1>4, <3>2 DEF NodeCleanup
    <3>. QED
      BY <3>1, <3>2
  <2>2. outcome' \subseteq {"reset", "recovered"}
    BY <1>4 DEF NodeCleanup
  <2>. QED
    BY <1>4, <2>1, <2>2 DEF NodeCleanup
<1>. QED
  BY <1>1, <1>2, <1>3, <1>4 DEF Node

\* ... and what goes wrong.
LEMMA CrashTyping ==
  ASSUME TypeOK, PyBatchTimeout \/ PyDies \/ NodeDies \/ LoseLists
  PROVE  TypeOK'
<1>. USE DEF TypeOK
<1>1. CASE PyBatchTimeout
  BY <1>1 DEF PyBatchTimeout
<1>2. CASE PyDies
  BY <1>2 DEF PyDies
<1>3. CASE NodeDies
  BY <1>3 DEF NodeDies, ClosedBreaker
<1>4. CASE LoseLists
  BY <1>4 DEF LoseLists
<1>. QED
  BY <1>1, <1>2, <1>3, <1>4

LEMMA FaultTyping ==
  ASSUME TypeOK, NEW t \in Tracks,
         \/ PyValidateFails(t) \/ PyVerdictLost(t) \/ PyOutcomeLost(t) \/ PyWorkerDies(t)
         \/ Age(t) \/ Overrun(t) \/ Vanish(t)
  PROVE  TypeOK'
<1>. USE DEF TypeOK
<1>1. CASE PyValidateFails(t)
  BY <1>1 DEF PyValidateFails
<1>2. CASE PyVerdictLost(t)
  BY <1>2 DEF PyVerdictLost
<1>3. CASE PyOutcomeLost(t)
  BY <1>3 DEF PyOutcomeLost
<1>4. CASE PyWorkerDies(t)
  BY <1>4 DEF PyWorkerDies
<1>5. CASE Age(t)
  BY <1>5 DEF Age
<1>6. CASE Overrun(t)
  BY <1>6 DEF Overrun
<1>7. CASE Vanish(t)
  BY <1>7 DEF Vanish
<1>. QED
  BY <1>1, <1>2, <1>3, <1>4, <1>5, <1>6, <1>7

LEMMA IdleCountedStep ==
  ASSUME TypeOK, IdleCounted, [Next]_vars
  PROVE  IdleCounted'
<1>. USE DEF TypeOK, IdleCounted
<1>1. CASE PyOnce
  BY <1>1 DEF PyOnce, PyStart, PyReset, PyCleanup, PySkipCleanup, PyRetry, PyPopScan, PyValidated,
     PyPop,
  PyPopTimeout,
     PyReconcile, PyClaimed, PyRecreate, PyRan
<1>2. CASE NodeOnce \/ Cool \/ \E t \in Tracks : Node(t) \/ Age(t)
  BY <1>2 DEF NodeOnce, NodeRecover, NodeFlush, NodeRescan, NodeScan, NodePush, NodeRetire, NodeScanned,
  NodeRechecked,
     NodeAudio, NodeCleaned, NodePurge, NodeQueue, NodeMark, Cool, Node, NodeHeader, NodeRecheck,
     NodeCleanup, NodeFill, Age
<1>3. CASE \E t \in Tracks : Py(t)
  BY <1>3 DEF Py, PyValidate, PyClaim, PySave, PyFail, PyInnocent
<1>4. CASE Faults
  BY <1>4 DEF Faults, PyBatchTimeout, PyDies, NodeDies, LoseLists, PyValidateFails, PyVerdictLost,
  PyOutcomeLost,
     PyWorkerDies, Overrun, Vanish
<1>5. CASE UNCHANGED vars
  BY <1>5 DEF vars
<1>. QED
  BY <1>1, <1>2, <1>3, <1>4, <1>5 DEF Next

LEMMA TypingInvariant == Spec => [](TypeOK /\ IdleCounted)
<1>1. Init => TypeOK /\ IdleCounted
  BY DEF Init, TypeOK, IdleCounted, ClosedBreaker
<1>2. TypeOK /\ IdleCounted /\ [Next]_vars => TypeOK' /\ IdleCounted'
  <2>. SUFFICES ASSUME TypeOK, IdleCounted, [Next]_vars
                PROVE  TypeOK' /\ IdleCounted'
    OBVIOUS
  <2>1. IdleCounted'
    BY IdleCountedStep
  <2>2. UNCHANGED vars => TypeOK'
    BY DEF vars, TypeOK
  <2>3. PyOnce => TypeOK'
    BY AnalyzerTyping
  <2>4. NodeOnce \/ Cool => TypeOK'
    BY BackendTyping
  <2>5. ASSUME NEW t \in Tracks, Py(t) \/ Node(t) \/ Age(t)
        PROVE  TypeOK'
    BY <2>5, TrackTyping, BackendTrackTyping, FaultTyping
  <2>6. Faults => TypeOK'
    BY CrashTyping, FaultTyping DEF Faults
  <2>. QED
    BY <2>1, <2>2, <2>3, <2>4, <2>5, <2>6 DEF Next
<1>. QED
  BY <1>1, <1>2, PTL DEF Spec

\* Rows, lists and both processes stay well formed.
THEOREM Typing == Spec => []TypeOK
BY TypingInvariant, PTL

-----------------------------------------------------------------------------
\* Rows.

\* Only rows that are processing are stale.
StaleProcessing == \A t \in stale : analysis[t] = "processing"

\* What the backend is about to write still has its reason.
Causes ==
    /\ CondemnedWithCause
    /\ node \in {"cleanup", "purge"} => \A t \in cur : retries[t] >= MaxRetries
    /\ node = "retire" => cur \cap readable = {}

\* A row that leaves processing leaves the stale ones.
LEMMA StaleStep ==
  ASSUME TypeOK, StaleProcessing, [Next]_vars
  PROVE  StaleProcessing'
<1>. USE DEF TypeOK, StaleProcessing
<1>1. PyStart \/ PySkipCleanup \/ PyPopScan \/ PyValidated \/ PyPop \/ PyPopTimeout \/ PyReconcile \/
      PyClaimed \/ PyRan => StaleProcessing'
  BY DEF PyStart, PySkipCleanup, PyPopScan, PyValidated, PyPop, PyPopTimeout, PyReconcile, PyClaimed,
     PyRan
<1>2. PyReset => StaleProcessing'
  BY DEF PyReset
<1>3. PyCleanup => StaleProcessing'
  BY DEF PyCleanup
<1>4. PyRetry => StaleProcessing'
  BY DEF PyRetry
<1>5. PyRecreate => StaleProcessing'
  BY DEF PyRecreate
<1>6. NodeFlush \/ NodeRescan \/ NodeScan \/ NodePush \/ NodeScanned \/ NodeRechecked \/ NodeAudio \/
      NodeCleaned \/ NodeQueue \/ Cool => StaleProcessing'
  BY DEF NodeFlush, NodeRescan, NodeScan, NodePush, NodeScanned, NodeRechecked, NodeAudio, NodeCleaned,
     NodeQueue, Cool
<1>7. NodeRecover => StaleProcessing'
  BY DEF NodeRecover
<1>8. NodeRetire => StaleProcessing'
  BY DEF NodeRetire
<1>9. NodePurge => StaleProcessing'
  BY DEF NodePurge
<1>10. NodeMark => StaleProcessing'
  BY DEF NodeMark
<1>11. PyDies \/ NodeDies \/ LoseLists => StaleProcessing'
  BY DEF PyDies, NodeDies, LoseLists
<1>12. PyBatchTimeout => StaleProcessing'
  BY DEF PyBatchTimeout
<1>13. ASSUME NEW t \in Tracks, PyValidate(t)
       PROVE  StaleProcessing'
  BY <1>13 DEF PyValidate
<1>14. ASSUME NEW t \in Tracks, PyClaim(t)
       PROVE  StaleProcessing'
  <2>1. CASE Claimable(t)
    BY <1>14, <2>1 DEF PyClaim
  <2>2. CASE ~(Claimable(t))
    BY <1>14, <2>2 DEF PyClaim
  <2>. QED
    BY <2>1, <2>2
<1>15. ASSUME NEW t \in Tracks, PySave(t)
       PROVE  StaleProcessing'
  BY <1>15 DEF PySave
<1>16. ASSUME NEW t \in Tracks, PyFail(t)
       PROVE  StaleProcessing'
  BY <1>16 DEF PyFail
<1>17. ASSUME NEW t \in Tracks, PyInnocent(t)
       PROVE  StaleProcessing'
  BY <1>17 DEF PyInnocent
<1>18. ASSUME NEW t \in Tracks, NodeHeader(t) \/ NodeRecheck(t) \/ NodeFill(t) \/ Age(t)
       PROVE  StaleProcessing'
  BY <1>18 DEF NodeHeader, NodeRecheck, NodeFill, Age
<1>19. ASSUME NEW t \in Tracks, NodeCleanup(t)
       PROVE  StaleProcessing'
  <2>1. CASE t \in Embedded
    BY <1>19, <2>1 DEF NodeCleanup
  <2>2. CASE ~(t \in Embedded)
    BY <1>19, <2>2 DEF NodeCleanup
  <2>. QED
    BY <2>1, <2>2
<1>20. ASSUME NEW t \in Tracks, PyValidateFails(t) \/ PyVerdictLost(t) \/ PyOutcomeLost(t) \/
              PyWorkerDies(t) \/ Overrun(t) \/ Vanish(t)
       PROVE  StaleProcessing'
  BY <1>20 DEF PyValidateFails, PyVerdictLost, PyOutcomeLost, PyWorkerDies, Overrun, Vanish
<1>21. UNCHANGED vars => StaleProcessing'
  BY DEF vars
<1>. QED
  BY <1>1, <1>2, <1>3, <1>4, <1>5, <1>6, <1>7, <1>8, <1>9, <1>10, <1>11, <1>12, <1>13, <1>14, <1>15,
     <1>16,
     <1>17, <1>18, <1>19, <1>20, <1>21 DEF Next, PyOnce, NodeOnce, Faults, Py, Node

\* Completed is written where features were saved or an embedding stands.
LEMMA AnalysedStep ==
  ASSUME TypeOK, StaleProcessing, CompletedIsAnalysed, [Next]_vars
  PROVE  CompletedIsAnalysed'
<1>. USE DEF TypeOK, StaleProcessing, CompletedIsAnalysed
<1>1. PyStart \/ PyReset \/ PyCleanup \/ PySkipCleanup \/ PyRetry \/ PyPopScan \/ PyValidated \/ PyPop \/
      PyPopTimeout \/ PyReconcile \/ PyClaimed \/ PyRecreate \/ PyRan => CompletedIsAnalysed'
  BY DEF PyStart, PyReset, PyCleanup, PySkipCleanup, PyRetry, PyPopScan, PyValidated, PyPop,
     PyPopTimeout,
     PyReconcile, PyClaimed, PyRecreate, PyRan
<1>2. NodeRecover \/ NodeFlush \/ NodeRescan \/ NodeScan \/ NodePush \/ NodeRetire \/ NodeScanned \/
      NodeRechecked \/ NodeAudio \/ NodeCleaned \/ NodePurge \/ NodeQueue \/ NodeMark \/ Cool =>
      CompletedIsAnalysed'
  BY DEF NodeRecover, NodeFlush, NodeRescan, NodeScan, NodePush, NodeRetire, NodeScanned, NodeRechecked,
     NodeAudio, NodeCleaned, NodePurge, NodeQueue, NodeMark, Cool
<1>3. PyBatchTimeout \/ PyDies \/ NodeDies \/ LoseLists => CompletedIsAnalysed'
  BY DEF PyBatchTimeout, PyDies, NodeDies, LoseLists
<1>4. ASSUME NEW t \in Tracks, PyValidate(t) \/ PyClaim(t) \/ PySave(t) \/ PyFail(t) \/ PyInnocent(t)
      PROVE  CompletedIsAnalysed'
  BY <1>4 DEF PyValidate, PyClaim, PySave, PyFail, PyInnocent
<1>5. ASSUME NEW t \in Tracks, NodeHeader(t) \/ NodeRecheck(t) \/ NodeCleanup(t) \/ NodeFill(t) \/ Age(t)
      PROVE  CompletedIsAnalysed'
  BY <1>5 DEF NodeHeader, NodeRecheck, NodeCleanup, NodeFill, Age
<1>6. ASSUME NEW t \in Tracks, PyValidateFails(t) \/ PyVerdictLost(t) \/ PyOutcomeLost(t) \/
             PyWorkerDies(t) \/ Overrun(t) \/ Vanish(t)
      PROVE  CompletedIsAnalysed'
  BY <1>6 DEF PyValidateFails, PyVerdictLost, PyOutcomeLost, PyWorkerDies, Overrun, Vanish
<1>7. UNCHANGED vars => CompletedIsAnalysed'
  BY DEF vars
<1>. QED
  BY <1>1, <1>2, <1>3, <1>4, <1>5, <1>6, <1>7 DEF Next, PyOnce, NodeOnce, Faults, Py, Node

\* Retries and unreadable files are what the backend read before it condemns.
LEMMA CausesStep ==
  ASSUME TypeOK, StaleProcessing, Causes, [Next]_vars
  PROVE  Causes'
<1>. USE DEF TypeOK, StaleProcessing, Causes, CondemnedWithCause
<1>1. PyStart \/ PyReset \/ PyCleanup \/ PySkipCleanup \/ PyRetry \/ PyPopScan \/ PyValidated \/ PyPop \/
      PyPopTimeout \/ PyReconcile \/ PyClaimed \/ PyRecreate \/ PyRan => Causes'
  BY DEF PyStart, PyReset, PyCleanup, PySkipCleanup, PyRetry, PyPopScan, PyValidated, PyPop,
     PyPopTimeout,
     PyReconcile, PyClaimed, PyRecreate, PyRan
<1>2. NodeRecover \/ NodeFlush \/ NodeRescan \/ NodeScan \/ NodePush \/ NodeRetire \/ NodeScanned \/
      NodeRechecked \/ NodeAudio \/ NodeCleaned \/ NodePurge \/ NodeQueue \/ NodeMark \/ Cool => Causes'
  BY DEF NodeRecover, NodeFlush, NodeRescan, NodeScan, NodePush, NodeRetire, NodeScanned, NodeRechecked,
     NodeAudio, NodeCleaned, NodePurge, NodeQueue, NodeMark, Cool
<1>3. PyBatchTimeout \/ PyDies \/ NodeDies \/ LoseLists => Causes'
  BY DEF PyBatchTimeout, PyDies, NodeDies, LoseLists
<1>4. ASSUME NEW t \in Tracks, PyValidate(t) \/ PyClaim(t) \/ PySave(t) \/ PyFail(t) \/ PyInnocent(t)
      PROVE  Causes'
  BY <1>4 DEF PyValidate, PyClaim, PySave, PyFail, PyInnocent
<1>5. ASSUME NEW t \in Tracks, NodeHeader(t) \/ NodeRecheck(t) \/ NodeCleanup(t) \/ NodeFill(t) \/ Age(t)
      PROVE  Causes'
  BY <1>5 DEF NodeHeader, NodeRecheck, NodeCleanup, NodeFill, Age
<1>6. ASSUME NEW t \in Tracks, PyValidateFails(t) \/ PyVerdictLost(t) \/ PyOutcomeLost(t) \/
             PyWorkerDies(t) \/ Overrun(t) \/ Vanish(t)
      PROVE  Causes'
  BY <1>6 DEF PyValidateFails, PyVerdictLost, PyOutcomeLost, PyWorkerDies, Overrun, Vanish
<1>7. UNCHANGED vars => Causes'
  BY DEF vars
<1>. QED
  BY <1>1, <1>2, <1>3, <1>4, <1>5, <1>6, <1>7 DEF Next, PyOnce, NodeOnce, Faults, Py, Node

-----------------------------------------------------------------------------
\* One analysis at a time.

Open == {"pending", "queued", "failed"}

\* The faults and restarts so far, less the one the backend is recovering from.
Resets == restarts + faults - (IF node = "recover" THEN 1 ELSE 0)
Fresh ==
    /\ node = "recover"
    /\ queue = None /\ scanQueue = None /\ batch = None /\ running = None
    /\ stale = {}
    /\ \A t \in Tracks : analysis[t] = "pending"

\* Each analysis of a track beyond the first has had its reset.
Slack ==
    /\ restarts = 0 => Fresh \/ node # "recover"
    /\ \A t \in Tracks :
          /\ running[t] <= 1 + restarts + faults
          /\ Fresh \/ (analysis[t] = "processing" => running[t] <= 1 + Resets)
          /\ Fresh \/ (t \in stale \/ analysis[t] \in Open => running[t] <= Resets)

\* A row is open or stale again only through a fault or a restart.
LEMMA SlackStep ==
  ASSUME TypeOK, StaleProcessing, Slack, [Next]_vars
  PROVE  Slack'
<1>. USE DEF TypeOK, StaleProcessing, Slack, Open, Resets, Fresh
<1>1. PyStart \/ PySkipCleanup \/ PyPopScan \/ PyValidated \/ PyPop \/ PyPopTimeout \/ PyReconcile \/
      PyClaimed \/ PyRan => Slack'
  BY DEF PyStart, PySkipCleanup, PyPopScan, PyValidated, PyPop, PyPopTimeout, PyReconcile, PyClaimed,
     PyRan
<1>2. PyReset => Slack'
  BY DEF PyReset
<1>3. PyCleanup => Slack'
  BY DEF PyCleanup
<1>4. PyRetry => Slack'
  BY DEF PyRetry
<1>5. PyRecreate => Slack'
  BY DEF PyRecreate
<1>6. NodeRescan \/ NodeScan \/ NodePush \/ NodeScanned \/ NodeRechecked \/ NodeAudio \/ NodeCleaned \/
      NodeQueue \/ Cool => Slack'
  BY DEF NodeRescan, NodeScan, NodePush, NodeScanned, NodeRechecked, NodeAudio, NodeCleaned, NodeQueue,
     Cool
<1>7. NodeRecover => Slack'
  BY DEF NodeRecover
<1>8. NodeFlush => Slack'
  BY DEF NodeFlush
<1>9. NodeRetire => Slack'
  BY DEF NodeRetire
<1>10. NodePurge => Slack'
  BY DEF NodePurge
<1>11. NodeMark => Slack'
  BY DEF NodeMark
<1>12. LoseLists => Slack'
  BY DEF LoseLists
<1>13. PyBatchTimeout => Slack'
  BY DEF PyBatchTimeout
<1>14. PyDies => Slack'
  BY DEF PyDies
<1>15. NodeDies => Slack'
  BY DEF NodeDies
<1>16. ASSUME NEW t \in Tracks, PyValidate(t)
       PROVE  Slack'
  BY <1>16 DEF PyValidate
<1>17. ASSUME NEW t \in Tracks, PyClaim(t)
       PROVE  Slack'
  <2>1. ~Fresh /\ node' = node /\ restarts' = restarts /\ faults' = faults
    BY <1>17 DEF PyClaim
  <2>2. \A i \in Tracks : i # t => running'[i] = running[i]
    BY <1>17 DEF PyClaim
  <2>3. \A i \in Tracks : i # t => analysis'[i] = analysis[i]
    <3>1. CASE Claimable(t)
      BY <1>17, <3>1 DEF PyClaim
    <3>2. CASE ~Claimable(t)
      BY <1>17, <3>2 DEF PyClaim
    <3>. QED
      BY <3>1, <3>2
  <2>4. stale' \subseteq stale
    <3>1. CASE Claimable(t)
      BY <1>17, <3>1 DEF PyClaim
    <3>2. CASE ~Claimable(t)
      BY <1>17, <3>2 DEF PyClaim
    <3>. QED
      BY <3>1, <3>2
  <2>5. \A i \in Tracks : i # t => running'[i] = running[i] /\ analysis'[i] = analysis[i] /\ (i \in stale' => i \in stale)
    BY <2>2, <2>3, <2>4
  <2>6. CASE Claimable(t)
    <3>1. running[t] <= Resets
      BY <2>1, <2>6
    <3>2. running'[t] \in Nat /\ running'[t] <= running[t] + 1
      BY <1>17 DEF PyClaim
    <3>3. analysis'[t] = "processing" /\ t \notin stale'
      BY <1>17, <2>6 DEF PyClaim
    <3>4. Resets \in Int /\ Resets <= restarts + faults /\ Resets' = Resets
      BY <2>1
    <3>5. running'[t] <= 1 + Resets /\ running'[t] <= 1 + restarts + faults
      <4>. HIDE DEF Resets
      <4>. QED
        BY <3>1, <3>2, <3>4
    <3>6. ASSUME NEW i \in Tracks
          PROVE  /\ running'[i] <= 1 + restarts' + faults'
                 /\ analysis'[i] = "processing" => running'[i] <= 1 + Resets'
                 /\ i \in stale' \/ analysis'[i] \in Open => running'[i] <= Resets'
      <4>1. CASE i = t
        BY <2>1, <3>3, <3>4, <3>5, <4>1
      <4>2. CASE i # t
        <5>1. running'[i] <= 1 + restarts + faults
              /\ (analysis[i] = "processing" => running[i] <= 1 + Resets)
              /\ (i \in stale \/ analysis[i] \in Open => running[i] <= Resets)
          BY <2>1, <2>5, <4>2
        <5>. QED
          BY <2>1, <2>5, <3>4, <4>2, <5>1
      <4>. QED
        BY <4>1, <4>2
    <3>. QED
      BY <2>1, <3>6
  <2>7. CASE ~Claimable(t)
    <3>1. running' = running /\ (t \in stale' => t \in stale)
          /\ (analysis'[t] = analysis[t] \/ (analysis[t] = "queued" /\ analysis'[t] = "pending"))
      BY <1>17, <2>7 DEF PyClaim
    <3>. QED
      BY <2>1, <2>5, <3>1
  <2>. QED
    BY <2>6, <2>7
<1>18. ASSUME NEW t \in Tracks, PySave(t)
       PROVE  Slack'
  BY <1>18 DEF PySave
<1>19. ASSUME NEW t \in Tracks, PyFail(t)
       PROVE  Slack'
  BY <1>19 DEF PyFail
<1>20. ASSUME NEW t \in Tracks, PyInnocent(t)
       PROVE  Slack'
  BY <1>20 DEF PyInnocent
<1>21. ASSUME NEW t \in Tracks, NodeHeader(t) \/ NodeRecheck(t) \/ NodeFill(t)
       PROVE  Slack'
  BY <1>21 DEF NodeHeader, NodeRecheck, NodeFill
<1>22. ASSUME NEW t \in Tracks, NodeCleanup(t)
       PROVE  Slack'
  <2>1. ~Fresh /\ UNCHANGED <<node, restarts, faults, running>>
    BY <1>22 DEF NodeCleanup
  <2>2. \A i \in Tracks : (i \notin stale => analysis'[i] = analysis[i]) /\ (i \in stale' => i \in stale)
    BY <1>22 DEF NodeCleanup
  <2>3. \A i \in stale : analysis'[i] = analysis[i] \/ running'[i] <= Resets
    BY <1>22, <2>1 DEF NodeCleanup
  <2>. QED
    BY <2>1, <2>2, <2>3
<1>23. ASSUME NEW t \in Tracks, Age(t)
       PROVE  Slack'
  BY <1>23 DEF Age
<1>24. ASSUME NEW t \in Tracks, PyValidateFails(t) \/ PyVerdictLost(t) \/ PyWorkerDies(t) \/ Vanish(t)
       PROVE  Slack'
  BY <1>24 DEF PyValidateFails, PyVerdictLost, PyWorkerDies, Vanish
<1>25. ASSUME NEW t \in Tracks, PyOutcomeLost(t)
       PROVE  Slack'
  BY <1>25 DEF PyOutcomeLost
<1>26. ASSUME NEW t \in Tracks, Overrun(t)
       PROVE  Slack'
  BY <1>26 DEF Overrun
<1>27. UNCHANGED vars => Slack'
  BY DEF vars
<1>. QED
  BY <1>1, <1>2, <1>3, <1>4, <1>5, <1>6, <1>7, <1>8, <1>9, <1>10, <1>11, <1>12, <1>13, <1>14, <1>15,
     <1>16,
     <1>17, <1>18, <1>19, <1>20, <1>21, <1>22, <1>23, <1>24, <1>25, <1>26, <1>27 DEF Next, PyOnce, NodeOnce,
     Faults, Py, Node

-----------------------------------------------------------------------------
\* The theorems.

LEMMA RowsInvariant == Spec => [](StaleProcessing /\ CompletedIsAnalysed /\ Causes /\ Slack)
<1>. DEFINE Inv == StaleProcessing /\ CompletedIsAnalysed /\ Causes /\ Slack
<1>1. Init => Inv
  BY DEF Init, StaleProcessing, CompletedIsAnalysed, Causes, CondemnedWithCause, Slack, Fresh, Resets,
     Open
<1>2. TypeOK /\ Inv /\ [Next]_vars => Inv'
  BY StaleStep, AnalysedStep, CausesStep, SlackStep
<1>. QED
  BY <1>1, <1>2, Typing, PTL DEF Spec

\* Whatever either process loses, overruns or dies of, a completed track has features or an
\* embedding behind it and a condemned one its retries or an unreadable file.
THEOREM Consistent == Spec => []TracksConsistent
<1>1. TypeOK /\ CompletedIsAnalysed /\ Causes => TracksConsistent
  BY DEF TracksConsistent, Causes
<1>. QED
  BY <1>1, Typing, RowsInvariant, PTL

\* _mark_track_processing and the resets of analyzer.py and audioAnalysisCleanup.ts: however
\* many tracks and steps, each analysis beside the first has its own fault or restart.
THEOREM OneAnalysisSafe == Spec => []OneAnalysis
<1>1. Slack => OneAnalysis
  BY DEF Slack, OneAnalysis
<1>. QED
  BY <1>1, RowsInvariant, PTL

\* Only the purgatory write of audioAnalysisCleanup.ts ever takes a completed track back: every
\* other write names the status it expects.
THEOREM CompletedStaysSafe == Spec => CompletedStays
<1>. DEFINE Stays == \A t \in In({"completed"}) : analysis'[t] = "completed" \/ (node = "purge" /\ t \in cur)
<1>1. TypeOK /\ StaleProcessing /\ [Next]_vars
      => [\A t \in In({"completed"}) : analysis'[t] = "completed" \/ (node = "purge" /\ t \in cur)]_vars
  <2>. SUFFICES ASSUME TypeOK, StaleProcessing, [Next]_vars
                PROVE  Stays
    OBVIOUS
  <2>. USE DEF TypeOK, StaleProcessing
  <2>1. PyOnce => Stays
    BY DEF PyOnce, PyStart, PyReset, PyCleanup, PySkipCleanup, PyRetry, PyPopScan, PyValidated, PyPop,
       PyPopTimeout, PyReconcile, PyClaimed, PyRecreate, PyRan
  <2>2. NodeOnce \/ Cool => Stays
    BY DEF NodeOnce, Cool, NodeRecover, NodeFlush, NodeRescan, NodeScan, NodePush, NodeRetire,
       NodeScanned,
    NodeRechecked,
       NodeAudio, NodeCleaned, NodePurge, NodeQueue, NodeMark
  <2>3. ASSUME NEW t \in Tracks, Py(t)
        PROVE  Stays
    BY <2>3 DEF Py, PyValidate, PyClaim, PySave, PyFail, PyInnocent
  <2>4. ASSUME NEW t \in Tracks, Node(t) \/ Age(t)
        PROVE  Stays
    BY <2>4 DEF Node, Age, NodeHeader, NodeRecheck, NodeCleanup, NodeFill
  <2>5. Faults => Stays
    BY DEF Faults, PyBatchTimeout, PyDies, NodeDies, LoseLists, PyValidateFails, PyVerdictLost,
       PyOutcomeLost,
       PyWorkerDies, Overrun, Vanish
  <2>6. UNCHANGED vars => Stays
    BY DEF vars
  <2>. QED
    BY <2>1, <2>2, <2>3, <2>4, <2>5, <2>6 DEF Next
<1>. QED
  BY <1>1, Typing, RowsInvariant, PTL DEF Spec, CompletedStays

-----------------------------------------------------------------------------
(* The CLAP analyzer and the vibe queue.                                    *)

\* What the analyzer has in hand is an active job's, whose failure it has not marked yet but in
\* its last two steps; a live job has an attempt left.
HandOf(t) ==
    /\ step[t] # "" => job[t].st = "active"
    /\ step[t] \in {"embed", "store", "complete", "resolve", "bad"} => vibe[t] # "failed"
    /\ job[t].st \in Live => job[t].made + 1 <= MaxAttempts
JobsInHand == \A t \in VibeTracks : HandOf(t)

\* No failure is missing from the list but between the two statements of a forced start.
Listed == ~cut /\ admin # "null" => \A t \in VibeTracks : Dead(t) => record[t] = "open"

Rows ==
    /\ audio \in [VibeTracks -> {"queued", "processing", "completed"}]
    /\ vibe \in [VibeTracks -> {"none", "pending", "processing", "completed", "failed"}]
    /\ row \in [VibeTracks -> BOOLEAN] /\ record \in [VibeTracks -> {"none", "open", "resolved"}]
Jobs == [st : Live \cup {"none", "completed", "failed"}, made : 0..MaxAttempts, stalls : 0..MaxStalled]
Worked ==
    /\ job \in [VibeTracks -> Jobs]
    /\ step \in [VibeTracks -> {"", "begin", "embed", "store", "complete", "resolve", "bad", "record"}]
Rest ==
    /\ {queuePaused, vibePaused, halted, cut} \subseteq BOOLEAN
    /\ quiet \in {"off", "set", "counting"}
    /\ cycle \in {"idle", "clean", "reset", "add"} /\ swept \subseteq VibeTracks
    /\ admin \in {"idle", "null", "select", "reset", "clean", "add", "clear", "resume"} /\ chosen \subseteq VibeTracks
    /\ left \in [Bounds -> Nat]

LEMMA TypeParts == VibeTypeOK <=> Rows /\ Worked /\ Rest
BY DEF VibeTypeOK, Rows, Worked, Rest, Jobs

\* What becomes of a job.
LEMMA JobEdits ==
  ASSUME NEW j \in Jobs
  PROVE  /\ \A s \in Live \cup {"completed", "failed"} : [j EXCEPT !.st = s] \in Jobs
         /\ NoJob \in Jobs /\ [NoJob EXCEPT !.st = "waiting"] \in Jobs
BY DEF Jobs, NoJob, MaxAttempts, MaxStalled, Live

LEMMA AttemptEdit ==
  ASSUME NEW j \in Jobs, NEW s \in Live \cup {"completed", "failed"},
         NEW m \in 0..MaxAttempts, NEW n \in 0..MaxStalled
  PROVE  /\ [j EXCEPT !.made = m, !.st = s] \in Jobs
         /\ [j EXCEPT !.made = m, !.st = s].st = s /\ [j EXCEPT !.made = m, !.st = s].made = m
         /\ [j EXCEPT !.st = s, !.stalls = n] \in Jobs
         /\ [j EXCEPT !.st = s, !.stalls = n].st = s /\ [j EXCEPT !.st = s, !.stalls = n].made = j.made
<1>1. [j EXCEPT !.made = m, !.st = s] \in Jobs
  BY DEF Jobs
<1>2. [j EXCEPT !.made = m, !.st = s].st = s /\ [j EXCEPT !.made = m, !.st = s].made = m
  BY DEF Jobs
<1>3. [j EXCEPT !.st = s, !.stalls = n] \in Jobs
  BY DEF Jobs
<1>4. [j EXCEPT !.st = s, !.stalls = n].st = s /\ [j EXCEPT !.st = s, !.stalls = n].made = j.made
  BY DEF Jobs
<1>. QED
  BY <1>1, <1>2, <1>3, <1>4

LEMMA StateOf ==
  ASSUME Worked, NEW t \in VibeTracks, NEW s \in Live \cup {"completed", "failed"},
         job' = [job EXCEPT ![t].st = s]
  PROVE  /\ job' \in [VibeTracks -> Jobs]
         /\ job'[t].st = s /\ job'[t].made = job[t].made
         /\ \A u \in VibeTracks \ {t} : job'[u] = job[u]
<1>1. [job[t] EXCEPT !.st = s] \in Jobs
  BY JobEdits DEF Worked
<1>2. job' = [job EXCEPT ![t] = [job[t] EXCEPT !.st = s]]
  OBVIOUS
<1>3. [job[t] EXCEPT !.st = s].st = s /\ [job[t] EXCEPT !.st = s].made = job[t].made
  BY DEF Worked, Jobs
<1>. QED
  BY <1>1, <1>2, <1>3 DEF Worked

\* What a failed attempt, and a worker that has gone, leave of a job.
LEMMA AttemptOver ==
  ASSUME Worked, JobsInHand, NEW t \in VibeTracks, job[t].st \in Live, NEW s \in {"failed", "delayed"},
         s = "delayed" => job[t].made + 1 # MaxAttempts,
         job' = [job EXCEPT ![t].made = @ + 1, ![t].st = s]
  PROVE  /\ job' \in [VibeTracks -> Jobs]
         /\ job'[t].st = s /\ (s = "delayed" => job'[t].made + 1 <= MaxAttempts)
         /\ \A u \in VibeTracks \ {t} : job'[u] = job[u]
<1>. DEFINE j == [job[t] EXCEPT !.made = @ + 1, !.st = s]
<1>1. job[t] \in Jobs /\ job[t].made + 1 <= MaxAttempts
  BY DEF Worked, JobsInHand, HandOf
<1>a. job[t].made + 1 \in 0..MaxAttempts
  BY <1>1 DEF Jobs, MaxAttempts
<1>2. j \in Jobs /\ j.st = s /\ j.made = job[t].made + 1
  BY <1>1, <1>a, AttemptEdit DEF Live, Jobs
<1>3. s = "delayed" => j.made + 1 <= MaxAttempts
  BY <1>1, <1>2 DEF Jobs, MaxAttempts
<1>4. job' = [job EXCEPT ![t] = j]
  OBVIOUS
<1>. QED
  BY <1>2, <1>3, <1>4 DEF Worked

LEMMA Stalled ==
  ASSUME Worked, NEW t \in VibeTracks, Stall(t)
  PROVE  /\ job' \in [VibeTracks -> Jobs] /\ job'[t].made = job[t].made
         /\ \/ job[t].stalls = MaxStalled /\ job'[t].st = "failed"
            \/ job[t].stalls # MaxStalled /\ job'[t].st = "waiting"
         /\ \A u \in VibeTracks \ {t} : job'[u] = job[u]
<1>. DEFINE dead == [job[t] EXCEPT !.st = "failed"]
            again == [job[t] EXCEPT !.st = "waiting", !.stalls = @ + 1]
            j == IF job[t].stalls = MaxStalled THEN dead ELSE again
<1>1. job[t] \in Jobs
  BY DEF Worked
<1>2. job' = [job EXCEPT ![t] = j]
  BY DEF Stall
<1>3. dead \in Jobs /\ dead.st = "failed" /\ dead.made = job[t].made
  BY <1>1, JobEdits DEF Live, Jobs
<1>4. ASSUME job[t].stalls # MaxStalled
      PROVE  again \in Jobs /\ again.st = "waiting" /\ again.made = job[t].made
  <2>1. job[t].stalls + 1 \in 0..MaxStalled /\ job[t].made \in 0..MaxAttempts
    BY <1>1, <1>4 DEF Jobs, MaxStalled
  <2>. QED
    BY <1>1, <2>1, AttemptEdit DEF Live, Jobs
<1>5. /\ j \in Jobs /\ j.made = job[t].made
      /\ \/ job[t].stalls = MaxStalled /\ j.st = "failed"
         \/ job[t].stalls # MaxStalled /\ j.st = "waiting"
  BY <1>3, <1>4
<1>. HIDE DEF j
<1>. QED
  BY <1>2, <1>5 DEF Worked

LEMMA SpendTyped ==
  ASSUME left \in [Bounds -> Nat], NEW b \in Bounds, Spend(b) PROVE left' \in [Bounds -> Nat]
<1>1. left[b] - 1 \in Nat
  BY DEF Spend
<1>. QED
  BY <1>1 DEF Spend

LEMMA RowsStep == VibeTypeOK /\ [VibeNext]_vibeVars => Rows'
<1>. SUFFICES ASSUME VibeTypeOK, [VibeNext]_vibeVars PROVE Rows'
  OBVIOUS
<1>0. Rows
  BY TypeParts
<1>Claim. ASSUME NEW t \in VibeTracks, Claim(t) PROVE Rows'
  BY <1>Claim, <1>0 DEF Claim, trackVars, queueVars, subVars, cycleVars, adminVars, Rows
<1>Analysed. ASSUME NEW t \in VibeTracks, Analysed(t) PROVE Rows'
  BY <1>Analysed, <1>0 DEF Analysed, trackVars, queueVars, subVars, cycleVars, adminVars, Rows
<1>Take. ASSUME NEW t \in VibeTracks, Take(t) PROVE Rows'
  BY <1>Take, <1>0 DEF Take, To, trackVars, queueVars, subVars, cycleVars, adminVars, Rows
<1>Begin. ASSUME NEW t \in VibeTracks, Begin(t) PROVE Rows'
  BY <1>Begin, <1>0 DEF Begin, To, SameButTracks, trackVars, queueVars, subVars, cycleVars, adminVars,
     Rows
<1>Embed. ASSUME NEW t \in VibeTracks, Embed(t) PROVE Rows'
  BY <1>Embed, <1>0 DEF Embed, To, trackVars, queueVars, subVars, cycleVars, adminVars, Rows
<1>Store. ASSUME NEW t \in VibeTracks, Store(t) PROVE Rows'
  BY <1>Store, <1>0 DEF Store, To, SameButTracks, trackVars, queueVars, subVars, cycleVars, adminVars,
     Rows
<1>Complete. ASSUME NEW t \in VibeTracks, Complete(t) PROVE Rows'
  BY <1>Complete, <1>0 DEF Complete, To, SameButTracks, trackVars, queueVars, subVars, cycleVars,
     adminVars, Rows
<1>Report. ASSUME NEW t \in VibeTracks, Report(t) PROVE Rows'
  BY <1>Report, <1>0 DEF Report, To, Resolves, trackVars, queueVars, subVars, cycleVars, adminVars, Rows
<1>MarkFailed. ASSUME NEW t \in VibeTracks, MarkFailed(t) PROVE Rows'
  BY <1>MarkFailed, <1>0 DEF MarkFailed, To, SameButTracks, trackVars, queueVars, subVars, cycleVars,
     adminVars, Rows
<1>RecordFailure. ASSUME NEW t \in VibeTracks, RecordFailure(t) PROVE Rows'
  BY <1>RecordFailure, <1>0 DEF RecordFailure, To, Opens, LastAttempt, trackVars, queueVars, subVars,
     cycleVars, adminVars, Rows
<1>TryAgain. ASSUME NEW t \in VibeTracks, TryAgain(t) PROVE Rows'
  BY <1>TryAgain, <1>0 DEF TryAgain, trackVars, queueVars, subVars, cycleVars, adminVars, Rows
<1>Stall. ASSUME NEW t \in VibeTracks, Stall(t) PROVE Rows'
  BY <1>Stall, <1>0 DEF Stall, trackVars, queueVars, subVars, cycleVars, adminVars, Rows
<1>QuietOver. CASE QuietOver
  BY <1>QuietOver, <1>0 DEF QuietOver, trackVars, queueVars, subVars, cycleVars, adminVars, Rows
<1>Counted. CASE Counted
  BY <1>Counted, <1>0 DEF Counted, trackVars, queueVars, subVars, cycleVars, adminVars, Rows
<1>Halt. CASE Halt
  BY <1>Halt, <1>0 DEF Halt, trackVars, queueVars, subVars, cycleVars, adminVars, Rows
<1>Resume. CASE Resume
  BY <1>Resume, <1>0 DEF Resume, Resumed, trackVars, queueVars, subVars, cycleVars, adminVars, Rows
<1>StopCleans. CASE StopCleans
  BY <1>StopCleans, <1>0 DEF StopCleans, Unprocessed, trackVars, queueVars, subVars, cycleVars,
     adminVars, Rows
<1>SweepLook. CASE SweepLook
  BY <1>SweepLook, <1>0 DEF SweepLook, Unembedded, trackVars, queueVars, subVars, cycleVars, adminVars,
     Rows
<1>SweepClean. CASE SweepClean
  BY <1>SweepClean, <1>0 DEF SweepClean, Cleaned, NoJob, trackVars, queueVars, subVars, cycleVars,
     adminVars, Rows
<1>SweepReset. CASE SweepReset
  BY <1>SweepReset, <1>0 DEF SweepReset, Each, trackVars, queueVars, subVars, cycleVars, adminVars, Rows
<1>SweepAdd. CASE SweepAdd
  BY <1>SweepAdd, <1>0 DEF SweepAdd, With, NoJob, trackVars, queueVars, subVars, cycleVars, adminVars,
     Rows
<1>ResolveStale. CASE ResolveStale
  BY <1>ResolveStale, <1>0 DEF ResolveStale, NowEmbedded, trackVars, queueVars, subVars, cycleVars,
     adminVars, Rows
<1>Start. CASE Start
  BY <1>Start, <1>0 DEF Start, trackVars, queueVars, subVars, cycleVars, adminVars, Rows
<1>ForceStart. CASE ForceStart
  BY <1>ForceStart, <1>0 DEF ForceStart, trackVars, queueVars, subVars, cycleVars, adminVars, Rows
<1>Retry. CASE Retry
  BY <1>Retry, <1>0 DEF Retry, trackVars, queueVars, subVars, cycleVars, adminVars, Rows
<1>ForceReset. CASE ForceReset
  BY <1>ForceReset, <1>0 DEF ForceReset, trackVars, queueVars, subVars, cycleVars, adminVars, Rows
<1>Select. CASE Select
  BY <1>Select, <1>0 DEF Select, trackVars, queueVars, subVars, cycleVars, adminVars, Rows
<1>AddChosen. CASE AddChosen
  BY <1>AddChosen, <1>0 DEF AddChosen, Cleaned, With, NoJob, trackVars, queueVars, subVars, cycleVars,
     adminVars, Rows
<1>ClearFailures. CASE ClearFailures
  BY <1>ClearFailures, <1>0 DEF ClearFailures, Each, Dead, trackVars, queueVars, subVars, cycleVars,
     adminVars, Rows
<1>RetryReset. CASE RetryReset
  BY <1>RetryReset, <1>0 DEF RetryReset, Each, trackVars, queueVars, subVars, cycleVars, adminVars, Rows
<1>RouteEnds. CASE RouteEnds
  BY <1>RouteEnds, <1>0 DEF RouteEnds, Resumed, trackVars, queueVars, subVars, cycleVars, adminVars,
     Rows
<1>ClapCrash. CASE ClapCrash
  BY <1>ClapCrash, <1>0 DEF ClapCrash, trackVars, queueVars, subVars, cycleVars, adminVars, Rows
<1>Crash. CASE Crash
  BY <1>Crash, <1>0 DEF Crash, Unprocessed, trackVars, queueVars, subVars, cycleVars, adminVars, Rows
<1>Stutter. CASE UNCHANGED vibeVars
  BY <1>Stutter, <1>0 DEF vibeVars, trackVars, queueVars, subVars, cycleVars, adminVars, Rows
<1>. QED
  BY <1>Claim, <1>Analysed, <1>Take, <1>Begin, <1>Embed, <1>Store, <1>Complete, <1>Report,
     <1>MarkFailed, <1>RecordFailure, <1>TryAgain, <1>Stall, <1>QuietOver, <1>Counted, <1>Halt,
     <1>Resume, <1>StopCleans, <1>SweepLook, <1>SweepClean, <1>SweepReset, <1>SweepAdd, <1>ResolveStale,
     <1>Start, <1>ForceStart, <1>Retry, <1>ForceReset, <1>Select, <1>AddChosen, <1>ClearFailures,
     <1>RetryReset, <1>RouteEnds, <1>ClapCrash, <1>Crash, <1>Stutter DEF VibeNext, Worker, Sweep, Route

LEMMA WorkedStep == VibeTypeOK /\ JobsInHand /\ [VibeNext]_vibeVars => Worked'
<1>. SUFFICES ASSUME VibeTypeOK, JobsInHand, [VibeNext]_vibeVars PROVE Worked'
  OBVIOUS
<1>0. Worked
  BY TypeParts
<1>Claim. ASSUME NEW t \in VibeTracks, Claim(t) PROVE Worked'
  BY <1>Claim, <1>0, JobEdits DEF Claim, trackVars, queueVars, subVars, cycleVars, adminVars, Worked
<1>Analysed. ASSUME NEW t \in VibeTracks, Analysed(t) PROVE Worked'
  BY <1>Analysed, <1>0, JobEdits DEF Analysed, trackVars, queueVars, subVars, cycleVars, adminVars,
     Worked
<1>Take. ASSUME NEW t \in VibeTracks, Take(t) PROVE Worked'
  BY <1>Take, <1>0, StateOf DEF Take, To, Live, Worked
<1>Begin. ASSUME NEW t \in VibeTracks, Begin(t) PROVE Worked'
  BY <1>Begin, <1>0, JobEdits DEF Begin, To, SameButTracks, trackVars, queueVars, subVars, cycleVars,
     adminVars, Worked
<1>Embed. ASSUME NEW t \in VibeTracks, Embed(t) PROVE Worked'
  BY <1>Embed, <1>0, JobEdits DEF Embed, To, trackVars, queueVars, subVars, cycleVars, adminVars, Worked
<1>Store. ASSUME NEW t \in VibeTracks, Store(t) PROVE Worked'
  BY <1>Store, <1>0, JobEdits DEF Store, To, SameButTracks, trackVars, queueVars, subVars, cycleVars,
     adminVars, Worked
<1>Complete. ASSUME NEW t \in VibeTracks, Complete(t) PROVE Worked'
  BY <1>Complete, <1>0, JobEdits DEF Complete, To, SameButTracks, trackVars, queueVars, subVars,
     cycleVars, adminVars, Worked
<1>Report. ASSUME NEW t \in VibeTracks, Report(t) PROVE Worked'
  BY <1>Report, <1>0, StateOf DEF Report, To, Worked
<1>MarkFailed. ASSUME NEW t \in VibeTracks, MarkFailed(t) PROVE Worked'
  BY <1>MarkFailed, <1>0, JobEdits DEF MarkFailed, To, SameButTracks, trackVars, queueVars, subVars,
     cycleVars, adminVars, Worked
<1>RecordFailure. ASSUME NEW t \in VibeTracks, RecordFailure(t) PROVE Worked'
  <2>1. job[t].st \in Live
    BY <1>RecordFailure DEF RecordFailure, JobsInHand, HandOf, Live
  <2>2. job' \in [VibeTracks -> Jobs]
    BY <1>RecordFailure, <1>0, <2>1, AttemptOver DEF RecordFailure, LastAttempt
  <2>. QED
    BY <1>RecordFailure, <1>0, <2>2 DEF RecordFailure, To, Worked
<1>TryAgain. ASSUME NEW t \in VibeTracks, TryAgain(t) PROVE Worked'
  BY <1>TryAgain, <1>0, StateOf DEF TryAgain, Live, Worked
<1>Stall. ASSUME NEW t \in VibeTracks, Stall(t) PROVE Worked'
  BY <1>Stall, <1>0, Stalled DEF Stall, Worked
<1>QuietOver. CASE QuietOver
  BY <1>QuietOver, <1>0, JobEdits DEF QuietOver, trackVars, queueVars, subVars, cycleVars, adminVars,
     Worked
<1>Counted. CASE Counted
  BY <1>Counted, <1>0, JobEdits DEF Counted, trackVars, queueVars, subVars, cycleVars, adminVars, Worked
<1>Halt. CASE Halt
  BY <1>Halt, <1>0, JobEdits DEF Halt, trackVars, queueVars, subVars, cycleVars, adminVars, Worked
<1>Resume. CASE Resume
  BY <1>Resume, <1>0, JobEdits DEF Resume, Resumed, trackVars, queueVars, subVars, cycleVars, adminVars,
     Worked
<1>StopCleans. CASE StopCleans
  BY <1>StopCleans, <1>0, JobEdits DEF StopCleans, Unprocessed, trackVars, queueVars, subVars,
     cycleVars, adminVars, Worked
<1>SweepLook. CASE SweepLook
  BY <1>SweepLook, <1>0, JobEdits DEF SweepLook, Unembedded, trackVars, queueVars, subVars, cycleVars,
     adminVars, Worked
<1>SweepClean. CASE SweepClean
  BY <1>SweepClean, <1>0, JobEdits DEF SweepClean, Cleaned, NoJob, trackVars, queueVars, subVars,
     cycleVars, adminVars, Worked
<1>SweepReset. CASE SweepReset
  BY <1>SweepReset, <1>0, JobEdits DEF SweepReset, Each, trackVars, queueVars, subVars, cycleVars,
     adminVars, Worked
<1>SweepAdd. CASE SweepAdd
  BY <1>SweepAdd, <1>0, JobEdits DEF SweepAdd, With, NoJob, trackVars, queueVars, subVars, cycleVars,
     adminVars, Worked
<1>ResolveStale. CASE ResolveStale
  BY <1>ResolveStale, <1>0, JobEdits DEF ResolveStale, NowEmbedded, trackVars, queueVars, subVars,
     cycleVars, adminVars, Worked
<1>Start. CASE Start
  BY <1>Start, <1>0, JobEdits DEF Start, trackVars, queueVars, subVars, cycleVars, adminVars, Worked
<1>ForceStart. CASE ForceStart
  BY <1>ForceStart, <1>0, JobEdits DEF ForceStart, trackVars, queueVars, subVars, cycleVars, adminVars,
     Worked
<1>Retry. CASE Retry
  BY <1>Retry, <1>0, JobEdits DEF Retry, trackVars, queueVars, subVars, cycleVars, adminVars, Worked
<1>ForceReset. CASE ForceReset
  BY <1>ForceReset, <1>0, JobEdits DEF ForceReset, trackVars, queueVars, subVars, cycleVars, adminVars,
     Worked
<1>Select. CASE Select
  BY <1>Select, <1>0, JobEdits DEF Select, trackVars, queueVars, subVars, cycleVars, adminVars, Worked
<1>AddChosen. CASE AddChosen
  BY <1>AddChosen, <1>0, JobEdits DEF AddChosen, Cleaned, With, NoJob, trackVars, queueVars, subVars,
     cycleVars, adminVars, Worked
<1>ClearFailures. CASE ClearFailures
  BY <1>ClearFailures, <1>0, JobEdits DEF ClearFailures, Each, Dead, trackVars, queueVars, subVars,
     cycleVars, adminVars, Worked
<1>RetryReset. CASE RetryReset
  BY <1>RetryReset, <1>0, JobEdits DEF RetryReset, Each, trackVars, queueVars, subVars, cycleVars,
     adminVars, Worked
<1>RouteEnds. CASE RouteEnds
  BY <1>RouteEnds, <1>0, JobEdits DEF RouteEnds, Resumed, trackVars, queueVars, subVars, cycleVars,
     adminVars, Worked
<1>ClapCrash. CASE ClapCrash
  BY <1>ClapCrash, <1>0, JobEdits DEF ClapCrash, trackVars, queueVars, subVars, cycleVars, adminVars,
     Worked
<1>Crash. CASE Crash
  BY <1>Crash, <1>0, JobEdits DEF Crash, Unprocessed, trackVars, queueVars, subVars, cycleVars,
     adminVars, Worked
<1>Stutter. CASE UNCHANGED vibeVars
  BY <1>Stutter, <1>0, JobEdits DEF vibeVars, trackVars, queueVars, subVars, cycleVars, adminVars,
     Worked
<1>. QED
  BY <1>Claim, <1>Analysed, <1>Take, <1>Begin, <1>Embed, <1>Store, <1>Complete, <1>Report,
     <1>MarkFailed, <1>RecordFailure, <1>TryAgain, <1>Stall, <1>QuietOver, <1>Counted, <1>Halt,
     <1>Resume, <1>StopCleans, <1>SweepLook, <1>SweepClean, <1>SweepReset, <1>SweepAdd, <1>ResolveStale,
     <1>Start, <1>ForceStart, <1>Retry, <1>ForceReset, <1>Select, <1>AddChosen, <1>ClearFailures,
     <1>RetryReset, <1>RouteEnds, <1>ClapCrash, <1>Crash, <1>Stutter DEF VibeNext, Worker, Sweep, Route

LEMMA RestStep == VibeTypeOK /\ [VibeNext]_vibeVars => Rest'
<1>. SUFFICES ASSUME VibeTypeOK, [VibeNext]_vibeVars PROVE Rest'
  OBVIOUS
<1>0. Rest
  BY TypeParts
<1>Claim. ASSUME NEW t \in VibeTracks, Claim(t) PROVE Rest'
  BY <1>Claim, <1>0 DEF Claim, trackVars, queueVars, subVars, cycleVars, adminVars, Rest, Spend, Bounds
<1>Analysed. ASSUME NEW t \in VibeTracks, Analysed(t) PROVE Rest'
  <2>1. left' \in [Bounds -> Nat]
    BY <1>Analysed, <1>0, SpendTyped DEF Analysed, Rest, Bounds
  <2>. QED
    BY <1>Analysed, <1>0, <2>1 DEF Analysed, Rest, trackVars, queueVars, subVars, cycleVars, adminVars
<1>Take. ASSUME NEW t \in VibeTracks, Take(t) PROVE Rest'
  BY <1>Take, <1>0 DEF Take, To, trackVars, queueVars, subVars, cycleVars, adminVars, Rest, Spend,
     Bounds
<1>Begin. ASSUME NEW t \in VibeTracks, Begin(t) PROVE Rest'
  BY <1>Begin, <1>0 DEF Begin, To, SameButTracks, trackVars, queueVars, subVars, cycleVars, adminVars,
     Rest, Spend, Bounds
<1>Embed. ASSUME NEW t \in VibeTracks, Embed(t) PROVE Rest'
  BY <1>Embed, <1>0 DEF Embed, To, trackVars, queueVars, subVars, cycleVars, adminVars, Rest, Spend,
     Bounds
<1>Store. ASSUME NEW t \in VibeTracks, Store(t) PROVE Rest'
  BY <1>Store, <1>0 DEF Store, To, SameButTracks, trackVars, queueVars, subVars, cycleVars, adminVars,
     Rest, Spend, Bounds
<1>Complete. ASSUME NEW t \in VibeTracks, Complete(t) PROVE Rest'
  BY <1>Complete, <1>0 DEF Complete, To, SameButTracks, trackVars, queueVars, subVars, cycleVars,
     adminVars, Rest, Spend, Bounds
<1>Report. ASSUME NEW t \in VibeTracks, Report(t) PROVE Rest'
  <2>1. left' \in [Bounds -> Nat]
    BY <1>Report, <1>0, SpendTyped DEF Report, Rest, Bounds
  <2>. QED
    BY <1>Report, <1>0, <2>1 DEF Report, Rest, trackVars, queueVars, subVars, cycleVars, adminVars
<1>MarkFailed. ASSUME NEW t \in VibeTracks, MarkFailed(t) PROVE Rest'
  BY <1>MarkFailed, <1>0 DEF MarkFailed, To, SameButTracks, trackVars, queueVars, subVars, cycleVars,
     adminVars, Rest, Spend, Bounds
<1>RecordFailure. ASSUME NEW t \in VibeTracks, RecordFailure(t) PROVE Rest'
  <2>1. left' \in [Bounds -> Nat]
    BY <1>RecordFailure, <1>0, SpendTyped DEF RecordFailure, Rest, Bounds
  <2>. QED
    BY <1>RecordFailure, <1>0, <2>1 DEF RecordFailure, Rest, trackVars, queueVars, subVars, cycleVars,
       adminVars
<1>TryAgain. ASSUME NEW t \in VibeTracks, TryAgain(t) PROVE Rest'
  BY <1>TryAgain, <1>0 DEF TryAgain, trackVars, queueVars, subVars, cycleVars, adminVars, Rest, Spend,
     Bounds
<1>Stall. ASSUME NEW t \in VibeTracks, Stall(t) PROVE Rest'
  BY <1>Stall, <1>0 DEF Stall, trackVars, queueVars, subVars, cycleVars, adminVars, Rest, Spend, Bounds
<1>QuietOver. CASE QuietOver
  BY <1>QuietOver, <1>0 DEF QuietOver, trackVars, queueVars, subVars, cycleVars, adminVars, Rest, Spend,
     Bounds
<1>Counted. CASE Counted
  BY <1>Counted, <1>0 DEF Counted, trackVars, queueVars, subVars, cycleVars, adminVars, Rest, Spend,
     Bounds
<1>Halt. CASE Halt
  BY <1>Halt, <1>0 DEF Halt, trackVars, queueVars, subVars, cycleVars, adminVars, Rest, Spend, Bounds
<1>Resume. CASE Resume
  BY <1>Resume, <1>0 DEF Resume, Resumed, trackVars, queueVars, subVars, cycleVars, adminVars, Rest,
     Spend, Bounds
<1>StopCleans. CASE StopCleans
  BY <1>StopCleans, <1>0 DEF StopCleans, Unprocessed, trackVars, queueVars, subVars, cycleVars,
     adminVars, Rest, Spend, Bounds
<1>SweepLook. CASE SweepLook
  BY <1>SweepLook, <1>0 DEF SweepLook, Unembedded, trackVars, queueVars, subVars, cycleVars, adminVars,
     Rest, Spend, Bounds
<1>SweepClean. CASE SweepClean
  BY <1>SweepClean, <1>0 DEF SweepClean, Cleaned, NoJob, trackVars, queueVars, subVars, cycleVars,
     adminVars, Rest, Spend, Bounds
<1>SweepReset. CASE SweepReset
  BY <1>SweepReset, <1>0 DEF SweepReset, Each, trackVars, queueVars, subVars, cycleVars, adminVars,
     Rest, Spend, Bounds
<1>SweepAdd. CASE SweepAdd
  BY <1>SweepAdd, <1>0 DEF SweepAdd, With, NoJob, trackVars, queueVars, subVars, cycleVars, adminVars,
     Rest, Spend, Bounds
<1>ResolveStale. CASE ResolveStale
  BY <1>ResolveStale, <1>0 DEF ResolveStale, NowEmbedded, trackVars, queueVars, subVars, cycleVars,
     adminVars, Rest, Spend, Bounds
<1>Start. CASE Start
  BY <1>Start, <1>0 DEF Start, trackVars, queueVars, subVars, cycleVars, adminVars, Rest, Spend, Bounds
<1>ForceStart. CASE ForceStart
  BY <1>ForceStart, <1>0 DEF ForceStart, trackVars, queueVars, subVars, cycleVars, adminVars, Rest,
     Spend, Bounds
<1>Retry. CASE Retry
  BY <1>Retry, <1>0 DEF Retry, trackVars, queueVars, subVars, cycleVars, adminVars, Rest, Spend, Bounds
<1>ForceReset. CASE ForceReset
  BY <1>ForceReset, <1>0 DEF ForceReset, trackVars, queueVars, subVars, cycleVars, adminVars, Rest,
     Spend, Bounds
<1>Select. CASE Select
  BY <1>Select, <1>0 DEF Select, trackVars, queueVars, subVars, cycleVars, adminVars, Rest, Spend,
     Bounds
<1>AddChosen. CASE AddChosen
  BY <1>AddChosen, <1>0 DEF AddChosen, Cleaned, With, NoJob, trackVars, queueVars, subVars, cycleVars,
     adminVars, Rest, Spend, Bounds
<1>ClearFailures. CASE ClearFailures
  BY <1>ClearFailures, <1>0 DEF ClearFailures, Each, Dead, trackVars, queueVars, subVars, cycleVars,
     adminVars, Rest, Spend, Bounds
<1>RetryReset. CASE RetryReset
  BY <1>RetryReset, <1>0 DEF RetryReset, Each, trackVars, queueVars, subVars, cycleVars, adminVars,
     Rest, Spend, Bounds
<1>RouteEnds. CASE RouteEnds
  BY <1>RouteEnds, <1>0 DEF RouteEnds, Resumed, trackVars, queueVars, subVars, cycleVars, adminVars,
     Rest, Spend, Bounds
<1>ClapCrash. CASE ClapCrash
  <2>1. left' \in [Bounds -> Nat]
    BY <1>ClapCrash, <1>0, SpendTyped DEF ClapCrash, Rest, Bounds
  <2>. QED
    BY <1>ClapCrash, <1>0, <2>1 DEF ClapCrash, Rest, trackVars, queueVars, subVars, cycleVars, adminVars
<1>Crash. CASE Crash
  <2>1. left' \in [Bounds -> Nat]
    BY <1>Crash, <1>0, SpendTyped DEF Crash, Rest, Bounds
  <2>. QED
    BY <1>Crash, <1>0, <2>1 DEF Crash, Rest, trackVars, queueVars, subVars, cycleVars, adminVars
<1>Stutter. CASE UNCHANGED vibeVars
  BY <1>Stutter, <1>0 DEF vibeVars, trackVars, queueVars, subVars, cycleVars, adminVars, Rest, Spend,
     Bounds
<1>. QED
  BY <1>Claim, <1>Analysed, <1>Take, <1>Begin, <1>Embed, <1>Store, <1>Complete, <1>Report,
     <1>MarkFailed, <1>RecordFailure, <1>TryAgain, <1>Stall, <1>QuietOver, <1>Counted, <1>Halt,
     <1>Resume, <1>StopCleans, <1>SweepLook, <1>SweepClean, <1>SweepReset, <1>SweepAdd, <1>ResolveStale,
     <1>Start, <1>ForceStart, <1>Retry, <1>ForceReset, <1>Select, <1>AddChosen, <1>ClearFailures,
     <1>RetryReset, <1>RouteEnds, <1>ClapCrash, <1>Crash, <1>Stutter DEF VibeNext, Worker, Sweep, Route

LEMMA InHandStep == VibeTypeOK /\ JobsInHand /\ [VibeNext]_vibeVars => JobsInHand'
<1>. SUFFICES ASSUME VibeTypeOK, JobsInHand, [VibeNext]_vibeVars PROVE JobsInHand'
  OBVIOUS
<1>0. Rows /\ Worked
  BY TypeParts
<1>Claim. ASSUME NEW t \in VibeTracks, Claim(t) PROVE JobsInHand'
  BY <1>Claim, <1>0 DEF Claim, trackVars, queueVars, subVars, cycleVars, adminVars, Rows, Worked,
     JobsInHand, HandOf, Live
<1>Analysed. ASSUME NEW t \in VibeTracks, Analysed(t) PROVE JobsInHand'
  BY <1>Analysed, <1>0 DEF Analysed, trackVars, queueVars, subVars, cycleVars, adminVars, Rows, Worked,
     JobsInHand, HandOf, Live
<1>Take. ASSUME NEW t \in VibeTracks, Take(t) PROVE JobsInHand'
  <2>1. job[t].st \in Live
    BY <1>Take DEF Take, JobsInHand, HandOf, Live
  <2>2. /\ job'[t].st = "active" /\ job'[t].made = job[t].made
    BY <1>Take, <1>0, <2>1, StateOf DEF Take, To, Live
  <2>3. \A u \in VibeTracks \ {t} : job'[u] = job[u]
    BY <1>Take, <1>0, <2>1, StateOf DEF Take, To, Live
  <2>4. vibe' = vibe /\ \A u \in VibeTracks \ {t} : step'[u] = step[u]
    BY <1>Take, <1>0 DEF Take, To, Worked, trackVars
  <2>5. step'[t] = "begin"
    BY <1>Take, <1>0 DEF Take, To, Worked
  <2>. QED
    BY <1>Take, <2>1, <2>2, <2>3, <2>4, <2>5 DEF Take, JobsInHand, HandOf, Live
<1>Begin. ASSUME NEW t \in VibeTracks, Begin(t) PROVE JobsInHand'
  BY <1>Begin, <1>0 DEF Begin, To, SameButTracks, trackVars, queueVars, subVars, cycleVars, adminVars,
     Rows, Worked, JobsInHand, HandOf, Live
<1>Embed. ASSUME NEW t \in VibeTracks, Embed(t) PROVE JobsInHand'
  BY <1>Embed, <1>0 DEF Embed, To, trackVars, queueVars, subVars, cycleVars, adminVars, Rows, Worked,
     JobsInHand, HandOf, Live
<1>Store. ASSUME NEW t \in VibeTracks, Store(t) PROVE JobsInHand'
  BY <1>Store, <1>0 DEF Store, To, SameButTracks, trackVars, queueVars, subVars, cycleVars, adminVars,
     Rows, Worked, JobsInHand, HandOf, Live
<1>Complete. ASSUME NEW t \in VibeTracks, Complete(t) PROVE JobsInHand'
  BY <1>Complete, <1>0 DEF Complete, To, SameButTracks, trackVars, queueVars, subVars, cycleVars,
     adminVars, Rows, Worked, JobsInHand, HandOf, Live
<1>Report. ASSUME NEW t \in VibeTracks, Report(t) PROVE JobsInHand'
  <2>1. job[t].st \in Live
    BY <1>Report DEF Report, JobsInHand, HandOf, Live
  <2>2. job'[t].st = "completed"
    BY <1>Report, <1>0, <2>1, StateOf DEF Report, To, Live
  <2>3. \A u \in VibeTracks \ {t} : job'[u] = job[u]
    BY <1>Report, <1>0, <2>1, StateOf DEF Report, To, Live
  <2>4. vibe' = vibe /\ \A u \in VibeTracks \ {t} : step'[u] = step[u]
    BY <1>Report, <1>0 DEF Report, To, Worked, trackVars
  <2>5. step'[t] = ""
    BY <1>Report, <1>0 DEF Report, To, Worked
  <2>. QED
    BY <1>Report, <2>1, <2>2, <2>3, <2>4, <2>5 DEF Report, JobsInHand, HandOf, Live
<1>MarkFailed. ASSUME NEW t \in VibeTracks, MarkFailed(t) PROVE JobsInHand'
  BY <1>MarkFailed, <1>0 DEF MarkFailed, To, SameButTracks, trackVars, queueVars, subVars, cycleVars,
     adminVars, Rows, Worked, JobsInHand, HandOf, Live
<1>RecordFailure. ASSUME NEW t \in VibeTracks, RecordFailure(t) PROVE JobsInHand'
  <2>1. job[t].st \in Live
    BY <1>RecordFailure DEF RecordFailure, JobsInHand, HandOf, Live
  <2>2. /\ job'[t].st \in {"failed", "delayed"} /\ (job'[t].st = "delayed" => job'[t].made + 1 <= MaxAttempts)
    BY <1>RecordFailure, <1>0, <2>1, AttemptOver DEF RecordFailure, To, LastAttempt, Live
  <2>3. \A u \in VibeTracks \ {t} : job'[u] = job[u]
    BY <1>RecordFailure, <1>0, <2>1, AttemptOver DEF RecordFailure, To, LastAttempt, Live
  <2>4. vibe' = vibe /\ \A u \in VibeTracks \ {t} : step'[u] = step[u]
    BY <1>RecordFailure, <1>0 DEF RecordFailure, To, Worked, trackVars
  <2>5. step'[t] = ""
    BY <1>RecordFailure, <1>0 DEF RecordFailure, To, Worked
  <2>. QED
    BY <1>RecordFailure, <2>1, <2>2, <2>3, <2>4, <2>5 DEF RecordFailure, JobsInHand, HandOf, Live
<1>TryAgain. ASSUME NEW t \in VibeTracks, TryAgain(t) PROVE JobsInHand'
  <2>1. job[t].st \in Live
    BY <1>TryAgain DEF TryAgain, JobsInHand, HandOf, Live
  <2>2. /\ job'[t].st = "waiting" /\ job'[t].made = job[t].made
    BY <1>TryAgain, <1>0, <2>1, StateOf DEF TryAgain, Live
  <2>3. \A u \in VibeTracks \ {t} : job'[u] = job[u]
    BY <1>TryAgain, <1>0, <2>1, StateOf DEF TryAgain, Live
  <2>4. vibe' = vibe /\ \A u \in VibeTracks \ {t} : step'[u] = step[u]
    BY <1>TryAgain, <1>0 DEF TryAgain, To, Worked, trackVars
  <2>5. step'[t] = step[t]
    BY <1>TryAgain, <1>0 DEF TryAgain, To, Worked
  <2>. QED
    BY <1>TryAgain, <2>1, <2>2, <2>3, <2>4, <2>5 DEF TryAgain, JobsInHand, HandOf, Live
<1>Stall. ASSUME NEW t \in VibeTracks, Stall(t) PROVE JobsInHand'
  <2>1. job[t].st \in Live
    BY <1>Stall DEF Stall, JobsInHand, HandOf, Live
  <2>2. /\ job'[t].st \in {"failed", "waiting"} /\ job'[t].made = job[t].made
    BY <1>Stall, <1>0, <2>1, Stalled DEF Stall, Live
  <2>3. \A u \in VibeTracks \ {t} : job'[u] = job[u]
    BY <1>Stall, <1>0, <2>1, Stalled DEF Stall, Live
  <2>4. vibe' = vibe /\ \A u \in VibeTracks \ {t} : step'[u] = step[u]
    BY <1>Stall, <1>0 DEF Stall, To, Worked, trackVars
  <2>5. step'[t] = step[t]
    BY <1>Stall, <1>0 DEF Stall, To, Worked
  <2>. QED
    BY <1>Stall, <2>1, <2>2, <2>3, <2>4, <2>5 DEF Stall, JobsInHand, HandOf, Live
<1>QuietOver. CASE QuietOver
  BY <1>QuietOver, <1>0 DEF QuietOver, trackVars, queueVars, subVars, cycleVars, adminVars, Rows,
     Worked, JobsInHand, HandOf, Live
<1>Counted. CASE Counted
  BY <1>Counted, <1>0 DEF Counted, trackVars, queueVars, subVars, cycleVars, adminVars, Rows, Worked,
     JobsInHand, HandOf, Live
<1>Halt. CASE Halt
  BY <1>Halt, <1>0 DEF Halt, trackVars, queueVars, subVars, cycleVars, adminVars, Rows, Worked,
     JobsInHand,
     HandOf, Live
<1>Resume. CASE Resume
  BY <1>Resume, <1>0 DEF Resume, Resumed, trackVars, queueVars, subVars, cycleVars, adminVars, Rows,
     Worked, JobsInHand, HandOf, Live
<1>StopCleans. CASE StopCleans
  BY <1>StopCleans, <1>0 DEF StopCleans, Unprocessed, trackVars, queueVars, subVars, cycleVars,
     adminVars, Rows, Worked, JobsInHand, HandOf, Live
<1>SweepLook. CASE SweepLook
  BY <1>SweepLook, <1>0 DEF SweepLook, Unembedded, trackVars, queueVars, subVars, cycleVars, adminVars,
     Rows, Worked, JobsInHand, HandOf, Live
<1>SweepClean. CASE SweepClean
  BY <1>SweepClean, <1>0 DEF SweepClean, Cleaned, NoJob, trackVars, queueVars, subVars, cycleVars,
     adminVars, Rows, Worked, JobsInHand, HandOf, Live
<1>SweepReset. CASE SweepReset
  BY <1>SweepReset, <1>0 DEF SweepReset, Each, trackVars, queueVars, subVars, cycleVars, adminVars,
     Rows, Worked, JobsInHand, HandOf, Live
<1>SweepAdd. CASE SweepAdd
  <2>1. ASSUME NEW u \in VibeTracks
        PROVE  \/ job'[u] = job[u]
               \/ /\ job'[u].st \in {"waiting", "none"} /\ job'[u].made = 0
                  /\ job[u].st \in {"none", "completed", "failed"}
    BY <1>SweepAdd, <1>0 DEF SweepAdd, With, NoJob, Worked, Jobs
  <2>. QED
    <3>1. ASSUME NEW u \in VibeTracks PROVE HandOf(u)'
      <4>1. HandOf(u) /\ vibe' = vibe /\ step' = step
        BY <1>SweepAdd DEF SweepAdd, JobsInHand, trackVars
      <4>2. CASE job'[u] = job[u]
        BY <4>1, <4>2 DEF HandOf
      <4>3. CASE /\ job'[u].st \in {"waiting", "none"} /\ job'[u].made = 0
                 /\ job[u].st \in {"none", "completed", "failed"}
        <5>1. job'[u].made + 1 <= MaxAttempts
          BY <4>3 DEF MaxAttempts
        <5>. QED
          BY <4>1, <4>3, <5>1 DEF HandOf
      <4>. QED
        BY <2>1, <4>2, <4>3
    <3>. QED
      BY <3>1 DEF JobsInHand
<1>ResolveStale. CASE ResolveStale
  BY <1>ResolveStale, <1>0 DEF ResolveStale, NowEmbedded, trackVars, queueVars, subVars, cycleVars,
     adminVars, Rows, Worked, JobsInHand, HandOf, Live
<1>Start. CASE Start
  BY <1>Start, <1>0 DEF Start, trackVars, queueVars, subVars, cycleVars, adminVars, Rows, Worked,
     JobsInHand, HandOf, Live
<1>ForceStart. CASE ForceStart
  BY <1>ForceStart, <1>0 DEF ForceStart, trackVars, queueVars, subVars, cycleVars, adminVars, Rows,
     Worked, JobsInHand, HandOf, Live
<1>Retry. CASE Retry
  BY <1>Retry, <1>0 DEF Retry, trackVars, queueVars, subVars, cycleVars, adminVars, Rows, Worked,
     JobsInHand, HandOf, Live
<1>ForceReset. CASE ForceReset
  BY <1>ForceReset, <1>0 DEF ForceReset, trackVars, queueVars, subVars, cycleVars, adminVars, Rows,
     Worked, JobsInHand, HandOf, Live
<1>Select. CASE Select
  BY <1>Select, <1>0 DEF Select, trackVars, queueVars, subVars, cycleVars, adminVars, Rows, Worked,
     JobsInHand, HandOf, Live
<1>AddChosen. CASE AddChosen
  <2>1. ASSUME NEW u \in VibeTracks
        PROVE  \/ job'[u] = job[u]
               \/ /\ job'[u].st \in {"waiting", "none"} /\ job'[u].made = 0
                  /\ job[u].st \in {"none", "completed", "failed"}
    BY <1>AddChosen, <1>0 DEF AddChosen, Cleaned, With, NoJob, Worked, Jobs
  <2>. QED
    <3>1. ASSUME NEW u \in VibeTracks PROVE HandOf(u)'
      <4>1. HandOf(u) /\ vibe' = vibe /\ step' = step
        BY <1>AddChosen DEF AddChosen, JobsInHand, trackVars
      <4>2. CASE job'[u] = job[u]
        BY <4>1, <4>2 DEF HandOf
      <4>3. CASE /\ job'[u].st \in {"waiting", "none"} /\ job'[u].made = 0
                 /\ job[u].st \in {"none", "completed", "failed"}
        <5>1. job'[u].made + 1 <= MaxAttempts
          BY <4>3 DEF MaxAttempts
        <5>. QED
          BY <4>1, <4>3, <5>1 DEF HandOf
      <4>. QED
        BY <2>1, <4>2, <4>3
    <3>. QED
      BY <3>1 DEF JobsInHand
<1>ClearFailures. CASE ClearFailures
  BY <1>ClearFailures, <1>0 DEF ClearFailures, Each, Dead, trackVars, queueVars, subVars, cycleVars,
     adminVars, Rows, Worked, JobsInHand, HandOf, Live
<1>RetryReset. CASE RetryReset
  BY <1>RetryReset, <1>0 DEF RetryReset, Each, trackVars, queueVars, subVars, cycleVars, adminVars,
     Rows, Worked, JobsInHand, HandOf, Live
<1>RouteEnds. CASE RouteEnds
  BY <1>RouteEnds, <1>0 DEF RouteEnds, Resumed, trackVars, queueVars, subVars, cycleVars, adminVars,
     Rows, Worked, JobsInHand, HandOf, Live
<1>ClapCrash. CASE ClapCrash
  BY <1>ClapCrash, <1>0 DEF ClapCrash, trackVars, queueVars, subVars, cycleVars, adminVars, Rows,
     Worked, JobsInHand, HandOf, Live
<1>Crash. CASE Crash
  BY <1>Crash, <1>0 DEF Crash, Unprocessed, trackVars, queueVars, subVars, cycleVars, adminVars, Rows,
     Worked, JobsInHand, HandOf, Live
<1>Stutter. CASE UNCHANGED vibeVars
  BY <1>Stutter, <1>0 DEF vibeVars, trackVars, queueVars, subVars, cycleVars, adminVars, Rows, Worked,
     JobsInHand, HandOf, Live
<1>. QED
  BY <1>Claim, <1>Analysed, <1>Take, <1>Begin, <1>Embed, <1>Store, <1>Complete, <1>Report,
     <1>MarkFailed, <1>RecordFailure, <1>TryAgain, <1>Stall, <1>QuietOver, <1>Counted, <1>Halt,
     <1>Resume, <1>StopCleans, <1>SweepLook, <1>SweepClean, <1>SweepReset, <1>SweepAdd, <1>ResolveStale,
     <1>Start, <1>ForceStart, <1>Retry, <1>ForceReset, <1>Select, <1>AddChosen, <1>ClearFailures,
     <1>RetryReset, <1>RouteEnds, <1>ClapCrash, <1>Crash, <1>Stutter DEF VibeNext, Worker, Sweep, Route

LEMMA ListedStep == VibeTypeOK /\ JobsInHand /\ Listed /\ [VibeNext]_vibeVars => Listed'
<1>. SUFFICES ASSUME VibeTypeOK, JobsInHand, Listed, [VibeNext]_vibeVars PROVE Listed'
  OBVIOUS
<1>0. Rows /\ Worked
  BY TypeParts
<1>Claim. ASSUME NEW t \in VibeTracks, Claim(t) PROVE Listed'
  BY <1>Claim, <1>0 DEF Claim, trackVars, queueVars, subVars, cycleVars, adminVars, Rows, Worked,
     JobsInHand, HandOf, Listed, Dead, Live
<1>Analysed. ASSUME NEW t \in VibeTracks, Analysed(t) PROVE Listed'
  BY <1>Analysed, <1>0 DEF Analysed, trackVars, queueVars, subVars, cycleVars, adminVars, Rows, Worked,
     JobsInHand, HandOf, Listed, Dead, Live
<1>Take. ASSUME NEW t \in VibeTracks, Take(t) PROVE Listed'
  <2>1. job[t].st \in Live /\ \A u \in VibeTracks \ {t} : job'[u] = job[u]
    BY <1>Take, <1>0, StateOf DEF Take, JobsInHand, HandOf, Live, Worked
  <2>2. job'[t].st \in Live
    BY <1>Take, <1>0, StateOf DEF Take, Live, Worked
  <2>. QED
    BY <1>Take, <2>1, <2>2 DEF Take, Listed, Dead, trackVars, adminVars
<1>Begin. ASSUME NEW t \in VibeTracks, Begin(t) PROVE Listed'
  BY <1>Begin, <1>0 DEF Begin, To, SameButTracks, trackVars, queueVars, subVars, cycleVars, adminVars,
     Rows, Worked, JobsInHand, HandOf, Listed, Dead, Live
<1>Embed. ASSUME NEW t \in VibeTracks, Embed(t) PROVE Listed'
  BY <1>Embed, <1>0 DEF Embed, To, trackVars, queueVars, subVars, cycleVars, adminVars, Rows, Worked,
     JobsInHand, HandOf, Listed, Dead, Live
<1>Store. ASSUME NEW t \in VibeTracks, Store(t) PROVE Listed'
  BY <1>Store, <1>0 DEF Store, To, SameButTracks, trackVars, queueVars, subVars, cycleVars, adminVars,
     Rows, Worked, JobsInHand, HandOf, Listed, Dead, Live
<1>Complete. ASSUME NEW t \in VibeTracks, Complete(t) PROVE Listed'
  BY <1>Complete, <1>0 DEF Complete, To, SameButTracks, trackVars, queueVars, subVars, cycleVars,
     adminVars, Rows, Worked, JobsInHand, HandOf, Listed, Dead, Live
<1>Report. ASSUME NEW t \in VibeTracks, Report(t) PROVE Listed'
  BY <1>Report, <1>0 DEF Report, To, Resolves, trackVars, queueVars, subVars, cycleVars, adminVars,
     Rows, Worked, JobsInHand, HandOf, Listed, Dead, Live
<1>MarkFailed. ASSUME NEW t \in VibeTracks, MarkFailed(t) PROVE Listed'
  BY <1>MarkFailed, <1>0 DEF MarkFailed, To, SameButTracks, trackVars, queueVars, subVars, cycleVars,
     adminVars, Rows, Worked, JobsInHand, HandOf, Listed, Dead, Live
<1>RecordFailure. ASSUME NEW t \in VibeTracks, RecordFailure(t) PROVE Listed'
  BY <1>RecordFailure, <1>0 DEF RecordFailure, To, Opens, LastAttempt, trackVars, queueVars, subVars,
     cycleVars, adminVars, Rows, Worked, JobsInHand, HandOf, Listed, Dead, Live
<1>TryAgain. ASSUME NEW t \in VibeTracks, TryAgain(t) PROVE Listed'
  <2>1. job[t].st \in Live /\ \A u \in VibeTracks \ {t} : job'[u] = job[u]
    BY <1>TryAgain, <1>0, StateOf DEF TryAgain, JobsInHand, HandOf, Live, Worked
  <2>2. job'[t].st \in Live
    BY <1>TryAgain, <1>0, StateOf DEF TryAgain, Live, Worked
  <2>. QED
    BY <1>TryAgain, <2>1, <2>2 DEF TryAgain, Listed, Dead, trackVars, adminVars
<1>Stall. ASSUME NEW t \in VibeTracks, Stall(t) PROVE Listed'
  <2>1. job[t].st \in Live /\ \A u \in VibeTracks \ {t} : job'[u] = job[u]
    BY <1>Stall, <1>0, Stalled DEF Stall, JobsInHand, HandOf, Live, Worked
  <2>2. job'[t].st \in Live \/ cut' \/ vibe[t] # "failed"
    BY <1>Stall, <1>0, Stalled DEF Stall, Live, Worked
  <2>. QED
    BY <1>Stall, <2>1, <2>2 DEF Stall, Listed, Dead, trackVars, adminVars
<1>QuietOver. CASE QuietOver
  BY <1>QuietOver, <1>0 DEF QuietOver, trackVars, queueVars, subVars, cycleVars, adminVars, Rows,
     Worked, JobsInHand, HandOf, Listed, Dead, Live
<1>Counted. CASE Counted
  BY <1>Counted, <1>0 DEF Counted, trackVars, queueVars, subVars, cycleVars, adminVars, Rows, Worked,
     JobsInHand, HandOf, Listed, Dead, Live
<1>Halt. CASE Halt
  BY <1>Halt, <1>0 DEF Halt, trackVars, queueVars, subVars, cycleVars, adminVars, Rows, Worked,
     JobsInHand,
     HandOf, Listed, Dead, Live
<1>Resume. CASE Resume
  BY <1>Resume, <1>0 DEF Resume, Resumed, trackVars, queueVars, subVars, cycleVars, adminVars, Rows,
     Worked, JobsInHand, HandOf, Listed, Dead, Live
<1>StopCleans. CASE StopCleans
  BY <1>StopCleans, <1>0 DEF StopCleans, Unprocessed, trackVars, queueVars, subVars, cycleVars,
     adminVars, Rows, Worked, JobsInHand, HandOf, Listed, Dead, Live
<1>SweepLook. CASE SweepLook
  BY <1>SweepLook, <1>0 DEF SweepLook, Unembedded, trackVars, queueVars, subVars, cycleVars, adminVars,
     Rows, Worked, JobsInHand, HandOf, Listed, Dead, Live
<1>SweepClean. CASE SweepClean
  BY <1>SweepClean, <1>0 DEF SweepClean, Cleaned, NoJob, trackVars, queueVars, subVars, cycleVars,
     adminVars, Rows, Worked, JobsInHand, HandOf, Listed, Dead, Live
<1>SweepReset. CASE SweepReset
  BY <1>SweepReset, <1>0 DEF SweepReset, Each, trackVars, queueVars, subVars, cycleVars, adminVars,
     Rows, Worked, JobsInHand, HandOf, Listed, Dead, Live
<1>SweepAdd. CASE SweepAdd
  BY <1>SweepAdd, <1>0 DEF SweepAdd, With, NoJob, trackVars, queueVars, subVars, cycleVars, adminVars,
     Rows, Worked, JobsInHand, HandOf, Listed, Dead, Live
<1>ResolveStale. CASE ResolveStale
  BY <1>ResolveStale, <1>0 DEF ResolveStale, NowEmbedded, trackVars, queueVars, subVars, cycleVars,
     adminVars, Rows, Worked, JobsInHand, HandOf, Listed, Dead, Live
<1>Start. CASE Start
  BY <1>Start, <1>0 DEF Start, trackVars, queueVars, subVars, cycleVars, adminVars, Rows, Worked,
     JobsInHand, HandOf, Listed, Dead, Live
<1>ForceStart. CASE ForceStart
  BY <1>ForceStart, <1>0 DEF ForceStart, trackVars, queueVars, subVars, cycleVars, adminVars, Rows,
     Worked, JobsInHand, HandOf, Listed, Dead, Live
<1>Retry. CASE Retry
  BY <1>Retry, <1>0 DEF Retry, trackVars, queueVars, subVars, cycleVars, adminVars, Rows, Worked,
     JobsInHand, HandOf, Listed, Dead, Live
<1>ForceReset. CASE ForceReset
  BY <1>ForceReset, <1>0 DEF ForceReset, trackVars, queueVars, subVars, cycleVars, adminVars, Rows,
     Worked, JobsInHand, HandOf, Listed, Dead, Live
<1>Select. CASE Select
  BY <1>Select, <1>0 DEF Select, trackVars, queueVars, subVars, cycleVars, adminVars, Rows, Worked,
     JobsInHand, HandOf, Listed, Dead, Live
<1>AddChosen. CASE AddChosen
  BY <1>AddChosen, <1>0 DEF AddChosen, Cleaned, With, NoJob, trackVars, queueVars, subVars, cycleVars,
     adminVars, Rows, Worked, JobsInHand, HandOf, Listed, Dead, Live
<1>ClearFailures. CASE ClearFailures
  BY <1>ClearFailures, <1>0 DEF ClearFailures, Each, Dead, trackVars, queueVars, subVars, cycleVars,
     adminVars, Rows, Worked, JobsInHand, HandOf, Listed, Live
<1>RetryReset. CASE RetryReset
  BY <1>RetryReset, <1>0 DEF RetryReset, Each, trackVars, queueVars, subVars, cycleVars, adminVars,
     Rows, Worked, JobsInHand, HandOf, Listed, Dead, Live
<1>RouteEnds. CASE RouteEnds
  BY <1>RouteEnds, <1>0 DEF RouteEnds, Resumed, trackVars, queueVars, subVars, cycleVars, adminVars,
     Rows, Worked, JobsInHand, HandOf, Listed, Dead, Live
<1>ClapCrash. CASE ClapCrash
  BY <1>ClapCrash, <1>0 DEF ClapCrash, trackVars, queueVars, subVars, cycleVars, adminVars, Rows,
     Worked, JobsInHand, HandOf, Listed, Dead, Live
<1>Crash. CASE Crash
  BY <1>Crash, <1>0 DEF Crash, Unprocessed, trackVars, queueVars, subVars, cycleVars, adminVars, Rows,
     Worked, JobsInHand, HandOf, Listed, Dead, Live
<1>Stutter. CASE UNCHANGED vibeVars
  BY <1>Stutter, <1>0 DEF vibeVars, trackVars, queueVars, subVars, cycleVars, adminVars, Rows, Worked,
     JobsInHand, HandOf, Listed, Dead, Live
<1>. QED
  BY <1>Claim, <1>Analysed, <1>Take, <1>Begin, <1>Embed, <1>Store, <1>Complete, <1>Report,
     <1>MarkFailed, <1>RecordFailure, <1>TryAgain, <1>Stall, <1>QuietOver, <1>Counted, <1>Halt,
     <1>Resume, <1>StopCleans, <1>SweepLook, <1>SweepClean, <1>SweepReset, <1>SweepAdd, <1>ResolveStale,
     <1>Start, <1>ForceStart, <1>Retry, <1>ForceReset, <1>Select, <1>AddChosen, <1>ClearFailures,
     <1>RetryReset, <1>RouteEnds, <1>ClapCrash, <1>Crash, <1>Stutter DEF VibeNext, Worker, Sweep, Route

IInv == VibeTypeOK /\ JobsInHand /\ Listed

\* The jobs and steps of every state fit each other, and no failure is missing from the list but
\* within a forced start.
THEOREM VibeInvariance == VibeSpec => []IInv
<1>1. VibeInit => IInv
  <2>. SUFFICES ASSUME VibeInit PROVE IInv
    OBVIOUS
  <2>1. Rows
    BY DEF VibeInit, Rows
  <2>2. Worked
    <3>1. NoJob \in Jobs
      BY DEF Jobs, NoJob, MaxAttempts, MaxStalled
    <3>. QED
      BY <3>1 DEF VibeInit, Worked
  <2>3. left \in [Bounds -> Nat]
    BY ScenarioAssumption DEF VibeInit
  <2>4. Rest
    BY <2>3 DEF VibeInit, Rest
  <2>5. JobsInHand
    BY DEF VibeInit, JobsInHand, HandOf, NoJob, Live
  <2>6. Listed
    BY DEF VibeInit, Listed, Dead, NoJob
  <2>. QED
    BY <2>1, <2>2, <2>4, <2>5, <2>6, TypeParts DEF IInv
<1>2. IInv /\ [VibeNext]_vibeVars => IInv'
  <2>. SUFFICES ASSUME IInv, [VibeNext]_vibeVars PROVE IInv'
    OBVIOUS
  <2>1. Rows' /\ Worked' /\ Rest'
    BY RowsStep, WorkedStep, RestStep DEF IInv
  <2>2. VibeTypeOK'
    BY <2>1 DEF VibeTypeOK, Rows, Worked, Rest, Jobs
  <2>. QED
    BY <2>2, InHandStep, ListedStep DEF IInv
<1>. QED
  BY <1>1, <1>2, PTL DEF VibeSpec

\* However claims, sweeps, routes, attempts and deaths interleave, a track whose embedding has
\* failed for good is on the list of failures, from which alone it is retried: the analyzer
\* reports it before it lets the job go, and the list loses no later failure.
THEOREM VibeSafe == VibeSpec => []VibeConsistent
<1>1. IInv => VibeConsistent
  BY DEF IInv, Listed, VibeConsistent, NoSilentFailure
<1>. QED
  BY <1>1, VibeInvariance, PTL
=============================================================================
