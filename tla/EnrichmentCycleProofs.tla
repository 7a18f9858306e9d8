------------------------ MODULE EnrichmentCycleProofs ------------------------
(***************************************************************************)
(* The enrichment cycle, for any number of callbacks and of phases: one    *)
(* chain of callbacks is alive, whatever the order of timers, control      *)
(* messages, restarts and the calls of the routes and the scanner.         *)
(***************************************************************************)
EXTENDS EnrichmentCycle, FiniteSetTheorems, TLAPS

\* A task with a phase is between its phases or in an update of a cycle; an update names what it
\* writes, and is written after the record was read.
WorksOn(t) ==
    /\ phase[t] # 0 => pc[t] \in {"get", "set", "run", "report"}
    /\ pc[t] \in {"get", "set"} => todo[t] # ""
    /\ pc[t] \in {"get", "set"} /\ phase[t] # 0 => todo[t] \in {"phase", "halt", "report", "finish"}
    /\ pc[t] = "set" => mem[t] # ""
Working == \A t \in Tasks : WorksOn(t)
Asked == pc[Admin] = "publish" => todo[Admin] \in Messages

\* Of two callbacks one at most is alive, and the pending timer is the armed one's.
OneAlive == \A c, d \in Chains : pc[c] # "off" /\ pc[d] # "off" => c = d
Pending  == \A c \in Chains : pc[c] = "armed" <=> handle = c

Redis ==
    /\ status \in Statuses /\ gate \in BOOLEAN /\ channel \in Seq(Messages)
    /\ left \in [Bounds -> Nat]
Process ==
    /\ isRunning \in BOOLEAN /\ isPaused \in BOOLEAN /\ isStopping \in BOOLEAN
    /\ userStopped \in BOOLEAN /\ immediate \in BOOLEAN /\ recent \in BOOLEAN
    /\ handle \in Chains \cup {None} /\ boot \in BOOLEAN
Places == {"off", "idle", "armed", "sync", "syncPaused", "hang", "get", "set", "run", "report", "publish",
           "call"}
Work ==
    /\ pc \in [Tasks -> Places]
    /\ todo \in [Tasks -> Updates] /\ mem \in [Tasks -> Statuses \cup {""}]
    /\ phase \in [Tasks -> 0..Len(Phases)]

LEMMA TypeParts == TypeOK <=> Redis /\ Process /\ Work
BY DEF TypeOK, Redis, Process, Work, Places

LEMMA Callbacks == Admin \in Tasks /\ Scanner \in Tasks /\ Chains \subseteq Tasks /\ First \in Chains
BY TaskAssumption DEF Tasks, Callers

LEMMA Length ==
  /\ 0 \in 0..Len(Phases) /\ 1 \in 0..Len(Phases)
  /\ \A n \in 0..Len(Phases) : n \in Nat
  /\ \A n \in 0..Len(Phases) : n # Len(Phases) => n + 1 \in 0..Len(Phases)
<1>1. Len(Phases) \in Nat \ {0}
  BY PhaseAssumption
<1>. QED
  BY <1>1

LEMMA SpendTyped ==
  ASSUME left \in [Bounds -> Nat], NEW b \in Bounds, Spend(b) PROVE left' \in [Bounds -> Nat]
<1>1. left[b] - 1 \in Nat
  BY DEF Spend
<1>. QED
  BY <1>1 DEF Spend

LEMMA Merging ==
  ASSUME TypeOK, Working, NEW t \in Tasks, pc[t] = "set"
  PROVE  Merged(t) \in Statuses
<1>1. mem[t] \in Statuses /\ todo[t] \in Updates \ {""}
  BY TypeParts DEF Work, Working, WorksOn
<1>. QED
  BY <1>1 DEF Merged, Updates, Messages, Statuses

LEMMA RedisStep == TypeOK /\ Working /\ Asked /\ [Next]_vars => Redis'
<1>. SUFFICES ASSUME TypeOK, Working, Asked, [Next]_vars PROVE Redis'
  OBVIOUS
<1>0. Redis /\ Work /\ Asked
  BY TypeParts
<1>Fire. ASSUME NEW c \in Chains, Fire(c) PROVE Redis'
  BY <1>Fire, <1>0 DEF Fire, Goto, Enter, Entry, redisVars, flagVars, chainVars, taskVars, Redis, Spend,
     Bounds, Statuses
<1>Skip. ASSUME NEW c \in Chains, Skip(c) PROVE Redis'
  BY <1>Skip, <1>0 DEF Skip, vars, redisVars, flagVars, chainVars, taskVars, Redis, Spend, Bounds,
     Statuses
<1>Sync. ASSUME NEW t \in Tasks, Sync(t) PROVE Redis'
  BY <1>Sync, <1>0 DEF Sync, Update, Goto, Return, Forget, PausedAfterSync, FoundStopping, redisVars,
     flagVars, chainVars, taskVars, Redis, Spend, Bounds, Statuses
<1>Begin. ASSUME NEW t \in Tasks, Begin(t) PROVE Redis'
  BY <1>Begin, <1>0 DEF Begin, Update, Goto, SameFlags, redisVars, flagVars, chainVars, taskVars, Redis,
     Spend, Bounds, Statuses
<1>Get. ASSUME NEW t \in Tasks, Get(t) PROVE Redis'
  BY <1>Get, <1>0 DEF Get, Goto, redisVars, flagVars, chainVars, taskVars, Redis, Spend, Bounds,
     Statuses
<1>SetPhase. ASSUME NEW t \in Tasks, SetPhase(t) PROVE Redis'
  <2>1. status' \in Statuses
    BY <1>SetPhase, <1>0, Merging DEF SetPhase, Write
  <2>. QED
    BY <1>SetPhase, <1>0, <2>1 DEF SetPhase, Redis
<1>SetStopped. ASSUME NEW t \in Tasks, SetStopped(t) PROVE Redis'
  <2>1. status' \in Statuses
    BY <1>SetStopped, <1>0, Merging DEF SetStopped, Write
  <2>. QED
    BY <1>SetStopped, <1>0, <2>1 DEF SetStopped, Redis
<1>SetHalted. ASSUME NEW t \in Tasks, SetHalted(t) PROVE Redis'
  <2>1. status' \in Statuses
    BY <1>SetHalted, <1>0, Merging DEF SetHalted, Write
  <2>. QED
    BY <1>SetHalted, <1>0, <2>1 DEF SetHalted, Redis
<1>SetReported. ASSUME NEW t \in Tasks, SetReported(t) PROVE Redis'
  <2>1. status' \in Statuses
    BY <1>SetReported, <1>0, Merging DEF SetReported, Write
  <2>. QED
    BY <1>SetReported, <1>0, <2>1 DEF SetReported, Redis
<1>SetRequested. ASSUME NEW t \in Tasks, SetRequested(t) PROVE Redis'
  <2>1. status' \in Statuses
    BY <1>SetRequested, <1>0, Merging DEF SetRequested, Write
  <2>. QED
    BY <1>SetRequested, <1>0, <2>1 DEF SetRequested, Redis
<1>Run. ASSUME NEW t \in Tasks, Run(t) PROVE Redis'
  BY <1>Run, <1>0 DEF Run, Proceed, CycleEnds, Return, Update, Goto, Forget, SameFlags, redisVars,
     flagVars, chainVars, taskVars, Redis, Spend, Bounds, Statuses
<1>Conclude. ASSUME NEW t \in Tasks, Conclude(t) PROVE Redis'
  BY <1>Conclude, <1>0 DEF Conclude, CycleEnds, Return, Update, Goto, Forget, SameFlags, redisVars,
     flagVars, chainVars, taskVars, Redis, Spend, Bounds, Statuses
<1>Fault. ASSUME NEW t \in Tasks, Fault(t) PROVE Redis'
  <2>1. left' \in [Bounds -> Nat]
    BY <1>Fault, <1>0, SpendTyped DEF Fault, Redis, Bounds
  <2>. QED
    BY <1>Fault, <1>0, <2>1 DEF Fault, Redis, redisVars
<1>Restart. ASSUME NEW t \in Callers, Restart(t) PROVE Redis'
  BY <1>Restart, <1>0 DEF Restart, Goto, redisVars, flagVars, chainVars, taskVars, Redis, Spend, Bounds,
     Statuses
<1>Ask. ASSUME NEW kind \in Messages, Ask(kind) PROVE Redis'
  BY <1>Ask, <1>0 DEF Ask, Update, Goto, redisVars, flagVars, chainVars, taskVars, Redis, Spend, Bounds,
     Statuses
<1>Publish. CASE Publish
  <2>1. channel' = Append(channel, todo[Admin]) /\ todo[Admin] \in Messages
    BY <1>Publish, <1>0 DEF Publish, Asked
  <2>. QED
    BY <1>Publish, <1>0, <2>1 DEF Publish, Redis
<1>Trigger. CASE Trigger
  BY <1>Trigger, <1>0 DEF Trigger, Entry, Enter, Bumped, SameFlags, redisVars, flagVars, chainVars,
     taskVars, Redis, Spend, Bounds, Statuses
<1>RunFull. CASE RunFull
  BY <1>RunFull, <1>0 DEF RunFull, Goto, Enter, Entry, redisVars, flagVars, chainVars, taskVars, Redis,
     Spend, Bounds, Statuses
<1>Deliver. CASE Deliver
  BY <1>Deliver, <1>0 DEF Deliver, redisVars, flagVars, chainVars, taskVars, Redis, Spend, Bounds,
     Statuses
<1>Lose. CASE Lose
  <2>1. channel' \in Seq(Messages)
    BY <1>Lose, <1>0 DEF Lose, Redis
  <2>. QED
    BY <1>Lose, <1>0, <2>1, SpendTyped DEF Lose, Redis, Bounds
<1>Crash. CASE Crash
  <2>1. left' \in [Bounds -> Nat]
    BY <1>Crash, <1>0, SpendTyped DEF Crash, Redis, Bounds
  <2>2. channel' \in Seq(Messages)
    <3>1. channel' = <<>>
      BY <1>Crash DEF Crash
    <3>. QED
      BY <3>1
  <2>. QED
    BY <1>Crash, <1>0, <2>1, <2>2 DEF Crash, Redis, Statuses
<1>Stutter. CASE UNCHANGED vars
  BY <1>Stutter, <1>0 DEF vars, redisVars, flagVars, chainVars, taskVars, Redis, Spend, Bounds, Statuses
<1>. QED
  BY <1>Fire, <1>Skip, <1>Sync, <1>Begin, <1>Get, <1>SetPhase, <1>SetStopped, <1>SetHalted,
     <1>SetReported, <1>SetRequested, <1>Run, <1>Conclude, <1>Fault, <1>Restart, <1>Ask, <1>Publish,
     <1>Trigger, <1>RunFull, <1>Deliver, <1>Lose, <1>Crash, <1>Stutter DEF Next, Cycle, Set

LEMMA ProcessStep == TypeOK /\ [Next]_vars => Process'
<1>. SUFFICES ASSUME TypeOK, [Next]_vars PROVE Process'
  OBVIOUS
<1>0. Process
  BY TypeParts
<1>Fire. ASSUME NEW c \in Chains, Fire(c) PROVE Process'
  BY <1>Fire, <1>0, Callbacks DEF Fire, Goto, Enter, Entry, redisVars, flagVars, chainVars, taskVars,
     Process
<1>Skip. ASSUME NEW c \in Chains, Skip(c) PROVE Process'
  BY <1>Skip, <1>0, Callbacks DEF Skip, vars, redisVars, flagVars, chainVars, taskVars, Process
<1>Sync. ASSUME NEW t \in Tasks, Sync(t) PROVE Process'
  BY <1>Sync, <1>0, Callbacks DEF Sync, Update, Goto, Return, Forget, PausedAfterSync, FoundStopping,
     redisVars, flagVars, chainVars, taskVars, Process
<1>Begin. ASSUME NEW t \in Tasks, Begin(t) PROVE Process'
  BY <1>Begin, <1>0, Callbacks DEF Begin, Update, Goto, SameFlags, redisVars, flagVars, chainVars,
     taskVars, Process
<1>Get. ASSUME NEW t \in Tasks, Get(t) PROVE Process'
  BY <1>Get, <1>0, Callbacks DEF Get, Goto, redisVars, flagVars, chainVars, taskVars, Process
<1>SetPhase. ASSUME NEW t \in Tasks, SetPhase(t) PROVE Process'
  BY <1>SetPhase, <1>0, Callbacks DEF SetPhase, Write, Goto, Forget, redisVars, flagVars, chainVars,
     taskVars, Process
<1>SetStopped. ASSUME NEW t \in Tasks, SetStopped(t) PROVE Process'
  BY <1>SetStopped, <1>0, Callbacks DEF SetStopped, Write, Return, Goto, Forget, redisVars, flagVars,
     chainVars, taskVars, Process
<1>SetHalted. ASSUME NEW t \in Tasks, SetHalted(t) PROVE Process'
  BY <1>SetHalted, <1>0, Callbacks DEF SetHalted, Write, Proceed, CycleEnds, Return, Update, Goto,
     Forget, redisVars, flagVars, chainVars, taskVars, Process
<1>SetReported. ASSUME NEW t \in Tasks, SetReported(t) PROVE Process'
  BY <1>SetReported, <1>0, Callbacks DEF SetReported, Write, CycleEnds, Return, Update, Goto, Forget,
     SameFlags, redisVars, flagVars, chainVars, taskVars, Process
<1>SetRequested. ASSUME NEW t \in Tasks, SetRequested(t) PROVE Process'
  BY <1>SetRequested, <1>0, Callbacks DEF SetRequested, Write, Goto, Forget, redisVars, flagVars,
     chainVars, taskVars, Process
<1>Run. ASSUME NEW t \in Tasks, Run(t) PROVE Process'
  BY <1>Run, <1>0, Callbacks DEF Run, Proceed, CycleEnds, Return, Update, Goto, Forget, SameFlags,
     redisVars, flagVars, chainVars, taskVars, Process
<1>Conclude. ASSUME NEW t \in Tasks, Conclude(t) PROVE Process'
  BY <1>Conclude, <1>0, Callbacks DEF Conclude, CycleEnds, Return, Update, Goto, Forget, SameFlags,
     redisVars, flagVars, chainVars, taskVars, Process
<1>Fault. ASSUME NEW t \in Tasks, Fault(t) PROVE Process'
  BY <1>Fault, <1>0, Callbacks DEF Fault, Fails, CycleEnds, Return, Goto, Forget, SameFlags, redisVars,
     flagVars, chainVars, taskVars, Process
<1>Restart. ASSUME NEW t \in Callers, Restart(t) PROVE Process'
  BY <1>Restart, <1>0, Callbacks DEF Restart, Goto, redisVars, flagVars, chainVars, taskVars, Process
<1>Ask. ASSUME NEW kind \in Messages, Ask(kind) PROVE Process'
  BY <1>Ask, <1>0, Callbacks DEF Ask, Update, Goto, redisVars, flagVars, chainVars, taskVars, Process
<1>Publish. CASE Publish
  BY <1>Publish, <1>0, Callbacks DEF Publish, Return, Goto, Forget, redisVars, flagVars, chainVars,
     taskVars, Process
<1>Trigger. CASE Trigger
  BY <1>Trigger, <1>0, Callbacks DEF Trigger, Entry, Enter, Bumped, SameFlags, redisVars, flagVars,
     chainVars, taskVars, Process
<1>RunFull. CASE RunFull
  BY <1>RunFull, <1>0, Callbacks DEF RunFull, Goto, Enter, Entry, redisVars, flagVars, chainVars,
     taskVars, Process
<1>Deliver. CASE Deliver
  BY <1>Deliver, <1>0, Callbacks DEF Deliver, redisVars, flagVars, chainVars, taskVars, Process
<1>Lose. CASE Lose
  BY <1>Lose, <1>0, Callbacks DEF Lose, redisVars, flagVars, chainVars, taskVars, Process
<1>Crash. CASE Crash
  BY <1>Crash, <1>0, Callbacks DEF Crash, redisVars, flagVars, chainVars, taskVars, Process
<1>Stutter. CASE UNCHANGED vars
  BY <1>Stutter, <1>0, Callbacks DEF vars, redisVars, flagVars, chainVars, taskVars, Process
<1>. QED
  BY <1>Fire, <1>Skip, <1>Sync, <1>Begin, <1>Get, <1>SetPhase, <1>SetStopped, <1>SetHalted,
     <1>SetReported, <1>SetRequested, <1>Run, <1>Conclude, <1>Fault, <1>Restart, <1>Ask, <1>Publish,
     <1>Trigger, <1>RunFull, <1>Deliver, <1>Lose, <1>Crash, <1>Stutter DEF Next, Cycle, Set

LEMMA ReturnTyped == ASSUME Work, NEW t \in Tasks, Return(t) PROVE Work'
<1>1. pc' \in [Tasks -> Places]
  BY Callbacks, Length DEF Return, Goto, Forget, redisVars, flagVars, chainVars, taskVars, Work,
     Places
<1>2. todo' \in [Tasks -> Updates]
  BY Callbacks, Length DEF Return, Goto, Forget, redisVars, flagVars, chainVars, taskVars, Work,
     Updates, Messages
<1>3. mem' \in [Tasks -> Statuses \cup {""}]
  BY Callbacks, Length DEF Return, Goto, Forget, redisVars, flagVars, chainVars, taskVars, Work
<1>4. phase' \in [Tasks -> 0..Len(Phases)]
  BY Callbacks, Length DEF Return, Goto, Forget, redisVars, flagVars, chainVars, taskVars, Work,
     InLast
<1>. QED
  BY <1>1, <1>2, <1>3, <1>4 DEF Work

LEMMA ProceedTyped ==
  ASSUME Work, NEW t \in Tasks, NEW halted, Proceed(t, halted) PROVE Work'
<1>1. CASE CycleEnds(t)
  BY <1>1, ReturnTyped DEF CycleEnds
<1>2. CASE Forget(t) /\ InLast(t) /\ Goto(t, "report") /\ UNCHANGED <<todo, phase>>
  BY <1>2 DEF Work, Places, Goto, Forget
<1>3. CASE Forget(t) /\ ~InLast(t) /\ Update(t, "phase") /\ phase' = [phase EXCEPT ![t] = @ + 1]
  <2>1. phase[t] \in 0..Len(Phases) /\ phase[t] # Len(Phases)
    BY <1>3 DEF InLast, Work
  <2>2. phase[t] + 1 \in 0..Len(Phases)
    BY <2>1, Length
  <2>. QED
    BY <1>3, <2>2 DEF Work, Places, Updates, Goto, Forget, Update
<1>. QED
  BY <1>1, <1>2, <1>3 DEF Proceed

LEMMA WorkStep == TypeOK /\ Working /\ [Next]_vars => Work'
<1>. SUFFICES ASSUME TypeOK, Working, [Next]_vars PROVE Work'
  OBVIOUS
<1>0. Work /\ status \in Statuses
  BY TypeParts DEF Redis
<1>Fire. ASSUME NEW c \in Chains, Fire(c) PROVE Work'
  <2>1. pc' \in [Tasks -> Places]
    BY <1>Fire, <1>0, Callbacks, Length DEF Fire, Goto, Enter, Entry, redisVars, flagVars, chainVars,
       taskVars, Work, Places
  <2>2. todo' \in [Tasks -> Updates]
    BY <1>Fire, <1>0, Callbacks, Length DEF Fire, Goto, Enter, Entry, redisVars, flagVars, chainVars,
       taskVars, Work, Updates, Messages
  <2>3. mem' \in [Tasks -> Statuses \cup {""}]
    BY <1>Fire, <1>0, Callbacks, Length DEF Fire, Goto, Enter, Entry, redisVars, flagVars, chainVars,
       taskVars, Work
  <2>4. phase' \in [Tasks -> 0..Len(Phases)]
    BY <1>Fire, <1>0, Callbacks, Length DEF Fire, Goto, Enter, Entry, redisVars, flagVars, chainVars,
       taskVars, Work, InLast
  <2>. QED
    BY <2>1, <2>2, <2>3, <2>4 DEF Work
<1>Skip. ASSUME NEW c \in Chains, Skip(c) PROVE Work'
  <2>1. pc' \in [Tasks -> Places]
    BY <1>Skip, <1>0, Callbacks, Length DEF Skip, vars, redisVars, flagVars, chainVars, taskVars, Work,
       Places
  <2>2. todo' \in [Tasks -> Updates]
    BY <1>Skip, <1>0, Callbacks, Length DEF Skip, vars, redisVars, flagVars, chainVars, taskVars, Work,
       Updates, Messages
  <2>3. mem' \in [Tasks -> Statuses \cup {""}]
    BY <1>Skip, <1>0, Callbacks, Length DEF Skip, vars, redisVars, flagVars, chainVars, taskVars, Work
  <2>4. phase' \in [Tasks -> 0..Len(Phases)]
    BY <1>Skip, <1>0, Callbacks, Length DEF Skip, vars, redisVars, flagVars, chainVars, taskVars, Work,
       InLast
  <2>. QED
    BY <2>1, <2>2, <2>3, <2>4 DEF Work
<1>Sync. ASSUME NEW t \in Tasks, Sync(t) PROVE Work'
  <2>1. CASE Update(t, "missed") /\ UNCHANGED <<mem, phase>>
    BY <1>0, <2>1 DEF Work, Updates, Places, Update, Goto
  <2>2. CASE Goto(t, "hang") /\ UNCHANGED <<todo, mem, phase>>
    BY <1>0, <2>2 DEF Work, Places, Goto
  <2>. QED
    BY <1>Sync, <1>0, <2>1, <2>2, ReturnTyped DEF Sync
<1>Begin. ASSUME NEW t \in Tasks, Begin(t) PROVE Work'
  <2>1. pc' \in [Tasks -> Places]
    BY <1>Begin, <1>0, Callbacks, Length DEF Begin, Update, Goto, SameFlags, redisVars, flagVars,
       chainVars,
       taskVars, Work, Places
  <2>2. todo' \in [Tasks -> Updates]
    BY <1>Begin, <1>0, Callbacks, Length DEF Begin, Update, Goto, SameFlags, redisVars, flagVars,
       chainVars,
       taskVars, Work, Updates, Messages
  <2>3. mem' \in [Tasks -> Statuses \cup {""}]
    BY <1>Begin, <1>0, Callbacks, Length DEF Begin, Update, Goto, SameFlags, redisVars, flagVars,
       chainVars,
       taskVars, Work
  <2>4. phase' \in [Tasks -> 0..Len(Phases)]
    BY <1>Begin, <1>0, Callbacks, Length DEF Begin, Update, Goto, SameFlags, redisVars, flagVars,
       chainVars,
       taskVars, Work, InLast
  <2>. QED
    BY <2>1, <2>2, <2>3, <2>4 DEF Work
<1>Get. ASSUME NEW t \in Tasks, Get(t) PROVE Work'
  <2>1. pc' \in [Tasks -> Places]
    BY <1>Get, <1>0, Callbacks, Length DEF Get, Goto, redisVars, flagVars, chainVars, taskVars, Work,
       Places
  <2>2. todo' \in [Tasks -> Updates]
    BY <1>Get, <1>0, Callbacks, Length DEF Get, Goto, redisVars, flagVars, chainVars, taskVars, Work,
       Updates, Messages
  <2>3. mem' \in [Tasks -> Statuses \cup {""}]
    BY <1>Get, <1>0, Callbacks, Length DEF Get, Goto, redisVars, flagVars, chainVars, taskVars, Work
  <2>4. phase' \in [Tasks -> 0..Len(Phases)]
    BY <1>Get, <1>0, Callbacks, Length DEF Get, Goto, redisVars, flagVars, chainVars, taskVars, Work,
       InLast
  <2>. QED
    BY <2>1, <2>2, <2>3, <2>4 DEF Work
<1>SetPhase. ASSUME NEW t \in Tasks, SetPhase(t) PROVE Work'
  <2>1. pc' \in [Tasks -> Places]
    BY <1>SetPhase, <1>0, Callbacks, Length DEF SetPhase, Write, Goto, Forget, redisVars, flagVars,
       chainVars,
       taskVars, Work, Places
  <2>2. todo' \in [Tasks -> Updates]
    BY <1>SetPhase, <1>0, Callbacks, Length DEF SetPhase, Write, Goto, Forget, redisVars, flagVars,
       chainVars,
       taskVars, Work, Updates, Messages
  <2>3. mem' \in [Tasks -> Statuses \cup {""}]
    BY <1>SetPhase, <1>0, Callbacks, Length DEF SetPhase, Write, Goto, Forget, redisVars, flagVars,
       chainVars,
       taskVars, Work
  <2>4. phase' \in [Tasks -> 0..Len(Phases)]
    BY <1>SetPhase, <1>0, Callbacks, Length DEF SetPhase, Write, Goto, Forget, redisVars, flagVars,
       chainVars,
       taskVars, Work, InLast
  <2>. QED
    BY <2>1, <2>2, <2>3, <2>4 DEF Work
<1>SetStopped. ASSUME NEW t \in Tasks, SetStopped(t) PROVE Work'
  BY <1>SetStopped, <1>0, Callbacks, ReturnTyped DEF SetStopped
<1>SetHalted. ASSUME NEW t \in Tasks, SetHalted(t) PROVE Work'
  BY <1>SetHalted, <1>0, ProceedTyped DEF SetHalted
<1>SetReported. ASSUME NEW t \in Tasks, SetReported(t) PROVE Work'
  <2>1. CASE Update(t, "finish") /\ Forget(t) /\ UNCHANGED phase
    BY <1>0, <2>1 DEF Work, Updates, Places, Update, Goto, Forget
  <2>. QED
    BY <1>SetReported, <1>0, <2>1, ReturnTyped DEF SetReported, CycleEnds
<1>SetRequested. ASSUME NEW t \in Tasks, SetRequested(t) PROVE Work'
  <2>1. pc' \in [Tasks -> Places]
    BY <1>SetRequested, <1>0, Callbacks, Length DEF SetRequested, Write, Goto, Forget, redisVars,
       flagVars, chainVars,
       taskVars, Work, Places
  <2>2. todo' \in [Tasks -> Updates]
    BY <1>SetRequested, <1>0, Callbacks, Length DEF SetRequested, Write, Goto, Forget, redisVars,
       flagVars, chainVars,
       taskVars, Work, Updates, Messages
  <2>3. mem' \in [Tasks -> Statuses \cup {""}]
    BY <1>SetRequested, <1>0, Callbacks, Length DEF SetRequested, Write, Goto, Forget, redisVars,
       flagVars, chainVars,
       taskVars, Work
  <2>4. phase' \in [Tasks -> 0..Len(Phases)]
    BY <1>SetRequested, <1>0, Callbacks, Length DEF SetRequested, Write, Goto, Forget, redisVars,
       flagVars, chainVars,
       taskVars, Work, InLast
  <2>. QED
    BY <2>1, <2>2, <2>3, <2>4 DEF Work
<1>Run. ASSUME NEW t \in Tasks, Run(t) PROVE Work'
  <2>1. CASE Update(t, "halt") /\ UNCHANGED <<mem, phase>>
    BY <1>0, <2>1 DEF Work, Updates, Places, Update, Goto
  <2>. QED
    BY <1>Run, <1>0, <2>1, ProceedTyped DEF Run
<1>Conclude. ASSUME NEW t \in Tasks, Conclude(t) PROVE Work'
  <2>1. ASSUME NEW u \in {"report", "finish"}, Update(t, u), UNCHANGED <<mem, phase>> PROVE Work'
    BY <1>0, <2>1 DEF Work, Updates, Places, Update, Goto
  <2>. QED
    BY <1>Conclude, <1>0, <2>1, ReturnTyped DEF Conclude, CycleEnds
<1>Fault. ASSUME NEW t \in Tasks, Fault(t) PROVE Work'
  <2>1. CASE Goto(t, "off") /\ UNCHANGED <<todo, mem, phase>>
    BY <1>0, <2>1 DEF Work, Places, Goto
  <2>. QED
    BY <1>Fault, <1>0, <2>1, ReturnTyped DEF Fault, Fails, CycleEnds
<1>Restart. ASSUME NEW t \in Callers, Restart(t) PROVE Work'
  <2>1. pc' \in [Tasks -> Places]
    BY <1>Restart, <1>0, Callbacks, Length DEF Restart, Goto, redisVars, flagVars, chainVars, taskVars,
       Work,
       Places
  <2>2. todo' \in [Tasks -> Updates]
    BY <1>Restart, <1>0, Callbacks, Length DEF Restart, Goto, redisVars, flagVars, chainVars, taskVars,
       Work,
       Updates, Messages
  <2>3. mem' \in [Tasks -> Statuses \cup {""}]
    BY <1>Restart, <1>0, Callbacks, Length DEF Restart, Goto, redisVars, flagVars, chainVars, taskVars,
       Work
  <2>4. phase' \in [Tasks -> 0..Len(Phases)]
    BY <1>Restart, <1>0, Callbacks, Length DEF Restart, Goto, redisVars, flagVars, chainVars, taskVars,
       Work,
       InLast
  <2>. QED
    BY <2>1, <2>2, <2>3, <2>4 DEF Work
<1>Ask. ASSUME NEW kind \in Messages, Ask(kind) PROVE Work'
  <2>1. pc' \in [Tasks -> Places]
    BY <1>Ask, <1>0, Callbacks, Length DEF Ask, Update, Goto, redisVars, flagVars, chainVars, taskVars,
       Work,
       Places
  <2>2. todo' \in [Tasks -> Updates]
    BY <1>Ask, <1>0, Callbacks, Length DEF Ask, Update, Goto, redisVars, flagVars, chainVars, taskVars,
       Work,
       Updates, Messages
  <2>3. mem' \in [Tasks -> Statuses \cup {""}]
    BY <1>Ask, <1>0, Callbacks, Length DEF Ask, Update, Goto, redisVars, flagVars, chainVars, taskVars,
       Work
  <2>4. phase' \in [Tasks -> 0..Len(Phases)]
    BY <1>Ask, <1>0, Callbacks, Length DEF Ask, Update, Goto, redisVars, flagVars, chainVars, taskVars,
       Work,
       InLast
  <2>. QED
    BY <2>1, <2>2, <2>3, <2>4 DEF Work
<1>Publish. CASE Publish
  BY <1>Publish, <1>0, Callbacks, ReturnTyped DEF Publish
<1>Trigger. CASE Trigger
  <2>1. pc' \in [Tasks -> Places]
    BY <1>Trigger, <1>0, Callbacks, Length DEF Trigger, Entry, Enter, Bumped, SameFlags, redisVars,
       flagVars,
       chainVars, taskVars, Work, Places
  <2>2. todo' \in [Tasks -> Updates]
    BY <1>Trigger, <1>0, Callbacks, Length DEF Trigger, Entry, Enter, Bumped, SameFlags, redisVars,
       flagVars,
       chainVars, taskVars, Work, Updates, Messages
  <2>3. mem' \in [Tasks -> Statuses \cup {""}]
    BY <1>Trigger, <1>0, Callbacks, Length DEF Trigger, Entry, Enter, Bumped, SameFlags, redisVars,
       flagVars,
       chainVars, taskVars, Work
  <2>4. phase' \in [Tasks -> 0..Len(Phases)]
    BY <1>Trigger, <1>0, Callbacks, Length DEF Trigger, Entry, Enter, Bumped, SameFlags, redisVars,
       flagVars,
       chainVars, taskVars, Work, InLast
  <2>. QED
    BY <2>1, <2>2, <2>3, <2>4 DEF Work
<1>RunFull. CASE RunFull
  <2>1. pc' \in [Tasks -> Places]
    BY <1>RunFull, <1>0, Callbacks, Length DEF RunFull, Goto, Enter, Entry, redisVars, flagVars,
       chainVars,
       taskVars, Work, Places
  <2>2. todo' \in [Tasks -> Updates]
    BY <1>RunFull, <1>0, Callbacks, Length DEF RunFull, Goto, Enter, Entry, redisVars, flagVars,
       chainVars,
       taskVars, Work, Updates, Messages
  <2>3. mem' \in [Tasks -> Statuses \cup {""}]
    BY <1>RunFull, <1>0, Callbacks, Length DEF RunFull, Goto, Enter, Entry, redisVars, flagVars,
       chainVars,
       taskVars, Work
  <2>4. phase' \in [Tasks -> 0..Len(Phases)]
    BY <1>RunFull, <1>0, Callbacks, Length DEF RunFull, Goto, Enter, Entry, redisVars, flagVars,
       chainVars,
       taskVars, Work, InLast
  <2>. QED
    BY <2>1, <2>2, <2>3, <2>4 DEF Work
<1>Deliver. CASE Deliver
  <2>1. pc' \in [Tasks -> Places]
    BY <1>Deliver, <1>0, Callbacks, Length DEF Deliver, redisVars, flagVars, chainVars, taskVars, Work,
       Places
  <2>2. todo' \in [Tasks -> Updates]
    BY <1>Deliver, <1>0, Callbacks, Length DEF Deliver, redisVars, flagVars, chainVars, taskVars, Work,
       Updates,
       Messages
  <2>3. mem' \in [Tasks -> Statuses \cup {""}]
    BY <1>Deliver, <1>0, Callbacks, Length DEF Deliver, redisVars, flagVars, chainVars, taskVars, Work
  <2>4. phase' \in [Tasks -> 0..Len(Phases)]
    BY <1>Deliver, <1>0, Callbacks, Length DEF Deliver, redisVars, flagVars, chainVars, taskVars, Work,
       InLast
  <2>. QED
    BY <2>1, <2>2, <2>3, <2>4 DEF Work
<1>Lose. CASE Lose
  <2>1. pc' \in [Tasks -> Places]
    BY <1>Lose, <1>0, Callbacks, Length DEF Lose, redisVars, flagVars, chainVars, taskVars, Work, Places
  <2>2. todo' \in [Tasks -> Updates]
    BY <1>Lose, <1>0, Callbacks, Length DEF Lose, redisVars, flagVars, chainVars, taskVars, Work,
       Updates,
       Messages
  <2>3. mem' \in [Tasks -> Statuses \cup {""}]
    BY <1>Lose, <1>0, Callbacks, Length DEF Lose, redisVars, flagVars, chainVars, taskVars, Work
  <2>4. phase' \in [Tasks -> 0..Len(Phases)]
    BY <1>Lose, <1>0, Callbacks, Length DEF Lose, redisVars, flagVars, chainVars, taskVars, Work, InLast
  <2>. QED
    BY <2>1, <2>2, <2>3, <2>4 DEF Work
<1>Crash. CASE Crash
  <2>1. pc' \in [Tasks -> Places]
    BY <1>Crash, <1>0, Callbacks, Length DEF Crash, redisVars, flagVars, chainVars, taskVars, Work,
       Places
  <2>2. todo' \in [Tasks -> Updates]
    BY <1>Crash, <1>0, Callbacks, Length DEF Crash, redisVars, flagVars, chainVars, taskVars, Work,
       Updates,
       Messages
  <2>3. mem' \in [Tasks -> Statuses \cup {""}]
    BY <1>Crash, <1>0, Callbacks, Length DEF Crash, redisVars, flagVars, chainVars, taskVars, Work
  <2>4. phase' \in [Tasks -> 0..Len(Phases)]
    BY <1>Crash, <1>0, Callbacks, Length DEF Crash, redisVars, flagVars, chainVars, taskVars, Work,
       InLast
  <2>. QED
    BY <2>1, <2>2, <2>3, <2>4 DEF Work
<1>Stutter. CASE UNCHANGED vars
  BY <1>Stutter, <1>0, Callbacks, Length DEF vars, redisVars, flagVars, chainVars, taskVars, Work,
     Places, Updates, Messages
<1>. QED
  BY <1>Fire, <1>Skip, <1>Sync, <1>Begin, <1>Get, <1>SetPhase, <1>SetStopped, <1>SetHalted,
     <1>SetReported, <1>SetRequested, <1>Run, <1>Conclude, <1>Fault, <1>Restart, <1>Ask, <1>Publish,
     <1>Trigger, <1>RunFull, <1>Deliver, <1>Lose, <1>Crash, <1>Stutter DEF Next, Cycle, Set

LEMMA WorkingStep == TypeOK /\ Working /\ OneAlive /\ Pending /\ [Next]_vars => Working'
<1>. SUFFICES ASSUME TypeOK, Working, Pending, [Next]_vars, NEW u \in Tasks PROVE WorksOn(u)'
  BY DEF Working
<1>0. Work /\ status \in Statuses
  BY TypeParts DEF Redis
<1>1. phase[u] \in Nat
  BY <1>0, Length DEF Work
<1>2. WorksOn(u)
  BY DEF Working
<1>p. \A t \in Tasks : pc[t] \notin {"get", "set", "run", "report"} => phase[t] = 0
  BY DEF Working, WorksOn
<1>b. \A c \in Bumped : pc[c] = "armed"
  BY TypeParts DEF Pending, Bumped, Process
<1>3. ASSUME NEW t \in Tasks, Return(t) PROVE WorksOn(u)'
  <2>1. CASE u = t
    <3>1. phase'[u] = 0 /\ pc'[u] \in {"armed", "idle"}
      BY <1>0, <1>3, <2>1 DEF Return, Goto, Work
    <3>. QED
      BY <3>1 DEF WorksOn
  <2>2. CASE u # t
    BY <1>0, <1>2, <1>3, <2>2 DEF Return, Goto, Forget, Work, WorksOn
  <2>. QED
    BY <2>1, <2>2
<1>4. ASSUME NEW t \in Tasks, NEW halted, Proceed(t, halted) PROVE WorksOn(u)'
  <2>1. CASE u = t
    <3>1. CASE pc'[u] = "report"
      BY <3>1 DEF WorksOn
    <3>2. CASE pc'[u] = "get" /\ todo'[u] = "phase"
      BY <3>2 DEF WorksOn
    <3>. QED
      BY <1>0, <1>3, <1>4, <2>1, <3>1, <3>2 DEF Proceed, CycleEnds, Update, Goto, Work
  <2>2. CASE u # t
    BY <1>0, <1>2, <1>3, <1>4, <2>2 DEF Proceed, CycleEnds, Update, Goto, Forget, Work, WorksOn
  <2>. QED
    BY <2>1, <2>2
<1>5. ASSUME NEW t \in Tasks, NEW v \in {"halt", "report", "finish"}, Update(t, v),
             mem' = mem \/ mem' = [mem EXCEPT ![t] = ""], UNCHANGED phase
      PROVE  WorksOn(u)'
  BY <1>0, <1>1, <1>2, <1>5 DEF Update, Goto, Work, WorksOn
<1>Fire. ASSUME NEW c \in Chains, Fire(c) PROVE WorksOn(u)'
  BY <1>Fire, <1>0, <1>1, <1>2, Callbacks DEF Fire, Goto, Enter, Entry, redisVars, flagVars, chainVars,
     taskVars, Work, WorksOn, Statuses, Messages
<1>Skip. ASSUME NEW c \in Chains, Skip(c) PROVE WorksOn(u)'
  BY <1>Skip, <1>0, <1>1, <1>2, Callbacks DEF Skip, vars, redisVars, flagVars, chainVars, taskVars,
     Work, WorksOn, Statuses, Messages
<1>Sync. ASSUME NEW t \in Tasks, Sync(t) PROVE WorksOn(u)'
  <2>1. phase[t] = 0
    BY <1>Sync, <1>p DEF Sync
  <2>2. CASE Goto(t, "hang") /\ UNCHANGED <<todo, mem, phase>>
    BY <1>0, <1>1, <1>2, <2>1, <2>2 DEF Goto, Work, WorksOn
  <2>3. CASE Update(t, "missed") /\ UNCHANGED <<mem, phase>>
    BY <1>0, <1>1, <1>2, <2>1, <2>3 DEF Update, Goto, Work, WorksOn
  <2>. QED
    BY <1>Sync, <1>3, <2>2, <2>3 DEF Sync
<1>Begin. ASSUME NEW t \in Tasks, Begin(t) PROVE WorksOn(u)'
  BY <1>Begin, <1>0, <1>1, <1>2, Callbacks DEF Begin, Update, Goto, SameFlags, redisVars, flagVars,
     chainVars, taskVars, Work, WorksOn, Statuses, Messages
<1>Get. ASSUME NEW t \in Tasks, Get(t) PROVE WorksOn(u)'
  BY <1>Get, <1>0, <1>1, <1>2, Callbacks DEF Get, Goto, redisVars, flagVars, chainVars, taskVars, Work,
     WorksOn, Statuses, Messages
<1>SetPhase. ASSUME NEW t \in Tasks, SetPhase(t) PROVE WorksOn(u)'
  BY <1>SetPhase, <1>0, <1>1, <1>2, Callbacks DEF SetPhase, Write, Goto, Forget, redisVars, flagVars,
     chainVars, taskVars, Work, WorksOn, Statuses, Messages
<1>SetStopped. ASSUME NEW t \in Tasks, SetStopped(t) PROVE WorksOn(u)'
  BY <1>SetStopped, <1>3, Callbacks DEF SetStopped
<1>SetHalted. ASSUME NEW t \in Tasks, SetHalted(t) PROVE WorksOn(u)'
  BY <1>SetHalted, <1>4 DEF SetHalted
<1>SetReported. ASSUME NEW t \in Tasks, SetReported(t) PROVE WorksOn(u)'
  BY <1>SetReported, <1>3, <1>5 DEF SetReported, CycleEnds, Forget
<1>SetRequested. ASSUME NEW t \in Tasks, SetRequested(t) PROVE WorksOn(u)'
  BY <1>SetRequested, <1>0, <1>1, <1>2, Callbacks DEF SetRequested, Write, Goto, Forget, redisVars,
     flagVars, chainVars, taskVars, Work, WorksOn, Statuses, Messages
<1>Run. ASSUME NEW t \in Tasks, Run(t) PROVE WorksOn(u)'
  BY <1>Run, <1>4, <1>5 DEF Run
<1>Conclude. ASSUME NEW t \in Tasks, Conclude(t) PROVE WorksOn(u)'
  BY <1>Conclude, <1>3, <1>5 DEF Conclude, CycleEnds
<1>Fault. ASSUME NEW t \in Tasks, Fault(t) PROVE WorksOn(u)'
  <2>1. CASE phase[t] = 0 /\ Goto(t, "off") /\ UNCHANGED <<todo, mem, phase>>
    BY <1>0, <1>1, <1>2, <2>1 DEF Goto, Work, WorksOn
  <2>. QED
    BY <1>Fault, <1>3, <2>1 DEF Fault, Fails, CycleEnds
<1>Restart. ASSUME NEW t \in Callers, Restart(t) PROVE WorksOn(u)'
  BY <1>Restart, <1>0, <1>1, <1>2, Callbacks DEF Restart, Goto, redisVars, flagVars, chainVars,
     taskVars, Work, WorksOn, Statuses, Messages
<1>Ask. ASSUME NEW kind \in Messages, Ask(kind) PROVE WorksOn(u)'
  BY <1>Ask, <1>0, <1>1, <1>2, Callbacks DEF Ask, Update, Goto, redisVars, flagVars, chainVars,
     taskVars, Work, WorksOn, Statuses, Messages
<1>Publish. CASE Publish
  BY <1>Publish, <1>3, Callbacks DEF Publish
<1>Trigger. CASE Trigger
  <2>1. UNCHANGED <<mem, phase>> /\ (u # Scanner => todo'[u] = todo[u])
    BY <1>Trigger, <1>0 DEF Trigger, Enter, Work
  <2>2. u # Scanner => \/ pc'[u] = pc[u]
                       \/ pc'[u] = "armed" /\ phase[u] = 0
    BY <1>Trigger, <1>b, <1>p DEF Trigger
  <2>3. phase[Scanner] = 0
    BY <1>Trigger, <1>p, Callbacks DEF Trigger
  <2>4. pc'[Scanner] = Entry(TRUE) /\ (Entry(TRUE) = "get" => todo'[Scanner] = "stopped")
    BY <1>Trigger, <1>0, Callbacks DEF Trigger, Enter, Work
  <2>5. Entry(TRUE) \in {"get", "sync", "syncPaused"}
    BY DEF Entry
  <2>6. CASE u = Scanner
    BY <2>1, <2>3, <2>4, <2>5, <2>6 DEF WorksOn
  <2>7. CASE u # Scanner
    <3>1. mem'[u] = mem[u] /\ phase'[u] = phase[u] /\ todo'[u] = todo[u]
      BY <2>1, <2>7
    <3>2. CASE pc'[u] = pc[u]
      BY <1>2, <3>1, <3>2 DEF WorksOn
    <3>3. CASE pc'[u] = "armed" /\ phase[u] = 0
      BY <3>1, <3>3 DEF WorksOn
    <3>. QED
      BY <2>2, <2>7, <3>2, <3>3
  <2>. QED
    BY <2>6, <2>7
<1>RunFull. CASE RunFull
  BY <1>RunFull, <1>0, <1>1, <1>2, Callbacks DEF RunFull, Goto, Enter, Entry, redisVars, flagVars,
     chainVars, taskVars, Work, WorksOn, Statuses, Messages
<1>Deliver. CASE Deliver
  BY <1>Deliver, <1>0, <1>1, <1>2, Callbacks DEF Deliver, redisVars, flagVars, chainVars, taskVars,
     Work, WorksOn, Statuses, Messages
<1>Lose. CASE Lose
  BY <1>Lose, <1>0, <1>1, <1>2, Callbacks DEF Lose, redisVars, flagVars, chainVars, taskVars, Work,
     WorksOn, Statuses, Messages
<1>Crash. CASE Crash
  <2>1. phase'[u] = 0 /\ pc'[u] \in {"sync", "off", "idle"}
    BY <1>Crash DEF Crash
  <2>. QED
    BY <2>1 DEF WorksOn
<1>Stutter. CASE UNCHANGED vars
  BY <1>Stutter, <1>0, <1>1, <1>2, Callbacks DEF vars, redisVars, flagVars, chainVars, taskVars, Work,
     WorksOn, Statuses, Messages
<1>. QED
  BY <1>Fire, <1>Skip, <1>Sync, <1>Begin, <1>Get, <1>SetPhase, <1>SetStopped, <1>SetHalted,
     <1>SetReported, <1>SetRequested, <1>Run, <1>Conclude, <1>Fault, <1>Restart, <1>Ask, <1>Publish,
     <1>Trigger, <1>RunFull, <1>Deliver, <1>Lose, <1>Crash, <1>Stutter DEF Next, Cycle, Set

LEMMA AskedStep == TypeOK /\ Working /\ Asked /\ [Next]_vars => Asked'
<1>. SUFFICES ASSUME TypeOK, Working, Asked, [Next]_vars PROVE Asked'
  OBVIOUS
<1>0. Work /\ Admin \in Tasks
  BY TypeParts, Callbacks
<1>Fire. ASSUME NEW c \in Chains, Fire(c) PROVE Asked'
  BY <1>Fire, <1>0, Callbacks DEF Fire, Goto, Enter, Entry, redisVars, flagVars, chainVars, taskVars,
     Work, Asked
<1>Skip. ASSUME NEW c \in Chains, Skip(c) PROVE Asked'
  BY <1>Skip, <1>0, Callbacks DEF Skip, vars, redisVars, flagVars, chainVars, taskVars, Work, Asked
<1>Sync. ASSUME NEW t \in Tasks, Sync(t) PROVE Asked'
  BY <1>Sync, <1>0, Callbacks DEF Sync, Update, Goto, Return, Forget, PausedAfterSync, FoundStopping,
     redisVars, flagVars, chainVars, taskVars, Work, Asked
<1>Begin. ASSUME NEW t \in Tasks, Begin(t) PROVE Asked'
  BY <1>Begin, <1>0, Callbacks DEF Begin, Update, Goto, SameFlags, redisVars, flagVars, chainVars,
     taskVars, Work, Asked
<1>Get. ASSUME NEW t \in Tasks, Get(t) PROVE Asked'
  BY <1>Get, <1>0, Callbacks DEF Get, Goto, redisVars, flagVars, chainVars, taskVars, Work, Asked
<1>SetPhase. ASSUME NEW t \in Tasks, SetPhase(t) PROVE Asked'
  BY <1>SetPhase, <1>0, Callbacks DEF SetPhase, Write, Goto, Forget, redisVars, flagVars, chainVars,
     taskVars, Work, Asked
<1>SetStopped. ASSUME NEW t \in Tasks, SetStopped(t) PROVE Asked'
  BY <1>SetStopped, <1>0, Callbacks DEF SetStopped, Write, Return, Goto, Forget, redisVars, flagVars,
     chainVars, taskVars, Work, Asked
<1>SetHalted. ASSUME NEW t \in Tasks, SetHalted(t) PROVE Asked'
  BY <1>SetHalted, <1>0, Callbacks DEF SetHalted, Write, Proceed, CycleEnds, Return, Update, Goto,
     Forget, redisVars, flagVars, chainVars, taskVars, Work, Asked
<1>SetReported. ASSUME NEW t \in Tasks, SetReported(t) PROVE Asked'
  BY <1>SetReported, <1>0, Callbacks DEF SetReported, Write, CycleEnds, Return, Update, Goto, Forget,
     SameFlags, redisVars, flagVars, chainVars, taskVars, Work, Asked
<1>SetRequested. ASSUME NEW t \in Tasks, SetRequested(t) PROVE Asked'
  BY <1>SetRequested, <1>0, Callbacks DEF SetRequested, Write, Goto, Forget, redisVars, flagVars,
     chainVars, taskVars, Work, Asked
<1>Run. ASSUME NEW t \in Tasks, Run(t) PROVE Asked'
  BY <1>Run, <1>0, Callbacks DEF Run, Proceed, CycleEnds, Return, Update, Goto, Forget, SameFlags,
     redisVars, flagVars, chainVars, taskVars, Work, Asked
<1>Conclude. ASSUME NEW t \in Tasks, Conclude(t) PROVE Asked'
  BY <1>Conclude, <1>0, Callbacks DEF Conclude, CycleEnds, Return, Update, Goto, Forget, SameFlags,
     redisVars, flagVars, chainVars, taskVars, Work, Asked
<1>Fault. ASSUME NEW t \in Tasks, Fault(t) PROVE Asked'
  BY <1>Fault, <1>0, Callbacks DEF Fault, Fails, CycleEnds, Return, Goto, Forget, SameFlags, redisVars,
     flagVars, chainVars, taskVars, Work, Asked
<1>Restart. ASSUME NEW t \in Callers, Restart(t) PROVE Asked'
  BY <1>Restart, <1>0, Callbacks DEF Restart, Goto, redisVars, flagVars, chainVars, taskVars, Work,
     Asked
<1>Ask. ASSUME NEW kind \in Messages, Ask(kind) PROVE Asked'
  BY <1>Ask, <1>0, Callbacks DEF Ask, Update, Goto, redisVars, flagVars, chainVars, taskVars, Work,
     Asked
<1>Publish. CASE Publish
  BY <1>Publish, <1>0, Callbacks DEF Publish, Return, Goto, Forget, redisVars, flagVars, chainVars,
     taskVars, Work, Asked
<1>Trigger. CASE Trigger
  BY <1>Trigger, <1>0, Callbacks DEF Trigger, Entry, Enter, Bumped, SameFlags, redisVars, flagVars,
     chainVars, taskVars, Work, Asked
<1>RunFull. CASE RunFull
  BY <1>RunFull, <1>0, Callbacks DEF RunFull, Goto, Enter, Entry, redisVars, flagVars, chainVars,
     taskVars, Work, Asked
<1>Deliver. CASE Deliver
  BY <1>Deliver, <1>0, Callbacks DEF Deliver, redisVars, flagVars, chainVars, taskVars, Work, Asked
<1>Lose. CASE Lose
  BY <1>Lose, <1>0, Callbacks DEF Lose, redisVars, flagVars, chainVars, taskVars, Work, Asked
<1>Crash. CASE Crash
  BY <1>Crash, <1>0, Callbacks DEF Crash, redisVars, flagVars, chainVars, taskVars, Work, Asked
<1>Stutter. CASE UNCHANGED vars
  BY <1>Stutter, <1>0, Callbacks DEF vars, redisVars, flagVars, chainVars, taskVars, Work, Asked
<1>. QED
  BY <1>Fire, <1>Skip, <1>Sync, <1>Begin, <1>Get, <1>SetPhase, <1>SetStopped, <1>SetHalted,
     <1>SetReported, <1>SetRequested, <1>Run, <1>Conclude, <1>Fault, <1>Restart, <1>Ask, <1>Publish,
     <1>Trigger, <1>RunFull, <1>Deliver, <1>Lose, <1>Crash, <1>Stutter DEF Next, Cycle, Set

LEMMA ChainStep == TypeOK /\ OneAlive /\ Pending /\ [Next]_vars => OneAlive' /\ Pending'
<1>. SUFFICES ASSUME TypeOK, OneAlive, Pending, [Next]_vars PROVE OneAlive' /\ Pending'
  OBVIOUS
<1>0. Work /\ None \notin Tasks /\ Callers \cap Chains = {} /\ handle \in Chains \cup {None}
  BY TypeParts, TaskAssumption, NoneAssumption DEF Process
<1>1. ASSUME NEW t \in Tasks, pc[t] # "off", Return(t) PROVE OneAlive' /\ Pending'
  <2>1. CASE t \in Chains
    BY <1>0, <1>1, <2>1, Callbacks DEF Return, Goto, Work, OneAlive, Pending
  <2>2. CASE t \notin Chains
    BY <1>0, <1>1, <2>2, Callbacks DEF Return, Goto, Work, OneAlive, Pending, chainVars
  <2>. QED
    BY <2>1, <2>2
<1>2. ASSUME NEW t \in Tasks, NEW l \in Places \ {"off", "armed"}, pc[t] \notin {"off", "armed"},
             Goto(t, l), UNCHANGED handle
      PROVE  OneAlive' /\ Pending'
  BY <1>0, <1>2, Callbacks DEF Goto, Work, OneAlive, Pending
<1>3. ASSUME NEW t \in Tasks, NEW v, pc[t] \notin {"off", "armed"}, Update(t, v), UNCHANGED handle
      PROVE  OneAlive' /\ Pending'
  BY <1>2, <1>3 DEF Update, Places
<1>4. ASSUME NEW t \in Tasks, NEW halted, pc[t] \notin {"off", "armed"}, Proceed(t, halted)
      PROVE  OneAlive' /\ Pending'
  <2>1. CASE Goto(t, "report") /\ UNCHANGED handle
    BY <1>2, <1>4, <2>1 DEF Places
  <2>. QED
    BY <1>1, <1>3, <1>4, <2>1 DEF Proceed, CycleEnds, chainVars
<1>Fire. ASSUME NEW c \in Chains, Fire(c) PROVE OneAlive' /\ Pending'
  BY <1>Fire, <1>0, Callbacks DEF Fire, Goto, Enter, Entry, redisVars, flagVars, chainVars, taskVars,
     Work, OneAlive, Pending, Callers
<1>Skip. ASSUME NEW c \in Chains, Skip(c) PROVE OneAlive' /\ Pending'
  BY <1>Skip, <1>0, Callbacks DEF Skip, vars, redisVars, flagVars, chainVars, taskVars, Work, OneAlive,
     Pending, Callers
<1>Sync. ASSUME NEW t \in Tasks, Sync(t) PROVE OneAlive' /\ Pending'
  <2>1. CASE Goto(t, "hang") /\ UNCHANGED chainVars
    BY <1>Sync, <1>2, <2>1 DEF Sync, chainVars, Places
  <2>. QED
    BY <1>Sync, <1>1, <1>3, <2>1 DEF Sync, chainVars
<1>Begin. ASSUME NEW t \in Tasks, Begin(t) PROVE OneAlive' /\ Pending'
  BY <1>Begin, <1>0, Callbacks DEF Begin, Update, Goto, SameFlags, redisVars, flagVars, chainVars,
     taskVars, Work, OneAlive, Pending, Callers
<1>Get. ASSUME NEW t \in Tasks, Get(t) PROVE OneAlive' /\ Pending'
  BY <1>Get, <1>0, Callbacks DEF Get, Goto, redisVars, flagVars, chainVars, taskVars, Work, OneAlive,
     Pending, Callers
<1>SetPhase. ASSUME NEW t \in Tasks, SetPhase(t) PROVE OneAlive' /\ Pending'
  BY <1>SetPhase, <1>0, Callbacks DEF SetPhase, Write, Goto, Forget, redisVars, flagVars, chainVars,
     taskVars, Work, OneAlive, Pending, Callers
<1>SetStopped. ASSUME NEW t \in Tasks, SetStopped(t) PROVE OneAlive' /\ Pending'
  BY <1>SetStopped, <1>1 DEF SetStopped, Write
<1>SetHalted. ASSUME NEW t \in Tasks, SetHalted(t) PROVE OneAlive' /\ Pending'
  BY <1>SetHalted, <1>4 DEF SetHalted, Write
<1>SetReported. ASSUME NEW t \in Tasks, SetReported(t) PROVE OneAlive' /\ Pending'
  BY <1>SetReported, <1>1, <1>3 DEF SetReported, Write, CycleEnds, chainVars
<1>SetRequested. ASSUME NEW t \in Tasks, SetRequested(t) PROVE OneAlive' /\ Pending'
  BY <1>SetRequested, <1>0, Callbacks DEF SetRequested, Write, Goto, Forget, redisVars, flagVars,
     chainVars, taskVars, Work, OneAlive, Pending, Callers
<1>Run. ASSUME NEW t \in Tasks, Run(t) PROVE OneAlive' /\ Pending'
  BY <1>Run, <1>3, <1>4 DEF Run, chainVars
<1>Conclude. ASSUME NEW t \in Tasks, Conclude(t) PROVE OneAlive' /\ Pending'
  BY <1>Conclude, <1>1, <1>3 DEF Conclude, CycleEnds, chainVars
<1>Fault. ASSUME NEW t \in Tasks, Fault(t) PROVE OneAlive' /\ Pending'
  <2>1. CASE Goto(t, "off") /\ handle' = handle
    BY <1>Fault, <1>0, <2>1, Callbacks DEF Fault, Goto, OneAlive, Pending, Work
  <2>. QED
    BY <1>Fault, <1>1, <2>1 DEF Fault, Fails, CycleEnds
<1>Restart. ASSUME NEW t \in Callers, Restart(t) PROVE OneAlive' /\ Pending'
  BY <1>Restart, <1>0, Callbacks DEF Restart, Goto, redisVars, flagVars, chainVars, taskVars, Work,
     OneAlive, Pending, Callers
<1>Ask. ASSUME NEW kind \in Messages, Ask(kind) PROVE OneAlive' /\ Pending'
  BY <1>Ask, <1>0, Callbacks DEF Ask, Update, Goto, redisVars, flagVars, chainVars, taskVars, Work,
     OneAlive, Pending, Callers
<1>Publish. CASE Publish
  BY <1>Publish, <1>1, Callbacks DEF Publish
<1>Trigger. CASE Trigger
  BY <1>Trigger, <1>0, Callbacks DEF Trigger, Entry, Enter, Bumped, SameFlags, redisVars, flagVars,
     chainVars, taskVars, Work, OneAlive, Pending, Callers
<1>RunFull. CASE RunFull
  BY <1>RunFull, <1>0, Callbacks DEF RunFull, Goto, Enter, Entry, redisVars, flagVars, chainVars,
     taskVars, Work, OneAlive, Pending, Callers
<1>Deliver. CASE Deliver
  BY <1>Deliver, <1>0, Callbacks DEF Deliver, redisVars, flagVars, chainVars, taskVars, Work, OneAlive,
     Pending, Callers
<1>Lose. CASE Lose
  BY <1>Lose, <1>0, Callbacks DEF Lose, redisVars, flagVars, chainVars, taskVars, Work, OneAlive,
     Pending, Callers
<1>Crash. CASE Crash
  BY <1>Crash, <1>0, Callbacks DEF Crash, redisVars, flagVars, chainVars, taskVars, Work, OneAlive,
     Pending, Callers
<1>Stutter. CASE UNCHANGED vars
  BY <1>Stutter, <1>0, Callbacks DEF vars, redisVars, flagVars, chainVars, taskVars, Work, OneAlive,
     Pending, Callers
<1>. QED
  BY <1>Fire, <1>Skip, <1>Sync, <1>Begin, <1>Get, <1>SetPhase, <1>SetStopped, <1>SetHalted,
     <1>SetReported, <1>SetRequested, <1>Run, <1>Conclude, <1>Fault, <1>Restart, <1>Ask, <1>Publish,
     <1>Trigger, <1>RunFull, <1>Deliver, <1>Lose, <1>Crash, <1>Stutter DEF Next, Cycle, Set

LEMMA RunningStep == TypeOK /\ Working /\ RunningIsReal /\ [Next]_vars => RunningIsReal'
<1>. SUFFICES ASSUME TypeOK, Working, RunningIsReal, [Next]_vars PROVE RunningIsReal'
  OBVIOUS
<1>0. Work /\ (\A u \in Tasks : phase[u] \in Nat)
  BY TypeParts, Length DEF Work
<1>1. \A u \in Tasks : WorksOn(u)
  BY DEF Working
<1>2. ASSUME NEW t \in Tasks, NEW halted, Proceed(t, halted) PROVE RunningIsReal'
  <2>1. CASE CycleEnds(t)
    BY <2>1 DEF CycleEnds, RunningIsReal
  <2>2. CASE UNCHANGED <<isRunning, phase>>
    BY <2>2 DEF RunningIsReal
  <2>3. CASE isRunning' = isRunning /\ phase' = [phase EXCEPT ![t] = @ + 1]
    <3>1. ASSUME NEW u \in Tasks, phase[u] > 0 PROVE phase'[u] > 0
      <4>1. phase'[u] = IF u = t THEN phase[u] + 1 ELSE phase[u]
        BY <1>0, <2>3 DEF Work
      <4>. QED
        BY <1>0, <3>1, <4>1
    <3>. QED
      BY <2>3, <3>1 DEF RunningIsReal
  <2>. QED
    BY <1>2, <2>1, <2>2, <2>3 DEF Proceed
<1>Fire. ASSUME NEW c \in Chains, Fire(c) PROVE RunningIsReal'
  BY <1>Fire, <1>0, <1>1, Callbacks DEF Fire, Goto, Enter, Entry, redisVars, flagVars, chainVars,
     taskVars, Work, RunningIsReal, WorksOn, Messages
<1>Skip. ASSUME NEW c \in Chains, Skip(c) PROVE RunningIsReal'
  BY <1>Skip, <1>0, <1>1, Callbacks DEF Skip, vars, redisVars, flagVars, chainVars, taskVars, Work,
     RunningIsReal, WorksOn, Messages
<1>Sync. ASSUME NEW t \in Tasks, Sync(t) PROVE RunningIsReal'
  BY <1>Sync, <1>0, <1>1, Callbacks DEF Sync, Update, Goto, Return, Forget, PausedAfterSync,
     FoundStopping, redisVars, flagVars, chainVars, taskVars, Work, RunningIsReal, WorksOn, Messages
<1>Begin. ASSUME NEW t \in Tasks, Begin(t) PROVE RunningIsReal'
  <2>1. phase'[t] = 1
    BY <1>Begin, <1>0 DEF Begin, Work
  <2>. QED
    BY <2>1 DEF RunningIsReal
<1>Get. ASSUME NEW t \in Tasks, Get(t) PROVE RunningIsReal'
  BY <1>Get, <1>0, <1>1, Callbacks DEF Get, Goto, redisVars, flagVars, chainVars, taskVars, Work,
     RunningIsReal, WorksOn, Messages
<1>SetPhase. ASSUME NEW t \in Tasks, SetPhase(t) PROVE RunningIsReal'
  BY <1>SetPhase, <1>0, <1>1, Callbacks DEF SetPhase, Write, Goto, Forget, redisVars, flagVars,
     chainVars, taskVars, Work, RunningIsReal, WorksOn, Messages
<1>SetStopped. ASSUME NEW t \in Tasks, SetStopped(t) PROVE RunningIsReal'
  BY <1>SetStopped, <1>0, <1>1, Callbacks DEF SetStopped, Write, Return, Goto, Forget, redisVars,
     flagVars, chainVars, taskVars, Work, RunningIsReal, WorksOn, Messages
<1>SetHalted. ASSUME NEW t \in Tasks, SetHalted(t) PROVE RunningIsReal'
  BY <1>SetHalted, <1>2 DEF SetHalted
<1>SetReported. ASSUME NEW t \in Tasks, SetReported(t) PROVE RunningIsReal'
  BY <1>SetReported, <1>0, <1>1, Callbacks DEF SetReported, Write, CycleEnds, Return, Update, Goto,
     Forget, SameFlags, redisVars, flagVars, chainVars, taskVars, Work, RunningIsReal, WorksOn, Messages
<1>SetRequested. ASSUME NEW t \in Tasks, SetRequested(t) PROVE RunningIsReal'
  BY <1>SetRequested, <1>0, <1>1, Callbacks DEF SetRequested, Write, Goto, Forget, redisVars, flagVars,
     chainVars, taskVars, Work, RunningIsReal, WorksOn, Messages
<1>Run. ASSUME NEW t \in Tasks, Run(t) PROVE RunningIsReal'
  <2>1. CASE UNCHANGED <<isRunning, phase>>
    BY <2>1 DEF RunningIsReal
  <2>. QED
    BY <1>Run, <1>2, <2>1 DEF Run, SameFlags
<1>Conclude. ASSUME NEW t \in Tasks, Conclude(t) PROVE RunningIsReal'
  BY <1>Conclude, <1>0, <1>1, Callbacks DEF Conclude, CycleEnds, Return, Update, Goto, Forget,
     SameFlags, redisVars, flagVars, chainVars, taskVars, Work, RunningIsReal, WorksOn, Messages
<1>Fault. ASSUME NEW t \in Tasks, Fault(t) PROVE RunningIsReal'
  BY <1>Fault, <1>0, <1>1, Callbacks DEF Fault, Fails, CycleEnds, Return, Goto, Forget, SameFlags,
     redisVars, flagVars, chainVars, taskVars, Work, RunningIsReal, WorksOn, Messages
<1>Restart. ASSUME NEW t \in Callers, Restart(t) PROVE RunningIsReal'
  BY <1>Restart, <1>0, <1>1, Callbacks DEF Restart, Goto, redisVars, flagVars, chainVars, taskVars,
     Work, RunningIsReal, WorksOn, Messages
<1>Ask. ASSUME NEW kind \in Messages, Ask(kind) PROVE RunningIsReal'
  BY <1>Ask, <1>0, <1>1, Callbacks DEF Ask, Update, Goto, redisVars, flagVars, chainVars, taskVars,
     Work, RunningIsReal, WorksOn, Messages
<1>Publish. CASE Publish
  BY <1>Publish, <1>0, <1>1, Callbacks DEF Publish, Return, Goto, Forget, redisVars, flagVars,
     chainVars, taskVars, Work, RunningIsReal, WorksOn, Messages
<1>Trigger. CASE Trigger
  BY <1>Trigger, <1>0, <1>1, Callbacks DEF Trigger, Entry, Enter, Bumped, SameFlags, redisVars,
     flagVars, chainVars, taskVars, Work, RunningIsReal, WorksOn, Messages
<1>RunFull. CASE RunFull
  BY <1>RunFull, <1>0, <1>1, Callbacks DEF RunFull, Goto, Enter, Entry, redisVars, flagVars, chainVars,
     taskVars, Work, RunningIsReal, WorksOn, Messages
<1>Deliver. CASE Deliver
  BY <1>Deliver, <1>0, <1>1, Callbacks DEF Deliver, redisVars, flagVars, chainVars, taskVars, Work,
     RunningIsReal, WorksOn, Messages
<1>Lose. CASE Lose
  BY <1>Lose, <1>0, <1>1, Callbacks DEF Lose, redisVars, flagVars, chainVars, taskVars, Work,
     RunningIsReal, WorksOn, Messages
<1>Crash. CASE Crash
  BY <1>Crash, <1>0, <1>1, Callbacks DEF Crash, redisVars, flagVars, chainVars, taskVars, Work,
     RunningIsReal, WorksOn, Messages
<1>Stutter. CASE UNCHANGED vars
  BY <1>Stutter, <1>0, <1>1, Callbacks DEF vars, redisVars, flagVars, chainVars, taskVars, Work,
     RunningIsReal, WorksOn, Messages
<1>. QED
  BY <1>Fire, <1>Skip, <1>Sync, <1>Begin, <1>Get, <1>SetPhase, <1>SetStopped, <1>SetHalted,
     <1>SetReported, <1>SetRequested, <1>Run, <1>Conclude, <1>Fault, <1>Restart, <1>Ask, <1>Publish,
     <1>Trigger, <1>RunFull, <1>Deliver, <1>Lose, <1>Crash, <1>Stutter DEF Next, Cycle, Set

-----------------------------------------------------------------------------
\* Everything above, in every state.
IInv == TypeOK /\ Working /\ Asked /\ OneAlive /\ Pending /\ RunningIsReal

THEOREM ChainInvariance == Spec => []IInv
<1>1. Init => IInv
  <2>. SUFFICES ASSUME Init PROVE IInv
    OBVIOUS
  <2>1. left \in [Bounds -> Nat]
    BY ScenarioAssumption DEF Init
  <2>2. channel \in Seq(Messages)
    <3>1. channel = <<>>
      BY DEF Init
    <3>. QED
      BY <3>1
  <2>3. Redis /\ Process
    BY <2>1, <2>2, Callbacks DEF Init, Redis, Process, Statuses
  <2>4. Work
    BY Callbacks, Length DEF Init, Work, Places, Updates
  <2>5. Pending
    BY Callbacks, NoneAssumption DEF Init, Pending
  <2>. QED
    BY <2>3, <2>4, <2>5, TypeParts, Callbacks
    DEF Init, IInv, Working, WorksOn, Asked, OneAlive, RunningIsReal
<1>2. IInv /\ [Next]_vars => IInv'
  <2>. SUFFICES ASSUME IInv, [Next]_vars PROVE IInv'
    OBVIOUS
  <2>1. (Redis /\ Process /\ Work)'
    BY RedisStep, ProcessStep, WorkStep DEF IInv
  <2>2. TypeOK'
    BY <2>1 DEF TypeOK, Redis, Process, Work, Places
  <2>. QED
    BY <2>2, WorkingStep, AskedStep, ChainStep, RunningStep DEF IInv
<1>. QED
  BY <1>1, <1>2, PTL DEF Spec

\* However triggers, faults, restarts and overlapping cycles fall, one chain of timers at most is
\* alive, the process knows its pending timer, and isRunning is set only while a cycle runs.
THEOREM ChainSafe == Spec => []ChainConsistent
<1>1. IInv => ChainConsistent
  <2>. SUFFICES ASSUME IInv PROVE OneChain
    BY DEF IInv, ChainConsistent
  <2>. USE DEF IInv
  <2>1. Cardinality(Alive) <= 1
    <3>1. CASE Alive = {}
      BY <3>1, FS_EmptySet
    <3>2. ASSUME NEW c \in Alive PROVE Cardinality(Alive) <= 1
      <4>1. Alive = {c}
        BY <3>2 DEF Alive, OneAlive
      <4>2. Cardinality({c}) = 1
        BY FS_Singleton
      <4>. QED
        BY <4>1, <4>2
    <3>. QED
      BY <3>1, <3>2
  <2>2. handle \in Chains \cup {None} /\ None \notin Chains
    BY TypeParts, NoneAssumption, Callbacks DEF Process
  <2>3. {c \in Chains : pc[c] = "armed"} = {handle} \ {None}
    BY <2>2 DEF Pending
  <2>. QED
    BY <2>1, <2>3 DEF OneChain
<1>. QED
  BY <1>1, ChainInvariance, PTL

\* A task goes on, or comes to its end: no chain ends with it.
LEMMA LivesOn == TypeOK /\ [Next]_vars => (Alive # {} /\ ~boot => Alive' # {})
<1>. SUFFICES ASSUME TypeOK, [Next]_vars, NEW c0 \in Alive, ~boot PROVE Alive' # {}
  OBVIOUS
<1>0. Work /\ c0 \in Chains /\ c0 \in Tasks /\ pc[c0] # "off"
  BY TypeParts, Callbacks DEF Alive
<1>1. ASSUME NEW t \in Tasks, Return(t) PROVE Alive' # {}
  BY <1>0, <1>1 DEF Return, Goto, Work, Alive
<1>2. ASSUME NEW t \in Tasks, NEW l, l # "off", Goto(t, l) PROVE Alive' # {}
  BY <1>0, <1>2 DEF Goto, Work, Alive
<1>3. ASSUME NEW t \in Tasks, NEW halted, Proceed(t, halted) PROVE Alive' # {}
  BY <1>1, <1>2, <1>3 DEF Proceed, CycleEnds, Update
<1>Fire. ASSUME NEW c \in Chains, Fire(c) PROVE Alive' # {}
  BY <1>Fire, <1>2, Callbacks DEF Fire, Entry
<1>Skip. ASSUME NEW c \in Chains, Skip(c) PROVE Alive' # {}
  BY <1>Skip, <1>0 DEF Skip, vars, taskVars, Alive
<1>Sync. ASSUME NEW t \in Tasks, Sync(t) PROVE Alive' # {}
  BY <1>Sync, <1>1, <1>2 DEF Sync, Update
<1>Begin. ASSUME NEW t \in Tasks, Begin(t) PROVE Alive' # {}
  BY <1>Begin, <1>2, Callbacks DEF Begin, Update
<1>Get. ASSUME NEW t \in Tasks, Get(t) PROVE Alive' # {}
  BY <1>Get, <1>2 DEF Get
<1>SetPhase. ASSUME NEW t \in Tasks, SetPhase(t) PROVE Alive' # {}
  BY <1>SetPhase, <1>2 DEF SetPhase
<1>SetStopped. ASSUME NEW t \in Tasks, SetStopped(t) PROVE Alive' # {}
  BY <1>SetStopped, <1>1 DEF SetStopped
<1>SetHalted. ASSUME NEW t \in Tasks, SetHalted(t) PROVE Alive' # {}
  BY <1>SetHalted, <1>3 DEF SetHalted
<1>SetReported. ASSUME NEW t \in Tasks, SetReported(t) PROVE Alive' # {}
  BY <1>SetReported, <1>1, <1>2 DEF SetReported, CycleEnds, Update
<1>SetRequested. ASSUME NEW t \in Tasks, SetRequested(t) PROVE Alive' # {}
  BY <1>SetRequested, <1>2 DEF SetRequested
<1>Run. ASSUME NEW t \in Tasks, Run(t) PROVE Alive' # {}
  BY <1>Run, <1>2, <1>3 DEF Run, Update
<1>Conclude. ASSUME NEW t \in Tasks, Conclude(t) PROVE Alive' # {}
  BY <1>Conclude, <1>1, <1>2 DEF Conclude, CycleEnds, Update
<1>Fault. ASSUME NEW t \in Tasks, Fault(t) PROVE Alive' # {}
  BY <1>Fault, <1>0, <1>1 DEF Fault, Fails, CycleEnds
<1>Restart. ASSUME NEW t \in Callers, Restart(t) PROVE Alive' # {}
  BY <1>Restart, <1>2, Callbacks DEF Restart, Callers, Tasks
<1>Ask. ASSUME NEW kind \in Messages, Ask(kind) PROVE Alive' # {}
  BY <1>Ask, <1>2, Callbacks DEF Ask, Update
<1>Publish. CASE Publish
  BY <1>Publish, <1>1, Callbacks DEF Publish
<1>Trigger. CASE Trigger
  BY <1>Trigger, <1>0, Callbacks, TaskAssumption DEF Trigger, Alive, Callers, Entry
<1>RunFull. CASE RunFull
  BY <1>RunFull, <1>2, Callbacks DEF RunFull, Entry
<1>Deliver. CASE Deliver
  BY <1>Deliver, <1>0 DEF Deliver, taskVars, Alive
<1>Lose. CASE Lose
  BY <1>Lose, <1>0 DEF Lose, taskVars, Alive
<1>Crash. CASE Crash
  BY <1>Crash, Callbacks DEF Crash, Alive
<1>Stutter. CASE UNCHANGED vars
  BY <1>Stutter, <1>0 DEF Skip, vars, taskVars, Alive
<1>. QED
  BY <1>Fire, <1>Skip, <1>Sync, <1>Begin, <1>Get, <1>SetPhase, <1>SetStopped, <1>SetHalted,
     <1>SetReported, <1>SetRequested, <1>Run, <1>Conclude, <1>Fault, <1>Restart, <1>Ask, <1>Publish,
     <1>Trigger, <1>RunFull, <1>Deliver, <1>Lose, <1>Crash, <1>Stutter DEF Next, Cycle, Set

\* No failure of a cycle ends the chain of timers, the first cycle's after a start excepted.
THEOREM ChainLivesOn == Spec => ChainLives
<1>1. IInv /\ [Next]_vars => [Alive # {} /\ ~boot => Alive' # {}]_vars
  BY LivesOn DEF IInv
<1>. QED
  BY <1>1, ChainInvariance, PTL DEF Spec, ChainLives
=============================================================================
