--------------------------- MODULE EnrichmentCycle ---------------------------
(***************************************************************************)
(* Who runs the enrichment cycle, and who may stop it                      *)
(* (workers/unifiedEnrichment.ts, services/enrichmentState.ts).            *)
(*                                                                         *)
(* The cycle is run by a chain of timers and, at once, by library scans    *)
(* and administrators.  What an administrator wants is written in three    *)
(* places: the status in Redis, which every phase of a cycle writes too,   *)
(* flags of the Node process, which follow it by a pub/sub message, and    *)
(* the gate the Python analyzer looks at.                                  *)
(*                                                                         *)
(* An action is the code between two awaits that matter; an update of the  *)
(* status is two, the read of the whole record and the write of the merged *)
(* one.  What the phases do to the library is not modelled here (VibeQueue  *)
(* has some of it), nor the counters and flags of the record other than    *)
(* its status, the artist and tag workers, which are paused and resumed    *)
(* with the flags, and the reset of all data, which removes the record.    *)
(***************************************************************************)
EXTENDS Naturals, Sequences, FiniteSets

CONSTANTS
    Chains,         \* timer callbacks; the worker starts the first
    First,
    Admin,          \* the administrator's requests, one after the other
    Scanner,        \* the scan worker, whose new tracks trigger a cycle
    None,
    Phases,         \* the phases of a cycle in their order
    Scenarios       \* what may happen, and how often: see Bounds

Callers  == {Admin, Scanner}
Tasks    == Chains \cup Callers
Ignored  == {"podcasts", "vibe"}     \* a cycle goes on however these end
Messages == {"pause", "resume", "stop"}
\* Requests, scans with new tracks; messages lost, failing calls and process restarts.
Bounds   == Messages \cup {"full", "scan", "lost", "fault", "crash"}

ASSUME TaskAssumption == First \in Chains /\ Callers \cap Chains = {} /\ Admin # Scanner
ASSUME NoneAssumption == None \notin Tasks
ASSUME PhaseAssumption ==
    /\ Phases \in Seq({"artists", "tracks", "scan", "audio", "podcasts", "vibe"})
    /\ Len(Phases) > 0 /\ Phases[Len(Phases)] = "vibe"
ASSUME ScenarioAssumption == Scenarios \subseteq [Bounds -> Nat]

VARIABLES
    status,     \* of enrichment:state in Redis
    gate,       \* audio:analysis:gate is "paused"
    channel,    \* messages on enrichment:control
    isRunning, isPaused, isStopping, userStopped, immediate,    \* of the Node process
    recent,     \* MIN_INTERVAL_MS may not have passed since the last cycle began
    handle,     \* enrichmentInterval: whose timer is pending
    boot,       \* the worker's first cycle is under way
    pc,         \* where each task is
    todo,       \* the update of the status it is at
    mem,        \* the status it has read for it
    phase,      \* which phase of its cycle it is in, 0 outside
    left        \* what the scenario still allows

redisVars == <<status, gate, channel>>
flagVars  == <<isRunning, isPaused, isStopping, userStopped, immediate, recent>>
chainVars == <<handle, boot>>
taskVars  == <<pc, todo, mem, phase>>
vars == <<redisVars, flagVars, chainVars, taskVars, left>>

Statuses == {"idle", "running", "paused", "stopping"}
Updates  == {"", "stopped", "missed", "phase", "halt", "report", "finish"} \cup Messages

TypeOK ==
    /\ status \in Statuses /\ gate \in BOOLEAN /\ channel \in Seq(Messages)
    /\ {isRunning, isPaused, isStopping, userStopped, immediate, recent} \subseteq BOOLEAN
    /\ handle \in Chains \cup {None} /\ boot \in BOOLEAN
    /\ pc \in [Tasks -> {"off", "idle", "armed", "sync", "syncPaused", "hang", "get", "set",
                         "run", "report", "publish", "call"}]
    /\ todo \in [Tasks -> Updates] /\ mem \in [Tasks -> Statuses \cup {""}]
    /\ phase \in [Tasks -> 0..Len(Phases)]
    /\ left \in [Bounds -> Nat]

\* A worker that has just started, before its first timer.
Init ==
    /\ left \in Scenarios
    /\ status = "running" /\ gate = FALSE /\ channel = <<>>
    /\ isRunning = FALSE /\ isPaused = FALSE /\ isStopping = FALSE
    /\ userStopped = FALSE /\ immediate = FALSE /\ recent = FALSE
    /\ handle = First /\ boot = FALSE
    /\ pc = [t \in Tasks |-> IF t = First THEN "armed" ELSE IF t \in Chains THEN "off" ELSE "idle"]
    /\ todo = [t \in Tasks |-> ""] /\ mem = [t \in Tasks |-> ""]
    /\ phase = [t \in Tasks |-> 0]

Spend(bound) == left[bound] > 0 /\ left' = [left EXCEPT ![bound] = @ - 1]

Goto(t, l)   == pc' = [pc EXCEPT ![t] = l]
Update(t, u) == Goto(t, "get") /\ todo' = [todo EXCEPT ![t] = u]
Forget(t)    == mem' = [mem EXCEPT ![t] = ""]
SameFlags    == UNCHANGED <<isPaused, isStopping, userStopped>>

\* The end of a call; a callback arms the next timer however its cycle ended.
Return(t) ==
    /\ Goto(t, IF t \in Chains THEN "armed" ELSE "idle")
    /\ todo' = [todo EXCEPT ![t] = ""] /\ Forget(t)
    /\ phase' = [phase EXCEPT ![t] = 0]
    /\ IF t \in Chains THEN handle' = t /\ boot' = FALSE ELSE UNCHANGED chainVars

-----------------------------------------------------------------------------
(* runEnrichmentCycle of task t, up to its first phase.                     *)

\* From the call to the first await, which a stop found by its flag needs for its update.
Entry(explicit) ==
    IF isStopping THEN "get"
    ELSE IF userStopped /\ ~explicit THEN "idle"
    ELSE IF isPaused THEN "syncPaused" ELSE "sync"
Enter(t, explicit) == todo' = IF Entry(explicit) = "get" THEN [todo EXCEPT ![t] = "stopped"] ELSE todo

Fire(c) ==
    /\ pc[c] = "armed" /\ Entry(immediate) # "idle"
    /\ Goto(c, Entry(immediate)) /\ Enter(c, immediate)
    /\ handle' = None
    /\ UNCHANGED <<redisVars, flagVars, boot, mem, phase, left>>

\* The timer of a stopped enrichment is set again.
Skip(c) == pc[c] = "armed" /\ Entry(immediate) = "idle" /\ UNCHANGED vars

MissesPause(t)  == isPaused /\ (pc[t] = "syncPaused" => status # "running")   \* mutant
\* The process follows the status in Redis where it missed a message.
PausedAfterSync(t) ==
    IF pc[t] = "syncPaused" THEN isPaused /\ status # "running" ELSE isPaused \/ status = "paused"
NotLooked(t) == FALSE   \* mutant
FoundStopping(t) == pc[t] = "sync" /\ status = "stopping"

Sync(t) ==
    /\ pc[t] \in {"sync", "syncPaused"}
    /\ isPaused' = PausedAfterSync(t)
    /\ \/ /\ FoundStopping(t)
          /\ Update(t, "missed")
          /\ UNCHANGED <<immediate, recent, chainVars, mem, phase>>
       \/ /\ ~FoundStopping(t) /\ (isPaused' \/ isRunning)
          /\ Return(t) /\ UNCHANGED <<immediate, recent>>
       \/ \* too soon; by the next timer it no longer is
          /\ ~FoundStopping(t) /\ ~isPaused' /\ ~isRunning
          /\ recent /\ ~immediate /\ t # Admin
          /\ recent' = FALSE
          /\ Return(t) /\ UNCHANGED immediate
       \/ /\ ~FoundStopping(t) /\ ~isPaused' /\ ~isRunning
          /\ immediate' = FALSE /\ recent' = TRUE
          /\ Goto(t, "hang") /\ UNCHANGED <<chainVars, todo, mem, phase>>
    /\ UNCHANGED <<redisVars, isRunning, isStopping, userStopped, left>>

\* isRunning is set only after detectHang has read the status.
Begin(t) ==
    /\ pc[t] = "hang"
    /\ isRunning' = TRUE
    /\ Update(t, "phase")
    /\ phase' = [phase EXCEPT ![t] = 1]
    /\ SameFlags
    /\ UNCHANGED <<redisVars, immediate, recent, chainVars, mem, left>>

CycleEnds(t) == isRunning' = FALSE /\ Return(t)

InLast(t) == phase[t] = Len(Phases)

\* After a phase, which may have been halted.
Proceed(t, halted) ==
    IF halted /\ Phases[phase[t]] \notin Ignored THEN CycleEnds(t)
    ELSE /\ Forget(t) /\ UNCHANGED <<isRunning, chainVars>>
         /\ IF InLast(t) THEN Goto(t, "report") /\ UNCHANGED <<todo, phase>>
            ELSE Update(t, "phase") /\ phase' = [phase EXCEPT ![t] = @ + 1]

-----------------------------------------------------------------------------
(* updateState: the record is read, and written with the update merged.     *)

Get(t) ==
    /\ pc[t] = "get"
    /\ mem' = [mem EXCEPT ![t] = status]
    /\ Goto(t, "set")
    /\ UNCHANGED <<redisVars, flagVars, chainVars, todo, phase, left>>

Merged(t) ==
    CASE todo[t] \in {"phase", "resume"}                     -> "running"
      [] todo[t] \in {"stopped", "missed", "halt", "finish"} -> "idle"
      [] todo[t] = "pause"                                   -> "paused"
      [] todo[t] = "stop"                                    -> "stopping"
      [] todo[t] = "report"                                  -> mem[t]

Write(t) == pc[t] = "set" /\ status' = Merged(t)

SetPhase(t) ==
    /\ Write(t) /\ todo[t] = "phase"
    /\ Goto(t, "run") /\ Forget(t)
    /\ UNCHANGED <<gate, channel, flagVars, chainVars, todo, phase, left>>

\* A stop found at the start of a cycle, by its flag or by the status.
SetStopped(t) ==
    /\ Write(t)
    /\ \/ todo[t] = "stopped" /\ isStopping' = FALSE /\ isPaused' = FALSE
       \/ todo[t] = "missed" /\ UNCHANGED <<isStopping, isPaused>>
    /\ userStopped' = TRUE
    /\ Return(t)
    /\ UNCHANGED <<gate, channel, isRunning, immediate, recent, left>>

\* A stop found after a phase.
SetHalted(t) ==
    /\ Write(t) /\ todo[t] = "halt"
    /\ isStopping' = FALSE /\ isPaused' = FALSE
    /\ Proceed(t, TRUE)
    /\ UNCHANGED <<gate, channel, userStopped, immediate, recent, left>>

\* The report of a cycle, which all being done is followed by another update.
SetReported(t) ==
    /\ Write(t) /\ todo[t] \in {"report", "finish"}
    /\ \/ CycleEnds(t)
       \/ /\ todo[t] = "report"
          /\ Update(t, "finish")
          /\ Forget(t) /\ UNCHANGED <<isRunning, chainVars, phase>>
    /\ SameFlags
    /\ UNCHANGED <<gate, channel, immediate, recent, left>>

SetRequested(t) ==
    /\ Write(t) /\ todo[t] \in Messages
    /\ Goto(t, "publish") /\ Forget(t)
    /\ UNCHANGED <<gate, channel, flagVars, chainVars, todo, phase, left>>

Set(t) == SetPhase(t) \/ SetStopped(t) \/ SetHalted(t) \/ SetReported(t) \/ SetRequested(t)

-----------------------------------------------------------------------------
(* The phases, and the end of a cycle.                                      *)

\* A phase is done, and shouldHaltCycle asked.
Run(t) ==
    /\ pc[t] = "run"
    /\ IF isStopping \/ userStopped
       THEN Update(t, "halt") /\ UNCHANGED <<isRunning, chainVars, mem, phase>>
       ELSE Proceed(t, isPaused)
    /\ SameFlags
    /\ UNCHANGED <<redisVars, immediate, recent, left>>

\* Something was queued, everything is complete, both or neither.
Conclude(t) ==
    /\ pc[t] = "report"
    /\ \/ CycleEnds(t)
       \/ /\ \E u \in {"report", "finish"} : Update(t, u)
          /\ UNCHANGED <<isRunning, chainVars, mem, phase>>
    /\ SameFlags
    /\ UNCHANGED <<redisVars, immediate, recent, left>>

DiesAnyway(t) ==   \* mutant
    /\ isRunning' = FALSE /\ phase' = [phase EXCEPT ![t] = 0] /\ Goto(t, "off")
    /\ UNCHANGED <<chainVars, todo, mem>>
\* A cycle that fails ends like any other.
Fails(t) == CycleEnds(t)

\* A call fails: in a cycle, before one has begun, or in the worker's first, whose caller has
\* no timer yet and arms none.
Fault(t) ==
    /\ pc[t] \notin {"off", "idle", "armed"} /\ Spend("fault")
    /\ \/ phase[t] > 0 /\ Fails(t)
       \/ /\ phase[t] = 0 /\ (boot => t \notin Chains)
          /\ Return(t) /\ UNCHANGED isRunning
       \/ /\ phase[t] = 0 /\ boot /\ t \in Chains
          /\ Goto(t, "off") /\ boot' = FALSE
          /\ UNCHANGED <<isRunning, handle, todo, mem, phase>>
    /\ SameFlags
    /\ UNCHANGED <<redisVars, immediate, recent>>

-----------------------------------------------------------------------------
(* Requests.                                                                *)

Accepts(kind) ==
    CASE kind = "pause"  -> status = "running"
      [] kind = "resume" -> status = "paused"
      [] kind = "stop"   -> status # "idle"

\* pause, resume and stop of the state service; what is refused changes nothing.
Ask(kind) ==
    /\ pc[Admin] = "idle" /\ Accepts(kind)
    /\ Spend(kind)
    /\ Update(Admin, kind)
    /\ UNCHANGED <<redisVars, flagVars, chainVars, mem, phase>>

\* First the gate, then the message.
Publish ==
    /\ pc[Admin] = "publish"
    /\ gate' = (todo[Admin] # "resume")
    /\ channel' = Append(channel, todo[Admin])
    /\ Return(Admin)
    /\ UNCHANGED <<status, flagVars, left>>

\* The handlers of the control channel.
Deliver ==
    /\ channel # <<>>
    /\ channel' = Tail(channel)
    /\ isPaused' = (Head(channel) # "resume")
    /\ isStopping' = (isStopping \/ Head(channel) = "stop")
    /\ UNCHANGED <<status, gate, isRunning, userStopped, immediate, recent, chainVars, taskVars, left>>

\* While the subscriber reconnects.
Lose ==
    /\ channel # <<>> /\ Spend("lost")
    /\ channel' = Tail(channel)
    /\ UNCHANGED <<status, gate, flagVars, chainVars, taskVars>>

\* clearPauseState, for a scan that has added tracks or an administrator's full run.
Restart(t) ==
    /\ pc[t] = "idle"
    /\ Spend(IF t = Scanner THEN "scan" ELSE "full")
    /\ isPaused' = FALSE /\ isStopping' = FALSE /\ userStopped' = FALSE
    /\ Goto(t, "call")
    /\ UNCHANGED <<redisVars, isRunning, immediate, recent, chainVars, todo, mem, phase>>

\* bumpScheduleToFastInterval: the pending timer is set anew, if there is one.
BumpedAlways ==   \* mutant
    IF handle = None /\ \E c \in Chains : pc[c] = "off" THEN {CHOOSE c \in Chains : pc[c] = "off"}
    ELSE {handle} \ {None}
Bumped == {handle} \ {None}

\* The rest of triggerEnrichmentNow; the cycle is entered by an explicit act.
Trigger ==
    /\ pc[Scanner] = "call"
    /\ immediate' = TRUE
    /\ pc' = [t \in Tasks |-> IF t = Scanner THEN Entry(TRUE)
                             ELSE IF t \in Bumped THEN "armed" ELSE pc[t]]
    /\ handle' = IF Bumped = {} THEN handle ELSE CHOOSE c \in Bumped : TRUE
    /\ Enter(Scanner, TRUE)
    /\ gate' = FALSE
    /\ SameFlags
    /\ UNCHANGED <<status, channel, isRunning, recent, boot, mem, phase, left>>

\* The rest of runFullEnrichment, which writes a new record.
RunFull ==
    /\ pc[Admin] = "call"
    /\ Goto(Admin, Entry(TRUE)) /\ Enter(Admin, TRUE)
    /\ gate' = FALSE
    /\ status' = "running"
    /\ UNCHANGED <<channel, flagVars, chainVars, mem, phase, left>>

\* A restart: startUnifiedEnrichmentWorker, up to the first await of its cycle.  The gate
\* stays as it is.
Crash ==
    /\ Spend("crash")
    /\ status' = "running" /\ channel' = <<>> /\ UNCHANGED gate
    /\ isRunning' = FALSE /\ isPaused' = FALSE /\ isStopping' = FALSE
    /\ userStopped' = FALSE /\ immediate' = FALSE /\ recent' = FALSE
    /\ handle' = None /\ boot' = TRUE
    /\ pc' = [t \in Tasks |-> IF t = First THEN "sync" ELSE IF t \in Chains THEN "off" ELSE "idle"]
    /\ todo' = [t \in Tasks |-> ""] /\ mem' = [t \in Tasks |-> ""]
    /\ phase' = [t \in Tasks |-> 0]

Cycle(t) == Sync(t) \/ Begin(t) \/ Get(t) \/ Set(t) \/ Run(t) \/ Conclude(t)

Next ==
    \/ \E c \in Chains : Fire(c) \/ Skip(c)
    \/ \E t \in Tasks : Cycle(t) \/ Fault(t)
    \/ \E t \in Callers : Restart(t)
    \/ \E kind \in Messages : Ask(kind)
    \/ Publish \/ Trigger \/ RunFull \/ Deliver \/ Lose \/ Crash

Spec == Init /\ [][Next]_vars

\* Timers fire, calls return, messages that are not lost arrive.
FairSpec ==
    /\ Spec
    /\ \A c \in Chains : WF_vars(Fire(c) \/ Cycle(c))
    /\ WF_vars(Cycle(Admin) \/ Publish \/ RunFull) /\ WF_vars(Cycle(Scanner) \/ Trigger)
    /\ WF_vars(Deliver)

-----------------------------------------------------------------------------
\* However triggers, faults and overlapping cycles fall, no chain of timers is doubled, and
\* the process knows its pending timer (the comments at scheduleNextEnrichmentCycle).
Alive == {c \in Chains : pc[c] # "off"}
OneChain ==
    /\ Cardinality(Alive) <= 1
    /\ {c \in Chains : pc[c] = "armed"} = {handle} \ {None}

\* The flag that turns every other cycle away is set only while a cycle runs: no failure
\* leaves it behind.
RunningIsReal == isRunning => \E t \in Tasks : phase[t] > 0

\* Timers, tasks and both copies of the status are well formed, and both of these hold, in
\* every state.
ChainConsistent == TypeOK /\ OneChain /\ RunningIsReal

\* No failure of a cycle ends the chain, the first cycle's after a start excepted.
ChainLives == [][Alive # {} /\ ~boot => Alive' # {}]_vars

\* Every task waits; and what takes a pause or a stop off the agenda.
Settled   == \A t \in Tasks : pc[t] \in {"off", "idle", "armed"}
Elsewhere == boot \/ userStopped \/ Alive = {} \/ \E t \in Callers : pc[t] # "idle"

\* A pause that falls between two cycles reaches the process though its message be lost.  (One
\* that falls into a cycle may be overwritten by its next phase.)
FollowsPause == status = "paused" /\ Settled ~> isPaused \/ Elsewhere

\* Nor does a process stay paused when the status in Redis says it runs.
FollowsResume == status = "running" /\ isPaused ~> status # "running" \/ ~isPaused \/ userStopped \/ Alive = {}

\* The process follows the status in Redis both ways, whichever messages are lost.
FollowsStatus == FollowsPause /\ FollowsResume

\* A stop between two cycles is carried out though its message be lost, unless it finds the
\* process paused.  (The status may say "stopping" for ever: the report of a cycle that read it
\* writes it back.)
StopCarriedOut == status = "stopping" /\ Settled ~> (isPaused /\ ~isStopping) \/ Elsewhere
=============================================================================
