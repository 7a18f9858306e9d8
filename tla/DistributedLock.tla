--------------------------- MODULE DistributedLock ---------------------------
(***************************************************************************)
(* utils/distributedLock.ts: withLock around a callback, one key in Redis. *)
(* The lock object is a singleton of its Node process, so every section of *)
(* one process uses the same lockValue.  The key expires by itself after   *)
(* its TTL and nothing renews it while the callback runs.                  *)
(*                                                                         *)
(* A section is one call of withLock for the key; a refused acquisition    *)
(* throws to the caller and changes nothing, so it is left out.            *)
(***************************************************************************)
EXTENDS Naturals, FiniteSets

CONSTANTS
    Processes,     \* Node processes
    Sections,      \* withLock calls for one key, repeated for ever
    ProcessOf,     \* the process each of them runs in
    NoOne,         \* the key is not set
    TTL,           \* ttlMs in ticks
    MaxHold,       \* the longest a callback runs, in ticks
    MaxLosses,     \* bound: Redis calls whose reply is lost or that reject
    MaxDeaths      \* bound: process restarts

ASSUME SectionAssumption == ProcessOf \in [Sections -> Processes] /\ NoOne \notin Sections
ASSUME TimeAssumption == TTL \in Nat \ {0} /\ MaxHold \in Nat
ASSUME LossAssumption == {MaxLosses, MaxDeaths} \subseteq Nat

VARIABLES
    holder,   \* the section whose SET created the key, or NoOne
    value,    \* what the key holds: the lockValue of that section's process then
    left,     \* ticks until the key expires, 0 for never
    section,  \* of each section: "idle", "inside" its callback, "releasing"
    held,     \* ticks since its SET
    life,     \* restarts of each process: a new lockValue each time
    losses,
    robbed    \* for the properties only: sections whose key another section's release deleted

lockVars == <<holder, value, left, section, held, life, losses, robbed>>

LockValues == [process : Processes, life : Nat]
LockValue(s) == [process |-> ProcessOf[s], life |-> life[ProcessOf[s]]]

\* In the callback or about to release.
Busy == {s \in Sections : section[s] # "idle"}

LockTypeOK ==
    /\ holder \in Sections \cup {NoOne}
    /\ holder # NoOne => value \in LockValues
    /\ left \in 0..TTL
    /\ section \in [Sections -> {"idle", "inside", "releasing"}]
    /\ held \in [Sections -> 0..MaxHold]
    /\ life \in [Processes -> Nat]
    /\ losses \in Nat
    /\ robbed \subseteq Busy

LockInit ==
    /\ holder = NoOne
    /\ value = NoOne
    /\ left = 0
    /\ section = [s \in Sections |-> "idle"]
    /\ held = [s \in Sections |-> 0]
    /\ life = [p \in Processes |-> 0]
    /\ losses = 0
    /\ robbed = {}

-----------------------------------------------------------------------------
SetWithoutNX(s) == TRUE   \* mutant
KeyFree(s) == holder = NoOne

\* SET key lockValue PX ttl NX
SetWithoutPX(s) == KeyFree(s) /\ holder' = s /\ value' = LockValue(s) /\ left' = 0   \* mutant
SetKey(s) ==
    /\ KeyFree(s)
    /\ holder' = s
    /\ value' = LockValue(s)
    /\ left' = TTL

DelKey == holder' = NoOne /\ value' = NoOne /\ left' = 0

Acquire(s) ==
    /\ section[s] = "idle"
    /\ SetKey(s)
    /\ section' = [section EXCEPT ![s] = "inside"]
    /\ held' = [held EXCEPT ![s] = 0]
    /\ UNCHANGED <<life, losses, robbed>>

\* The reply is lost: acquire returns false, withLock throws, the key is set.
AcquireReplyLost(s) ==
    /\ section[s] = "idle"
    /\ losses < MaxLosses
    /\ losses' = losses + 1
    /\ SetKey(s)
    /\ UNCHANGED <<section, held, life, robbed>>

\* The callback settles, with a value or an error.
CallbackSettles(s) ==
    /\ section[s] = "inside"
    /\ section' = [section EXCEPT ![s] = "releasing"]
    /\ UNCHANGED <<holder, value, left, held, life, losses, robbed>>

\* The script compares the key with this process's lockValue before it deletes it.
DelUnchecked(s) == DelKey   \* mutant
CompareAndDel(s) ==
    IF holder # NoOne /\ value = LockValue(s) THEN DelKey ELSE UNCHANGED <<holder, value, left>>

Release(s) ==
    /\ section[s] = "releasing"
    /\ CompareAndDel(s)
    /\ section' = [section EXCEPT ![s] = "idle"]
    /\ robbed' = (IF holder' = holder THEN robbed ELSE robbed \cup ({holder} \cap Busy)) \ {s}
    /\ UNCHANGED <<held, life, losses>>

\* The script is not run; withLock does not look at the result.
ReleaseFails(s) ==
    /\ section[s] = "releasing"
    /\ losses < MaxLosses
    /\ losses' = losses + 1
    /\ section' = [section EXCEPT ![s] = "idle"]
    /\ robbed' = robbed \ {s}
    /\ UNCHANGED <<holder, value, left, held, life>>

-----------------------------------------------------------------------------
\* Time passes: the key expires, and no callback runs longer than MaxHold.
Expire ==
    \/ left > 1 /\ left' = left - 1 /\ UNCHANGED <<holder, value>>
    \/ left = 1 /\ DelKey
    \/ left = 0 /\ UNCHANGED <<holder, value, left>>

Tick ==
    /\ \A s \in Sections : section[s] # "idle" => held[s] < MaxHold
    /\ Expire
    /\ held' = [s \in Sections |-> IF section[s] # "idle" THEN held[s] + 1 ELSE held[s]]
    /\ UNCHANGED <<section, life, losses, robbed>>

\* A process dies: its sections are gone, the key stays until it expires.
Death(p) ==
    /\ life[p] < MaxDeaths
    /\ life' = [life EXCEPT ![p] = @ + 1]
    /\ section' = [s \in Sections |-> IF ProcessOf[s] = p THEN "idle" ELSE section[s]]
    /\ robbed' = {s \in robbed : ProcessOf[s] # p}
    /\ UNCHANGED <<holder, value, left, held, losses>>

Section(s) ==
    \/ Acquire(s) \/ AcquireReplyLost(s) \/ CallbackSettles(s) \/ Release(s) \/ ReleaseFails(s)

LockNext == (\E s \in Sections : Section(s)) \/ Tick \/ (\E p \in Processes : Death(p))

LockSpec == LockInit /\ [][LockNext]_lockVars

\* Callbacks settle, a started release runs, and the clock of Redis never stops.
FairLockSpec ==
    /\ LockSpec
    /\ WF_lockVars(Tick)
    /\ \A s \in Sections : WF_lockVars(CallbackSettles(s)) /\ WF_lockVars(Release(s))

-----------------------------------------------------------------------------
\* Within its TTL, and no other section has deleted its key.
Protected(s) == held[s] < TTL /\ s \notin robbed

\* Two callbacks run side by side only when one of them has outlived its TTL or lost its
\* key to a section that had, across processes, lost replies and restarts.
MutualExclusion == \A s, t \in Busy : s = t \/ ~Protected(s) \/ ~Protected(t)

\* distributedLock.ts:25 "Lua script ensures we only delete if we hold the lock".  It
\* compares the value of the process, not of the section: a release deletes the key that
\* another section's SET created only when that is one of its own process, and then only
\* when it has outlived its TTL itself or lost its key to one that had.
ReleasesOwnKey ==
    [][\A s \in Sections :
          section[s] = "releasing" /\ section'[s] = "idle" /\ life' = life
              /\ holder # NoOne /\ holder' = NoOne =>
          holder = s \/ (ProcessOf[holder] = ProcessOf[s] /\ ~Protected(s))]_lockVars

\* Whoever dies or forgets to release, the key is free again and again.
KeyAlwaysFreed == []<>(holder = NoOne)

=============================================================================
