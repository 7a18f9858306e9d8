------------------------ MODULE OptimisticBatchUpdate ------------------------
(***************************************************************************)
(* updateBatchStatus: a loop that reads the version of a DiscoveryBatch    *)
(* row and updates the row where the version is still the one it read,     *)
(* retried a bounded number of times.  Other code writes the same row      *)
(* without looking at the version (the cancel route, the stale-job         *)
(* cleanup, the cleaner's retry mark, the batch logger) or deletes it      *)
(* (dataCleanup, the deletion of an account).                              *)
(*                                                                         *)
(* One action per database call; the random delay between two attempts is  *)
(* the interleaving point after a conflict.                                *)
(***************************************************************************)
EXTENDS Naturals, FiniteSets

CONSTANTS
    Calls,          \* concurrent invocations of updateBatchStatus on one batch
    Statuses,       \* values of DiscoveryBatch.status
    NoRow,
    NoExpectation,
    MaxRetries,     \* options.maxRetries (10 by default)
    MaxDirect,      \* bound: writes that leave the version alone
    MaxRejections,  \* bound: database calls that reject
    MayDelete       \* whether this instance deletes the row

ASSUME CallsAssumption == IsFiniteSet(Calls)
ASSUME StatusAssumption == NoRow \notin Statuses /\ NoExpectation \notin Statuses
ASSUME RetryAssumption == {MaxRetries, MaxDirect, MaxRejections} \subseteq Nat /\ MayDelete \in BOOLEAN

VARIABLES
    rowStatus, version, \* the row; version of a deleted row is never read
    call,               \* the arguments of each invocation
    stage, seen, retries,   \* its local state; seen is currentVersion
    basis,              \* history: the status the row had when the version was read
    direct, rejections

rowVars   == <<rowStatus, version>>
callVars  == <<call, stage, seen, retries, basis>>
boundVars == <<direct, rejections>>
updateVars == <<rowVars, callVars, boundVars>>

Arguments == [to : Statuses, expected : Statuses \cup {NoExpectation}]
Returned  == {"success", "notFound", "exhausted", "error"}

UpdateTypeOK ==
    /\ rowStatus \in Statuses \cup {NoRow}
    /\ version \in Nat
    /\ call \in [Calls -> Arguments]
    /\ stage \in [Calls -> {"find", "update"} \cup Returned]
    /\ seen \in [Calls -> Nat]
    /\ retries \in [Calls -> Nat]
    /\ basis \in [Calls -> Statuses \cup {NoRow}]
    /\ direct \in Nat
    /\ rejections \in Nat

UpdateInit ==
    /\ rowStatus \in Statuses
    /\ version = 0
    /\ call \in [Calls -> Arguments]
    /\ stage = [c \in Calls |-> "find"]
    /\ seen = [c \in Calls |-> 0]
    /\ retries = [c \in Calls |-> 0]
    /\ basis = [c \in Calls |-> NoRow]
    /\ direct = 0
    /\ rejections = 0

-----------------------------------------------------------------------------
Find(c) ==
    /\ stage[c] = "find"
    /\ IF rowStatus = NoRow
       THEN stage' = [stage EXCEPT ![c] = "notFound"] /\ UNCHANGED <<seen, basis>>
       ELSE /\ stage' = [stage EXCEPT ![c] = "update"]
            /\ seen' = [seen EXCEPT ![c] = version]
            /\ basis' = [basis EXCEPT ![c] = rowStatus]
    /\ UNCHANGED <<rowVars, call, retries, boundVars>>

\* WHERE id, version = currentVersion and, when it is given, status = expectedStatus
MatchesAnyVersion(c) ==   \* mutant
    rowStatus \in (IF call[c].expected = NoExpectation THEN Statuses ELSE {call[c].expected})
MatchesAnyStatus(c) == rowStatus # NoRow /\ version = seen[c]   \* mutant
Matches(c) ==
    /\ rowStatus \in (IF call[c].expected = NoExpectation THEN Statuses ELSE {call[c].expected})
    /\ version = seen[c]

\* { expectedStatus, ...updateData } = data
Written(c) == call[c].to

Update(c) ==
    /\ stage[c] = "update"
    /\ Matches(c)
    /\ rowStatus' = Written(c)
    /\ version' = seen[c] + 1
    /\ stage' = [stage EXCEPT ![c] = "success"]
    /\ UNCHANGED <<call, seen, retries, basis, boundVars>>

NoRetriesLeftEarly(n) == n >= MaxRetries   \* mutant
NoRetriesLeft(n) == n > MaxRetries

NextRetries(n) == n + 1

\* P2025: no row matched.
Conflict(c) ==
    /\ stage[c] = "update"
    /\ ~Matches(c)
    /\ retries' = [retries EXCEPT ![c] = NextRetries(@)]
    /\ stage' = [stage EXCEPT ![c] = IF NoRetriesLeft(NextRetries(retries[c])) THEN "exhausted" ELSE "find"]
    /\ UNCHANGED <<rowVars, call, seen, basis, boundVars>>

\* Any other error ends the call at once.
Rejected(c) ==
    /\ stage[c] \in {"find", "update"}
    /\ rejections < MaxRejections
    /\ rejections' = rejections + 1
    /\ stage' = [stage EXCEPT ![c] = "error"]
    /\ UNCHANGED <<rowVars, call, seen, retries, basis, direct>>

Call(c) == Find(c) \/ Update(c) \/ Conflict(c) \/ Rejected(c)

\* prisma.discoveryBatch.update / updateMany of the other writers.
DirectWrite ==
    /\ rowStatus # NoRow
    /\ direct < MaxDirect
    /\ direct' = direct + 1
    /\ rowStatus' \in Statuses
    /\ UNCHANGED <<version, callVars, rejections>>

Delete ==
    /\ MayDelete
    /\ rowStatus # NoRow
    /\ rowStatus' = NoRow
    /\ UNCHANGED <<version, callVars, boundVars>>

UpdateNext == (\E c \in Calls : Call(c)) \/ DirectWrite \/ Delete

UpdateSpec == UpdateInit /\ [][UpdateNext]_updateVars

-----------------------------------------------------------------------------
\* The loop behaves like one indivisible conditional write.
Atomic == INSTANCE AtomicBatchUpdate WITH
    status <- rowStatus,
    outcome <- [c \in Calls |-> IF stage[c] = "success" THEN "written"
                                ELSE IF stage[c] \in Returned THEN "refused" ELSE "pending"]
ImplementsAtomicUpdate == Atomic!Spec

\* optimisticBatchUpdate.ts:4 "Prevents race conditions when multiple processes update the
\* same batch": as long as every writer goes through updateBatchStatus, a call that writes
\* builds on the row it read.  The writers that leave the version alone break it.
BuildsOnWhatItRead ==
    [][\A c \in Calls :
          stage[c] = "update" /\ stage'[c] = "success" /\ direct = 0 => rowStatus = basis[c]]_updateVars

\* A call without expectedStatus is not starved: each of its conflicts was caused by
\* another call that succeeded, so with at most maxRetries other calls it never runs
\* out of retries, and its callers may ignore the result as they do.
NeverStarved ==
    Cardinality(Calls) <= MaxRetries + 1 =>
        \A c \in Calls : stage[c] = "exhausted" => call[c].expected # NoExpectation \/ rowStatus = NoRow

=============================================================================
