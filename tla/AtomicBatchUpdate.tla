-------------------------- MODULE AtomicBatchUpdate --------------------------
(***************************************************************************)
(* What a caller of updateBatchStatus may think it does: the row is        *)
(* changed by one indivisible step per call, only from the status the call *)
(* expects, or the call is refused and writes nothing.  Other tasks change *)
(* or delete the row by steps of their own.                                *)
(***************************************************************************)
CONSTANTS
    Calls,         \* invocations of updateBatchStatus
    Statuses,      \* values of DiscoveryBatch.status
    NoRow,         \* the row was deleted
    NoExpectation  \* the call gives no expectedStatus

VARIABLES
    status,     \* of the row, or NoRow
    call,       \* what each call was given: [to, expected]
    outcome     \* of each call: "pending", "written" or "refused"

vars == <<status, call, outcome>>

Init ==
    /\ status \in Statuses
    /\ call \in [Calls -> [to : Statuses, expected : Statuses \cup {NoExpectation}]]
    /\ outcome = [c \in Calls |-> "pending"]

Apply(c) ==
    /\ outcome[c] = "pending"
    /\ status \in (IF call[c].expected = NoExpectation THEN Statuses ELSE {call[c].expected})
    /\ status' = call[c].to
    /\ outcome' = [outcome EXCEPT ![c] = "written"]
    /\ UNCHANGED call

Refuse(c) ==
    /\ outcome[c] = "pending"
    /\ outcome' = [outcome EXCEPT ![c] = "refused"]
    /\ UNCHANGED <<status, call>>

Elsewhere ==
    /\ status # NoRow
    /\ status' \in Statuses \cup {NoRow}
    /\ UNCHANGED <<call, outcome>>

Next == (\E c \in Calls : Apply(c) \/ Refuse(c)) \/ Elsewhere

Spec == Init /\ [][Next]_vars
=============================================================================
