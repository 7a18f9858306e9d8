--------------------------- MODULE BatchLifecycle ---------------------------
(***************************************************************************)
(* What a reader of a Discover Weekly batch may rely on, whichever tasks   *)
(* raced to write it: the batch goes from downloading to scanning to       *)
(* closed, may be closed at any time, and a playlist is published at most  *)
(* once, by a step that closes the batch and never while it is             *)
(* downloading.  A batch that was already closed may still publish: the    *)
(* build that was under way when it was force-failed finishes.             *)
(***************************************************************************)
EXTENDS Naturals

VARIABLES
    phase,
    published    \* playlists committed so far

TypeOK ==
    /\ phase \in {"downloading", "scanning", "closed"}
    /\ published \in 0..1

Init == phase = "downloading" /\ published = 0

\* all downloads are settled and at least one succeeded
StartScan == phase = "downloading" /\ phase' = "scanning" /\ UNCHANGED published

\* nothing was downloaded or found, the batch timed out or was cancelled
Close == phase' = "closed" /\ UNCHANGED published

Publish ==
    /\ phase # "downloading"
    /\ published = 0
    /\ published' = 1
    /\ phase' = "closed"

Next == StartScan \/ Close \/ Publish

Spec == Init /\ [][Next]_<<phase, published>>
=============================================================================
