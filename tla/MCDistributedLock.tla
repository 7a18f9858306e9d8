-------------------------- MODULE MCDistributedLock --------------------------
EXTENDS DistributedLock

CONSTANTS p1, p2, s1, s2, s3

\* Two sections of one process, which share its lockValue, and one of another.
TwoAndOne == [s \in Sections |-> IF s = s3 THEN p2 ELSE p1]
=============================================================================
