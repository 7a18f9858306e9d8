-------------------------- MODULE MCEnrichmentCycle --------------------------
EXTENDS EnrichmentCycle, TLC

CONSTANTS c1, c2

\* A phase that halts the cycle and one that does not, which is the last.
FewPhases == <<"audio", "vibe">>

Quiet    == [b \in Bounds |-> 0]
Pausing  == [Quiet EXCEPT !["pause"] = 1, !["resume"] = 1, !["scan"] = 1, !["lost"] = 1]
Stopping == [Quiet EXCEPT !["stop"] = 1, !["scan"] = 1, !["lost"] = 1]
Failing  == [Quiet EXCEPT !["stop"] = 1, !["full"] = 1, !["fault"] = 1]
Crashing == [Quiet EXCEPT !["scan"] = 1, !["pause"] = 1, !["crash"] = 1, !["fault"] = 1]

Situations == {Pausing, Stopping, Failing, Crashing}
=============================================================================
