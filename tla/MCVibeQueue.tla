----------------------------- MODULE MCVibeQueue -----------------------------
EXTENDS VibeQueue, TLC

CONSTANTS t1, t2

Quiet    == [b \in Bounds |-> 0]
Losing   == [Quiet EXCEPT !["claims"] = 2, !["lost"] = 1, !["halt"] = 1, !["stop"] = 1]
Failing  == [Quiet EXCEPT !["claims"] = 1, !["bad"] = 3, !["force"] = 1]
Retrying == [Quiet EXCEPT !["claims"] = 1, !["bad"] = 3, !["retry"] = 1, !["lost"] = 1]
Starting == [Quiet EXCEPT !["claims"] = 1, !["bad"] = 2, !["start"] = 1]
Forcing  == [Quiet EXCEPT !["claims"] = 1, !["force"] = 1, !["crash"] = 1]
Stalling == [Quiet EXCEPT !["claims"] = 1, !["clapCrash"] = 2, !["crash"] = 1]
Dying    == [Quiet EXCEPT !["claims"] = 1, !["bad"] = 2, !["clapCrash"] = 2]
Restarting == [Quiet EXCEPT !["claims"] = 2, !["crash"] = 1]

Situations == {Losing, Failing, Retrying, Starting, Forcing, Stalling, Dying, Restarting}
=============================================================================
