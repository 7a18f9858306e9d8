-------------------------- MODULE MCDiscoveryBatch --------------------------
(* DiscoveryBatch on a small instance: the constants are given in the cfgs.  *)
(* The thresholds keep their order in checkStuckBatches (10 min, 30 min,     *)
(* 30 min, 60 min, 2 h become 0, 1, 1, 2, 3 ticks).                          *)
EXTENDS DiscoveryBatch
=============================================================================
