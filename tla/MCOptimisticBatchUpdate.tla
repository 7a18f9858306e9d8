---------------------- MODULE MCOptimisticBatchUpdate ----------------------
EXTENDS OptimisticBatchUpdate, TLC

\* Calls are interchangeable in the specification.
CallSymmetry == Permutations(Calls)
=============================================================================
