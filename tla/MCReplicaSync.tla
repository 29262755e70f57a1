----------------------------- MODULE MCReplicaSync -----------------------------
EXTENDS ReplicaSyncInv, TLC

Symmetry == Permutations(Thread)
================================================================================
