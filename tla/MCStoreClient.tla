----------------------------- MODULE MCStoreClient -----------------------------
EXTENDS StoreClientInv, TLC

Symmetry == Permutations(Thread) \cup Permutations(Project)
================================================================================
