----------------------------- MODULE MCSessionHolds -----------------------------
EXTENDS SessionHolds, TLC

Symmetry == Permutations(Desktop)
================================================================================
