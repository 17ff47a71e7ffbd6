----------------------------- MODULE MCFailover -----------------------------
EXTENDS Failover, TLC

MCSymmetry == Permutations(Requests)
=============================================================================
