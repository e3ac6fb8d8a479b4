------------------------------ MODULE MCLocker ------------------------------
EXTENDS Locker, TLC

Symmetric == Permutations(Callers) \cup Permutations(Locks) \cup Permutations(Keys)
=============================================================================
