------------------------------ MODULE MCReactor ------------------------------
EXTENDS Reactor, TLC
Symmetry == Permutations(Sessions) \cup Permutations(Waiters)
=============================================================================
