------------------------------ MODULE MCWheel -------------------------------
EXTENDS Wheel, TLC
Symmetry == Permutations(Clients) \cup Permutations(Objs)
=============================================================================
