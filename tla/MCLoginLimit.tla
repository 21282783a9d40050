---------------------------- MODULE MCLoginLimit ----------------------------
EXTENDS LoginLimit

FullSymmetry == Permutations(Requests) \cup Permutations(Keys)
=============================================================================
