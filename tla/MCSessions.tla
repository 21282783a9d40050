----------------------------- MODULE MCSessions -----------------------------
EXTENDS Sessions, TLC

MCSymmetry == Permutations(Consoles) \cup Permutations(Logins) \cup Permutations(Requests)
              \cup Permutations(Roots)
=============================================================================
