--------------------------- MODULE MCBatchRename ----------------------------
EXTENDS BatchRename, FiniteSets, TLC

Lists(n) == [1 .. n -> [src : Names, dst : Names]]

\* Any two pairs, and the cycles of three names.
MCPairs ==
  UNION {Lists(n) : n \in 0 .. 2}
  \cup {ps \in Lists(3) :
          LET from == {ps[i].src : i \in 1 .. 3}
          IN  /\ Cardinality(from) = 3 /\ from = {ps[i].dst : i \in 1 .. 3}
              /\ \A i \in 1 .. 3 : ps[i].src # ps[i].dst}

MCSymmetry == Permutations(Names) \cup Permutations(Batches)
=============================================================================
