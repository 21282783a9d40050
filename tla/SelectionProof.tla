--------------------------- MODULE SelectionProof ---------------------------
(***************************************************************************)
(* What is done to a selection of many entries is whole.                   *)
(*                                                                         *)
(* First, what BatchRename promises, for any names, requests, lists of     *)
(* pairs and any number of failing calls.  Where a request stands is told  *)
(* by two sets of indices: Out, the pairs whose entry has left its old     *)
(* name, and Placed, those whose entry has its new one.  A call adds an    *)
(* index to one of them or takes it away.                                  *)
(*                                                                         *)
(* Then what PackageDownload promises, for any tree, selection, lengths of *)
(* files, moduli and capacities: the requests ahead are a window that      *)
(* slides, the walk keeps what it has collected and what it has still to   *)
(* walk in the order of the archive, and the writer's books tell at every  *)
(* time what it has written.                                               *)
(***************************************************************************)
EXTENDS BatchRename, PackageDownload, SequenceTheorems, FiniteSetTheorems,
        WellFoundedInduction, TLAPS

Entry == Names \cup {Absent}
PairT == [src : Names, dst : Names]

\* The loops that rename entries.
Work == {"stage", "final", "unfinal", "unstage"}

Index(b) == 1 .. Len(pairs[b])

Out(b) == {i \in Index(b) : \/ pc[b] = "stage" /\ i < at[b]
                            \/ pc[b] \in {"final", "unfinal", "ok"}
                            \/ pc[b] = "unstage" /\ i <= at[b]}

Placed(b) == {i \in Index(b) : \/ pc[b] = "final" /\ i < at[b]
                               \/ pc[b] = "unfinal" /\ i <= at[b]
                               \/ pc[b] = "ok"}

\* The stage names that are free for what comes next.
Room(b) ==
  /\ pc[b] \in {"idle", "probeSrc", "probeDst"} => \A i \in Index(b) : temps[b][i] = Absent
  /\ pc[b] = "stage"   => \A i \in Index(b) : i >= at[b] => temps[b][i] = Absent
  /\ pc[b] = "final"   => \A i \in Index(b) : i < at[b]  => temps[b][i] = Absent
  /\ pc[b] = "unfinal" => \A i \in Index(b) : i <= at[b] => temps[b][i] = Absent

Fits(b) ==
  /\ pairs[b] \in Seq(PairT)
  /\ temps[b] \in [Index(b) -> Entry]
  /\ pc[b] \in {"idle"} \cup Loops \cup Ended
  /\ pc[b] \in Loops => at[b] \in Index(b)
  /\ pc[b] = "idle" => Len(pairs[b]) = 0
  /\ pc[b] \in Loops \cup {"ok"} => Distinct(pairs[b])
  /\ pc[b] \in Work \cup {"ok"} => \A i \in Index(b) : pairs[b][i].src # pairs[b][i].dst
  /\ Room(b)

Types ==
  /\ files  \in [Names -> Entry]
  /\ before \in [Names -> Entry]
  /\ faults \in 0 .. MaxFaults
  /\ pairs = [b \in Batches |-> pairs[b]]
  /\ temps = [b \in Batches |-> temps[b]]
  /\ pc = [b \in Batches |-> pc[b]]
  /\ at = [b \in Batches |-> at[b]]
  /\ \A b \in Batches : Fits(b)

-----------------------------------------------------------------------------
\* What the two renames do.
LEMMA ToStageMoves ==
  ASSUME Types, NEW b \in Batches, NEW n \in Names, at[b] \in Index(b), ToStage(b, n)
  PROVE  /\ files' \in [Names -> Entry]
         /\ files'[n] = Absent
         /\ \A m \in Names : m # n => files'[m] = files[m]
         /\ temps' = [c \in Batches |-> temps'[c]]
         /\ temps'[b] \in [Index(b) -> Entry]
         /\ temps'[b][at[b]] = files[n]
         /\ \A i \in Index(b) : i # at[b] => temps'[b][i] = temps[b][i]
         /\ \A c \in Batches : c # b => temps'[c] = temps[c]
  <1>1. temps[b] \in [Index(b) -> Entry] BY DEF Types, Fits
  <1>2. files[n] \in Entry BY DEF Types
  <1>3. files' = [files EXCEPT ![n] = Absent] BY DEF ToStage
  <1>4. temps' = [temps EXCEPT ![b] = [temps[b] EXCEPT ![at[b]] = files[n]]]
    BY DEF ToStage
  <1>5. temps = [c \in Batches |-> temps[c]] BY DEF Types
  <1>6. files \in [Names -> Entry] BY DEF Types
  <1>7. /\ files' \in [Names -> Entry]
        /\ files'[n] = Absent
        /\ \A m \in Names : m # n => files'[m] = files[m]
    BY <1>3, <1>6 DEF Entry
  <1>8. /\ temps'[b] = [temps[b] EXCEPT ![at[b]] = files[n]]
        /\ \A c \in Batches : c # b => temps'[c] = temps[c]
    BY <1>4, <1>5
  <1>9. temps' = [c \in Batches |-> temps'[c]] BY <1>4, <1>5
  <1> QED BY <1>1, <1>2, <1>7, <1>8, <1>9

LEMMA FromStageMoves ==
  ASSUME Types, NEW b \in Batches, NEW n \in Names, at[b] \in Index(b), FromStage(b, n)
  PROVE  /\ files' \in [Names -> Entry]
         /\ files'[n] = temps[b][at[b]]
         /\ \A m \in Names : m # n => files'[m] = files[m]
         /\ temps' = [c \in Batches |-> temps'[c]]
         /\ temps'[b] \in [Index(b) -> Entry]
         /\ temps'[b][at[b]] = Absent
         /\ \A i \in Index(b) : i # at[b] => temps'[b][i] = temps[b][i]
         /\ \A c \in Batches : c # b => temps'[c] = temps[c]
  <1>1. temps[b] \in [Index(b) -> Entry] BY DEF Types, Fits
  <1>2. temps[b][at[b]] \in Entry BY <1>1
  <1>3. files' = [files EXCEPT ![n] = temps[b][at[b]]] BY DEF FromStage
  <1>4. temps' = [temps EXCEPT ![b] = [temps[b] EXCEPT ![at[b]] = Absent]]
    BY DEF FromStage
  <1>5. temps = [c \in Batches |-> temps[c]] BY DEF Types
  <1>6. files \in [Names -> Entry] BY DEF Types
  <1>7. /\ files' \in [Names -> Entry]
        /\ files'[n] = temps[b][at[b]]
        /\ \A m \in Names : m # n => files'[m] = files[m]
    BY <1>2, <1>3, <1>6
  <1>8. /\ temps'[b] = [temps[b] EXCEPT ![at[b]] = Absent]
        /\ \A c \in Batches : c # b => temps'[c] = temps[c]
    BY <1>4, <1>5
  <1>9. temps' = [c \in Batches |-> temps'[c]] BY <1>4, <1>5
  <1> QED BY <1>1, <1>7, <1>8, <1>9 DEF Entry

LEMMA Goes ==
  ASSUME Types, NEW b \in Batches, NEW label, NEW i, Goto(b, label, i)
  PROVE  /\ pc' = [c \in Batches |-> pc'[c]]
         /\ at' = [c \in Batches |-> at'[c]]
         /\ pc'[b] = label
         /\ at'[b] = i
         /\ \A c \in Batches : c # b => pc'[c] = pc[c] /\ at'[c] = at[c]
  <1>1. pc = [c \in Batches |-> pc[c]] /\ at = [c \in Batches |-> at[c]] BY DEF Types
  <1>2. pc' = [pc EXCEPT ![b] = label] /\ at' = [at EXCEPT ![b] = i] BY DEF Goto
  <1> QED BY <1>1, <1>2

\* What a request knows of the pair it is at.
LEMMA AtPair ==
  ASSUME Types, NEW b \in Batches, pc[b] \in Loops
  PROVE  /\ Len(pairs[b]) \in Nat
         /\ DOMAIN pairs[b] = Index(b)
         /\ at[b] \in Index(b)
         /\ at[b] \in Nat /\ 1 <= at[b] /\ at[b] <= Len(pairs[b])
         /\ Pair(b) = pairs[b][at[b]]
         /\ Pair(b).src \in Names
         /\ Pair(b).dst \in Names
         /\ \A i \in Index(b) : pairs[b][i].src \in Names /\ pairs[b][i].dst \in Names
         /\ \A i, j \in Index(b) :
              i # j => pairs[b][i].src # pairs[b][j].src /\ pairs[b][i].dst # pairs[b][j].dst
  <1>1. Fits(b) BY DEF Types
  <1>2. pairs[b] \in Seq(PairT) BY <1>1 DEF Fits
  <1>3. /\ Len(pairs[b]) \in Nat
        /\ pairs[b] \in [1 .. Len(pairs[b]) -> PairT]
        /\ DOMAIN pairs[b] = Index(b)
    BY <1>2, LenProperties DEF Index
  <1>4. at[b] \in Index(b) BY <1>1 DEF Fits
  <1>5. \A i \in Index(b) : pairs[b][i] \in PairT BY <1>3 DEF Index
  <1>6. \A i \in Index(b) : pairs[b][i].src \in Names /\ pairs[b][i].dst \in Names
    BY <1>5 DEF PairT
  <1>7. Distinct(pairs[b]) BY <1>1 DEF Fits
  <1>8. \A i, j \in Index(b) :
          i # j => pairs[b][i].src # pairs[b][j].src /\ pairs[b][i].dst # pairs[b][j].dst
    BY <1>3, <1>7 DEF Distinct
  <1>9. at[b] \in Nat /\ 1 <= at[b] /\ at[b] <= Len(pairs[b]) BY <1>3, <1>4 DEF Index
  <1> QED BY <1>3, <1>4, <1>6, <1>8, <1>9 DEF Pair

\* A request that another one's step leaves alone.
LEMMA Elsewhere ==
  ASSUME NEW c \in Batches, Fits(c),
         pairs'[c] = pairs[c], temps'[c] = temps[c], pc'[c] = pc[c], at'[c] = at[c]
  PROVE  Fits(c)' /\ Out(c)' = Out(c) /\ Placed(c)' = Placed(c) /\ Index(c)' = Index(c)
  BY DEF Fits, Room, Out, Placed, Index

-----------------------------------------------------------------------------
(***************************************************************************)
(* The calls of the four loops, as what they do to Out and Placed.         *)
(***************************************************************************)
Stays == UNCHANGED <<files, temps>>

LEMMA StageStep ==
  ASSUME Types, NEW b \in Batches, Stage(b)
  PROVE  /\ pc[b] = "stage"
         /\ at[b] \notin Out(b) /\ Placed(b) = {} /\ Placed(b)' = {}
         /\ temps[b][at[b]] = Absent
         /\ Fits(b)' /\ Index(b)' = Index(b)
         /\ \/ /\ ToStage(b, Pair(b).src)
               /\ files[Pair(b).src] # Absent /\ faults' = faults
               /\ Out(b)' = Out(b) \cup {at[b]}
               /\ pc'[b] \in {"stage", "final"}
            \/ /\ Stays /\ Out(b)' = Out(b)
               /\ pc'[b] \in {"unstage", "failed"}
               /\ \/ faults' = faults + 1 /\ faults < MaxFaults
                  \/ faults' = faults /\ files[Pair(b).src] = Absent
  <1>0. pc[b] = "stage" /\ pairs' = pairs BY DEF Stage
  <1>1. pc[b] \in Loops BY <1>0 DEF Loops
  <1>2. /\ Len(pairs[b]) \in Nat /\ at[b] \in Index(b)
        /\ at[b] \in Nat /\ 1 <= at[b] /\ at[b] <= Len(pairs[b])
        /\ Pair(b).src \in Names
    BY <1>1, AtPair
  <1>3. /\ temps[b][at[b]] = Absent
        /\ \A i \in Index(b) : i >= at[b] => temps[b][i] = Absent
    BY <1>0, <1>2 DEF Types, Fits, Room
  <1>4. at[b] \notin Out(b) /\ Placed(b) = {} BY <1>0, <1>2 DEF Out, Placed
  <1>5. Index(b)' = Index(b) /\ pairs'[b] = pairs[b] BY <1>0 DEF Index
  <1>6. CASE ToStage(b, Pair(b).src) /\ Works(files[Pair(b).src] # Absent) /\ Up(b, "final")
    <2>1. files[Pair(b).src] # Absent /\ faults' = faults BY <1>6 DEF Works
    <2>2. /\ temps'[b] \in [Index(b) -> Entry]
          /\ \A i \in Index(b) : i # at[b] => temps'[b][i] = temps[b][i]
      BY <1>2, <1>6, ToStageMoves
    <2>3. \/ at[b] < Len(pairs[b]) /\ pc'[b] = "stage" /\ at'[b] = at[b] + 1
          \/ at[b] = Len(pairs[b]) /\ pc'[b] = "final" /\ at'[b] = 1
      BY <1>0, <1>2, <1>6, Goes DEF Up
    <2>4. Out(b)' = Out(b) \cup {at[b]} /\ Placed(b)' = {}
      BY <1>0, <1>2, <1>5, <2>3 DEF Out, Placed, Index
    <2>5. Room(b)' BY <1>2, <1>3, <1>5, <2>2, <2>3 DEF Room, Index
    <2>6. Fits(b)'
      BY <1>0, <1>2, <1>5, <2>2, <2>3, <2>5 DEF Types, Fits, Loops, Ended, Work, Index
    <2> QED BY <1>0, <1>3, <1>4, <1>5, <1>6, <2>1, <2>3, <2>4, <2>6
  <1>7. CASE /\ Errs(files[Pair(b).src] # Absent)
             /\ Down(b, "unstage", at[b] - 1, "failed", 1)
             /\ UNCHANGED <<files, temps>>
    <2>1. \/ faults' = faults + 1 /\ faults < MaxFaults
          \/ faults' = faults /\ files[Pair(b).src] = Absent
      BY <1>7 DEF Errs
    <2>3. \/ at[b] > 1 /\ pc'[b] = "unstage" /\ at'[b] = at[b] - 1
          \/ at[b] = 1 /\ pc'[b] = "failed" /\ at'[b] = 1
      BY <1>0, <1>2, <1>7, Goes DEF Down
    <2>4. Out(b)' = Out(b) /\ Placed(b)' = {}
      BY <1>0, <1>2, <1>5, <2>3 DEF Out, Placed, Index
    <2>5. Room(b)' BY <2>3 DEF Room
    <2>6. Fits(b)'
      BY <1>0, <1>2, <1>5, <1>7, <2>3, <2>5 DEF Types, Fits, Loops, Ended, Work, Index
    <2> QED BY <1>0, <1>3, <1>4, <1>5, <1>7, <2>1, <2>3, <2>4, <2>6 DEF Stays
  <1> QED BY <1>6, <1>7 DEF Stage

LEMMA FinalStep ==
  ASSUME Types, NEW b \in Batches, Final(b)
  PROVE  /\ pc[b] = "final" /\ Out(b) = Index(b)
         /\ at[b] \notin Placed(b)
         /\ Fits(b)' /\ Index(b)' = Index(b) /\ Out(b)' = Out(b)
         /\ \/ /\ FromStage(b, Pair(b).dst)
               /\ MayLand(b, Pair(b).dst) /\ faults' = faults
               /\ Placed(b)' = Placed(b) \cup {at[b]}
               /\ pc'[b] \in {"final", "ok"}
            \/ /\ Stays /\ Placed(b)' = Placed(b)
               /\ pc'[b] \in {"unfinal", "unstage"}
               /\ \/ faults' = faults + 1 /\ faults < MaxFaults
                  \/ faults' = faults /\ ~MayLand(b, Pair(b).dst)
  <1>0. pc[b] = "final" /\ pairs' = pairs BY DEF Final
  <1>1. pc[b] \in Loops BY <1>0 DEF Loops
  <1>2. /\ Len(pairs[b]) \in Nat /\ at[b] \in Index(b)
        /\ at[b] \in Nat /\ 1 <= at[b] /\ at[b] <= Len(pairs[b])
        /\ Pair(b).dst \in Names
    BY <1>1, AtPair
  <1>3. \A i \in Index(b) : i < at[b] => temps[b][i] = Absent
    BY <1>0 DEF Types, Fits, Room
  <1>4. at[b] \notin Placed(b) /\ Out(b) = Index(b) BY <1>0, <1>2 DEF Out, Placed
  <1>5. Index(b)' = Index(b) /\ pairs'[b] = pairs[b] BY <1>0 DEF Index
  <1>6. CASE FromStage(b, Pair(b).dst) /\ Works(MayLand(b, Pair(b).dst)) /\ Up(b, "ok")
    <2>1. MayLand(b, Pair(b).dst) /\ faults' = faults BY <1>6 DEF Works
    <2>2. /\ temps'[b] \in [Index(b) -> Entry]
          /\ temps'[b][at[b]] = Absent
          /\ \A i \in Index(b) : i # at[b] => temps'[b][i] = temps[b][i]
      BY <1>2, <1>6, FromStageMoves
    <2>3. \/ at[b] < Len(pairs[b]) /\ pc'[b] = "final" /\ at'[b] = at[b] + 1
          \/ at[b] = Len(pairs[b]) /\ pc'[b] = "ok" /\ at'[b] = 1
      BY <1>0, <1>2, <1>6, Goes DEF Up
    <2>4. Out(b)' = Out(b) /\ Placed(b)' = Placed(b) \cup {at[b]}
      BY <1>0, <1>2, <1>5, <2>3 DEF Out, Placed, Index
    <2>5. Room(b)' BY <1>2, <1>3, <1>5, <2>2, <2>3 DEF Room, Index
    <2>6. Fits(b)'
      BY <1>0, <1>2, <1>5, <2>2, <2>3, <2>5 DEF Types, Fits, Loops, Ended, Work, Index
    <2> QED BY <1>0, <1>4, <1>5, <1>6, <2>1, <2>3, <2>4, <2>6
  <1>7. CASE Errs(MayLand(b, Pair(b).dst)) /\ UndoFinal(b) /\ UNCHANGED <<files, temps>>
    <2>1. \/ faults' = faults + 1 /\ faults < MaxFaults
          \/ faults' = faults /\ ~MayLand(b, Pair(b).dst)
      BY <1>7 DEF Errs
    <2>3. \/ at[b] > 1 /\ pc'[b] = "unfinal" /\ at'[b] = at[b] - 1
          \/ at[b] = 1 /\ pc'[b] = "unstage" /\ at'[b] = Len(pairs[b])
      BY <1>0, <1>2, <1>7, Goes DEF Down, UndoFinal
    <2>4. Out(b)' = Out(b) /\ Placed(b)' = Placed(b)
      BY <1>0, <1>2, <1>5, <2>3 DEF Out, Placed, Index
    <2>5. Room(b)' BY <1>2, <1>3, <1>5, <1>7, <2>3 DEF Room, Index
    <2>6. Fits(b)'
      BY <1>0, <1>2, <1>5, <1>7, <2>3, <2>5 DEF Types, Fits, Loops, Ended, Work, Index
    <2> QED BY <1>0, <1>4, <1>5, <1>7, <2>1, <2>3, <2>4, <2>6 DEF Stays
  <1> QED BY <1>6, <1>7 DEF Final

LEMMA UnfinalStep ==
  ASSUME Types, NEW b \in Batches, Unfinal(b)
  PROVE  /\ pc[b] = "unfinal" /\ Out(b) = Index(b)
         /\ at[b] \in Placed(b) /\ Placed(b)' = Placed(b) \ {at[b]}
         /\ temps[b][at[b]] = Absent
         /\ Fits(b)' /\ Index(b)' = Index(b) /\ Out(b)' = Out(b)
         /\ pc'[b] \in {"unfinal", "unstage"}
         /\ \/ ToStage(b, Pair(b).dst) /\ files[Pair(b).dst] # Absent /\ faults' = faults
            \/ /\ Stays
               /\ \/ faults' = faults + 1 /\ faults < MaxFaults
                  \/ faults' = faults /\ files[Pair(b).dst] = Absent
  <1>0. pc[b] = "unfinal" /\ pairs' = pairs BY DEF Unfinal
  <1>1. pc[b] \in Loops BY <1>0 DEF Loops
  <1>2. /\ Len(pairs[b]) \in Nat /\ at[b] \in Index(b)
        /\ at[b] \in Nat /\ 1 <= at[b] /\ at[b] <= Len(pairs[b])
        /\ Pair(b).dst \in Names
    BY <1>1, AtPair
  <1>3. /\ \A i \in Index(b) : i <= at[b] => temps[b][i] = Absent
        /\ temps[b] \in [Index(b) -> Entry]
    BY <1>0 DEF Types, Fits, Room
  <1>4. at[b] \in Placed(b) /\ Out(b) = Index(b) /\ temps[b][at[b]] = Absent
    BY <1>0, <1>2, <1>3 DEF Out, Placed
  <1>5. Index(b)' = Index(b) /\ pairs'[b] = pairs[b] BY <1>0 DEF Index
  <1>6. \/ ToStage(b, Pair(b).dst) /\ files[Pair(b).dst] # Absent /\ faults' = faults
        \/ /\ Stays
           /\ \/ faults' = faults + 1 /\ faults < MaxFaults
              \/ faults' = faults /\ files[Pair(b).dst] = Absent
    BY DEF Unfinal, Works, Errs, Stays
  <1>7. /\ temps'[b] \in [Index(b) -> Entry]
        /\ \A i \in Index(b) : i # at[b] => temps'[b][i] = temps[b][i]
    <2>1. CASE ToStage(b, Pair(b).dst) BY <1>2, <2>1, ToStageMoves
    <2>2. CASE Stays BY <1>3, <2>2 DEF Stays
    <2> QED BY <1>6, <2>1, <2>2
  <1>8. \/ at[b] > 1 /\ pc'[b] = "unfinal" /\ at'[b] = at[b] - 1
        \/ at[b] = 1 /\ pc'[b] = "unstage" /\ at'[b] = Len(pairs[b])
    BY <1>0, <1>2, Goes DEF Down, UndoFinal, Unfinal
  <1>9. Out(b)' = Out(b) /\ Placed(b)' = Placed(b) \ {at[b]}
    BY <1>0, <1>2, <1>5, <1>8 DEF Out, Placed, Index
  <1>10. Room(b)' BY <1>2, <1>3, <1>5, <1>7, <1>8 DEF Room, Index
  <1>11. Fits(b)'
    BY <1>0, <1>2, <1>5, <1>7, <1>8, <1>10 DEF Types, Fits, Loops, Ended, Work, Index
  <1> QED BY <1>0, <1>4, <1>5, <1>6, <1>8, <1>9, <1>11

LEMMA UnstageStep ==
  ASSUME Types, NEW b \in Batches, Unstage(b)
  PROVE  /\ pc[b] = "unstage" /\ Placed(b) = {} /\ Placed(b)' = {}
         /\ at[b] \in Out(b) /\ Out(b)' = Out(b) \ {at[b]}
         /\ Fits(b)' /\ Index(b)' = Index(b)
         /\ pc'[b] \in {"unstage", "failed"}
         /\ \/ FromStage(b, Pair(b).src) /\ MayLand(b, Pair(b).src) /\ faults' = faults
            \/ /\ Stays
               /\ \/ faults' = faults + 1 /\ faults < MaxFaults
                  \/ faults' = faults /\ ~MayLand(b, Pair(b).src)
  <1>0. pc[b] = "unstage" /\ pairs' = pairs BY DEF Unstage
  <1>1. pc[b] \in Loops BY <1>0 DEF Loops
  <1>2. /\ Len(pairs[b]) \in Nat /\ at[b] \in Index(b)
        /\ at[b] \in Nat /\ 1 <= at[b] /\ at[b] <= Len(pairs[b])
        /\ Pair(b).src \in Names
    BY <1>1, AtPair
  <1>3. temps[b] \in [Index(b) -> Entry] BY DEF Types, Fits
  <1>4. at[b] \in Out(b) /\ Placed(b) = {} BY <1>0, <1>2 DEF Out, Placed
  <1>5. Index(b)' = Index(b) /\ pairs'[b] = pairs[b] BY <1>0 DEF Index
  <1>6. \/ FromStage(b, Pair(b).src) /\ MayLand(b, Pair(b).src) /\ faults' = faults
        \/ /\ Stays
           /\ \/ faults' = faults + 1 /\ faults < MaxFaults
              \/ faults' = faults /\ ~MayLand(b, Pair(b).src)
    BY DEF Unstage, Works, Errs, Stays
  <1>7. temps'[b] \in [Index(b) -> Entry]
    <2>1. CASE FromStage(b, Pair(b).src) BY <1>2, <2>1, FromStageMoves
    <2>2. CASE Stays BY <1>3, <2>2 DEF Stays
    <2> QED BY <1>6, <2>1, <2>2
  <1>8. \/ at[b] > 1 /\ pc'[b] = "unstage" /\ at'[b] = at[b] - 1
        \/ at[b] = 1 /\ pc'[b] = "failed" /\ at'[b] = 1
    BY <1>0, <1>2, Goes DEF Down, Unstage
  <1>9. Out(b)' = Out(b) \ {at[b]} /\ Placed(b)' = {}
    BY <1>0, <1>2, <1>5, <1>8 DEF Out, Placed, Index
  <1>10. Room(b)' BY <1>8 DEF Room
  <1>11. Fits(b)'
    BY <1>0, <1>2, <1>5, <1>7, <1>8, <1>10 DEF Types, Fits, Loops, Ended, Work, Index
  <1> QED BY <1>0, <1>4, <1>5, <1>6, <1>8, <1>9, <1>11

-----------------------------------------------------------------------------
(***************************************************************************)
(* What comes before the loops that rename.                                *)
(***************************************************************************)
Unstaged(b) == \A i \in Index(b) : temps[b][i] = Absent

LEMMA ASequence ==
  ASSUME NEW n \in Nat, NEW s \in [1 .. n -> PairT]
  PROVE  s \in Seq(PairT) /\ Len(s) = n
  <1>1. s \in Seq(PairT) BY SeqDef
  <1>2. Len(s) \in Nat /\ DOMAIN s = 1 .. Len(s) BY <1>1, LenProperties
  <1>3. 1 .. n = 1 .. Len(s) BY <1>2
  <1> QED BY <1>1, <1>2, <1>3

\* The pairs that change nothing are gone, and those left are distinct still.
LEMMA ActiveFits ==
  ASSUME NEW b, pairs[b] \in Seq(PairT), Distinct(pairs[b]),
         NEW n \in Nat, NEW ix \in [1 .. n -> DOMAIN pairs[b]], Changing(b, ix)
  PROVE  /\ Active(b, ix) \in Seq(PairT)
         /\ Len(Active(b, ix)) = n
         /\ \A k \in 1 .. n : Active(b, ix)[k] = pairs[b][ix[k]]
         /\ Distinct(Active(b, ix))
         /\ \A k \in 1 .. n : Active(b, ix)[k].src # Active(b, ix)[k].dst
  <1> DEFINE s == Active(b, ix)
  <1>1. \A i \in DOMAIN pairs[b] : pairs[b][i] \in PairT
    BY LenProperties
  <1>2. DOMAIN ix = 1 .. n /\ \A k \in 1 .. n : ix[k] \in DOMAIN pairs[b] OBVIOUS
  <1>3. /\ s \in [1 .. n -> PairT]
        /\ \A k \in 1 .. n : s[k] = pairs[b][ix[k]]
    BY <1>1, <1>2 DEF Active
  <1>4. s \in Seq(PairT) /\ Len(s) = n BY <1>3, ASequence
  <1>5. \A k, l \in 1 .. n : k # l => ix[k] # ix[l]
    <2> SUFFICES ASSUME NEW k \in 1 .. n, NEW l \in 1 .. n, k # l PROVE ix[k] # ix[l] OBVIOUS
    <2>1. \A i \in DOMAIN pairs[b] : i \in Nat BY LenProperties
    <2>2. ix[k] \in Nat /\ ix[l] \in Nat BY <1>2, <2>1
    <2>3. k < l \/ l < k OBVIOUS
    <2>4. k < l => ix[k] < ix[l] BY <1>2 DEF Changing
    <2>5. l < k => ix[l] < ix[k] BY <1>2 DEF Changing
    <2> QED BY <2>2, <2>3, <2>4, <2>5
  <1>6. Distinct(s)
    <2>1. DOMAIN s = 1 .. n BY <1>3
    <2> HIDE DEF s
    <2> QED BY <1>2, <1>3, <1>5, <2>1 DEF Distinct
  <1>7. \A k \in 1 .. n : s[k].src # s[k].dst
    <2> SUFFICES ASSUME NEW k \in 1 .. n PROVE s[k].src # s[k].dst OBVIOUS
    <2>1. ix[k] \in {i \in DOMAIN pairs[b] : pairs[b][i].src # pairs[b][i].dst}
      BY <1>2 DEF Changing
    <2> QED BY <1>3, <2>1
  <1> QED BY <1>3, <1>4, <1>6, <1>7

LEMMA BeginStep ==
  ASSUME Types, NEW b \in Batches, Begin(b)
  PROVE  /\ pc[b] = "idle"
         /\ files' = files /\ faults' = faults
         /\ pairs' = [c \in Batches |-> pairs'[c]]
         /\ temps' = [c \in Batches |-> temps'[c]]
         /\ \A c \in Batches : c # b => pairs'[c] = pairs[c] /\ temps'[c] = temps[c]
         /\ pc'[b] \in {"ok", "failed", "probeSrc"}
         /\ pc'[b] = "probeSrc" => at'[b] = 1
         /\ Fits(b)' /\ Unstaged(b)' /\ Out(b)' = {} /\ Placed(b)' = {}
  <1>1. PICK ps \in Pairs :
          /\ pairs' = [pairs EXCEPT ![b] = ps]
          /\ temps' = [temps EXCEPT ![b] = [i \in 1 .. Len(ps) |-> Absent]]
          /\ Goto(b, CASE ps = <<>>      -> "ok"
                       [] ~Distinct(ps)  -> "failed"
                       [] OTHER          -> "probeSrc", 1)
    BY DEF Begin
  <1>2. pairs = [c \in Batches |-> pairs[c]] /\ temps = [c \in Batches |-> temps[c]]
    BY DEF Types
  <1>3. /\ pairs' = [c \in Batches |-> pairs'[c]]
        /\ temps' = [c \in Batches |-> temps'[c]]
        /\ \A c \in Batches : c # b => pairs'[c] = pairs[c] /\ temps'[c] = temps[c]
        /\ pairs'[b] = ps
        /\ temps'[b] = [i \in 1 .. Len(ps) |-> Absent]
    BY <1>1, <1>2
  <1>4. ps \in Seq(PairT) BY PairsAssumption DEF PairT
  <1>5. Len(ps) \in Nat /\ Index(b)' = 1 .. Len(ps) BY <1>3, <1>4, LenProperties DEF Index
  <1>6. /\ temps'[b] \in [Index(b)' -> Entry]
        /\ Unstaged(b)'
    BY <1>3, <1>5 DEF Unstaged, Entry
  <1>7. \/ ps = <<>> /\ pc'[b] = "ok"
        \/ ps # <<>> /\ ~Distinct(ps) /\ pc'[b] = "failed"
        \/ ps # <<>> /\ Distinct(ps) /\ pc'[b] = "probeSrc" /\ at'[b] = 1
    <2>1. CASE ps = <<>>
      <3>1. Distinct(ps) BY <2>1 DEF Distinct
      <3>2. Goto(b, "ok", 1) BY <1>1, <2>1, <3>1
      <3> QED BY <2>1, <3>2, Goes
    <2>2. CASE ps # <<>> /\ ~Distinct(ps)
      <3>1. Goto(b, "failed", 1) BY <1>1, <2>2
      <3> QED BY <2>2, <3>1, Goes
    <2>3. CASE ps # <<>> /\ Distinct(ps)
      <3>1. Goto(b, "probeSrc", 1) BY <1>1, <2>3
      <3> QED BY <2>3, <3>1, Goes
    <2> QED BY <2>1, <2>2, <2>3
  <1>8. ps = <<>> => Index(b)' = {} /\ Distinct(ps)
    BY <1>5, EmptySeq DEF Distinct
  <1>9. ps # <<>> => 1 \in Index(b)' BY <1>4, <1>5, EmptySeq
  <1>10. Out(b)' = {} /\ Placed(b)' = {} BY <1>7, <1>8 DEF Out, Placed
  <1>11. Room(b)' BY <1>6, <1>7 DEF Room, Unstaged
  <1>12. Fits(b)'
    BY <1>3, <1>4, <1>6, <1>7, <1>8, <1>9, <1>11 DEF Fits, Loops, Ended, Work
  <1>13. pc[b] = "idle" /\ files' = files /\ faults' = faults BY DEF Begin
  <1> QED BY <1>3, <1>6, <1>7, <1>10, <1>12, <1>13

LEMMA ProbeSrcStep ==
  ASSUME Types, NEW b \in Batches, ProbeSrc(b)
  PROVE  /\ pc[b] = "probeSrc"
         /\ Stays /\ pairs' = pairs
         /\ \/ faults' = faults
            \/ faults' = faults + 1 /\ faults < MaxFaults /\ pc'[b] = "failed"
         /\ Fits(b)' /\ Unstaged(b)' /\ Out(b)' = {} /\ Placed(b)' = {}
         /\ \/ /\ files[Pair(b).src] # Absent
               /\ \/ pc'[b] = "probeSrc" /\ at'[b] = at[b] + 1
                  \/ pc'[b] = "probeDst" /\ at'[b] = 1 /\ at[b] = Len(pairs[b])
            \/ pc'[b] = "failed"
  <1>0. pc[b] = "probeSrc" /\ Stays /\ pairs' = pairs BY DEF ProbeSrc, Stays
  <1>1. pc[b] \in Loops BY <1>0 DEF Loops
  <1>2. /\ Len(pairs[b]) \in Nat /\ at[b] \in Index(b)
        /\ at[b] \in Nat /\ 1 <= at[b] /\ at[b] <= Len(pairs[b])
    BY <1>1, AtPair
  <1>3. \A i \in Index(b) : temps[b][i] = Absent BY <1>0 DEF Types, Fits, Room
  <1>5. Index(b)' = Index(b) /\ pairs'[b] = pairs[b] /\ temps'[b] = temps[b]
    BY <1>0 DEF Index, Stays
  <1>6. \/ /\ files[Pair(b).src] # Absent /\ faults' = faults
           /\ \/ pc'[b] = "probeSrc" /\ at'[b] = at[b] + 1 /\ at[b] < Len(pairs[b])
              \/ pc'[b] = "probeDst" /\ at'[b] = 1 /\ at[b] = Len(pairs[b])
        \/ /\ pc'[b] = "failed"
           /\ faults' = faults \/ (faults' = faults + 1 /\ faults < MaxFaults)
    <2>1. CASE Works(files[Pair(b).src] # Absent) /\ Up(b, "probeDst")
      BY <1>0, <1>2, <2>1, Goes DEF Works, Up
    <2>2. CASE Errs(files[Pair(b).src] # Absent) /\ Goto(b, "failed", 1)
      <3>1. pc'[b] = "failed" BY <2>2, Goes
      <3>2. faults' = faults \/ (faults' = faults + 1 /\ faults < MaxFaults)
        BY <2>2 DEF Errs
      <3> QED BY <3>1, <3>2
    <2> QED BY <2>1, <2>2 DEF ProbeSrc
  <1>7. Unstaged(b)' BY <1>3, <1>5 DEF Unstaged
  <1>8. Out(b)' = {} /\ Placed(b)' = {} BY <1>6 DEF Out, Placed
  <1>9. Room(b)' BY <1>6, <1>7 DEF Room, Unstaged
  <1>10. Fits(b)'
    BY <1>0, <1>2, <1>5, <1>6, <1>9 DEF Types, Fits, Loops, Ended, Work, Index
  <1> QED BY <1>0, <1>6, <1>7, <1>8, <1>10

LEMMA ProbeDstStep ==
  ASSUME Types, NEW b \in Batches, ProbeDst(b)
  PROVE  /\ pc[b] = "probeDst" /\ files' = files
         /\ pairs' = [c \in Batches |-> pairs'[c]]
         /\ temps' = [c \in Batches |-> temps'[c]]
         /\ \A c \in Batches : c # b => pairs'[c] = pairs[c] /\ temps'[c] = temps[c]
         /\ \/ faults' = faults
            \/ faults' = faults + 1 /\ faults < MaxFaults /\ pc'[b] = "failed"
         /\ Fits(b)' /\ Unstaged(b)' /\ Out(b)' = {} /\ Placed(b)' = {}
         /\ \/ /\ FreeOrOwn(b, Pair(b).dst) /\ pairs' = pairs
               /\ pc'[b] = "probeDst" /\ at'[b] = at[b] + 1
            \/ /\ FreeOrOwn(b, Pair(b).dst) /\ at[b] = Len(pairs[b])
               /\ pc'[b] \in {"ok", "stage"}
               /\ \E n \in Nat : \E ix \in [1 .. n -> DOMAIN pairs[b]] :
                    /\ Changing(b, ix)
                    /\ pairs'[b] = Active(b, ix)
            \/ pc'[b] = "failed" /\ pairs' = pairs
  <1>0. pc[b] = "probeDst" /\ files' = files BY DEF ProbeDst
  <1>1. pc[b] \in Loops BY <1>0 DEF Loops
  <1>2. /\ Len(pairs[b]) \in Nat /\ at[b] \in Index(b)
        /\ at[b] \in Nat /\ 1 <= at[b] /\ at[b] <= Len(pairs[b])
        /\ DOMAIN pairs[b] = Index(b)
    BY <1>1, AtPair
  <1>3. /\ \A i \in Index(b) : temps[b][i] = Absent
        /\ temps[b] \in [Index(b) -> Entry]
        /\ pairs[b] \in Seq(PairT) /\ Distinct(pairs[b])
    BY <1>0, <1>1 DEF Types, Fits, Room
  <1>4. pairs = [c \in Batches |-> pairs[c]] /\ temps = [c \in Batches |-> temps[c]]
    BY DEF Types
  <1>5. CASE /\ Works(FreeOrOwn(b, Pair(b).dst)) /\ at[b] < Len(pairs[b])
             /\ Goto(b, "probeDst", at[b] + 1)
             /\ UNCHANGED <<temps, pairs>>
    <2>1. pc'[b] = "probeDst" /\ at'[b] = at[b] + 1 BY <1>5, Goes
    <2>2. FreeOrOwn(b, Pair(b).dst) /\ faults' = faults BY <1>5 DEF Works
    <2>3. Index(b)' = Index(b) /\ pairs' = pairs /\ temps' = temps BY <1>5 DEF Index
    <2>4. Unstaged(b)' /\ Out(b)' = {} /\ Placed(b)' = {}
      BY <1>3, <2>1, <2>3 DEF Unstaged, Out, Placed
    <2>5. Room(b)' BY <2>1, <2>4 DEF Room, Unstaged
    <2>6. at'[b] \in Index(b)' BY <1>2, <1>5, <2>1, <2>3 DEF Index
    <2>7. Fits(b)' BY <1>3, <2>1, <2>3, <2>5, <2>6 DEF Fits, Loops, Ended, Work
    <2> QED BY <1>0, <1>4, <2>1, <2>2, <2>3, <2>4, <2>7
  <1>6. CASE /\ Works(FreeOrOwn(b, Pair(b).dst)) /\ at[b] = Len(pairs[b])
             /\ \E n \in 0 .. Len(pairs[b]) : \E ix \in [1 .. n -> DOMAIN pairs[b]] :
                  /\ Changing(b, ix)
                  /\ pairs' = [pairs EXCEPT ![b] = Active(b, ix)]
                  /\ temps' = [temps EXCEPT ![b] = [i \in 1 .. n |-> Absent]]
                  /\ Goto(b, IF n = 0 THEN "ok" ELSE "stage", 1)
    <2>0. PICK n \in 0 .. Len(pairs[b]) : \E ix \in [1 .. n -> DOMAIN pairs[b]] :
            /\ Changing(b, ix)
            /\ pairs' = [pairs EXCEPT ![b] = Active(b, ix)]
            /\ temps' = [temps EXCEPT ![b] = [i \in 1 .. n |-> Absent]]
            /\ Goto(b, IF n = 0 THEN "ok" ELSE "stage", 1)
      BY <1>6
    <2>1. PICK ix \in [1 .. n -> DOMAIN pairs[b]] :
            /\ Changing(b, ix)
            /\ pairs' = [pairs EXCEPT ![b] = Active(b, ix)]
            /\ temps' = [temps EXCEPT ![b] = [i \in 1 .. n |-> Absent]]
            /\ Goto(b, IF n = 0 THEN "ok" ELSE "stage", 1)
      BY <2>0
    <2>2. n \in Nat BY <1>2
    <2>3. /\ pairs' = [c \in Batches |-> pairs'[c]]
          /\ temps' = [c \in Batches |-> temps'[c]]
          /\ \A c \in Batches : c # b => pairs'[c] = pairs[c] /\ temps'[c] = temps[c]
          /\ pairs'[b] = Active(b, ix)
          /\ temps'[b] = [i \in 1 .. n |-> Absent]
      BY <1>4, <2>1
    <2>4. /\ Active(b, ix) \in Seq(PairT)
          /\ Len(Active(b, ix)) = n
          /\ Distinct(Active(b, ix))
          /\ \A k \in 1 .. n : Active(b, ix)[k].src # Active(b, ix)[k].dst
      BY <1>3, <2>1, <2>2, ActiveFits
    <2>5. Index(b)' = 1 .. n BY <2>3, <2>4 DEF Index
    <2>6. /\ pairs'[b] \in Seq(PairT) /\ Distinct(pairs'[b])
          /\ \A i \in Index(b)' : pairs'[b][i].src # pairs'[b][i].dst
      BY <2>3, <2>4, <2>5
    <2>7. \/ n = 0 /\ pc'[b] = "ok"
          \/ n # 0 /\ pc'[b] = "stage" /\ at'[b] = 1
      BY <2>1, Goes
    <2>8. temps'[b] \in [Index(b)' -> Entry] /\ Unstaged(b)'
      BY <2>3, <2>5 DEF Unstaged, Entry
    <2>9. Out(b)' = {} /\ Placed(b)' = {}
      <3>1. CASE n = 0 BY <2>5, <3>1 DEF Out, Placed
      <3>2. CASE n # 0
        <4>1. \A i \in Index(b)' : ~(i < 1) BY <2>2, <2>5
        <4> QED BY <2>7, <3>2, <4>1 DEF Out, Placed
      <3> QED BY <3>1, <3>2
    <2>10. Room(b)' BY <2>7, <2>8 DEF Room, Unstaged
    <2>11. n # 0 => 1 \in Index(b)' BY <2>2, <2>5
    <2>12. Fits(b)' BY <2>6, <2>7, <2>8, <2>10, <2>11 DEF Fits, Loops, Ended, Work
    <2>13. FreeOrOwn(b, Pair(b).dst) /\ faults' = faults BY <1>6 DEF Works
    <2> QED BY <1>0, <1>6, <2>1, <2>2, <2>3, <2>7, <2>8, <2>9, <2>12, <2>13
  <1>7. CASE /\ Errs(FreeOrOwn(b, Pair(b).dst))
             /\ Goto(b, "failed", 1)
             /\ UNCHANGED <<temps, pairs>>
    <2>1. pc'[b] = "failed" BY <1>7, Goes
    <2>2. faults' = faults \/ (faults' = faults + 1 /\ faults < MaxFaults) BY <1>7 DEF Errs
    <2>3. Index(b)' = Index(b) /\ pairs' = pairs /\ temps' = temps BY <1>7 DEF Index
    <2>4. Unstaged(b)' /\ Out(b)' = {} /\ Placed(b)' = {}
      BY <1>3, <2>1, <2>3 DEF Unstaged, Out, Placed
    <2>5. Room(b)' BY <2>1 DEF Room
    <2>7. Fits(b)' BY <1>3, <2>1, <2>3, <2>5 DEF Fits, Loops, Ended, Work
    <2> QED BY <1>0, <1>4, <2>1, <2>2, <2>3, <2>4, <2>7
  <1> QED BY <1>5, <1>6, <1>7 DEF ProbeDst

LEMMA CancelStep ==
  ASSUME Types, NEW b \in Batches, Cancel(b)
  PROVE  /\ pc[b] \in Loops /\ pc'[b] = "cancelled"
         /\ Stays /\ pairs' = pairs /\ faults' = faults
         /\ Fits(b)'
  <1>1. pc[b] \in Loops /\ Stays /\ pairs' = pairs /\ faults' = faults
    BY DEF Cancel, Stays
  <1>2. pc'[b] = "cancelled" BY Goes DEF Cancel
  <1>3. Index(b)' = Index(b) BY <1>1 DEF Index
  <1>4. Fits(b)' BY <1>1, <1>2, <1>3 DEF Types, Fits, Room, Stays, Loops, Ended, Work
  <1> QED BY <1>1, <1>2, <1>4

-----------------------------------------------------------------------------
(***************************************************************************)
(* The type invariant.                                                     *)
(***************************************************************************)
Step(b) == \/ Begin(b) \/ ProbeSrc(b) \/ ProbeDst(b) \/ Stage(b) \/ Final(b)
           \/ Unfinal(b) \/ Unstage(b) \/ Cancel(b)

LEMMA NextIsAStep == Next <=> \E b \in Batches : Step(b)
  BY DEF Next, Step

\* A step is one request's, and no other sees more of it than the directory.
LEMMA OthersStay ==
  ASSUME Types, NEW b \in Batches, Step(b)
  PROVE  /\ before' = before
         /\ pairs' = [c \in Batches |-> pairs'[c]]
         /\ temps' = [c \in Batches |-> temps'[c]]
         /\ pc' = [c \in Batches |-> pc'[c]]
         /\ at' = [c \in Batches |-> at'[c]]
         /\ files' \in [Names -> Entry]
         /\ faults' \in 0 .. MaxFaults
         /\ Fits(b)'
         /\ \A c \in Batches : c # b =>
              pairs'[c] = pairs[c] /\ temps'[c] = temps[c] /\ pc'[c] = pc[c] /\ at'[c] = at[c]
  <1>1. before' = before
    BY DEF Step, Begin, ProbeSrc, ProbeDst, Stage, Final, Unfinal, Unstage, Cancel
  <1>2. \E label, i : Goto(b, label, i)
    <2>1. CASE Begin(b) BY <2>1 DEF Begin
    <2>2. CASE ProbeSrc(b) BY <2>2 DEF ProbeSrc, Up
    <2>3. CASE ProbeDst(b) BY <2>3 DEF ProbeDst
    <2>4. CASE Stage(b) BY <2>4 DEF Stage, Up, Down
    <2>5. CASE Final(b) BY <2>5 DEF Final, Up, UndoFinal, Down
    <2>6. CASE Unfinal(b) BY <2>6 DEF Unfinal, UndoFinal, Down
    <2>7. CASE Unstage(b) BY <2>7 DEF Unstage, Down
    <2>8. CASE Cancel(b) BY <2>8 DEF Cancel
    <2> QED BY <2>1, <2>2, <2>3, <2>4, <2>5, <2>6, <2>7, <2>8 DEF Step
  <1>3. /\ pc' = [c \in Batches |-> pc'[c]]
        /\ at' = [c \in Batches |-> at'[c]]
        /\ \A c \in Batches : c # b => pc'[c] = pc[c] /\ at'[c] = at[c]
    <2>1. PICK label, i : Goto(b, label, i) BY <1>2
    <2> QED BY <2>1, Goes
  <1>4. /\ pairs = [c \in Batches |-> pairs[c]]
        /\ temps = [c \in Batches |-> temps[c]]
        /\ files \in [Names -> Entry]
        /\ faults \in Nat /\ 0 <= faults /\ faults <= MaxFaults
    BY FaultsAssumption DEF Types
  <1> DEFINE Quiet == /\ pairs' = [c \in Batches |-> pairs'[c]]
                      /\ temps' = [c \in Batches |-> temps'[c]]
                      /\ files' \in [Names -> Entry]
                      /\ Fits(b)'
                      /\ \A c \in Batches : c # b => pairs'[c] = pairs[c] /\ temps'[c] = temps[c]
             Counted == faults' = faults \/ (faults' = faults + 1 /\ faults < MaxFaults)
  <1>5. CASE Begin(b)
    <2>1. Quiet BY <1>4, <1>5, BeginStep
    <2>2. Counted BY <1>5, BeginStep
    <2> QED BY <1>1, <1>3, <1>4, <2>1, <2>2, FaultsAssumption
  <1>6. CASE ProbeSrc(b)
    <2>1. Quiet BY <1>4, <1>6, ProbeSrcStep DEF Stays
    <2>2. Counted BY <1>6, ProbeSrcStep
    <2> QED BY <1>1, <1>3, <1>4, <2>1, <2>2, FaultsAssumption
  <1>7. CASE ProbeDst(b)
    <2>1. Quiet BY <1>4, <1>7, ProbeDstStep
    <2>2. Counted BY <1>7, ProbeDstStep
    <2> QED BY <1>1, <1>3, <1>4, <2>1, <2>2, FaultsAssumption
  <1>8. CASE Cancel(b)
    <2>1. Quiet BY <1>4, <1>8, CancelStep DEF Stays
    <2>2. Counted BY <1>8, CancelStep
    <2> QED BY <1>1, <1>3, <1>4, <2>1, <2>2, FaultsAssumption
  <1>9. CASE Stage(b) \/ Final(b) \/ Unfinal(b) \/ Unstage(b)
    <2>1. pc[b] \in Loops BY <1>9 DEF Stage, Final, Unfinal, Unstage, Loops
    <2>2. Pair(b).src \in Names /\ Pair(b).dst \in Names /\ at[b] \in Index(b)
      BY <2>1, AtPair
    <2>3. Fits(b)' /\ Counted
      <3>1. CASE Stage(b) BY <3>1, StageStep
      <3>2. CASE Final(b) BY <3>2, FinalStep
      <3>3. CASE Unfinal(b) BY <3>3, UnfinalStep
      <3>4. CASE Unstage(b) BY <3>4, UnstageStep
      <3> QED BY <1>9, <3>1, <3>2, <3>3, <3>4
    <2>4. pairs' = pairs BY <1>9 DEF Stage, Final, Unfinal, Unstage
    <2>5. Stays \/ \E n \in Names : ToStage(b, n) \/ FromStage(b, n)
      <3>1. CASE Stage(b) BY <2>2, <3>1, StageStep
      <3>2. CASE Final(b) BY <2>2, <3>2, FinalStep
      <3>3. CASE Unfinal(b) BY <2>2, <3>3, UnfinalStep
      <3>4. CASE Unstage(b) BY <2>2, <3>4, UnstageStep
      <3> QED BY <1>9, <3>1, <3>2, <3>3, <3>4
    <2>6. CASE Stays
      <3>1. Quiet BY <1>4, <2>3, <2>4, <2>6 DEF Stays
      <3> QED BY <1>1, <1>3, <1>4, <2>3, <3>1, FaultsAssumption
    <2>7. CASE \E n \in Names : ToStage(b, n)
      <3>1. PICK n \in Names : ToStage(b, n) BY <2>7
      <3>2. Quiet BY <1>4, <2>2, <2>3, <2>4, <3>1, ToStageMoves
      <3> QED BY <1>1, <1>3, <1>4, <2>3, <3>2, FaultsAssumption
    <2>8. CASE \E n \in Names : FromStage(b, n)
      <3>1. PICK n \in Names : FromStage(b, n) BY <2>8
      <3>2. Quiet BY <1>4, <2>2, <2>3, <2>4, <3>1, FromStageMoves
      <3> QED BY <1>1, <1>3, <1>4, <2>3, <3>2, FaultsAssumption
    <2> QED BY <2>5, <2>6, <2>7, <2>8
  <1> QED BY <1>5, <1>6, <1>7, <1>8, <1>9 DEF Step

LEMMA TypesStep ==
  ASSUME Types, [Next]_vars
  PROVE  Types'
  <1>1. CASE Next
    <2>1. PICK b \in Batches : Step(b) BY <1>1, NextIsAStep
    <2>2. \A c \in Batches : Fits(c)'
      <3> SUFFICES ASSUME NEW c \in Batches, c # b PROVE Fits(c)' BY <2>1, OthersStay
      <3>1. /\ pairs'[c] = pairs[c] /\ temps'[c] = temps[c]
            /\ pc'[c] = pc[c] /\ at'[c] = at[c]
        BY <2>1, OthersStay
      <3>2. Fits(c) BY DEF Types
      <3> QED BY <3>1, <3>2, Elsewhere
    <2>3. before' \in [Names -> Entry] BY <2>1, OthersStay DEF Types
    <2> QED BY <2>1, <2>2, <2>3, OthersStay DEF Types
  <1>2. CASE UNCHANGED vars
    BY <1>2 DEF vars, Types, Fits, Room, Index
  <1> QED BY <1>1, <1>2

LEMMA TypesInit == Init => Types
  <1> SUFFICES ASSUME Init PROVE Types OBVIOUS
  <1>1. files \in [Names -> Entry] /\ before \in [Names -> Entry] BY DEF Init, Entry
  <1>2. faults \in 0 .. MaxFaults BY FaultsAssumption DEF Init
  <1>3. \A b \in Batches : Fits(b)
    <2> SUFFICES ASSUME NEW b \in Batches PROVE Fits(b) OBVIOUS
    <2>1. pairs[b] = <<>> /\ temps[b] = <<>> /\ pc[b] = "idle" BY DEF Init
    <2>2. pairs[b] \in Seq(PairT) /\ Len(pairs[b]) = 0 BY <2>1, EmptySeq
    <2>3. Index(b) = {} BY <2>2 DEF Index
    <2>4. temps[b] \in [Index(b) -> Entry] BY <2>1, <2>3
    <2> QED BY <2>1, <2>2, <2>3, <2>4 DEF Fits, Room, Loops, Ended, Work
  <1> QED BY <1>1, <1>2, <1>3 DEF Init, Types

LEMMA TypesShow == Types => TypeOK
  <1> SUFFICES ASSUME Types PROVE TypeOK OBVIOUS
  <1>1. \A b \in Batches : Fits(b) BY DEF Types
  <1>2. pairs \in [Batches -> Seq([src : Names, dst : Names])]
    BY <1>1 DEF Types, Fits, PairT
  <1>3. \A b \in Batches : temps[b] \in [1 .. Len(pairs[b]) -> Names \cup {Absent}]
    BY <1>1 DEF Fits, Index, Entry
  <1>4. pc \in [Batches -> {"idle"} \cup Loops \cup Ended] BY <1>1 DEF Types, Fits
  <1>5. \A b \in Batches : pc[b] \in Loops => at[b] \in 1 .. Len(pairs[b])
    BY <1>1 DEF Fits, Index
  <1> QED BY <1>2, <1>3, <1>4, <1>5 DEF Types, TypeOK, Entry

\* Every loop works on a pair there is, and the stage names are one for each
\* pair that changes something.
THEOREM TypeCorrect == Spec => []TypeOK
  <1>1. Types => TypeOK BY TypesShow
  <1> QED BY <1>1, TypesInit, TypesStep, PTL DEF Spec

-----------------------------------------------------------------------------
(***************************************************************************)
(* NothingLost.                                                            *)
(***************************************************************************)
\* No entry is in two places.
Single ==
  /\ \A m, n \in Names : files[m] = files[n] /\ m # n => files[m] = Absent
  /\ \A m \in Names : \A b \in Batches : \A i \in Index(b) :
       files[m] = temps[b][i] => files[m] = Absent
  /\ \A b, c \in Batches : \A i \in Index(b), j \in Index(c) :
       temps[b][i] = temps[c][j] /\ (b # c \/ i # j) => temps[b][i] = Absent

\* Every entry there was is in one.
Kept ==
  \A e \in Names : before[e] = e =>
    \/ \E n \in Names : files[n] = e
    \/ \E b \in Batches : \E i \in Index(b) : temps[b][i] = e

Held == Types /\ Single /\ Kept

LEMMA HeldToStage ==
  ASSUME Held, NEW b \in Batches, NEW n \in Names, at[b] \in Index(b),
         temps[b][at[b]] = Absent, ToStage(b, n), pairs' = pairs, before' = before
  PROVE  Single' /\ Kept'
  <1>1. /\ files'[n] = Absent
        /\ \A m \in Names : m # n => files'[m] = files[m]
        /\ temps'[b][at[b]] = files[n]
        /\ \A i \in Index(b) : i # at[b] => temps'[b][i] = temps[b][i]
        /\ \A c \in Batches : c # b => temps'[c] = temps[c]
    BY ToStageMoves DEF Held
  <1>2. \A c \in Batches : Index(c)' = Index(c) BY DEF Index
  <1>3. \A m, o \in Names : files'[m] = files'[o] /\ m # o => files'[m] = Absent
    BY <1>1 DEF Held, Single
  <1>4. \A m \in Names : \A c \in Batches : \A i \in Index(c) :
          files'[m] = temps'[c][i] => files'[m] = Absent
    BY <1>1 DEF Held, Single
  <1>5. \A c, d \in Batches : \A i \in Index(c), j \in Index(d) :
          temps'[c][i] = temps'[d][j] /\ (c # d \/ i # j) => temps'[c][i] = Absent
    <2> SUFFICES ASSUME NEW c \in Batches, NEW d \in Batches,
                        NEW i \in Index(c), NEW j \in Index(d),
                        temps'[c][i] = temps'[d][j], c # d \/ i # j
                 PROVE  temps'[c][i] = Absent
      OBVIOUS
    <2>1. CASE c = b /\ i = at[b] BY <1>1, <2>1 DEF Held, Single
    <2>2. CASE d = b /\ j = at[b] BY <1>1, <2>2 DEF Held, Single
    <2>3. CASE ~(c = b /\ i = at[b]) /\ ~(d = b /\ j = at[b])
      <3>1. temps'[c][i] = temps[c][i] /\ temps'[d][j] = temps[d][j] BY <1>1, <2>3
      <3> QED BY <3>1 DEF Held, Single
    <2> QED BY <2>1, <2>2, <2>3
  <1>6. Single' BY <1>2, <1>3, <1>4, <1>5 DEF Single
  <1>7. Kept'
    <2> SUFFICES ASSUME NEW e \in Names, before[e] = e
                 PROVE  \/ \E m \in Names : files'[m] = e
                        \/ \E c \in Batches : \E i \in Index(c) : temps'[c][i] = e
      BY <1>2 DEF Kept
    <2>0. e # Absent BY AbsentAssumption
    <2>1. CASE \E m \in Names : files[m] = e BY <1>1, <2>1
    <2>2. CASE \E c \in Batches : \E i \in Index(c) : temps[c][i] = e
      <3>0. PICK c \in Batches : \E i \in Index(c) : temps[c][i] = e BY <2>2
      <3>1. PICK i \in Index(c) : temps[c][i] = e BY <3>0
      <3>2. ~(c = b /\ i = at[b]) BY <2>0, <3>1
      <3>3. temps'[c][i] = e BY <1>1, <3>1, <3>2
      <3> QED BY <3>1, <3>3
    <2> QED BY <2>1, <2>2 DEF Held, Kept
  <1> QED BY <1>6, <1>7

LEMMA HeldFromStage ==
  ASSUME Held, NEW b \in Batches, NEW n \in Names, at[b] \in Index(b),
         files[n] = Absent, FromStage(b, n), pairs' = pairs, before' = before
  PROVE  Single' /\ Kept'
  <1>1. /\ files'[n] = temps[b][at[b]]
        /\ \A m \in Names : m # n => files'[m] = files[m]
        /\ temps'[b][at[b]] = Absent
        /\ \A i \in Index(b) : i # at[b] => temps'[b][i] = temps[b][i]
        /\ \A c \in Batches : c # b => temps'[c] = temps[c]
    BY FromStageMoves DEF Held
  <1>2. \A c \in Batches : Index(c)' = Index(c) BY DEF Index
  <1>3. \A m, o \in Names : files'[m] = files'[o] /\ m # o => files'[m] = Absent
    BY <1>1 DEF Held, Single
  <1>4. \A m \in Names : \A c \in Batches : \A i \in Index(c) :
          files'[m] = temps'[c][i] => files'[m] = Absent
    <2> SUFFICES ASSUME NEW m \in Names, NEW c \in Batches, NEW i \in Index(c),
                        files'[m] = temps'[c][i]
                 PROVE  files'[m] = Absent
      OBVIOUS
    <2>1. CASE c = b /\ i = at[b] BY <1>1, <2>1
    <2>2. CASE ~(c = b /\ i = at[b])
      <3>1. temps'[c][i] = temps[c][i] BY <1>1, <2>2
      <3>2. CASE m = n BY <1>1, <2>2, <3>1, <3>2 DEF Held, Single
      <3>3. CASE m # n BY <1>1, <3>1, <3>3 DEF Held, Single
      <3> QED BY <3>2, <3>3
    <2> QED BY <2>1, <2>2
  <1>5. \A c, d \in Batches : \A i \in Index(c), j \in Index(d) :
          temps'[c][i] = temps'[d][j] /\ (c # d \/ i # j) => temps'[c][i] = Absent
    <2> SUFFICES ASSUME NEW c \in Batches, NEW d \in Batches,
                        NEW i \in Index(c), NEW j \in Index(d),
                        temps'[c][i] = temps'[d][j], c # d \/ i # j
                 PROVE  temps'[c][i] = Absent
      OBVIOUS
    <2>1. CASE c = b /\ i = at[b] BY <1>1, <2>1
    <2>2. CASE d = b /\ j = at[b] BY <1>1, <2>2
    <2>3. CASE ~(c = b /\ i = at[b]) /\ ~(d = b /\ j = at[b])
      <3>1. temps'[c][i] = temps[c][i] /\ temps'[d][j] = temps[d][j] BY <1>1, <2>3
      <3> QED BY <3>1 DEF Held, Single
    <2> QED BY <2>1, <2>2, <2>3
  <1>6. Single' BY <1>2, <1>3, <1>4, <1>5 DEF Single
  <1>7. Kept'
    <2> SUFFICES ASSUME NEW e \in Names, before[e] = e
                 PROVE  \/ \E m \in Names : files'[m] = e
                        \/ \E c \in Batches : \E i \in Index(c) : temps'[c][i] = e
      BY <1>2 DEF Kept
    <2>0. e # Absent BY AbsentAssumption
    <2>1. CASE \E m \in Names : files[m] = e
      <3>1. PICK m \in Names : files[m] = e BY <2>1
      <3>2. m # n BY <2>0, <3>1
      <3> QED BY <1>1, <3>1, <3>2
    <2>2. CASE \E c \in Batches : \E i \in Index(c) : temps[c][i] = e
      <3>0. PICK c \in Batches : \E i \in Index(c) : temps[c][i] = e BY <2>2
      <3>1. PICK i \in Index(c) : temps[c][i] = e BY <3>0
      <3>2. CASE c = b /\ i = at[b] BY <1>1, <3>1, <3>2
      <3>3. CASE ~(c = b /\ i = at[b])
        <4>1. temps'[c][i] = e BY <1>1, <3>1, <3>3
        <4> QED BY <4>1
      <3> QED BY <3>2, <3>3
    <2> QED BY <2>1, <2>2 DEF Held, Kept
  <1> QED BY <1>6, <1>7

\* Nor does a list of pairs that changes while nothing is under a stage name.
LEMMA HeldUnstaged ==
  ASSUME Held, NEW b \in Batches, files' = files, before' = before,
         Unstaged(b), Unstaged(b)',
         \A c \in Batches : c # b => pairs'[c] = pairs[c] /\ temps'[c] = temps[c]
  PROVE  Single' /\ Kept'
  <1>1. \A c \in Batches : c # b => Index(c)' = Index(c) BY DEF Index
  <1>2. \A c \in Batches : \A i \in Index(c)' :
          temps'[c][i] # Absent => c # b /\ i \in Index(c) /\ temps'[c][i] = temps[c][i]
    BY <1>1 DEF Unstaged
  <1>3. \A m \in Names : \A c \in Batches : \A i \in Index(c)' :
          files'[m] = temps'[c][i] => files'[m] = Absent
    BY <1>2 DEF Held, Single
  <1>4. \A c, d \in Batches : \A i \in Index(c)', j \in Index(d)' :
          temps'[c][i] = temps'[d][j] /\ (c # d \/ i # j) => temps'[c][i] = Absent
    BY <1>2 DEF Held, Single
  <1>5. Single' BY <1>3, <1>4 DEF Held, Single
  <1>6. Kept'
    <2> SUFFICES ASSUME NEW e \in Names, before[e] = e
                 PROVE  \/ \E m \in Names : files'[m] = e
                        \/ \E c \in Batches : \E i \in Index(c)' : temps'[c][i] = e
      BY DEF Kept
    <2>0. e # Absent BY AbsentAssumption
    <2>2. CASE \E c \in Batches : \E i \in Index(c) : temps[c][i] = e
      <3>0. PICK c \in Batches : \E i \in Index(c) : temps[c][i] = e BY <2>2
      <3>1. PICK i \in Index(c) : temps[c][i] = e BY <3>0
      <3>2. c # b BY <2>0, <3>1 DEF Unstaged
      <3>3. i \in Index(c)' /\ temps'[c][i] = e BY <1>1, <3>1, <3>2
      <3> QED BY <3>3
    <2> QED BY <2>2 DEF Held, Kept
  <1> QED BY <1>5, <1>6

LEMMA HeldStays ==
  ASSUME Held, Stays, pairs' = pairs, before' = before
  PROVE  Single' /\ Kept'
  BY DEF Held, Stays, Single, Kept, Index

LEMMA HeldStep ==
  ASSUME Held, [Next]_vars
  PROVE  Held'
  <1>0. Types /\ Types' BY TypesStep DEF Held
  <1>1. CASE Next
    <2>1. PICK b \in Batches : Step(b) BY <1>1, NextIsAStep
    <2>2. before' = before BY <1>0, <2>1, OthersStay
    <2>3. pc[b] \in {"idle", "probeSrc", "probeDst"} => Unstaged(b)
      BY <1>0 DEF Types, Fits, Room, Unstaged
    <2>4. CASE Begin(b)
      <3>1. Single' /\ Kept' BY <1>0, <2>2, <2>3, <2>4, BeginStep, HeldUnstaged
      <3> QED BY <1>0, <3>1 DEF Held
    <2>5. CASE ProbeDst(b)
      <3>1. Single' /\ Kept' BY <1>0, <2>2, <2>3, <2>5, ProbeDstStep, HeldUnstaged
      <3> QED BY <1>0, <3>1 DEF Held
    <2>6. CASE ProbeSrc(b) \/ Cancel(b)
      <3>1. Stays /\ pairs' = pairs BY <1>0, <2>6, ProbeSrcStep, CancelStep
      <3> QED BY <1>0, <2>2, <3>1, HeldStays DEF Held
    <2>7. CASE Stage(b) \/ Final(b) \/ Unfinal(b) \/ Unstage(b)
      <3>0. pairs' = pairs /\ pc[b] \in Loops
        BY <2>7 DEF Stage, Final, Unfinal, Unstage, Loops
      <3>1. Pair(b).src \in Names /\ Pair(b).dst \in Names /\ at[b] \in Index(b)
        BY <1>0, <3>0, AtPair
      <3>2. \/ Stays
            \/ \E n \in Names : ToStage(b, n) /\ temps[b][at[b]] = Absent
            \/ \E n \in Names : FromStage(b, n) /\ files[n] = Absent
        <4>1. CASE Stage(b) BY <1>0, <3>1, <4>1, StageStep
        <4>2. CASE Final(b) BY <1>0, <3>1, <4>2, FinalStep DEF MayLand
        <4>3. CASE Unfinal(b) BY <1>0, <3>1, <4>3, UnfinalStep
        <4>4. CASE Unstage(b) BY <1>0, <3>1, <4>4, UnstageStep DEF MayLand
        <4> QED BY <2>7, <4>1, <4>2, <4>3, <4>4
      <3>3. CASE Stays BY <1>0, <2>2, <3>0, <3>3, HeldStays DEF Held
      <3>4. CASE \E n \in Names : ToStage(b, n) /\ temps[b][at[b]] = Absent
        <4>1. PICK n \in Names : ToStage(b, n) /\ temps[b][at[b]] = Absent BY <3>4
        <4>2. Single' /\ Kept' BY <2>2, <3>0, <3>1, <4>1, HeldToStage
        <4> QED BY <1>0, <4>2 DEF Held
      <3>5. CASE \E n \in Names : FromStage(b, n) /\ files[n] = Absent
        <4>1. PICK n \in Names : FromStage(b, n) /\ files[n] = Absent BY <3>5
        <4>2. Single' /\ Kept' BY <2>2, <3>0, <3>1, <4>1, HeldFromStage
        <4> QED BY <1>0, <4>2 DEF Held
      <3> QED BY <3>2, <3>3, <3>4, <3>5
    <2> QED BY <2>1, <2>4, <2>5, <2>6, <2>7 DEF Step
  <1>2. CASE UNCHANGED vars
    <2>1. Stays /\ pairs' = pairs /\ before' = before BY <1>2 DEF vars, Stays
    <2> QED BY <1>0, <2>1, HeldStays DEF Held
  <1> QED BY <1>1, <1>2

LEMMA HeldInit == Init => Held
  <1> SUFFICES ASSUME Init PROVE Held OBVIOUS
  <1>1. \A b \in Batches : Index(b) = {}
    <2> SUFFICES ASSUME NEW b \in Batches PROVE Index(b) = {} OBVIOUS
    <2>1. pairs[b] = <<>> BY DEF Init
    <2> QED BY <2>1, EmptySeq DEF Index
  <1>2. before = files /\ \A n \in Names : files[n] \in {n, Absent} BY DEF Init
  <1>3. Single BY <1>1, <1>2 DEF Single
  <1>4. Kept BY <1>2 DEF Kept
  <1> QED BY <1>3, <1>4, TypesInit DEF Held

LEMMA HeldShows == Held => NothingLost
  <1> SUFFICES ASSUME Held, NEW e \in Names, before[e] = e
               PROVE  \E p \in PlacesOf(e) : PlacesOf(e) = {p}
    BY DEF NothingLost
  <1>0. e # Absent BY AbsentAssumption
  <1>1. \A b \in Batches : DOMAIN temps[b] = Index(b) BY DEF Held, Types, Fits
  <1>2. \A p : p \in PlacesOf(e) <=>
          \/ \E n \in Names : files[n] = e /\ p = <<n>>
          \/ \E b \in Batches : \E i \in Index(b) : temps[b][i] = e /\ p = <<b, i>>
    BY <1>1 DEF PlacesOf
  <1>3. CASE \E n \in Names : files[n] = e
    <2>1. PICK n \in Names : files[n] = e BY <1>3
    <2>2. \A m \in Names : files[m] = e => m = n BY <1>0, <2>1 DEF Held, Single
    <2>3. \A b \in Batches : \A i \in Index(b) : temps[b][i] # e
      BY <1>0, <2>1 DEF Held, Single
    <2>4. \A p : p \in PlacesOf(e) <=> p = <<n>> BY <1>2, <2>1, <2>2, <2>3
    <2>5. PlacesOf(e) = {<<n>>} BY <2>4
    <2>6. <<n>> \in PlacesOf(e) BY <2>5
    <2> QED BY <2>5, <2>6
  <1>4. CASE \E b \in Batches : \E i \in Index(b) : temps[b][i] = e
    <2>0. PICK b \in Batches : \E i \in Index(b) : temps[b][i] = e BY <1>4
    <2>1. PICK i \in Index(b) : temps[b][i] = e BY <2>0
    <2>2. \A m \in Names : files[m] # e BY <1>0, <2>1 DEF Held, Single
    <2>3. \A c \in Batches : \A j \in Index(c) : temps[c][j] = e => c = b /\ j = i
      BY <1>0, <2>1 DEF Held, Single
    <2>4. \A p : p \in PlacesOf(e) <=> p = <<b, i>> BY <1>2, <2>1, <2>2, <2>3
    <2>5. PlacesOf(e) = {<<b, i>>} BY <2>4
    <2>6. <<b, i>> \in PlacesOf(e) BY <2>5
    <2> QED BY <2>5, <2>6
  <1> QED BY <1>3, <1>4 DEF Held, Kept

\* No entry is lost or doubled, whatever requests, failing calls and
\* disconnects do to each other: it is under one visible name or one stage
\* name.
THEOREM NothingIsLost == Spec => []NothingLost
  <1>1. Init => Held BY HeldInit
  <1>2. Held /\ [Next]_vars => Held' BY HeldStep
  <1>3. Held => NothingLost BY HeldShows
  <1> QED BY <1>1, <1>2, <1>3, PTL DEF Spec

-----------------------------------------------------------------------------
(***************************************************************************)
(* StrandedByAnother.                                                      *)
(***************************************************************************)
\* The names a request renames: a pair that changes nothing has none.
Claims(b) ==
  {n \in Names : \E i \in Index(b) :
     pairs[b][i].src # pairs[b][i].dst /\ n \in {pairs[b][i].src, pairs[b][i].dst}}

Own(b, n) == \A c \in Batches : n \in Claims(c) => c = b

\* Of its own names, those it has emptied are empty.
Clear(b) ==
  pc[b] \in Work =>
    \A i \in Out(b) :
      Own(b, pairs[b][i].src) /\ (\A j \in Placed(b) : pairs[b][j].dst # pairs[b][i].src)
        => files[pairs[b][i].src] = Absent

\* What it could not put back has lost its name to another.
Blames(b) ==
  pc[b] \in {"unstage", "failed"} =>
    \A i \in Index(b) \ Out(b) : temps[b][i] # Absent => ~Own(b, pairs[b][i].src)

Undisturbed == faults = 0 => \A b \in Batches : Clear(b) /\ Blames(b)

LEMMA ClaimsGrow ==
  ASSUME Types, NEW b \in Batches, Step(b)
  PROVE  /\ \A c \in Batches : Claims(c) \subseteq Claims(c)'
         /\ \A n \in Names : files'[n] # files[n] => n \in Claims(b)
  <1>1. \A c \in Batches : c # b => Claims(c)' = Claims(c)
    BY OthersStay DEF Claims, Index
  <1>2. CASE Begin(b)
    <2>1. Claims(b) = {}
      <3>1. Len(pairs[b]) = 0 BY <1>2, BeginStep DEF Types, Fits
      <3> QED BY <3>1 DEF Claims, Index
    <2>2. files' = files BY <1>2, BeginStep
    <2> QED BY <1>1, <2>1, <2>2
  <1>3. CASE ProbeSrc(b) \/ Cancel(b)
    <2>1. Stays /\ pairs' = pairs BY <1>3, ProbeSrcStep, CancelStep
    <2> QED BY <1>1, <2>1 DEF Stays, Claims, Index
  <1>4. CASE ProbeDst(b)
    <2>1. files' = files BY <1>4, ProbeDstStep
    <2>2. CASE pairs' = pairs BY <1>1, <2>1, <2>2 DEF Claims, Index
    <2>3. CASE \E n \in Nat : \E ix \in [1 .. n -> DOMAIN pairs[b]] :
                 Changing(b, ix) /\ pairs'[b] = Active(b, ix)
      <3>0. PICK n \in Nat : \E ix \in [1 .. n -> DOMAIN pairs[b]] :
              Changing(b, ix) /\ pairs'[b] = Active(b, ix)
        BY <2>3
      <3>1. PICK ix \in [1 .. n -> DOMAIN pairs[b]] :
              Changing(b, ix) /\ pairs'[b] = Active(b, ix)
        BY <3>0
      <3>2. pc[b] \in Loops BY <1>4 DEF ProbeDst, Loops
      <3>3. pairs[b] \in Seq(PairT) /\ Distinct(pairs[b]) BY <3>2 DEF Types, Fits
      <3>4. /\ Len(Active(b, ix)) = n
            /\ \A k \in 1 .. n : Active(b, ix)[k] = pairs[b][ix[k]]
        BY <3>1, <3>3, ActiveFits
      <3>5. Index(b)' = 1 .. n BY <3>1, <3>4 DEF Index
      <3>6. DOMAIN pairs[b] = Index(b) /\ DOMAIN ix = 1 .. n BY <3>2, AtPair
      <3>7. \A i \in Index(b) : pairs[b][i].src # pairs[b][i].dst =>
              \E k \in Index(b)' : pairs'[b][k] = pairs[b][i]
        <4> SUFFICES ASSUME NEW i \in Index(b), pairs[b][i].src # pairs[b][i].dst
                     PROVE  \E k \in Index(b)' : pairs'[b][k] = pairs[b][i]
          OBVIOUS
        <4>1. i \in {ix[k] : k \in DOMAIN ix} BY <3>1, <3>6 DEF Changing
        <4>2. PICK k \in 1 .. n : i = ix[k] BY <3>6, <4>1
        <4> QED BY <3>1, <3>4, <3>5, <4>2
      <3>8. Claims(b) \subseteq Claims(b)'
        <4> SUFFICES ASSUME NEW n_ \in Claims(b) PROVE n_ \in Claims(b)' OBVIOUS
        <4>1. PICK i \in Index(b) : /\ pairs[b][i].src # pairs[b][i].dst
                                    /\ n_ \in {pairs[b][i].src, pairs[b][i].dst}
          BY DEF Claims
        <4>2. PICK k \in Index(b)' : pairs'[b][k] = pairs[b][i] BY <3>7, <4>1
        <4> QED BY <4>1, <4>2 DEF Claims
      <3> QED BY <1>1, <2>1, <3>8
    <2>4. CASE pc'[b] = "failed" /\ pairs' = pairs BY <2>2, <2>4
    <2> QED BY <1>4, <2>2, <2>3, <2>4, ProbeDstStep
  <1>5. CASE Stage(b) \/ Final(b) \/ Unfinal(b) \/ Unstage(b)
    <2>1. pairs' = pairs /\ pc[b] \in Loops /\ pc[b] \in Work
      BY <1>5 DEF Stage, Final, Unfinal, Unstage, Loops, Work
    <2>2. /\ Pair(b).src \in Names /\ Pair(b).dst \in Names /\ at[b] \in Index(b)
          /\ Pair(b) = pairs[b][at[b]]
      BY <2>1, AtPair
    <2>3. pairs[b][at[b]].src # pairs[b][at[b]].dst BY <2>1, <2>2 DEF Types, Fits
    <2>4. Pair(b).src \in Claims(b) /\ Pair(b).dst \in Claims(b) BY <2>2, <2>3 DEF Claims
    <2>5. Stays \/ \E n \in {Pair(b).src, Pair(b).dst} : ToStage(b, n) \/ FromStage(b, n)
      <3>1. CASE Stage(b) BY <3>1, StageStep
      <3>2. CASE Final(b) BY <3>2, FinalStep
      <3>3. CASE Unfinal(b) BY <3>3, UnfinalStep
      <3>4. CASE Unstage(b) BY <3>4, UnstageStep
      <3> QED BY <1>5, <3>1, <3>2, <3>3, <3>4
    <2>6. \A n \in Names : files'[n] # files[n] => n \in Claims(b)
      <3>1. CASE Stays BY <3>1 DEF Stays
      <3>2. ASSUME NEW n \in {Pair(b).src, Pair(b).dst}, ToStage(b, n) \/ FromStage(b, n)
            PROVE  \A m \in Names : files'[m] # files[m] => m \in Claims(b)
        <4>1. \A m \in Names : m # n => files'[m] = files[m]
          BY <2>2, <3>2, ToStageMoves, FromStageMoves
        <4> QED BY <2>4, <4>1
      <3> QED BY <2>5, <3>1, <3>2
    <2>7. Claims(b)' = Claims(b) BY <2>1 DEF Claims, Index
    <2> QED BY <1>1, <2>6, <2>7
  <1> QED BY <1>2, <1>3, <1>4, <1>5 DEF Step

LEMMA OwnShrinks ==
  ASSUME Types, NEW b \in Batches, Step(b), NEW c \in Batches, NEW n
  PROVE  /\ Own(c, n)' => Own(c, n)
         /\ c # b /\ n \in Names /\ Own(c, n) => files'[n] = files[n]
  <1>1. \A d \in Batches : Claims(d) \subseteq Claims(d)' BY ClaimsGrow
  <1>2. \A m \in Names : files'[m] # files[m] => m \in Claims(b) BY ClaimsGrow
  <1> QED BY <1>1, <1>2 DEF Own

\* What others do does not touch a request's own names.
LEMMA UndisturbedByOthers ==
  ASSUME Types, NEW b \in Batches, Step(b), NEW c \in Batches, c # b
  PROVE  /\ Clear(c) => Clear(c)'
         /\ Blames(c) => Blames(c)'
  <1>1. /\ pairs'[c] = pairs[c] /\ temps'[c] = temps[c]
        /\ pc'[c] = pc[c] /\ at'[c] = at[c]
    BY OthersStay
  <1>2. Out(c)' = Out(c) /\ Placed(c)' = Placed(c) /\ Index(c)' = Index(c)
    BY <1>1, Elsewhere DEF Types
  <1>3. \A i \in Index(c) : pairs[c][i].src \in Names
    <2>1. pairs[c] \in Seq(PairT) BY DEF Types, Fits
    <2>2. \A i \in Index(c) : pairs[c][i] \in PairT BY <2>1, ElementOfSeq DEF Index
    <2> QED BY <2>2 DEF PairT
  <1>4. \A n \in Names : /\ Own(c, n)' => Own(c, n)
                         /\ Own(c, n) => files'[n] = files[n]
    BY OwnShrinks
  <1>5. Out(c) \subseteq Index(c) BY DEF Out
  <1>6. ASSUME Clear(c) PROVE Clear(c)'
    <2> SUFFICES ASSUME pc[c] \in Work, NEW i \in Out(c), Own(c, pairs[c][i].src)',
                        \A j \in Placed(c) : pairs[c][j].dst # pairs[c][i].src
                 PROVE  files'[pairs[c][i].src] = Absent
      BY <1>1, <1>2 DEF Clear
    <2> DEFINE n == pairs[c][i].src
    <2>1. n \in Names BY <1>3, <1>5
    <2>2. Own(c, n)' BY <1>1
    <2>3. Own(c, n) /\ files'[n] = files[n] BY <1>1, <1>4, <2>1, <2>2
    <2>4. files[n] = Absent BY <1>6, <2>3 DEF Clear
    <2> QED BY <2>3, <2>4
  <1>7. ASSUME Blames(c) PROVE Blames(c)'
    <2> SUFFICES ASSUME pc[c] \in {"unstage", "failed"}, NEW i \in Index(c) \ Out(c),
                        temps[c][i] # Absent
                 PROVE  ~Own(c, pairs[c][i].src)'
      BY <1>1, <1>2 DEF Blames
    <2>1. ~Own(c, pairs[c][i].src) BY <1>7 DEF Blames
    <2> QED BY <1>1, <1>3, <1>4, <2>1
  <1> QED BY <1>6, <1>7

LEMMA UndisturbedStep ==
  ASSUME Types, Undisturbed, [Next]_vars
  PROVE  Undisturbed'
  <1>1. CASE Next
    <2>1. PICK b \in Batches : Step(b) BY <1>1, NextIsAStep
    <2> SUFFICES ASSUME faults' = 0 PROVE \A c \in Batches : Clear(c)' /\ Blames(c)'
      BY DEF Undisturbed
    <2>2. faults = 0 /\ faults' = faults
      <3>1. faults \in Nat BY FaultsAssumption DEF Types
      <3>2. faults' = faults \/ faults' = faults + 1
        <4>1. CASE Begin(b) \/ Cancel(b) BY <4>1, BeginStep, CancelStep
        <4>2. CASE ProbeSrc(b) \/ ProbeDst(b) BY <4>2, ProbeSrcStep, ProbeDstStep
        <4>3. CASE Stage(b) \/ Final(b) BY <4>3, StageStep, FinalStep
        <4>4. CASE Unfinal(b) \/ Unstage(b) BY <4>4, UnfinalStep, UnstageStep
        <4> QED BY <2>1, <4>1, <4>2, <4>3, <4>4 DEF Step
      <3> QED BY <3>1, <3>2
    <2>3. \A c \in Batches : Clear(c) /\ Blames(c) BY <2>2 DEF Undisturbed
    <2>4. \A c \in Batches : c # b => Clear(c)' /\ Blames(c)'
      BY <2>1, <2>3, UndisturbedByOthers
    <2>5. CASE Begin(b) \/ ProbeSrc(b) \/ ProbeDst(b)
      <3>1. Out(b)' = {} /\ Unstaged(b)' BY <2>5, BeginStep, ProbeSrcStep, ProbeDstStep
      <3>2. Clear(b)' BY <3>1 DEF Clear
      <3>3. Blames(b)' BY <3>1 DEF Blames, Unstaged
      <3> QED BY <2>4, <3>2, <3>3
    <2>6. CASE Cancel(b)
      <3>1. pc'[b] = "cancelled" BY <2>6, CancelStep
      <3>2. Clear(b)' /\ Blames(b)' BY <3>1 DEF Clear, Blames, Work
      <3> QED BY <2>4, <3>2
    <2>7. CASE Stage(b) \/ Final(b) \/ Unfinal(b) \/ Unstage(b)
      <3>0. pairs' = pairs /\ pc[b] \in Loops /\ pc[b] \in Work
        BY <2>7 DEF Stage, Final, Unfinal, Unstage, Loops, Work
      <3>1. /\ at[b] \in Index(b) /\ Pair(b) = pairs[b][at[b]]
            /\ Pair(b).src \in Names /\ Pair(b).dst \in Names
            /\ \A i \in Index(b) : pairs[b][i].src \in Names /\ pairs[b][i].dst \in Names
            /\ \A i, j \in Index(b) :
                 i # j => pairs[b][i].src # pairs[b][j].src /\ pairs[b][i].dst # pairs[b][j].dst
        BY <3>0, AtPair
      <3>2. Index(b)' = Index(b) /\ Out(b) \subseteq Index(b) /\ Placed(b) \subseteq Index(b)
        BY <3>0 DEF Index, Out, Placed
      <3>3. \A n \in Names : Own(b, n)' => Own(b, n) BY <2>1, OwnShrinks
      <3>4. /\ pairs[b] \in Seq(PairT)
            /\ temps[b] \in [Index(b) -> Entry]
            /\ pc[b] = "stage" => \A i \in Index(b) : i >= at[b] => temps[b][i] = Absent
        BY DEF Types, Fits, Room
      <3> DEFINE src(i) == pairs[b][i].src
                 dst(i) == pairs[b][i].dst
      <3>5. CASE Stage(b)
        <4>1. CASE /\ ToStage(b, Pair(b).src) /\ Out(b)' = Out(b) \cup {at[b]}
                   /\ pc'[b] \in {"stage", "final"}
          <5>1. /\ files'[src(at[b])] = Absent
                /\ \A m \in Names : m # src(at[b]) => files'[m] = files[m]
            BY <3>1, <4>1, ToStageMoves
          <5>2. Clear(b)'
            <6> SUFFICES ASSUME NEW i \in Out(b)', Own(b, src(i))'
                         PROVE  files'[src(i)] = Absent
              BY <3>0 DEF Clear
            <6>1. CASE i = at[b] BY <5>1, <6>1
            <6>2. CASE i # at[b]
              <7>1. i \in Out(b) BY <4>1, <6>2
              <7>2. src(i) # src(at[b]) /\ src(i) \in Names BY <3>1, <3>2, <6>2, <7>1
              <7>3. Own(b, src(i)) BY <3>0, <3>3, <7>2
              <7>4. Placed(b) = {} BY <3>5, StageStep
              <7>5. files[src(i)] = Absent BY <2>3, <3>0, <7>1, <7>3, <7>4 DEF Clear
              <7> QED BY <5>1, <7>2, <7>5
            <6> QED BY <6>1, <6>2
          <5>3. Blames(b)' BY <4>1 DEF Blames
          <5> QED BY <2>4, <5>2, <5>3
        <4>2. CASE /\ Stays /\ Out(b)' = Out(b) /\ pc'[b] \in {"unstage", "failed"}
          <5>1. Placed(b) = {} /\ Placed(b)' = {} /\ pc[b] = "stage" BY <3>5, StageStep
          <5>2. Clear(b)'
            <6> SUFFICES ASSUME NEW i \in Out(b), Own(b, src(i))'
                         PROVE  files'[src(i)] = Absent
              BY <3>0, <4>2 DEF Clear
            <6>1. src(i) \in Names BY <3>1, <3>2
            <6>2. Own(b, src(i)) BY <3>0, <3>3, <6>1
            <6> QED BY <2>3, <3>0, <4>2, <5>1, <6>2 DEF Clear, Stays
          <5>3. \A i \in Index(b) \ Out(b) : temps'[b][i] = Absent
            <6>1. \A i \in Index(b) : i \in Nat /\ at[b] \in Nat BY <3>1 DEF Index
            <6>2. \A i \in Index(b) \ Out(b) : i >= at[b] BY <5>1, <6>1 DEF Out
            <6> QED BY <3>4, <4>2, <5>1, <6>2 DEF Stays
          <5>4. Blames(b)' BY <3>2, <4>2, <5>3 DEF Blames
          <5> QED BY <2>4, <5>2, <5>4
        <4> QED BY <3>5, <4>1, <4>2, StageStep
      <3>6. CASE Final(b)
        <4>0. Out(b) = Index(b) /\ Out(b)' = Out(b) BY <3>6, FinalStep
        <4>1. Blames(b)' BY <3>2, <4>0 DEF Blames
        <4>2. CASE FromStage(b, Pair(b).dst) /\ Placed(b)' = Placed(b) \cup {at[b]}
          <5>1. \A m \in Names : m # dst(at[b]) => files'[m] = files[m]
            BY <3>1, <4>2, FromStageMoves
          <5>2. Clear(b)'
            <6> SUFFICES ASSUME NEW i \in Out(b), Own(b, src(i))',
                                \A j \in Placed(b)' : dst(j) # src(i)
                         PROVE  files'[src(i)] = Absent
              BY <3>0, <4>0 DEF Clear
            <6>1. src(i) \in Names /\ src(i) # dst(at[b]) BY <3>1, <3>2, <4>2
            <6>2. Own(b, src(i)) BY <3>0, <3>3, <6>1
            <6>3. \A j \in Placed(b) : dst(j) # src(i) BY <4>2
            <6>4. files[src(i)] = Absent BY <2>3, <3>0, <6>2, <6>3 DEF Clear
            <6> QED BY <5>1, <6>1, <6>4
          <5> QED BY <2>4, <4>1, <5>2
        <4>3. CASE Stays /\ Placed(b)' = Placed(b)
          <5>1. Clear(b)'
            <6> SUFFICES ASSUME NEW i \in Out(b), Own(b, src(i))',
                                \A j \in Placed(b) : dst(j) # src(i)
                         PROVE  files'[src(i)] = Absent
              BY <3>0, <4>0, <4>3 DEF Clear
            <6>1. src(i) \in Names BY <3>1, <3>2
            <6>2. Own(b, src(i)) BY <3>0, <3>3, <6>1
            <6> QED BY <2>3, <3>0, <4>3, <6>2 DEF Clear, Stays
          <5> QED BY <2>4, <4>1, <5>1
        <4> QED BY <3>6, <4>2, <4>3, FinalStep
      <3>7. CASE Unfinal(b)
        <4>0. /\ Out(b) = Index(b) /\ Out(b)' = Out(b)
              /\ Placed(b)' = Placed(b) \ {at[b]}
          BY <3>7, UnfinalStep
        <4>1. Blames(b)' BY <3>2, <4>0 DEF Blames
        <4>2. /\ files'[dst(at[b])] = Absent
              /\ \A m \in Names : m # dst(at[b]) => files'[m] = files[m]
          <5>1. CASE ToStage(b, Pair(b).dst) BY <3>1, <5>1, ToStageMoves
          <5>2. CASE Stays /\ files[Pair(b).dst] = Absent BY <3>1, <5>2 DEF Stays
          <5>3. faults \in Nat BY FaultsAssumption DEF Types
          <5> QED BY <2>2, <3>7, <5>1, <5>2, <5>3, UnfinalStep
        <4>3. Clear(b)'
          <5> SUFFICES ASSUME NEW i \in Out(b), Own(b, src(i))',
                              \A j \in Placed(b)' : dst(j) # src(i)
                       PROVE  files'[src(i)] = Absent
            BY <3>0, <4>0 DEF Clear
          <5>1. CASE src(i) = dst(at[b]) BY <4>2, <5>1
          <5>2. CASE src(i) # dst(at[b])
            <6>1. src(i) \in Names BY <3>1, <3>2
            <6>2. Own(b, src(i)) BY <3>0, <3>3, <6>1
            <6>3. \A j \in Placed(b) : dst(j) # src(i) BY <4>0, <5>2
            <6>4. files[src(i)] = Absent BY <2>3, <3>0, <6>2, <6>3 DEF Clear
            <6> QED BY <4>2, <5>2, <6>1, <6>4
          <5> QED BY <5>1, <5>2
        <4> QED BY <2>4, <4>1, <4>3
      <3>8. CASE Unstage(b)
        <4>0. /\ at[b] \in Out(b) /\ Out(b)' = Out(b) \ {at[b]}
              /\ Placed(b) = {} /\ pc[b] = "unstage"
          BY <3>8, UnstageStep
        <4>1. /\ \A m \in Names : m # src(at[b]) => files'[m] = files[m]
              /\ \A i \in Index(b) : i # at[b] => temps'[b][i] = temps[b][i]
              /\ \/ temps'[b][at[b]] = Absent
                 \/ temps'[b][at[b]] = temps[b][at[b]] /\ files[src(at[b])] # Absent
          <5>1. CASE FromStage(b, Pair(b).src) BY <3>1, <5>1, FromStageMoves
          <5>2. CASE Stays /\ ~MayLand(b, Pair(b).src)
            BY <3>1, <5>2 DEF Stays, MayLand
          <5>3. faults \in Nat BY FaultsAssumption DEF Types
          <5> QED BY <2>2, <3>8, <5>1, <5>2, <5>3, UnstageStep
        <4>2. Clear(b)'
          <5> SUFFICES ASSUME NEW i \in Out(b) \ {at[b]}, Own(b, src(i))'
                       PROVE  files'[src(i)] = Absent
            BY <3>0, <4>0 DEF Clear
          <5>1. src(i) \in Names /\ src(i) # src(at[b]) BY <3>1, <3>2
          <5>2. Own(b, src(i)) BY <3>0, <3>3, <5>1
          <5>3. files[src(i)] = Absent BY <2>3, <3>0, <4>0, <5>2 DEF Clear
          <5> QED BY <4>1, <5>1, <5>3
        <4>3. Blames(b)'
          <5> SUFFICES ASSUME NEW i \in Index(b), i \notin Out(b) \/ i = at[b],
                              temps'[b][i] # Absent
                       PROVE  ~Own(b, src(i))'
            BY <3>0, <3>2, <4>0 DEF Blames
          <5>0. src(i) \in Names BY <3>1
          <5>1. CASE i # at[b]
            <6>1. temps[b][i] # Absent BY <4>1, <5>1
            <6>2. ~Own(b, src(i)) BY <2>3, <4>0, <5>1, <6>1 DEF Blames
            <6> QED BY <3>0, <3>3, <5>0, <6>2
          <5>2. CASE i = at[b]
            <6>1. files[src(i)] # Absent BY <4>1, <5>2
            <6>2. ~Own(b, src(i)) BY <2>3, <3>0, <4>0, <5>2, <6>1 DEF Clear
            <6> QED BY <3>0, <3>3, <5>0, <6>2
          <5> QED BY <5>1, <5>2
        <4> QED BY <2>4, <4>2, <4>3
      <3> QED BY <2>7, <3>5, <3>6, <3>7, <3>8
    <2> QED BY <2>1, <2>5, <2>6, <2>7 DEF Step
  <1>2. CASE UNCHANGED vars
    BY <1>2 DEF vars, Undisturbed, Clear, Blames, Out, Placed, Index, Own, Claims
  <1> QED BY <1>1, <1>2

LEMMA UndisturbedInit == Init => Undisturbed
  <1> SUFFICES ASSUME Init, NEW b \in Batches PROVE Clear(b) /\ Blames(b)
    BY DEF Undisturbed
  <1>1. pc[b] = "idle" BY DEF Init
  <1> QED BY <1>1 DEF Clear, Blames, Work

LEMMA UndisturbedShows == Types /\ Undisturbed => StrandedByAnother
  <1> SUFFICES ASSUME Types, Undisturbed, faults = 0, NEW b \in Batches, pc[b] = "failed",
                      NEW i \in DOMAIN temps[b], temps[b][i] # Absent
               PROVE  \E c \in Batches \ {b} : pairs[b][i].src \in Touches(c)
    BY DEF StrandedByAnother
  <1>1. i \in Index(b) BY DEF Types, Fits
  <1>2. i \notin Out(b) BY DEF Out
  <1>3. ~Own(b, pairs[b][i].src) BY <1>1, <1>2 DEF Undisturbed, Blames
  <1>4. PICK c \in Batches : c # b /\ pairs[b][i].src \in Claims(c) BY <1>3 DEF Own
  <1>5. pairs[c] \in Seq(PairT) BY DEF Types, Fits
  <1>6. DOMAIN pairs[c] = Index(c) BY <1>5, LenProperties DEF Index
  <1>7. PICK k \in Index(c) : pairs[b][i].src \in {pairs[c][k].src, pairs[c][k].dst}
    BY <1>4 DEF Claims
  <1>8. pairs[b][i].src \in Touches(c) BY <1>6, <1>7 DEF Touches
  <1> QED BY <1>4, <1>8

\* A request that failed, though no call failed for an outside reason, has
\* left an entry under a stage name only where another request works on the
\* entry's old name: the rollback never stands in its own way.
THEOREM StrandedOnlyByOthers == Spec => []StrandedByAnother
  <1>1. Init => Types /\ Undisturbed BY TypesInit, UndisturbedInit
  <1>2. Types /\ Undisturbed /\ [Next]_vars => (Types /\ Undisturbed)'
    BY TypesStep, UndisturbedStep
  <1>3. Types /\ Undisturbed => StrandedByAnother BY UndisturbedShows
  <1> QED BY <1>1, <1>2, <1>3, PTL DEF Spec

-----------------------------------------------------------------------------
(***************************************************************************)
(* AllOrNothing.                                                           *)
(***************************************************************************)
Alone(b) == \A c \in Batches : c # b => pc[c] = "idle"

Free(b, n) == before[n] = Absent \/ \E j \in Index(b) : pairs[b][j].src = n

\* What the probes have shown, and that only a failing call leads back.
Probed(b) ==
  /\ pc[b] \in {"idle", "probeSrc", "probeDst"} => files = before
  /\ pc[b] \in {"idle", "probeSrc", "probeDst", "stage", "final"} => faults = 0
  /\ pc[b] = "probeSrc" =>
       \A i \in Index(b) : i < at[b] => before[pairs[b][i].src] # Absent
  /\ pc[b] \in {"probeDst"} \cup Work =>
       \A i \in Index(b) : before[pairs[b][i].src] # Absent
  /\ pc[b] = "probeDst" => \A i \in Index(b) : i < at[b] => Free(b, pairs[b][i].dst)
  /\ pc[b] \in Work => \A i \in Index(b) : Free(b, pairs[b][i].dst)
  /\ pc[b] \in {"unfinal", "unstage"} => faults >= 1

\* Where the entries are.
Laid(b) ==
  /\ \A j \in Placed(b) : files[pairs[b][j].dst] = before[pairs[b][j].src]
  /\ \A i \in Out(b) :
       (\A j \in Placed(b) : pairs[b][j].dst # pairs[b][i].src) => files[pairs[b][i].src] = Absent
  /\ \A n \in Names :
       /\ \A i \in Out(b) : pairs[b][i].src # n
       /\ \A j \in Placed(b) : pairs[b][j].dst # n
       => files[n] = before[n]
  /\ \A i \in Out(b) \ Placed(b) : temps[b][i] = before[pairs[b][i].src]
  /\ \A i \in Index(b) : i \notin Out(b) \/ i \in Placed(b) => temps[b][i] = Absent

Atomic(b) ==
  /\ Probed(b)
  /\ \/ pc[b] \in {"stage", "final", "ok"}
     \/ pc[b] \in {"unfinal", "unstage", "failed"} /\ faults <= 1
     => Laid(b)

AloneInv == \A b \in Batches : Alone(b) => Atomic(b)

\* Nothing renamed yet, or everything put back.
LEMMA LaidAtStart ==
  ASSUME NEW b \in Batches, files = before, Unstaged(b), Out(b) = {}, Placed(b) = {}
  PROVE  Laid(b)
  BY DEF Laid, Unstaged

LEMMA BeginAtomic ==
  ASSUME Types, NEW b \in Batches, Begin(b), before' = before, Atomic(b)
  PROVE  Atomic(b)'
  <1>1. /\ pc[b] = "idle" /\ files' = files /\ faults' = faults
        /\ pc'[b] \in {"ok", "failed", "probeSrc"}
        /\ pc'[b] = "probeSrc" => at'[b] = 1
        /\ Fits(b)' /\ Unstaged(b)' /\ Out(b)' = {} /\ Placed(b)' = {}
    BY BeginStep
  <1>2. files' = before' /\ faults' = 0 BY <1>1 DEF Atomic, Probed
  <1>3. Laid(b)' BY <1>1, <1>2 DEF Laid, Unstaged
  <1>4. \A i \in Index(b)' : ~(i < 1)
    <2>1. pairs'[b] \in Seq(PairT) BY <1>1 DEF Fits
    <2>2. Len(pairs'[b]) \in Nat BY <2>1, LenProperties
    <2> QED BY <2>2 DEF Index
  <1>5. Probed(b)' BY <1>1, <1>2, <1>4 DEF Probed, Work
  <1> QED BY <1>3, <1>5 DEF Atomic

LEMMA ProbeSrcAtomic ==
  ASSUME Types, NEW b \in Batches, ProbeSrc(b), before' = before, Atomic(b)
  PROVE  Atomic(b)'
  <1>1. /\ pc[b] = "probeSrc" /\ Stays /\ pairs' = pairs
        /\ \/ faults' = faults
           \/ faults' = faults + 1 /\ faults < MaxFaults /\ pc'[b] = "failed"
        /\ Unstaged(b)' /\ Out(b)' = {} /\ Placed(b)' = {}
        /\ \/ /\ files[Pair(b).src] # Absent
              /\ \/ pc'[b] = "probeSrc" /\ at'[b] = at[b] + 1
                 \/ pc'[b] = "probeDst" /\ at'[b] = 1 /\ at[b] = Len(pairs[b])
           \/ pc'[b] = "failed"
    BY ProbeSrcStep
  <1>2. files' = before' /\ files = before /\ faults = 0
    BY <1>1 DEF Atomic, Probed, Stays
  <1>3. Laid(b)' BY <1>1, <1>2 DEF Laid, Unstaged
  <1>4. /\ Len(pairs[b]) \in Nat /\ at[b] \in Nat /\ Pair(b) = pairs[b][at[b]]
        /\ at[b] \in Index(b)
    BY <1>1, AtPair DEF Loops
  <1>5. Index(b)' = Index(b) /\ \A i \in Index(b) : i \in Nat /\ 1 <= i /\ i <= Len(pairs[b])
    BY <1>1, <1>4 DEF Index
  <1>6. \A i \in Index(b) : i < at[b] => before[pairs[b][i].src] # Absent
    BY <1>1 DEF Atomic, Probed
  <1>7. CASE files[Pair(b).src] # Absent /\ pc'[b] # "failed"
    <2>1. \A i \in Index(b) : i <= at[b] => before[pairs[b][i].src] # Absent
      BY <1>2, <1>4, <1>5, <1>6, <1>7
    <2>2. CASE pc'[b] = "probeSrc" /\ at'[b] = at[b] + 1
      <3>1. \A i \in Index(b) : i < at'[b] => before'[pairs'[b][i].src] # Absent
        BY <1>1, <1>4, <1>5, <2>1, <2>2
      <3>2. Probed(b)' BY <1>1, <1>2, <1>5, <2>2, <3>1 DEF Probed, Work
      <3> QED BY <1>3, <3>2 DEF Atomic
    <2>3. CASE pc'[b] = "probeDst" /\ at'[b] = 1 /\ at[b] = Len(pairs[b])
      <3>1. \A i \in Index(b) : before'[pairs'[b][i].src] # Absent
        BY <1>1, <1>5, <2>1, <2>3
      <3>2. \A i \in Index(b) : ~(i < at'[b]) BY <1>5, <2>3
      <3>3. Probed(b)' BY <1>1, <1>2, <1>5, <2>3, <3>1, <3>2 DEF Probed, Work
      <3> QED BY <1>3, <3>3 DEF Atomic
    <2> QED BY <1>1, <1>7, <2>2, <2>3
  <1>8. CASE pc'[b] = "failed"
    <2>1. Probed(b)' BY <1>8 DEF Probed, Work
    <2> QED BY <1>3, <2>1 DEF Atomic
  <1> QED BY <1>1, <1>7, <1>8

LEMMA ProbeDstAtomic ==
  ASSUME Types, NEW b \in Batches, ProbeDst(b), before' = before, Atomic(b)
  PROVE  Atomic(b)'
  <1>1. /\ pc[b] = "probeDst" /\ files' = files
        /\ \/ faults' = faults
           \/ faults' = faults + 1 /\ faults < MaxFaults /\ pc'[b] = "failed"
        /\ Unstaged(b)' /\ Out(b)' = {} /\ Placed(b)' = {}
    BY ProbeDstStep
  <1>2. files' = before' /\ files = before /\ faults = 0 BY <1>1 DEF Atomic, Probed
  <1>3. Laid(b)' BY <1>1, <1>2 DEF Laid, Unstaged
  <1>4. /\ Len(pairs[b]) \in Nat /\ at[b] \in Nat /\ Pair(b) = pairs[b][at[b]]
        /\ at[b] \in Index(b) /\ DOMAIN pairs[b] = Index(b)
        /\ \A i, j \in Index(b) :
             i # j => pairs[b][i].src # pairs[b][j].src /\ pairs[b][i].dst # pairs[b][j].dst
    BY <1>1, AtPair DEF Loops
  <1>5. \A i \in Index(b) : i \in Nat /\ 1 <= i /\ i <= Len(pairs[b])
    BY <1>4 DEF Index
  <1>6. /\ \A i \in Index(b) : before[pairs[b][i].src] # Absent
        /\ \A i \in Index(b) : i < at[b] => Free(b, pairs[b][i].dst)
    BY <1>1 DEF Atomic, Probed
  <1>7. FreeOrOwn(b, Pair(b).dst) => \A i \in Index(b) : i <= at[b] => Free(b, pairs[b][i].dst)
    <2> SUFFICES ASSUME FreeOrOwn(b, Pair(b).dst), NEW i \in Index(b), i <= at[b]
                 PROVE  Free(b, pairs[b][i].dst)
      OBVIOUS
    <2>1. Free(b, Pair(b).dst) BY <1>2, <1>4 DEF FreeOrOwn, Free, Sources
    <2>2. i < at[b] \/ i = at[b] BY <1>4, <1>5
    <2> QED BY <1>4, <1>6, <2>1, <2>2
  <1>8. CASE /\ FreeOrOwn(b, Pair(b).dst) /\ pairs' = pairs
             /\ pc'[b] = "probeDst" /\ at'[b] = at[b] + 1
    <2>1. Index(b)' = Index(b) BY <1>8 DEF Index
    <2>2. \A n : Free(b, n)' <=> Free(b, n) BY <1>2, <1>8, <2>1 DEF Free
    <2>3. \A i \in Index(b) : i < at'[b] => i <= at[b] BY <1>4, <1>5, <1>8
    <2>4. \A i \in Index(b) : i < at'[b] => Free(b, pairs[b][i].dst)'
      <3> SUFFICES ASSUME NEW i \in Index(b), i < at'[b] PROVE Free(b, pairs[b][i].dst)'
        OBVIOUS
      <3>1. Free(b, pairs[b][i].dst) BY <1>7, <1>8, <2>3
      <3> QED BY <1>8, <2>1, <3>1 DEF Free
    <2>5. faults' = 0 BY <1>1, <1>2, <1>8
    <2>6. Probed(b)' BY <1>2, <1>6, <1>8, <2>1, <2>4, <2>5 DEF Probed, Work
    <2> QED BY <1>3, <2>6 DEF Atomic
  <1>9. CASE /\ FreeOrOwn(b, Pair(b).dst) /\ at[b] = Len(pairs[b])
             /\ pc'[b] \in {"ok", "stage"}
             /\ \E n \in Nat : \E ix \in [1 .. n -> DOMAIN pairs[b]] :
                  Changing(b, ix) /\ pairs'[b] = Active(b, ix)
    <2>0. PICK n \in Nat : \E ix \in [1 .. n -> DOMAIN pairs[b]] :
                  Changing(b, ix) /\ pairs'[b] = Active(b, ix)
      BY <1>9
    <2>1. PICK ix \in [1 .. n -> DOMAIN pairs[b]] :
                  Changing(b, ix) /\ pairs'[b] = Active(b, ix)
      BY <2>0
    <2>2. pairs[b] \in Seq(PairT) /\ Distinct(pairs[b])
      BY <1>1 DEF Types, Fits, Loops
    <2>3. /\ Len(pairs'[b]) = n
          /\ \A k \in 1 .. n : pairs'[b][k] = pairs[b][ix[k]]
          /\ \A k \in 1 .. n : pairs'[b][k].src # pairs'[b][k].dst
      <3>1. /\ Len(Active(b, ix)) = n
            /\ \A k \in 1 .. n : Active(b, ix)[k] = pairs[b][ix[k]]
            /\ \A k \in 1 .. n : Active(b, ix)[k].src # Active(b, ix)[k].dst
        BY <2>1, <2>2, ActiveFits
      <3> QED BY <2>1, <3>1
    <2>4. Index(b)' = 1 .. n BY <2>3 DEF Index
    <2>5. \A k \in Index(b)' : ix[k] \in Index(b) /\ pairs'[b][k] = pairs[b][ix[k]]
      BY <1>4, <2>1, <2>3, <2>4
    <2>6. \A k \in Index(b)' : before'[pairs'[b][k].src] # Absent
      BY <1>6, <2>5
    <2>7. \A k \in Index(b)' : \/ before'[pairs'[b][k].dst] = Absent
                                \/ \E l \in Index(b)' : pairs'[b][l].src = pairs'[b][k].dst
      <3> SUFFICES ASSUME NEW k \in Index(b)'
                   PROVE  \/ before'[pairs'[b][k].dst] = Absent
                          \/ \E l \in Index(b)' : pairs'[b][l].src = pairs'[b][k].dst
        OBVIOUS
      <3>0. PICK m : m = pairs[b][ix[k]].dst /\ m = pairs'[b][k].dst BY <2>5
      <3>1. ix[k] \in Index(b) /\ ix[k] <= at[b] BY <1>5, <1>9, <2>5
      <3>2. before[m] = Absent \/ \E j \in Index(b) : pairs[b][j].src = m
        BY <1>7, <1>9, <3>0, <3>1 DEF Free
      <3>3. CASE before[m] = Absent BY <3>0, <3>3
      <3>4. CASE \E j \in Index(b) : pairs[b][j].src = m
        <4>1. PICK j \in Index(b) : pairs[b][j].src = m BY <3>4
        <4>2. CASE pairs[b][j].src = pairs[b][j].dst
          <5>1. j = ix[k] BY <1>4, <3>0, <3>1, <4>1, <4>2
          <5>2. pairs[b][ix[k]].src # pairs[b][ix[k]].dst BY <2>3, <2>4, <2>5
          <5> QED BY <4>2, <5>1, <5>2
        <4>3. CASE pairs[b][j].src # pairs[b][j].dst
          <5>1. j \in {ix[l] : l \in DOMAIN ix} BY <1>4, <2>1, <4>3 DEF Changing
          <5>2. PICK l \in DOMAIN ix : j = ix[l] BY <5>1
          <5>3. l \in Index(b)' BY <2>1, <2>4
          <5>4. pairs'[b][l].src = m BY <2>5, <4>1, <5>2, <5>3
          <5> QED BY <3>0, <5>3, <5>4
        <4> QED BY <4>2, <4>3
      <3> QED BY <3>2, <3>3, <3>4
    <2>8. faults' = 0 BY <1>1, <1>2, <1>9
    <2>9. Probed(b)' BY <1>9, <2>6, <2>7, <2>8 DEF Probed, Work, Free
    <2> QED BY <1>3, <2>9 DEF Atomic
  <1>10. CASE pc'[b] = "failed"
    <2>1. Probed(b)' BY <1>10 DEF Probed, Work
    <2> QED BY <1>3, <2>1 DEF Atomic
  <1> QED BY <1>8, <1>9, <1>10, ProbeDstStep

\* What the four loops have in common.
LEMMA AtWork ==
  ASSUME Types, NEW b \in Batches, pc[b] \in Work, pairs' = pairs, before' = before
  PROVE  /\ at[b] \in Index(b) /\ Pair(b) = pairs[b][at[b]]
         /\ Index(b)' = Index(b)
         /\ Out(b) \subseteq Index(b) /\ Placed(b) \subseteq Index(b)
         /\ \A i \in Index(b) : pairs[b][i].src \in Names /\ pairs[b][i].dst \in Names
         /\ \A i, j \in Index(b) :
              i # j => pairs[b][i].src # pairs[b][j].src /\ pairs[b][i].dst # pairs[b][j].dst
         /\ \A n : Free(b, n)' <=> Free(b, n)
         /\ faults \in Nat
  <1>1. pc[b] \in Loops BY DEF Work, Loops
  <1>2. Index(b)' = Index(b) BY DEF Index
  <1>3. \A n : Free(b, n)' <=> Free(b, n) BY <1>2 DEF Free
  <1>4. faults \in Nat BY FaultsAssumption DEF Types
  <1>5. Out(b) \subseteq Index(b) /\ Placed(b) \subseteq Index(b) BY DEF Out, Placed
  <1> QED BY <1>1, <1>2, <1>3, <1>4, <1>5, AtPair

\* In the loops that rename, the probes stay true.
LEMMA StillProbed ==
  ASSUME Types, NEW b \in Batches, pc[b] \in Work, pairs' = pairs, before' = before,
         Probed(b), pc'[b] \in Work \cup {"ok", "failed"},
         pc'[b] \in {"stage", "final"} => faults' = 0,
         pc'[b] \in {"unfinal", "unstage"} => faults' >= 1
  PROVE  Probed(b)'
  <1>1. Index(b)' = Index(b) BY AtWork
  <1>2. \A i \in Index(b) : before[pairs[b][i].src] # Absent /\ Free(b, pairs[b][i].dst)
    BY DEF Probed
  <1>3. \A i \in Index(b)' : before'[pairs'[b][i].src] # Absent /\ Free(b, pairs[b][i].dst)'
    BY <1>1, <1>2 DEF Free
  <1> QED BY <1>3 DEF Probed, Work

\* Nothing moved, and the request stands where it stood.
LEMMA StillLaid ==
  ASSUME NEW b \in Batches, Stays, pairs' = pairs, before' = before,
         Index(b)' = Index(b), Out(b)' = Out(b), Placed(b)' = Placed(b), Laid(b)
  PROVE  Laid(b)'
  BY DEF Laid, Stays

LEMMA StageAtomic ==
  ASSUME Types, NEW b \in Batches, Stage(b), before' = before, Atomic(b)
  PROVE  Atomic(b)'
  <1> DEFINE src(i) == pairs[b][i].src
             dst(i) == pairs[b][i].dst
             k == at[b]
  <1>0. pc[b] = "stage" /\ pairs' = pairs BY DEF Stage
  <1>1. /\ k \in Index(b) /\ Pair(b) = pairs[b][k]
        /\ Index(b)' = Index(b) /\ Out(b) \subseteq Index(b)
        /\ \A i \in Index(b) : src(i) \in Names
        /\ \A i, j \in Index(b) : i # j => src(i) # src(j)
        /\ faults \in Nat
    BY <1>0, AtWork DEF Work
  <1>2. Probed(b) /\ Laid(b) BY <1>0 DEF Atomic
  <1>3. faults = 0 /\ before[src(k)] # Absent BY <1>0, <1>1, <1>2 DEF Probed, Work
  <1>4. k \notin Out(b) /\ Placed(b) = {} /\ Placed(b)' = {} BY StageStep
  <1>5. files[src(k)] = before[src(k)]
    <2>1. \A i \in Out(b) : src(i) # src(k) BY <1>1, <1>4
    <2> QED BY <1>1, <1>2, <1>4, <2>1 DEF Laid
  <1>6. CASE /\ ToStage(b, Pair(b).src) /\ Out(b)' = Out(b) \cup {k}
             /\ pc'[b] \in {"stage", "final"} /\ faults' = faults
    <2>1. /\ files'[src(k)] = Absent
          /\ \A m \in Names : m # src(k) => files'[m] = files[m]
          /\ temps'[b][k] = files[src(k)]
          /\ \A i \in Index(b) : i # k => temps'[b][i] = temps[b][i]
      BY <1>1, <1>6, ToStageMoves
    <2>2. \A i \in Out(b)' : files'[src(i)] = Absent
      <3> SUFFICES ASSUME NEW i \in Out(b), i # k PROVE files'[src(i)] = Absent
        BY <1>6, <2>1
      <3>1. src(i) \in Names /\ src(i) # src(k) BY <1>1
      <3>2. files[src(i)] = Absent BY <1>2, <1>4 DEF Laid
      <3> QED BY <2>1, <3>1, <3>2
    <2>3. \A n \in Names : (\A i \in Out(b)' : src(i) # n) => files'[n] = before[n]
      <3> SUFFICES ASSUME NEW n \in Names, \A i \in Out(b) \cup {k} : src(i) # n
                   PROVE  files'[n] = before[n]
        BY <1>6
      <3>1. files[n] = before[n] BY <1>2, <1>4 DEF Laid
      <3> QED BY <2>1, <3>1
    <2>4. \A i \in Out(b)' : temps'[b][i] = before[src(i)]
      <3> SUFFICES ASSUME NEW i \in Out(b), i # k PROVE temps'[b][i] = before[src(i)]
        BY <1>5, <1>6, <2>1
      <3>1. temps[b][i] = before[src(i)] BY <1>2, <1>4 DEF Laid
      <3> QED BY <1>1, <2>1, <3>1
    <2>5. \A i \in Index(b) : i \notin Out(b)' => temps'[b][i] = Absent
      BY <1>2, <1>6, <2>1 DEF Laid
    <2>6. Laid(b)' BY <1>0, <1>1, <1>4, <2>2, <2>3, <2>4, <2>5 DEF Laid
    <2>7. Probed(b)' BY <1>0, <1>2, <1>3, <1>6, StillProbed DEF Work
    <2> QED BY <2>6, <2>7 DEF Atomic
  <1>7. CASE /\ Stays /\ Out(b)' = Out(b) /\ pc'[b] \in {"unstage", "failed"}
             /\ faults' = faults + 1
    <2>1. Laid(b)' BY <1>0, <1>1, <1>2, <1>4, <1>7, StillLaid
    <2>2. faults' >= 1 BY <1>3, <1>7
    <2>3. Probed(b)' BY <1>0, <1>2, <1>7, <2>2, StillProbed DEF Work
    <2> QED BY <2>1, <2>3 DEF Atomic
  <1> QED BY <1>1, <1>3, <1>5, <1>6, <1>7, StageStep

LEMMA FinalAtomic ==
  ASSUME Types, NEW b \in Batches, Final(b), before' = before, Atomic(b)
  PROVE  Atomic(b)'
  <1> DEFINE src(i) == pairs[b][i].src
             dst(i) == pairs[b][i].dst
             k == at[b]
  <1>0. pc[b] = "final" /\ pairs' = pairs BY DEF Final
  <1>1. /\ k \in Index(b) /\ Pair(b) = pairs[b][k]
        /\ Index(b)' = Index(b) /\ Placed(b) \subseteq Index(b)
        /\ \A i \in Index(b) : src(i) \in Names /\ dst(i) \in Names
        /\ \A i, j \in Index(b) : i # j => src(i) # src(j) /\ dst(i) # dst(j)
        /\ faults \in Nat
    BY <1>0, AtWork DEF Work
  <1>2. Probed(b) /\ Laid(b) BY <1>0 DEF Atomic
  <1>3. /\ faults = 0 /\ before[src(k)] # Absent
        /\ before[dst(k)] = Absent \/ \E j \in Index(b) : src(j) = dst(k)
    BY <1>0, <1>1, <1>2 DEF Probed, Work, Free
  <1>4. Out(b) = Index(b) /\ Out(b)' = Out(b) /\ k \notin Placed(b) BY FinalStep
  <1>5. temps[b][k] = before[src(k)] BY <1>1, <1>2, <1>4 DEF Laid
  <1>6. files[dst(k)] = Absent
    <2>1. \A j \in Placed(b) : dst(j) # dst(k) BY <1>1, <1>4
    <2>2. CASE \E i \in Index(b) : src(i) = dst(k)
      <3>1. PICK i \in Index(b) : src(i) = dst(k) BY <2>2
      <3> QED BY <1>2, <1>4, <2>1, <3>1 DEF Laid
    <2>3. CASE \A i \in Index(b) : src(i) # dst(k)
      <3>1. files[dst(k)] = before[dst(k)] BY <1>1, <1>2, <1>4, <2>1, <2>3 DEF Laid
      <3> QED BY <1>3, <2>3, <3>1
    <2> QED BY <2>2, <2>3
  <1>7. MayLand(b, Pair(b).dst) BY <1>1, <1>3, <1>5, <1>6 DEF MayLand
  <1>8. CASE /\ FromStage(b, Pair(b).dst) /\ Placed(b)' = Placed(b) \cup {k}
             /\ pc'[b] \in {"final", "ok"} /\ faults' = faults
    <2>1. /\ files'[dst(k)] = temps[b][k]
          /\ \A m \in Names : m # dst(k) => files'[m] = files[m]
          /\ temps'[b][k] = Absent
          /\ \A i \in Index(b) : i # k => temps'[b][i] = temps[b][i]
      BY <1>1, <1>8, FromStageMoves
    <2>2. \A j \in Placed(b)' : files'[dst(j)] = before[src(j)]
      <3> SUFFICES ASSUME NEW j \in Placed(b), j # k PROVE files'[dst(j)] = before[src(j)]
        BY <1>5, <1>8, <2>1
      <3>1. dst(j) \in Names /\ dst(j) # dst(k) BY <1>1
      <3>2. files[dst(j)] = before[src(j)] BY <1>2 DEF Laid
      <3> QED BY <2>1, <3>1, <3>2
    <2>3. \A i \in Out(b) : (\A j \in Placed(b)' : dst(j) # src(i)) => files'[src(i)] = Absent
      <3> SUFFICES ASSUME NEW i \in Out(b), \A j \in Placed(b) \cup {k} : dst(j) # src(i)
                   PROVE  files'[src(i)] = Absent
        BY <1>8
      <3>1. files[src(i)] = Absent BY <1>2 DEF Laid
      <3> QED BY <1>1, <1>4, <2>1, <3>1
    <2>4. \A n \in Names : /\ \A i \in Out(b) : src(i) # n
                           /\ \A j \in Placed(b)' : dst(j) # n
                           => files'[n] = before[n]
      <3> SUFFICES ASSUME NEW n \in Names, \A i \in Out(b) : src(i) # n,
                          \A j \in Placed(b) \cup {k} : dst(j) # n
                   PROVE  files'[n] = before[n]
        BY <1>8
      <3>1. files[n] = before[n] BY <1>2 DEF Laid
      <3> QED BY <2>1, <3>1
    <2>5. \A i \in Out(b) \ Placed(b)' : temps'[b][i] = before[src(i)]
      BY <1>2, <1>4, <1>8, <2>1 DEF Laid
    <2>6. \A i \in Index(b) : i \notin Out(b) \/ i \in Placed(b)' => temps'[b][i] = Absent
      BY <1>2, <1>4, <1>8, <2>1 DEF Laid
    <2>7. Laid(b)' BY <1>0, <1>1, <1>4, <2>2, <2>3, <2>4, <2>5, <2>6 DEF Laid
    <2>8. Probed(b)' BY <1>0, <1>2, <1>3, <1>8, StillProbed DEF Work
    <2> QED BY <2>7, <2>8 DEF Atomic
  <1>9. CASE /\ Stays /\ Placed(b)' = Placed(b) /\ pc'[b] \in {"unfinal", "unstage"}
             /\ faults' = faults + 1
    <2>1. Laid(b)' BY <1>0, <1>1, <1>2, <1>4, <1>9, StillLaid
    <2>2. faults' >= 1 BY <1>3, <1>9
    <2>3. Probed(b)' BY <1>0, <1>2, <1>9, <2>2, StillProbed DEF Work
    <2> QED BY <2>1, <2>3 DEF Atomic
  <1> QED BY <1>7, <1>8, <1>9, FinalStep

LEMMA UnfinalAtomic ==
  ASSUME Types, NEW b \in Batches, Unfinal(b), before' = before, Atomic(b)
  PROVE  Atomic(b)'
  <1> DEFINE src(i) == pairs[b][i].src
             dst(i) == pairs[b][i].dst
             k == at[b]
  <1>0. pc[b] = "unfinal" /\ pairs' = pairs BY DEF Unfinal
  <1>1. /\ k \in Index(b) /\ Pair(b) = pairs[b][k]
        /\ Index(b)' = Index(b) /\ Placed(b) \subseteq Index(b)
        /\ \A i \in Index(b) : src(i) \in Names /\ dst(i) \in Names
        /\ \A i, j \in Index(b) : i # j => src(i) # src(j) /\ dst(i) # dst(j)
        /\ faults \in Nat
    BY <1>0, AtWork DEF Work
  <1>2. /\ Probed(b) /\ faults >= 1 /\ before[src(k)] # Absent
        /\ before[dst(k)] = Absent \/ \E j \in Index(b) : src(j) = dst(k)
    BY <1>0, <1>1 DEF Atomic, Probed, Work, Free
  <1>3. /\ pc'[b] \in {"unfinal", "unstage"}
        /\ faults' = faults \/ faults' = faults + 1
    BY UnfinalStep
  <1>4. Probed(b)'
    <2>1. faults' >= 1 BY <1>1, <1>2, <1>3
    <2> QED BY <1>0, <1>2, <1>3, <2>1, StillProbed DEF Work
  <1>5. ASSUME faults' <= 1 PROVE Laid(b)'
    <2>1. faults' = faults /\ faults <= 1 BY <1>1, <1>2, <1>3, <1>5
    <2>2. Laid(b) BY <1>0, <2>1 DEF Atomic
    <2>3. /\ Out(b) = Index(b) /\ Out(b)' = Out(b)
          /\ k \in Placed(b) /\ Placed(b)' = Placed(b) \ {k}
      BY UnfinalStep
    <2>4. files[dst(k)] = before[src(k)] BY <2>2, <2>3 DEF Laid
    <2>5. ToStage(b, dst(k)) BY <1>1, <1>2, <2>1, <2>4, UnfinalStep
    <2>6. /\ files'[dst(k)] = Absent
          /\ \A m \in Names : m # dst(k) => files'[m] = files[m]
          /\ temps'[b][k] = files[dst(k)]
          /\ \A i \in Index(b) : i # k => temps'[b][i] = temps[b][i]
      BY <1>1, <2>5, ToStageMoves
    <2>7. \A j \in Placed(b)' : files'[dst(j)] = before[src(j)]
      <3> SUFFICES ASSUME NEW j \in Placed(b), j # k PROVE files'[dst(j)] = before[src(j)]
        BY <2>3
      <3>1. dst(j) \in Names /\ dst(j) # dst(k) BY <1>1
      <3>2. files[dst(j)] = before[src(j)] BY <2>2 DEF Laid
      <3> QED BY <2>6, <3>1, <3>2
    <2>8. \A i \in Out(b) : (\A j \in Placed(b)' : dst(j) # src(i)) => files'[src(i)] = Absent
      <3> SUFFICES ASSUME NEW i \in Out(b), \A j \in Placed(b) : j # k => dst(j) # src(i),
                          src(i) # dst(k)
                   PROVE  files'[src(i)] = Absent
        BY <2>3, <2>6
      <3>1. files[src(i)] = Absent BY <2>2 DEF Laid
      <3> QED BY <1>1, <2>3, <2>6, <3>1
    <2>9. \A n \in Names : /\ \A i \in Out(b) : src(i) # n
                           /\ \A j \in Placed(b)' : dst(j) # n
                           => files'[n] = before[n]
      <3> SUFFICES ASSUME NEW n \in Names, \A i \in Out(b) : src(i) # n,
                          \A j \in Placed(b) : j # k => dst(j) # n
                   PROVE  files'[n] = before[n]
        BY <2>3
      <3>1. CASE n = dst(k) BY <1>2, <2>3, <2>6, <3>1
      <3>2. CASE n # dst(k)
        <4>1. files[n] = before[n] BY <2>2, <3>2 DEF Laid
        <4> QED BY <2>6, <3>2, <4>1
      <3> QED BY <3>1, <3>2
    <2>10. \A i \in Out(b) \ Placed(b)' : temps'[b][i] = before[src(i)]
      <3> SUFFICES ASSUME NEW i \in Out(b), i \notin Placed(b), i # k
                   PROVE  temps'[b][i] = before[src(i)]
        BY <2>3, <2>4, <2>6
      <3>1. temps[b][i] = before[src(i)] BY <2>2 DEF Laid
      <3> QED BY <2>3, <2>6, <3>1
    <2>11. \A i \in Index(b) : i \notin Out(b) \/ i \in Placed(b)' => temps'[b][i] = Absent
      BY <2>2, <2>3, <2>6 DEF Laid
    <2> QED BY <1>0, <1>1, <2>3, <2>7, <2>8, <2>9, <2>10, <2>11 DEF Laid
  <1> QED BY <1>3, <1>4, <1>5 DEF Atomic

LEMMA UnstageAtomic ==
  ASSUME Types, NEW b \in Batches, Unstage(b), before' = before, Atomic(b)
  PROVE  Atomic(b)'
  <1> DEFINE src(i) == pairs[b][i].src
             k == at[b]
  <1>0. pc[b] = "unstage" /\ pairs' = pairs BY DEF Unstage
  <1>1. /\ k \in Index(b) /\ Pair(b) = pairs[b][k]
        /\ Index(b)' = Index(b) /\ Out(b) \subseteq Index(b)
        /\ \A i \in Index(b) : src(i) \in Names
        /\ \A i, j \in Index(b) : i # j => src(i) # src(j)
        /\ faults \in Nat
    BY <1>0, AtWork DEF Work
  <1>2. Probed(b) /\ faults >= 1 /\ before[src(k)] # Absent
    BY <1>0, <1>1 DEF Atomic, Probed, Work
  <1>3. /\ pc'[b] \in {"unstage", "failed"}
        /\ faults' = faults \/ faults' = faults + 1
    BY UnstageStep
  <1>4. Probed(b)'
    <2>1. faults' >= 1 BY <1>1, <1>2, <1>3
    <2> QED BY <1>0, <1>2, <1>3, <2>1, StillProbed DEF Work
  <1>5. ASSUME faults' <= 1 PROVE Laid(b)'
    <2>1. faults' = faults /\ faults <= 1 BY <1>1, <1>2, <1>3, <1>5
    <2>2. Laid(b) BY <1>0, <2>1 DEF Atomic
    <2>3. /\ Placed(b) = {} /\ Placed(b)' = {}
          /\ k \in Out(b) /\ Out(b)' = Out(b) \ {k}
      BY UnstageStep
    <2>4. temps[b][k] = before[src(k)] /\ files[src(k)] = Absent BY <2>2, <2>3 DEF Laid
    <2>5. MayLand(b, src(k)) BY <1>2, <2>4 DEF MayLand
    <2>6. FromStage(b, src(k)) BY <1>1, <2>1, <2>5, UnstageStep
    <2>7. /\ files'[src(k)] = temps[b][k]
          /\ \A m \in Names : m # src(k) => files'[m] = files[m]
          /\ temps'[b][k] = Absent
          /\ \A i \in Index(b) : i # k => temps'[b][i] = temps[b][i]
      BY <1>1, <2>6, FromStageMoves
    <2>8. \A i \in Out(b)' : files'[src(i)] = Absent
      <3> SUFFICES ASSUME NEW i \in Out(b), i # k PROVE files'[src(i)] = Absent
        BY <2>3
      <3>1. src(i) \in Names /\ src(i) # src(k) BY <1>1
      <3>2. files[src(i)] = Absent BY <2>2, <2>3 DEF Laid
      <3> QED BY <2>7, <3>1, <3>2
    <2>9. \A n \in Names : (\A i \in Out(b)' : src(i) # n) => files'[n] = before[n]
      <3> SUFFICES ASSUME NEW n \in Names, \A i \in Out(b) : i # k => src(i) # n
                   PROVE  files'[n] = before[n]
        BY <2>3
      <3>1. CASE n = src(k) BY <2>4, <2>7, <3>1
      <3>2. CASE n # src(k)
        <4>1. files[n] = before[n] BY <2>2, <2>3, <3>2 DEF Laid
        <4> QED BY <2>7, <3>2, <4>1
      <3> QED BY <3>1, <3>2
    <2>10. \A i \in Out(b)' : temps'[b][i] = before[src(i)]
      <3> SUFFICES ASSUME NEW i \in Out(b), i # k PROVE temps'[b][i] = before[src(i)]
        BY <2>3
      <3>1. temps[b][i] = before[src(i)] BY <2>2, <2>3 DEF Laid
      <3> QED BY <1>1, <2>7, <3>1
    <2>11. \A i \in Index(b) : i \notin Out(b)' => temps'[b][i] = Absent
      BY <2>2, <2>3, <2>7 DEF Laid
    <2> QED BY <1>0, <1>1, <2>3, <2>8, <2>9, <2>10, <2>11 DEF Laid
  <1> QED BY <1>3, <1>4, <1>5 DEF Atomic

LEMMA AloneStep ==
  ASSUME Types, AloneInv, [Next]_vars
  PROVE  AloneInv'
  <1>1. CASE Next
    <2>1. PICK b \in Batches : Step(b) BY <1>1, NextIsAStep
    <2> SUFFICES ASSUME NEW c \in Batches, Alone(c)' PROVE Atomic(c)'
      BY DEF AloneInv
    <2>2. pc'[b] # "idle"
      <3>1. CASE Begin(b) \/ Cancel(b) BY <3>1, BeginStep, CancelStep
      <3>2. CASE ProbeSrc(b) \/ ProbeDst(b) BY <3>2, ProbeSrcStep, ProbeDstStep
      <3>3. CASE Stage(b) \/ Final(b) BY <3>3, StageStep, FinalStep
      <3>4. CASE Unfinal(b) \/ Unstage(b) BY <3>4, UnfinalStep, UnstageStep
      <3> QED BY <2>1, <3>1, <3>2, <3>3, <3>4 DEF Step
    <2>3. c = b BY <2>2 DEF Alone
    <2>4. Alone(b) BY <2>1, <2>3, OthersStay DEF Alone
    <2>5. Atomic(b) BY <2>4 DEF AloneInv
    <2>6. before' = before BY <2>1, OthersStay
    <2>7. CASE Begin(b) \/ ProbeSrc(b) \/ ProbeDst(b)
      BY <2>3, <2>5, <2>6, <2>7, BeginAtomic, ProbeSrcAtomic, ProbeDstAtomic
    <2>8. CASE Stage(b) \/ Final(b)
      BY <2>3, <2>5, <2>6, <2>8, StageAtomic, FinalAtomic
    <2>9. CASE Unfinal(b) \/ Unstage(b)
      BY <2>3, <2>5, <2>6, <2>9, UnfinalAtomic, UnstageAtomic
    <2>10. CASE Cancel(b)
      <3>1. pc'[b] = "cancelled" BY <2>10, CancelStep
      <3>2. Atomic(b)' BY <3>1 DEF Atomic, Probed, Work
      <3> QED BY <2>3, <3>2
    <2> QED BY <2>1, <2>7, <2>8, <2>9, <2>10 DEF Step
  <1>2. CASE UNCHANGED vars
    BY <1>2 DEF vars, AloneInv, Alone, Atomic, Probed, Laid, Free, Out, Placed, Index
  <1> QED BY <1>1, <1>2

LEMMA AloneInit == Init => AloneInv
  <1> SUFFICES ASSUME Init, NEW b \in Batches PROVE Atomic(b)
    BY DEF AloneInv
  <1>1. pc[b] = "idle" /\ files = before /\ faults = 0 BY DEF Init
  <1> QED BY <1>1 DEF Atomic, Probed, Work

LEMMA AloneShows == Types /\ AloneInv => AllOrNothing
  <1> SUFFICES ASSUME Types, NEW b \in Batches, Alone(b), Atomic(b)
               PROVE  /\ pc[b] = "ok" => files = Renamed(before, pairs[b])
                      /\ pc[b] = "failed" /\ faults <= 1 =>
                           files = before /\ \A i \in DOMAIN temps[b] : temps[b][i] = Absent
    BY DEF AllOrNothing, AloneInv, Alone
  <1>1. /\ files \in [Names -> Entry] /\ before \in [Names -> Entry]
        /\ DOMAIN temps[b] = Index(b) /\ pairs[b] \in Seq(PairT)
    BY DEF Types, Fits
  <1>2. DOMAIN pairs[b] = Index(b) BY <1>1, LenProperties DEF Index
  <1>3. ASSUME pc[b] = "ok" PROVE files = Renamed(before, pairs[b])
    <2>1. Laid(b) BY <1>3 DEF Atomic
    <2>2. Out(b) = Index(b) /\ Placed(b) = Index(b) BY <1>3 DEF Out, Placed
    <2> DEFINE R == Renamed(before, pairs[b])
    <2>3. \A n \in Names : files[n] = R[n]
      <3> SUFFICES ASSUME NEW n \in Names PROVE files[n] = R[n] OBVIOUS
      <3>1. CASE \E i \in Index(b) : pairs[b][i].dst = n
        <4> DEFINE i == CHOOSE i \in DOMAIN pairs[b] : pairs[b][i].dst = n
        <4>1. i \in Index(b) /\ pairs[b][i].dst = n BY <1>2, <3>1
        <4>2. R[n] = before[pairs[b][i].src] BY <1>2, <3>1 DEF Renamed
        <4> HIDE DEF i
        <4> QED BY <2>1, <2>2, <4>1, <4>2 DEF Laid
      <3>2. CASE ~\E i \in Index(b) : pairs[b][i].dst = n
        <4>1. R[n] = IF \E i \in Index(b) : pairs[b][i].src = n THEN Absent ELSE before[n]
          BY <1>2, <3>2 DEF Renamed
        <4>2. CASE \E i \in Index(b) : pairs[b][i].src = n
          <5>1. PICK i \in Index(b) : pairs[b][i].src = n BY <4>2
          <5>2. files[n] = Absent BY <2>1, <2>2, <3>2, <5>1 DEF Laid
          <5> QED BY <4>1, <4>2, <5>2
        <4>3. CASE ~\E i \in Index(b) : pairs[b][i].src = n
          <5>1. files[n] = before[n] BY <2>1, <2>2, <3>2, <4>3 DEF Laid
          <5> QED BY <4>1, <4>3, <5>1
        <4> QED BY <4>2, <4>3
      <3> QED BY <3>1, <3>2
    <2>4. R = [n \in Names |-> R[n]] BY DEF Renamed
    <2>5. files = [n \in Names |-> files[n]] BY <1>1
    <2> HIDE DEF R
    <2>6. files = R BY <2>3, <2>4, <2>5
    <2> QED BY <2>6 DEF R
  <1>4. ASSUME pc[b] = "failed", faults <= 1
        PROVE  files = before /\ \A i \in DOMAIN temps[b] : temps[b][i] = Absent
    <2>1. Laid(b) BY <1>4 DEF Atomic
    <2>2. Out(b) = {} /\ Placed(b) = {} BY <1>4 DEF Out, Placed
    <2>3. \A n \in Names : files[n] = before[n] BY <2>1, <2>2 DEF Laid
    <2>4. files = before BY <1>1, <2>3
    <2>5. \A i \in Index(b) : temps[b][i] = Absent BY <2>1, <2>2 DEF Laid
    <2> QED BY <1>1, <2>4, <2>5
  <1> QED BY <1>3, <1>4

\* A request that nothing interferes with renames all pairs at once or
\* nothing: when it fails for a single reason the directory is as it was, with
\* nothing under a stage name.
THEOREM RenamesAllOrNothing == Spec => []AllOrNothing
  <1>1. Init => Types /\ AloneInv BY TypesInit, AloneInit
  <1>2. Types /\ AloneInv /\ [Next]_vars => (Types /\ AloneInv)'
    BY TypesStep, AloneStep
  <1>3. Types /\ AloneInv => AllOrNothing BY AloneShows
  <1> QED BY <1>1, <1>2, <1>3, PTL DEF Spec

-----------------------------------------------------------------------------
(***************************************************************************)
(* The archive writer: its record keeps its shape, and once its stream is  *)
(* closed or errored it is never readable again.                           *)
(***************************************************************************)
Fields == {"filenames", "offsets", "lengths", "activeZipIndex", "active", "closed", "offset",
           "out", "state"}

IsWriter(z) == z = [f \in Fields |-> z[f]]

Follows(z, y) == IsWriter(y) /\ (y.state = "readable" => z.state = "readable")

LEMMA FailFollows ==
  ASSUME NEW z, IsWriter(z)
  PROVE  Follows(z, Fail(z)) /\ Fail(z).state = "errored"
  BY DEF IsWriter, Fields, Follows, Fail

LEMMA HeaderFollows ==
  ASSUME NEW z, IsWriter(z)
  PROVE  Follows(z, WriteHeader(z))
  BY DEF IsWriter, Fields, Follows, WriteHeader

LEMMA CloseFollows ==
  ASSUME NEW z, IsWriter(z)
  PROVE  Follows(z, CloseZip(z)) /\ Follows(z, Close(z))
  <1>1. Follows(z, CloseZip(z)) BY DEF IsWriter, Fields, Follows, CloseZip
  <1>2. Follows(z, [z EXCEPT !.closed = TRUE]) BY DEF IsWriter, Fields, Follows
  <1>3. Follows(z, [CloseZip(z) EXCEPT !.closed = TRUE])
    BY <1>1 DEF IsWriter, Fields, Follows
  <1> QED BY <1>1, <1>2, <1>3, FailFollows DEF Close

LEMMA EnqueueFollows ==
  ASSUME NEW z, IsWriter(z), NEW name
  PROVE  Follows(z, Enqueue(z, name))
  <1> DEFINE y == [z EXCEPT !.filenames = Append(@, name), !.lengths = Append(@, 0)]
  <1>1. Follows(z, y) BY DEF IsWriter, Fields, Follows
  <1>2. Follows(z, WriteHeader(y))
    <2> HIDE DEF y
    <2> QED BY <1>1, HeaderFollows DEF Follows
  <1> QED BY <1>1, <1>2, FailFollows DEF Enqueue

LEMMA NextFollows ==
  ASSUME NEW z, IsWriter(z)
  PROVE  Follows(z, NextFile(z))
  <1> DEFINE y == [z EXCEPT !.activeZipIndex = @ + 1, !.active = FALSE]
  <1>1. Follows(z, y) BY DEF IsWriter, Fields, Follows
  <1>2. Follows(z, WriteHeader(y)) /\ Follows(z, CloseZip(y))
    <2> HIDE DEF y
    <2> QED BY <1>1, HeaderFollows, CloseFollows DEF Follows
  <1> QED BY <1>1, <1>2 DEF NextFile

LEMMA DataFollows ==
  ASSUME NEW z, IsWriter(z), NEW file
  PROVE  Follows(z, WriteData(z, file)) /\ Follows(z, WriteFooter(z))
  <1>1. Follows(z, WriteData(z, file)) BY DEF IsWriter, Fields, Follows, WriteData
  <1> DEFINE y == [z EXCEPT !.out = Append(@, Footer(z.lengths[z.activeZipIndex])),
                            !.offset = @ + z.lengths[z.activeZipIndex] + FooterLen]
  <1>2. Follows(z, y) BY DEF IsWriter, Fields, Follows
  <1>3. Follows(z, NextFile(y))
    <2> HIDE DEF y
    <2> QED BY <1>2, NextFollows DEF Follows
  <1> QED BY <1>1, <1>3 DEF WriteFooter

-----------------------------------------------------------------------------
(***************************************************************************)
(* Requests: which files have been requested is told by currentIndex, and  *)
(* those it has not reached are all in the map.                            *)
(***************************************************************************)
Window == {i \in Int : currentIndex - 1 <= i /\ i < currentIndex + Concurrency}

NotBegun ==
  /\ currentIndex = 1 /\ pulling = "idle"
  /\ DOMAIN fetchMap = {} /\ DOMAIN fetched = {}

Shown ==
  /\ show = "pre_tips" => status = 0
  /\ status \in {0, 2} => NotBegun

Requested ==
  /\ IsWriter(zip)
  /\ currentIndex \in Nat \ {0}
  /\ \A i \in DOMAIN fetched : i \in Int /\ i < currentIndex + Concurrency /\ fetched[i] = 1
  /\ \A i \in DOMAIN fetched : i >= currentIndex => i \in DOMAIN fetchMap
  /\ DOMAIN fetchMap \subseteq DOMAIN fetched \cap Window
  /\ zip.state = "readable" /\ pulling # "file" => currentIndex - 1 \notin DOMAIN fetchMap

FetchInv == Shown /\ Requested

LEMMA FetchInit == PackageInit => FetchInv
  BY DEF PackageInit, FetchInv, Shown, Requested, NotBegun, NewZip, IsWriter, Fields, Window

\* What a round of requests adds.
LEMMA RequestAdds ==
  ASSUME NEW is, Request(is)
  PROVE  /\ DOMAIN fetchMap' = DOMAIN fetchMap \cup is
         /\ DOMAIN fetched' = DOMAIN fetched \cup is
         /\ \A i \in DOMAIN fetched \ is : fetched'[i] = fetched[i] + 0
         /\ \A i \in is : fetched'[i] = (IF i \in DOMAIN fetched THEN fetched[i] ELSE 0)
                                        + (IF i \in DOMAIN fetchMap THEN 0 ELSE 1)
  BY DEF Request

LEMMA ContinueFetches ==
  ASSUME FetchInv, NotBegun, NEW w, Continue(w), UNCHANGED <<currentIndex, pulling, zip>>,
         show' # "pre_tips"
  PROVE  FetchInv'
  <1> USE PackageAssumption
  <1>1. CASE UNCHANGED <<fetchMap, fetched>>
    BY <1>1 DEF FetchInv, Shown, Requested, NotBegun, Window
  <1>2. CASE /\ status' = 3
             /\ Request({i \in 1 .. Len(w.files) : i <= Concurrency})
    <2> DEFINE is == {i \in 1 .. Len(w.files) : i <= Concurrency}
    <2>1. \A i \in is : i \in Int /\ i >= 1 /\ i < 1 + Concurrency OBVIOUS
    <2>2. Request(is) BY <1>2
    <2> HIDE DEF is
    <2>3. /\ DOMAIN fetchMap' = is /\ DOMAIN fetched' = is
          /\ \A i \in is : fetched'[i] = 0 + 1
      BY <2>2, RequestAdds DEF NotBegun
    <2>4. currentIndex' = 1 /\ zip' = zip BY DEF NotBegun
    <2>5. Window' = {i \in Int : 0 <= i /\ i < 1 + Concurrency}
      BY <2>4 DEF Window
    <2>6. \A i \in DOMAIN fetched' : i \in Int /\ i < currentIndex' + Concurrency /\ fetched'[i] = 1
      BY <2>1, <2>3, <2>4, SMT
    <2>7. 0 \notin DOMAIN fetchMap' BY <2>1, <2>3
    <2>8. DOMAIN fetchMap' \subseteq DOMAIN fetched' \cap Window'
      BY <2>1, <2>3, <2>5
    <2>9. Requested'
      BY <2>3, <2>4, <2>6, <2>7, <2>8 DEF FetchInv, Requested
    <2> QED BY <1>2, <2>9 DEF FetchInv, Shown
  <1> QED BY <1>1, <1>2 DEF Continue

LEMMA PullFetches ==
  ASSUME FetchInv, Pull
  PROVE  FetchInv'
  <1> USE PackageAssumption
  <1>0. status' = 3 /\ show' = show /\ UNCHANGED downFiles /\ status = 3
    BY DEF Pull, page
  <1>1. Shown' BY <1>0 DEF FetchInv, Shown
  <1>2. CASE UNCHANGED <<fetchMap, fetched, currentIndex, zip>>
    <2>1. pulling = "idle" BY DEF Pull
    <2> QED BY <1>1, <1>2, <2>1 DEF FetchInv, Requested, Window
  <1>3. CASE zip' = Close(zip) /\ UNCHANGED <<fetchMap, fetched, currentIndex, pulling>>
    <2>1. Follows(zip, zip') BY <1>3, CloseFollows DEF FetchInv, Requested
    <2> QED BY <1>1, <1>3, <2>1 DEF FetchInv, Requested, Window, Follows
  <1>4. CASE /\ Request(Ahead(currentIndex) \cup {currentIndex})
             /\ pulling' = "file" /\ currentIndex' = currentIndex + 1
             /\ UNCHANGED zip
    <2> DEFINE is == Ahead(currentIndex) \cup {currentIndex}
    <2>1. \A i \in is : i \in Int /\ i >= currentIndex /\ i <= currentIndex + Concurrency
      BY DEF Ahead, FetchInv, Requested
    <2>2. currentIndex \in is OBVIOUS
    <2> HIDE DEF is
    <2>3. zip.state = "readable" /\ pulling = "idle" BY DEF Pull
    <2>4. /\ DOMAIN fetchMap' = DOMAIN fetchMap \cup is
          /\ DOMAIN fetched' = DOMAIN fetched \cup is
      BY <1>4, RequestAdds DEF is
    <2>5. \A i \in DOMAIN fetched' : fetched'[i] = 1
      <3> SUFFICES ASSUME NEW i \in DOMAIN fetched' PROVE fetched'[i] = 1 OBVIOUS
      <3>1. CASE i \notin is
        BY <3>1, <2>4, <1>4, RequestAdds DEF is, FetchInv, Requested
      <3>2. CASE i \in is
        <4>1. fetched'[i] = (IF i \in DOMAIN fetched THEN fetched[i] ELSE 0)
                            + (IF i \in DOMAIN fetchMap THEN 0 ELSE 1)
          BY <3>2, <1>4, RequestAdds DEF is
        <4>2. i \in DOMAIN fetched <=> i \in DOMAIN fetchMap
          BY <3>2, <2>1 DEF FetchInv, Requested
        <4> QED BY <4>1, <4>2 DEF FetchInv, Requested
      <3> QED BY <3>1, <3>2
    <2>6. \A i \in DOMAIN fetchMap : i \in Int /\ i >= currentIndex /\ i < currentIndex + Concurrency
      <3>1. currentIndex - 1 \notin DOMAIN fetchMap BY <2>3 DEF FetchInv, Requested
      <3> QED BY <3>1 DEF FetchInv, Requested, Window
    <2>7. Requested'
      <3>1. \A i \in DOMAIN fetched' : i \in Int /\ i < currentIndex' + Concurrency
        BY <1>4, <2>1, <2>4 DEF FetchInv, Requested
      <3>2. \A i \in DOMAIN fetched' : i >= currentIndex' => i \in DOMAIN fetchMap'
        BY <1>4, <2>4, <2>1 DEF FetchInv, Requested
      <3>3. DOMAIN fetchMap' \subseteq DOMAIN fetched' \cap Window'
        BY <1>4, <2>1, <2>4, <2>6 DEF FetchInv, Requested, Window
      <3> QED BY <1>4, <2>5, <3>1, <3>2, <3>3 DEF FetchInv, Requested
    <2> QED BY <1>1, <2>7 DEF FetchInv
  <1> QED BY <1>2, <1>3, <1>4 DEF Pull

LEMMA ArrivesFetches ==
  ASSUME FetchInv, FileArrives
  PROVE  FetchInv'
  <1> USE PackageAssumption
  <1>1. Shown'
    <2>1. UNCHANGED <<show, status>> /\ pulling = "file" BY DEF FileArrives, page
    <2> QED BY <2>1 DEF FetchInv, Shown, NotBegun
  <1>2. CASE /\ fetchMap' = Restrict(fetchMap, DOMAIN fetchMap \ {currentIndex - 1})
             /\ zip' = Enqueue(zip, ZipName(downFiles[currentIndex - 1]))
    <2>1. DOMAIN fetchMap' = DOMAIN fetchMap \ {currentIndex - 1} BY <1>2 DEF Restrict
    <2>2. Follows(zip, zip') BY <1>2, EnqueueFollows DEF FetchInv, Requested
    <2>3. UNCHANGED <<currentIndex, fetched>> BY DEF FileArrives
    <2>4. Requested'
      BY <2>1, <2>2, <2>3 DEF FetchInv, Requested, Follows, Window
    <2> QED BY <1>1, <2>4 DEF FetchInv
  <1>3. CASE zip' = Fail(zip) /\ UNCHANGED fetchMap
    <2>1. Follows(zip, zip') /\ zip'.state # "readable"
      BY <1>3, FailFollows DEF FetchInv, Requested
    <2>2. UNCHANGED <<currentIndex, fetched>> BY DEF FileArrives
    <2>3. Requested' BY <1>3, <2>1, <2>2 DEF FetchInv, Requested, Follows, Window
    <2> QED BY <1>1, <2>3 DEF FetchInv
  <1> QED BY <1>2, <1>3 DEF FileArrives

\* A step that leaves the requests as they are, and of the writer at most
\* closes it.
LEMMA RestFetches ==
  ASSUME FetchInv, UNCHANGED <<currentIndex, fetched>>, DOMAIN fetchMap' = DOMAIN fetchMap,
         Follows(zip, zip'), pulling # "file" \/ pulling' = pulling, pulling' # "file" \/ pulling' = pulling,
         status' = 0 \/ status' = 2 => NotBegun', show' = "pre_tips" => status' = 0
  PROVE  FetchInv'
  BY DEF FetchInv, Shown, Requested, Follows, Window, NotBegun

LEMMA FetchStep == FetchInv /\ [PackageNext]_packageVars => FetchInv'
  <1> SUFFICES ASSUME FetchInv, [PackageNext]_packageVars PROVE FetchInv' OBVIOUS
  <1> USE DEF page, pull, worker
  <1>0. Follows(zip, zip) BY DEF FetchInv, Requested, Follows
  <1>1. ASSUME UNCHANGED <<pull, zip, status>>, show' = "pre_tips" => status = 0
        PROVE  FetchInv'
    BY <1>0, <1>1, RestFetches DEF FetchInv, Shown, NotBegun
  <1>2. ASSUME UNCHANGED <<pull, zip, show>>, status' \in {1, 4}, status # 0
        PROVE  FetchInv'
    BY <1>0, <1>2, RestFetches DEF FetchInv, Shown, NotBegun
  <1>3. ASSUME UNCHANGED <<page, fetchMap, currentIndex, fetched>>, Follows(zip, zip'),
               pulling' = pulling \/ (pulling' = "idle" /\ pulling = "chunk")
        PROVE  FetchInv'
    BY <1>3, RestFetches DEF FetchInv, Shown, NotBegun
  <1>4. CASE Open BY <1>4, <1>1 DEF Open
  <1>5. CASE CancelTips BY <1>5, <1>1 DEF CancelTips
  <1>6. CASE CloseDialog BY <1>6, <1>1 DEF CloseDialog
  <1>7. ASSUME NEW s \in Selections, Confirm(s) PROVE FetchInv'
    <2>1. NotBegun BY <1>7 DEF Confirm, FetchInv, Shown
    <2> QED BY <1>7, <2>1, ContinueFetches DEF Confirm
  <1>8. CASE ListAnswered
    <2>1. NotBegun /\ show' # "pre_tips" BY <1>8 DEF ListAnswered, FetchInv, Shown
    <2> QED BY <1>8, <2>1, ContinueFetches DEF ListAnswered
  <1>9. CASE ListFails BY <1>9, <1>2 DEF ListFails
  <1>10. ASSUME NEW i \in DOMAIN fetchMap, NEW outcome \in {"ok", "failed"}, Fetched(i, outcome)
         PROVE  FetchInv'
    <2>1. DOMAIN fetchMap' = DOMAIN fetchMap BY <1>10 DEF Fetched
    <2> QED BY <1>0, <1>10, <2>1, RestFetches DEF Fetched, FetchInv, Shown, NotBegun
  <1>11. CASE Pull BY <1>11, PullFetches
  <1>12. CASE FileArrives BY <1>12, ArrivesFetches
  <1>13. CASE ReadChunk
    <2>1. Follows(zip, zip')
      BY <1>13, DataFollows DEF ReadChunk, FetchInv, Requested
    <2> QED BY <1>13, <2>1, <1>3 DEF ReadChunk
  <1>14. CASE ReadFails
    <2>1. Follows(zip, zip') BY <1>14, FailFollows DEF ReadFails, FetchInv, Requested
    <2> QED BY <1>14, <2>1, <1>3 DEF ReadFails
  <1>15. CASE Pipe
    <2>1. Follows(zip, zip') BY <1>15 DEF Pipe, Follows, FetchInv, Requested, IsWriter, Fields
    <2> QED BY <1>15, <2>1, <1>3 DEF Pipe
  <1>16. CASE PipeCloses BY <1>16, <1>2 DEF PipeCloses, Ends
  <1>17. CASE PipeFails BY <1>17, <1>2 DEF PipeFails, Ends
  <1>18. CASE WorkerMessage \/ StreamArrives \/ WorkerFetch \/ WorkerStops \/ Save \/ UserCancels
    <2>1. UNCHANGED <<page, pull, zip>>
      BY <1>18 DEF WorkerMessage, StreamArrives, WorkerFetch, WorkerStops, Save, UserCancels
    <2> QED BY <2>1, <1>1 DEF FetchInv, Shown
  <1>19. CASE UNCHANGED packageVars BY <1>19, <1>1 DEF packageVars, FetchInv, Shown
  <1> QED BY <1>4, <1>5, <1>6, <1>7, <1>8, <1>9, <1>10, <1>11, <1>12, <1>13, <1>14, <1>15,
             <1>16, <1>17, <1>18, <1>19 DEF PackageNext

\* A file is requested once, and only when the file being written is no more
\* than Concurrency before it: the window of requests slides.
THEOREM FetchesOnce == PackageSpec => []FetchedOnce
  <1>1. FetchInv => FetchedOnce
    <2> SUFFICES ASSUME FetchInv PROVE FetchedOnce OBVIOUS
    <2> DEFINE W == currentIndex - 1 .. currentIndex + Concurrency - 1
    <2>1. DOMAIN fetchMap \subseteq W
      BY PackageAssumption DEF FetchInv, Requested, Window
    <2>2. IsFiniteSet(W) /\ Cardinality(W) = Concurrency + 1
      BY PackageAssumption, FS_Interval DEF FetchInv, Requested
    <2> HIDE DEF W
    <2>3. Cardinality(DOMAIN fetchMap) <= Concurrency + 1 BY <2>1, <2>2, FS_Subset
    <2> QED BY <2>3 DEF FetchedOnce, FetchInv, Requested
  <1>2. FetchInv /\ [PackageNext]_packageVars => FetchInv' BY FetchStep
  <1>3. PackageInit => FetchInv BY FetchInit
  <1> QED BY <1>1, <1>2, <1>3, PTL DEF PackageSpec

-----------------------------------------------------------------------------
(***************************************************************************)
(* Induction over the naturals, from the well-foundedness of their order.  *)
(***************************************************************************)
\* Every set of naturals has a least element, so a set with 0 and every
\* successor has them all.
LEMMA LeastNatural ==
  ASSUME NEW T \in SUBSET Nat, T # {}
  PROVE  \E m \in T : \A k \in T : m <= k
  <1> DEFINE R == OpToRel(<, Nat)
  <1>1. IsWellFoundedOn(R, Nat) BY NatLessThanWellFounded
  <1>2. \A x, y \in Nat : x < y => <<x, y>> \in R BY DEF OpToRel
  <1> HIDE DEF R
  <1>3. PICK x \in T : \A y \in T : ~ (<<y, x>> \in R) BY <1>1, WFMin
  <1>4. \A y \in T : ~ (y < x)
    <2> SUFFICES ASSUME NEW y \in T, y < x PROVE FALSE OBVIOUS
    <2>1. x \in Nat /\ y \in Nat OBVIOUS
    <2>2. <<y, x>> \in R BY <1>2, <2>1
    <2> QED BY <1>3, <2>2
  <1>5. \A y \in T : x <= y BY <1>4
  <1> QED BY <1>5

LEMMA NaturalInduction ==
  ASSUME NEW S \in SUBSET Nat, 0 \in S, \A n \in S : n + 1 \in S
  PROVE  S = Nat
  <1>1. SUFFICES ASSUME Nat \ S # {} PROVE FALSE OBVIOUS
  <1>2. PICK m \in Nat \ S : \A k \in Nat \ S : m <= k BY <1>1, LeastNatural
  <1> QED BY <1>2

-----------------------------------------------------------------------------
(***************************************************************************)
(* Paths, position by position.                                            *)
(***************************************************************************)
Path == Seq(Nat \ {0})

Leads(p, q) == Len(p) <= Len(q) /\ \A k \in 1 .. Len(p) : p[k] = q[k]

\* They agree up to position k, where p comes first.
Parts(p, q, k) ==
  /\ k \in 1 .. Len(q) /\ k <= Len(p) /\ p[k] < q[k]
  /\ \A j \in 1 .. k - 1 : p[j] = q[j]

LEMMA PrefixLeads ==
  ASSUME NEW p \in Path, NEW q \in Path
  PROVE  IsPrefix(p, q) <=> Leads(p, q)
  <1>1. SubSeq(p, 1, Len(p)) = p BY SubSeqFull DEF Path
  <1>2. CASE Len(p) <= Len(q)
    <2>1. /\ SubSeq(q, 1, Len(p)) \in Seq(Nat \ {0}) /\ Len(SubSeq(q, 1, Len(p))) = Len(p)
          /\ \A k \in 1 .. Len(p) : SubSeq(q, 1, Len(p))[k] = q[k]
      BY <1>2, SubSeqProperties DEF Path
    <2>2. p = SubSeq(q, 1, Len(p)) <=> \A k \in 1 .. Len(p) : p[k] = q[k]
      BY <2>1, SeqEqual DEF Path
    <2> QED BY <1>1, <1>2, <2>2 DEF IsPrefix, Leads
  <1> QED BY <1>2 DEF IsPrefix, Leads

LEMMA BeforeParts ==
  ASSUME NEW p \in Path, NEW q \in Path
  PROVE  Before(p, q) <=> \E k \in 1 .. Len(q) : Parts(p, q, k)
  <1> SUFFICES ASSUME NEW k \in 1 .. Len(q), k <= Len(p)
               PROVE  SubSeq(p, 1, k - 1) = SubSeq(q, 1, k - 1)
                        <=> \A j \in 1 .. k - 1 : p[j] = q[j]
    BY DEF Before, Parts
  <1>1. /\ SubSeq(p, 1, k - 1) \in Seq(Nat \ {0}) /\ Len(SubSeq(p, 1, k - 1)) = k - 1
        /\ \A j \in 1 .. k - 1 : SubSeq(p, 1, k - 1)[j] = p[j]
    BY SubSeqProperties DEF Path
  <1>2. /\ SubSeq(q, 1, k - 1) \in Seq(Nat \ {0}) /\ Len(SubSeq(q, 1, k - 1)) = k - 1
        /\ \A j \in 1 .. k - 1 : SubSeq(q, 1, k - 1)[j] = q[j]
    BY SubSeqProperties DEF Path
  <1> QED BY <1>1, <1>2, SeqEqual

\* An entry of a directory stands where the directory stood.
LEMMA EntryStands ==
  ASSUME NEW d \in Path, NEW p \in Path, NEW k \in Nat \ {0}
  PROVE  /\ Append(d, k) \in Path
         /\ Before(p, d) => Before(p, Append(d, k))
         /\ Before(d, p) => Before(Append(d, k), p)
         /\ \A j \in Nat \ {0} : j < k => Before(Append(d, j), Append(d, k))
  <1>1. \A j \in Nat \ {0} : /\ Append(d, j) \in Path /\ Len(Append(d, j)) = Len(d) + 1
                             /\ \A i \in 1 .. Len(d) : Append(d, j)[i] = d[i]
                             /\ Append(d, j)[Len(d) + 1] = j
    BY AppendProperties DEF Path
  <1>2. ASSUME Before(p, d) PROVE Before(p, Append(d, k))
    <2>1. PICK i \in 1 .. Len(d) : Parts(p, d, i) BY <1>2, BeforeParts
    <2>2. Len(d) \in Nat /\ Len(p) \in Nat BY DEF Path
    <2>3. Parts(p, Append(d, k), i) BY <1>1, <2>1, <2>2 DEF Parts
    <2>4. i \in 1 .. Len(Append(d, k)) BY <2>3 DEF Parts
    <2> QED BY <1>1, <2>3, <2>4, BeforeParts
  <1>3. ASSUME Before(d, p) PROVE Before(Append(d, k), p)
    <2>1. PICK i \in 1 .. Len(p) : Parts(d, p, i) BY <1>3, BeforeParts
    <2>2. Len(d) \in Nat /\ Len(p) \in Nat BY DEF Path
    <2>3. Parts(Append(d, k), p, i) BY <1>1, <2>1, <2>2 DEF Parts
    <2> QED BY <1>1, <2>3, BeforeParts
  <1>4. ASSUME NEW j \in Nat \ {0}, j < k PROVE Before(Append(d, j), Append(d, k))
    <2>1. Len(d) \in Nat BY DEF Path
    <2>2. Parts(Append(d, j), Append(d, k), Len(d) + 1) BY <1>1, <1>4, <2>1 DEF Parts
    <2>3. /\ Len(d) + 1 \in 1 .. Len(Append(d, k))
          /\ Append(d, j) \in Path /\ Append(d, k) \in Path
      BY <1>1, <2>1
    <2> QED BY <2>2, <2>3, BeforeParts
  <1> QED BY <1>1, <1>2, <1>3, <1>4

LEMMA NodesArePaths == Nodes \subseteq Path /\ Files \subseteq Path
  BY TreeAssumption DEF Path, Nodes

\* What is below a directory is below one of its entries.
LEMMA EntriesLead ==
  ASSUME NEW d \in DOMAIN Children, NEW p \in Files
  PROVE  Leads(d, p) <=> \E k \in 1 .. Len(Children[d]) : Leads(Children[d][k], p)
  <1>1. d \in Path /\ p \in Path /\ d \in Nodes /\ p \in Nodes BY NodesArePaths DEF Nodes
  <1>2. Len(d) \in Nat /\ Len(p) \in Nat /\ Len(Children[d]) \in Nat
    BY <1>1, TreeAssumption DEF Path
  <1>3. Len(d) # 0 BY <1>1, EmptySeq, TreeAssumption DEF Path, NoPath
  <1>4. \A k \in 1 .. Len(Children[d]) :
          /\ Len(Children[d][k]) = Len(d) + 1 /\ Children[d][k][Len(d) + 1] = k
          /\ \A i \in 1 .. Len(d) : Children[d][k][i] = d[i]
    <2> SUFFICES ASSUME NEW k \in 1 .. Len(Children[d])
                 PROVE  /\ Len(Children[d][k]) = Len(d) + 1 /\ Children[d][k][Len(d) + 1] = k
                        /\ \A i \in 1 .. Len(d) : Children[d][k][i] = d[i]
      OBVIOUS
    <2>1. Children[d][k] = Append(d, k) BY TreeAssumption
    <2>2. k \in Nat \ {0} BY <1>2
    <2> QED BY <1>1, <2>1, <2>2, AppendProperties DEF Path
  <1>5. ASSUME NEW k \in 1 .. Len(Children[d]), Leads(Children[d][k], p)
        PROVE  Leads(d, p)
    <2>1. Len(d) + 1 <= Len(p) /\ \A i \in 1 .. Len(d) + 1 : Children[d][k][i] = p[i]
      BY <1>4, <1>5 DEF Leads
    <2> QED BY <1>2, <1>4, <2>1 DEF Leads
  <1>6. ASSUME Leads(d, p)
        PROVE  \E k \in 1 .. Len(Children[d]) : Leads(Children[d][k], p)
    <2>1. Len(d) # Len(p)
      <3>1. SUFFICES ASSUME Len(d) = Len(p) PROVE FALSE OBVIOUS
      <3>2. d = p BY <1>1, <1>6, <3>1, SeqEqual DEF Leads, Path
      <3> QED BY <3>2, PackageAssumption
    <2>2. Len(d) \in 1 .. Len(p) - 1 BY <1>2, <1>3, <1>6, <2>1 DEF Leads
    <2>3. SubSeq(p, 1, Len(d)) = d
      BY <1>1, <1>6, PrefixLeads, SubSeqFull DEF IsPrefix, Path
    <2>4. p[Len(d) + 1] <= Len(Children[d]) BY <1>1, <2>2, <2>3, TreeAssumption
    <2>5. p[Len(d) + 1] \in Nat \ {0} BY <1>1, <1>2, <2>2, ElementOfSeq DEF Path
    <2> DEFINE k == p[Len(d) + 1]
    <2>6. k \in 1 .. Len(Children[d]) BY <1>2, <2>4, <2>5
    <2> HIDE DEF k
    <2>7. Leads(Children[d][k], p)
      <3>1. \A i \in 1 .. Len(d) + 1 : Children[d][k][i] = p[i]
        BY <1>2, <1>4, <1>6, <2>6 DEF Leads, k
      <3> QED BY <1>2, <1>4, <2>2, <2>6, <3>1 DEF Leads
    <2> QED BY <2>6, <2>7
  <1> QED BY <1>5, <1>6

\* There is nothing below a file.
LEMMA FilesLead ==
  ASSUME NEW q \in Files, NEW p \in Files
  PROVE  Leads(q, p) <=> q = p
  <1>1. q \in Path /\ p \in Path /\ q \in Nodes /\ p \in Nodes BY NodesArePaths DEF Nodes
  <1>2. Len(q) \in Nat /\ Len(p) \in Nat BY <1>1 DEF Path
  <1>3. ASSUME Leads(q, p), q # p PROVE FALSE
    <2>1. Len(q) # 0 BY <1>1, EmptySeq, TreeAssumption DEF Path, NoPath
    <2>2. Len(q) # Len(p) BY <1>1, <1>3, SeqEqual DEF Leads, Path
    <2>3. Len(q) \in 1 .. Len(p) - 1 BY <1>2, <1>3, <2>1, <2>2 DEF Leads
    <2>4. SubSeq(p, 1, Len(q)) = q
      BY <1>1, <1>3, PrefixLeads, SubSeqFull DEF IsPrefix, Path
    <2>5. q \in DOMAIN Children BY <1>1, <2>3, <2>4, TreeAssumption DEF IsDir
    <2> QED BY <2>5, PackageAssumption
  <1>4. q = p => Leads(q, p) BY <1>2 DEF Leads
  <1> QED BY <1>3, <1>4

-----------------------------------------------------------------------------
(***************************************************************************)
(* The walk: what has been collected, and what is still to be walked, in   *)
(* the order of the archive and together all there is below a selection.   *)
(***************************************************************************)
Ordered(s) == \A i, j \in 1 .. Len(s) : i < j => Before(s[i], s[j])

Collected(sel, got, queue) ==
  /\ got \in Seq(Files) /\ queue \in Seq(Nodes)
  /\ Ordered(got) /\ Ordered(queue)
  /\ \A i \in 1 .. Len(got), j \in 1 .. Len(queue) : Before(got[i], queue[j])
  /\ \A p \in Files :
       (\E i \in 1 .. Len(sel) : Leads(sel[i], p))
         <=> \/ \E i \in 1 .. Len(got) : got[i] = p
             \/ \E i \in 1 .. Len(queue) : Leads(queue[i], p)

\* Files on top are collected.
LEMMA CollectFiles ==
  ASSUME NEW sel, NEW got, NEW queue, Collected(sel, got, queue),
         NEW k \in 1 .. Len(queue) + 1, \A i \in 1 .. k - 1 : ~ IsDir(queue[i])
  PROVE  Collected(sel, got \o SubSeq(queue, 1, k - 1), SubSeq(queue, k, Len(queue)))
  <1> DEFINE top == SubSeq(queue, 1, k - 1)
             new == got \o top
             rest == SubSeq(queue, k, Len(queue))
  <1>1. /\ got \in Seq(Files) /\ queue \in Seq(Nodes) /\ Len(got) \in Nat /\ Len(queue) \in Nat
    BY DEF Collected
  <1>2. top \in Seq(Nodes) /\ Len(top) = k - 1 /\ \A i \in 1 .. k - 1 : top[i] = queue[i]
    BY <1>1, SubSeqProperties
  <1>3. /\ rest \in Seq(Nodes) /\ Len(rest) = Len(queue) - k + 1
        /\ \A i \in 1 .. Len(rest) : rest[i] = queue[k + i - 1]
    BY <1>1, SubSeqProperties
  <1>4. \A i \in 1 .. k - 1 : queue[i] \in Files
    BY <1>1, ElementOfSeq DEF Nodes, IsDir
  <1>5. top \in Seq(Files) BY <1>2, <1>4, SeqOfRange, IsASeq
  <1> HIDE DEF top, rest
  <1>6. /\ new \in Seq(Files) /\ Len(new) = Len(got) + k - 1
        /\ \A i \in 1 .. Len(got) : new[i] = got[i]
        /\ \A i \in Len(got) + 1 .. Len(new) : new[i] = queue[i - Len(got)]
    <2>1. /\ new \in Seq(Files) /\ Len(new) = Len(got) + Len(top)
          /\ \A i \in 1 .. Len(new) : new[i] = IF i <= Len(got) THEN got[i] ELSE top[i - Len(got)]
      BY <1>1, <1>5, ConcatProperties
    <2> HIDE DEF new
    <2>2. \A i \in Len(got) + 1 .. Len(new) : /\ i \in 1 .. Len(new) /\ ~ (i <= Len(got))
                                               /\ i - Len(got) \in 1 .. k - 1
      BY <1>1, <1>2, <2>1
    <2>3. \A i \in Len(got) + 1 .. Len(new) : new[i] = queue[i - Len(got)] BY <1>2, <2>1, <2>2
    <2>4. \A i \in 1 .. Len(got) : i \in 1 .. Len(new) /\ i <= Len(got) BY <1>1, <1>2, <2>1
    <2> QED BY <1>1, <1>2, <2>1, <2>3, <2>4
  <1> HIDE DEF new
  <1>7. Ordered(new)
    <2> SUFFICES ASSUME NEW i \in 1 .. Len(new), NEW j \in 1 .. Len(new), i < j
                 PROVE  Before(new[i], new[j])
      BY DEF Ordered
    <2>1. CASE j <= Len(got)
      <3>1. i \in 1 .. Len(got) /\ j \in 1 .. Len(got) BY <1>1, <1>6, <2>1
      <3> QED BY <1>6, <3>1 DEF Collected, Ordered
    <2>2. CASE i <= Len(got) /\ j > Len(got)
      <3>1. i \in 1 .. Len(got) /\ j - Len(got) \in 1 .. Len(queue) BY <1>1, <1>6, <2>2
      <3>2. new[i] = got[i] /\ new[j] = queue[j - Len(got)] BY <1>1, <1>6, <2>2
      <3> QED BY <3>1, <3>2 DEF Collected
    <2>3. CASE i > Len(got)
      <3>1. /\ i - Len(got) \in 1 .. Len(queue) /\ j - Len(got) \in 1 .. Len(queue)
            /\ i - Len(got) < j - Len(got)
        BY <1>1, <1>6, <2>3
      <3>2. i \in Len(got) + 1 .. Len(new) /\ j \in Len(got) + 1 .. Len(new) BY <1>1, <1>6, <2>3
      <3>3. new[i] = queue[i - Len(got)] /\ new[j] = queue[j - Len(got)] BY <1>6, <3>2
      <3> QED BY <3>1, <3>3 DEF Collected, Ordered
    <2> QED BY <1>1, <1>6, <2>1, <2>2, <2>3
  <1>8. Ordered(rest)
    <2> SUFFICES ASSUME NEW i \in 1 .. Len(rest), NEW j \in 1 .. Len(rest), i < j
                 PROVE  Before(rest[i], rest[j])
      BY DEF Ordered
    <2>1. /\ k + i - 1 \in 1 .. Len(queue) /\ k + j - 1 \in 1 .. Len(queue) /\ k + i - 1 < k + j - 1
      BY <1>1, <1>3
    <2> QED BY <1>3, <2>1 DEF Collected, Ordered
  <1>9. \A i \in 1 .. Len(new), j \in 1 .. Len(rest) : Before(new[i], rest[j])
    <2> SUFFICES ASSUME NEW i \in 1 .. Len(new), NEW j \in 1 .. Len(rest)
                 PROVE  Before(new[i], rest[j])
      OBVIOUS
    <2>1. k + j - 1 \in 1 .. Len(queue) /\ rest[j] = queue[k + j - 1] BY <1>1, <1>3
    <2>2. CASE i <= Len(got) BY <1>1, <1>6, <2>1, <2>2 DEF Collected
    <2>3. CASE i > Len(got)
      <3>1. i - Len(got) \in 1 .. Len(queue) /\ i - Len(got) < k + j - 1 BY <1>1, <1>3, <1>6, <2>3
      <3>2. new[i] = queue[i - Len(got)] BY <1>1, <1>6, <2>3
      <3> QED BY <2>1, <3>1, <3>2 DEF Collected, Ordered
    <2> QED BY <1>1, <1>6, <2>2, <2>3
  <1>10. ASSUME NEW p \in Files
         PROVE  (\/ \E i \in 1 .. Len(got) : got[i] = p
                 \/ \E i \in 1 .. Len(queue) : Leads(queue[i], p))
                 <=> \/ \E i \in 1 .. Len(new) : new[i] = p
                     \/ \E i \in 1 .. Len(rest) : Leads(rest[i], p)
    <2>1. \A i \in 1 .. k - 1 : Leads(queue[i], p) <=> queue[i] = p BY <1>4, FilesLead
    <2>2. ASSUME NEW i \in 1 .. Len(queue), Leads(queue[i], p)
          PROVE  \/ \E j \in 1 .. Len(new) : new[j] = p
                 \/ \E j \in 1 .. Len(rest) : Leads(rest[j], p)
      <3>1. CASE i < k
        <4>1. Len(got) + i \in Len(got) + 1 .. Len(new) /\ Len(got) + i - Len(got) = i
          BY <1>1, <1>6, <3>1
        <4>2. queue[i] = p BY <2>1, <2>2, <3>1
        <4>3. new[Len(got) + i] = queue[Len(got) + i - Len(got)] BY <1>6, <4>1
        <4>4. Len(got) + i \in 1 .. Len(new) BY <1>1, <4>1
        <4> QED BY <4>1, <4>2, <4>3, <4>4
      <3>2. CASE i >= k
        <4>1. i - k + 1 \in 1 .. Len(rest) /\ k + (i - k + 1) - 1 = i BY <1>1, <1>3, <3>2
        <4>2. rest[i - k + 1] = queue[i] BY <1>3, <4>1
        <4> QED BY <2>2, <4>1, <4>2
      <3> QED BY <3>1, <3>2
    <2>3. ASSUME NEW i \in 1 .. Len(got), got[i] = p PROVE \E j \in 1 .. Len(new) : new[j] = p
      <3>1. i \in 1 .. Len(new) BY <1>1, <1>6
      <3> QED BY <1>6, <2>3, <3>1
    <2>4. ASSUME NEW j \in 1 .. Len(new), new[j] = p
          PROVE  \/ \E i \in 1 .. Len(got) : got[i] = p
                 \/ \E i \in 1 .. Len(queue) : Leads(queue[i], p)
      <3>1. CASE j <= Len(got) BY <1>1, <1>6, <2>4, <3>1
      <3>2. CASE j > Len(got)
        <4>1. j - Len(got) \in 1 .. k - 1 /\ j - Len(got) \in 1 .. Len(queue) BY <1>1, <1>6, <3>2
        <4>2. queue[j - Len(got)] = p BY <1>1, <1>6, <2>4, <3>2
        <4> QED BY <2>1, <4>1, <4>2
      <3> QED BY <1>1, <1>6, <3>1, <3>2
    <2>5. ASSUME NEW j \in 1 .. Len(rest), Leads(rest[j], p)
          PROVE  \E i \in 1 .. Len(queue) : Leads(queue[i], p)
      <3>1. k + j - 1 \in 1 .. Len(queue) BY <1>1, <1>3
      <3> QED BY <1>3, <2>5, <3>1
    <2> QED BY <2>2, <2>3, <2>4, <2>5
  <1> QED BY <1>3, <1>6, <1>7, <1>8, <1>9, <1>10 DEF Collected, new, top, rest

\* A directory on top is replaced by its listing.
LEMMA CollectListing ==
  ASSUME NEW sel, NEW got, NEW d \in DOMAIN Children, NEW rest \in Seq(Nodes),
         Collected(sel, got, <<d>> \o rest)
  PROVE  Collected(sel, got, Children[d] \o rest)
  <1> DEFINE old == <<d>> \o rest
             new == Children[d] \o rest
             C == Children[d]
  <1>1. /\ C \in Seq(Nodes) /\ Len(C) \in Nat /\ Len(rest) \in Nat /\ d \in Nodes
        /\ \A k \in 1 .. Len(C) : C[k] = Append(d, k) /\ C[k] \in Nodes
    BY TreeAssumption, ElementOfSeq DEF Nodes
  <1>2. /\ Len(old) = 1 + Len(rest) /\ old[1] = d
        /\ \A i \in 1 .. Len(rest) : old[1 + i] = rest[i]
    <2>1. <<d>> \in Seq(Nodes) /\ Len(<<d>>) = 1 /\ <<d>>[1] = d BY <1>1
    <2>2. \A i \in 1 .. Len(rest) : 1 + i > 1 /\ 1 + i - 1 = i /\ 1 + i <= 1 + Len(rest) BY <1>1
    <2> QED BY <1>1, <2>1, <2>2, ConcatProperties
  <1>3. /\ new \in Seq(Nodes) /\ Len(new) = Len(C) + Len(rest)
        /\ \A i \in 1 .. Len(C) : new[i] = C[i]
        /\ \A i \in Len(C) + 1 .. Len(new) : new[i] = rest[i - Len(C)]
    BY <1>1, ConcatProperties
  <1>4. /\ got \in Seq(Files) /\ Len(got) \in Nat /\ Ordered(got) /\ Ordered(old)
        /\ \A i \in 1 .. Len(got), j \in 1 .. Len(old) : Before(got[i], old[j])
    BY DEF Collected
  <1>5. \A j \in 1 .. Len(rest) : rest[j] \in Path BY NodesArePaths, ElementOfSeq
  <1>6. \A i \in 1 .. Len(got) : got[i] \in Path BY <1>4, NodesArePaths, ElementOfSeq
  <1>7. d \in Path BY <1>1, NodesArePaths
  <1>8. \A k \in 1 .. Len(C) : k \in Nat \ {0} BY <1>1
  <1>9. \A j \in 1 .. Len(rest) : Before(d, rest[j])
    <2> SUFFICES ASSUME NEW j \in 1 .. Len(rest) PROVE Before(d, rest[j]) OBVIOUS
    <2>1. 1 \in 1 .. Len(old) /\ 1 + j \in 1 .. Len(old) /\ 1 < 1 + j BY <1>1, <1>2
    <2> QED BY <1>2, <1>4, <2>1 DEF Ordered
  <1>10. ASSUME NEW i \in 1 .. Len(rest), NEW j \in 1 .. Len(rest), i < j
         PROVE  Before(rest[i], rest[j])
    <2>1. 1 + i \in 1 .. Len(old) /\ 1 + j \in 1 .. Len(old) /\ 1 + i < 1 + j BY <1>1, <1>2, <1>10
    <2> QED BY <1>2, <1>4, <2>1 DEF Ordered
  <1>11. \A i \in 1 .. Len(got) : /\ Before(got[i], d)
                                    /\ \A j \in 1 .. Len(rest) : Before(got[i], rest[j])
    <2>1. 1 \in 1 .. Len(old) /\ \A j \in 1 .. Len(rest) : 1 + j \in 1 .. Len(old) BY <1>1, <1>2
    <2> QED BY <1>2, <1>4, <2>1
  <1>12. Collected(sel, got, old) OBVIOUS
  <1> HIDE DEF new, old, C
  <1>13. Ordered(new)
    <2> SUFFICES ASSUME NEW i \in 1 .. Len(new), NEW j \in 1 .. Len(new), i < j
                 PROVE  Before(new[i], new[j])
      BY DEF Ordered
    <2>1. CASE j <= Len(C)
      <3>1. i \in 1 .. Len(C) /\ j \in 1 .. Len(C) BY <1>1, <1>3, <2>1
      <3>2. new[i] = Append(d, i) /\ new[j] = Append(d, j) BY <1>1, <1>3, <3>1
      <3> QED BY <1>7, <1>8, <3>1, <3>2, EntryStands
    <2>2. CASE i <= Len(C) /\ j > Len(C)
      <3>1. i \in 1 .. Len(C) /\ j - Len(C) \in 1 .. Len(rest) BY <1>1, <1>3, <2>2
      <3>2. j \in Len(C) + 1 .. Len(new) BY <1>1, <1>3, <2>2
      <3>3. new[i] = Append(d, i) /\ new[j] = rest[j - Len(C)] BY <1>1, <1>3, <3>1, <3>2
      <3>4. rest[j - Len(C)] \in Path /\ Before(d, rest[j - Len(C)]) /\ i \in Nat \ {0}
        BY <1>5, <1>8, <1>9, <3>1
      <3> QED BY <1>7, <3>3, <3>4, EntryStands
    <2>3. CASE i > Len(C)
      <3>1. /\ i - Len(C) \in 1 .. Len(rest) /\ j - Len(C) \in 1 .. Len(rest)
            /\ i - Len(C) < j - Len(C)
        BY <1>1, <1>3, <2>3
      <3>2. i \in Len(C) + 1 .. Len(new) /\ j \in Len(C) + 1 .. Len(new) BY <1>1, <1>3, <2>3
      <3>3. new[i] = rest[i - Len(C)] /\ new[j] = rest[j - Len(C)] BY <1>3, <3>2
      <3> QED BY <1>10, <3>1, <3>3
    <2> QED BY <1>1, <1>3, <2>1, <2>2, <2>3
  <1>14. ASSUME NEW i \in 1 .. Len(got), NEW j \in 1 .. Len(new) PROVE Before(got[i], new[j])
    <2>1. CASE j <= Len(C)
      <3>1. j \in 1 .. Len(C) BY <1>1, <1>3, <2>1
      <3>2. new[j] = Append(d, j) BY <1>1, <1>3, <3>1
      <3> QED BY <1>6, <1>7, <1>8, <1>11, <3>1, <3>2, EntryStands
    <2>2. CASE j > Len(C)
      <3>1. j - Len(C) \in 1 .. Len(rest) /\ new[j] = rest[j - Len(C)] BY <1>1, <1>3, <2>2
      <3> QED BY <1>11, <3>1
    <2> QED BY <1>1, <1>3, <2>1, <2>2
  <1>15. ASSUME NEW p \in Files
         PROVE  (\E i \in 1 .. Len(old) : Leads(old[i], p)) <=> \E i \in 1 .. Len(new) : Leads(new[i], p)
    <2>1. Leads(d, p) <=> \E k \in 1 .. Len(C) : Leads(C[k], p) BY EntriesLead DEF C
    <2>2. (\E i \in 1 .. Len(old) : Leads(old[i], p))
            <=> Leads(d, p) \/ (\E i \in 1 .. Len(rest) : Leads(rest[i], p))
      <3>1. \A i \in 1 .. Len(old) : i = 1 \/ (i - 1 \in 1 .. Len(rest) /\ i = 1 + (i - 1)) BY <1>1, <1>2
      <3>2. 1 \in 1 .. Len(old) /\ \A i \in 1 .. Len(rest) : 1 + i \in 1 .. Len(old) BY <1>1, <1>2
      <3> QED BY <1>2, <3>1, <3>2
    <2>3. (\E i \in 1 .. Len(new) : Leads(new[i], p))
            <=> (\E k \in 1 .. Len(C) : Leads(C[k], p)) \/ \E i \in 1 .. Len(rest) : Leads(rest[i], p)
      <3>1. \A i \in 1 .. Len(new) : \/ i \in 1 .. Len(C)
                                      \/ (i \in Len(C) + 1 .. Len(new) /\ i - Len(C) \in 1 .. Len(rest))
        BY <1>1, <1>3
      <3>2. \A i \in 1 .. Len(rest) : /\ Len(C) + i \in Len(C) + 1 .. Len(new)
                                      /\ Len(C) + i \in 1 .. Len(new) /\ Len(C) + i - Len(C) = i
        BY <1>1, <1>3
      <3>3. \A k \in 1 .. Len(C) : k \in 1 .. Len(new) BY <1>1, <1>3
      <3>4. ASSUME NEW i \in 1 .. Len(new), Leads(new[i], p)
            PROVE  \/ \E k \in 1 .. Len(C) : Leads(C[k], p)
                   \/ \E k \in 1 .. Len(rest) : Leads(rest[k], p)
        <4>1. CASE i \in 1 .. Len(C) BY <1>3, <3>4, <4>1
        <4>2. CASE i \in Len(C) + 1 .. Len(new) /\ i - Len(C) \in 1 .. Len(rest)
          <5>1. new[i] = rest[i - Len(C)] BY <1>3, <4>2
          <5> QED BY <3>4, <4>2, <5>1
        <4> QED BY <3>1, <4>1, <4>2
      <3>5. ASSUME NEW i \in 1 .. Len(rest), Leads(rest[i], p)
            PROVE  \E k \in 1 .. Len(new) : Leads(new[k], p)
        <4> DEFINE k == Len(C) + i
        <4>1. k \in Len(C) + 1 .. Len(new) /\ k \in 1 .. Len(new) /\ k - Len(C) = i BY <3>2
        <4> HIDE DEF k
        <4>2. new[k] = rest[k - Len(C)] BY <1>3, <4>1
        <4> QED BY <3>5, <4>1, <4>2
      <3>6. ASSUME NEW k \in 1 .. Len(C), Leads(C[k], p)
            PROVE  \E j \in 1 .. Len(new) : Leads(new[j], p)
        BY <1>3, <3>3, <3>6
      <3> QED BY <3>4, <3>5, <3>6
    <2> QED BY <2>1, <2>2, <2>3
  <1> QED BY <1>3, <1>4, <1>12, <1>13, <1>14, <1>15 DEF Collected, new, C

\* What a walk to the next directory leaves.
LEMMA WalkCollects ==
  ASSUME NEW sel, NEW got, NEW content \in Seq(Nodes), NEW stack \in Seq(Nodes),
         Collected(sel, got, content \o stack), NEW w, w = Walk(stack, content, got)
  PROVE  /\ w.dir = NoPath => Collected(sel, w.files, <<>>)
         /\ w.dir # NoPath => /\ w.dir \in DOMAIN Children /\ w.rest \in Seq(Nodes)
                              /\ Collected(sel, w.files, <<w.dir>> \o w.rest)
  <1> DEFINE queue == content \o stack
             dirs  == {i \in 1 .. Len(queue) : IsDir(queue[i])}
             first == CHOOSE i \in dirs : \A j \in dirs : i <= j
             k     == IF dirs = {} THEN Len(queue) + 1 ELSE first
  <1>1. queue \in Seq(Nodes) /\ Len(queue) \in Nat /\ Collected(sel, got, queue)
    BY ConcatProperties
  <1>2. /\ w.files = got \o SubSeq(queue, 1, k - 1) /\ w.rest = SubSeq(queue, k + 1, Len(queue))
        /\ w.dir = IF dirs = {} THEN NoPath ELSE queue[k]
    BY Zenon DEF Walk
  <1> HIDE DEF queue
  <1>3. CASE dirs = {}
    <2>1. k = Len(queue) + 1 /\ k \in 1 .. Len(queue) + 1 /\ \A i \in 1 .. k - 1 : ~ IsDir(queue[i])
      BY <1>1, <1>3
    <2> HIDE DEF k
    <2>2. Collected(sel, got \o SubSeq(queue, 1, k - 1), SubSeq(queue, k, Len(queue)))
      BY <1>1, <2>1, CollectFiles
    <2>3. SubSeq(queue, k, Len(queue)) = <<>> BY <1>1, <2>1, SubSeqEmpty
    <2> QED BY <1>2, <1>3, <2>2, <2>3
  <1>4. CASE dirs # {}
    <2>1. \E m \in dirs : \A j \in dirs : m <= j
      <3>1. dirs \in SUBSET Nat BY <1>1
      <3> QED BY <1>4, <3>1, LeastNatural
    <2>2. first \in dirs /\ \A j \in dirs : first <= j BY <2>1
    <2>3. k = first BY <1>4
    <2> HIDE DEF first
    <2>4. k \in 1 .. Len(queue) /\ IsDir(queue[k]) BY <2>2, <2>3
    <2>5. \A i \in 1 .. k - 1 : ~ IsDir(queue[i])
      <3> SUFFICES ASSUME NEW i \in 1 .. k - 1, IsDir(queue[i]) PROVE FALSE OBVIOUS
      <3>1. i \in dirs /\ i < k BY <1>1, <2>4
      <3> QED BY <2>2, <2>3, <2>4, <3>1
    <2> HIDE DEF k, dirs
    <2>6. Collected(sel, got \o SubSeq(queue, 1, k - 1), SubSeq(queue, k, Len(queue)))
      BY <1>1, <2>4, <2>5, CollectFiles
    <2>7. queue[k] \in Nodes /\ SubSeq(queue, k + 1, Len(queue)) \in Seq(Nodes)
      BY <1>1, <2>4, ElementOfSeq, SubSeqProperties
    <2>8. SubSeq(queue, k, Len(queue)) = <<queue[k]>> \o SubSeq(queue, k + 1, Len(queue))
      <3> DEFINE s == SubSeq(queue, k, Len(queue))
                 t == SubSeq(queue, k + 1, Len(queue))
                 u == <<queue[k]>> \o t
      <3>1. /\ s \in Seq(Nodes) /\ Len(s) = Len(queue) - k + 1
            /\ \A i \in 1 .. Len(queue) - k + 1 : s[i] = queue[k + i - 1]
        BY <1>1, <2>4, SubSeqProperties
      <3>2. /\ t \in Seq(Nodes) /\ Len(t) = Len(queue) - k
            /\ \A i \in 1 .. Len(queue) - k : t[i] = queue[k + i]
        BY <1>1, <2>4, SubSeqProperties
      <3> HIDE DEF s, t
      <3>3. <<queue[k]>> \in Seq(Nodes) /\ Len(<<queue[k]>>) = 1 /\ <<queue[k]>>[1] = queue[k]
        BY <2>7
      <3>4. /\ u \in Seq(Nodes) /\ Len(u) = 1 + Len(t)
            /\ \A i \in 1 .. Len(u) : u[i] = IF i <= 1 THEN <<queue[k]>>[i] ELSE t[i - 1]
        BY <3>2, <3>3, ConcatProperties
      <3> HIDE DEF u
      <3>5. \A i \in 1 .. Len(s) : s[i] = u[i]
        <4> SUFFICES ASSUME NEW i \in 1 .. Len(s) PROVE s[i] = u[i] OBVIOUS
        <4>1. CASE i = 1 BY <1>1, <2>4, <3>1, <3>2, <3>3, <3>4, <4>1
        <4>2. CASE i > 1
          <5>1. i - 1 \in 1 .. Len(queue) - k /\ k + (i - 1) = k + i - 1 BY <1>1, <2>4, <3>1, <4>2
          <5>2. u[i] = t[i - 1] BY <1>1, <2>4, <3>1, <3>2, <3>4, <4>2
          <5> QED BY <3>1, <3>2, <5>1, <5>2
        <4> QED BY <1>1, <2>4, <3>1, <4>1, <4>2
      <3>6. Len(s) = Len(u) BY <1>1, <2>4, <3>1, <3>2, <3>4
      <3>7. s = u BY <3>1, <3>4, <3>5, <3>6, SeqEqual
      <3> QED BY <3>7 DEF s, t, u
    <2>9. w.dir = queue[k] BY <1>2, <1>4
    <2> QED BY <1>2, <2>4, <2>6, <2>7, <2>8, <2>9, <1>4, NodesArePaths, TreeAssumption
            DEF IsDir, Nodes
  <1> QED BY <1>3, <1>4

WalkInv ==
  /\ show = "pre_tips" => status = 0
  /\ selected \in Seq(Nodes) /\ downFiles \in Seq(Files)
  /\ status = 2 => /\ asked \in DOMAIN Children /\ pending \in Seq(Nodes)
                   /\ Collected(selected, downFiles, <<asked>> \o pending)
  /\ status \in {3, 4} => Collected(selected, downFiles, <<>>)

LEMMA ContinueCollects ==
  ASSUME NEW content \in Seq(Nodes), NEW stack \in Seq(Nodes), NEW got,
         Collected(selected', got, content \o stack), Continue(Walk(stack, content, got)),
         show' # "pre_tips", selected' \in Seq(Nodes)
  PROVE  WalkInv'
  <1> DEFINE w == Walk(stack, content, got)
  <1>1. /\ w.dir = NoPath => Collected(selected', w.files, <<>>)
        /\ w.dir # NoPath => /\ w.dir \in DOMAIN Children /\ w.rest \in Seq(Nodes)
                             /\ Collected(selected', w.files, <<w.dir>> \o w.rest)
    BY WalkCollects
  <1>2. Continue(w) OBVIOUS
  <1> HIDE DEF w
  <1>3. /\ downFiles' = w.files /\ pending' = w.rest /\ asked' = w.dir
        /\ \/ w.dir # NoPath /\ status' = 2
           \/ status' = 1
           \/ w.dir = NoPath /\ status' = 3
    BY <1>2 DEF Continue
  <1>4. w.files \in Seq(Files) BY <1>1 DEF Collected
  <1> QED BY <1>1, <1>3, <1>4 DEF WalkInv

LEMMA WalkStep == WalkInv /\ [PackageNext]_packageVars => WalkInv'
  <1> SUFFICES ASSUME WalkInv, [PackageNext]_packageVars PROVE WalkInv' OBVIOUS
  <1>1. ASSUME NEW s \in Selections, Confirm(s) PROVE WalkInv'
    <2>1. s \in Seq(Nodes) /\ Len(s) \in Nat BY TreeAssumption
    <2>2. \A i \in 1 .. Len(s) : s[i] \in Path /\ Len(s[i]) = 1
      BY <2>1, NodesArePaths, ElementOfSeq, TreeAssumption
    <2>3. Ordered(s)
      <3> SUFFICES ASSUME NEW i \in 1 .. Len(s), NEW j \in 1 .. Len(s), i < j
                   PROVE  Before(s[i], s[j])
        BY DEF Ordered
      <3> DEFINE p == s[i]
                 q == s[j]
      <3>1. p \in Path /\ q \in Path /\ Len(p) = 1 /\ Len(q) = 1 BY <2>2
      <3>2. p[1] < q[1] BY TreeAssumption
      <3> HIDE DEF p, q
      <3>3. Parts(p, q, 1) /\ 1 \in 1 .. Len(q) BY <3>1, <3>2 DEF Parts
      <3>4. Before(p, q) BY <3>1, <3>3, BeforeParts
      <3> QED BY <3>4 DEF p, q
    <2>4. s \o <<>> = s BY <2>1, ConcatEmptySeq
    <2>5. <<>> \in Seq(Nodes) /\ <<>> \in Seq(Files) /\ Len(<<>>) = 0 BY EmptySeq
    <2>6. selected' = s /\ show' # "pre_tips" /\ Continue(Walk(<<>>, s, <<>>)) BY <1>1 DEF Confirm
    <2>7. Collected(s, <<>>, s \o <<>>) BY <2>1, <2>3, <2>4, <2>5 DEF Collected, Ordered
    <2> QED BY <2>1, <2>5, <2>6, <2>7, ContinueCollects
  <1>2. CASE ListAnswered
    <2>1. /\ asked \in DOMAIN Children /\ pending \in Seq(Nodes)
          /\ Collected(selected, downFiles, <<asked>> \o pending)
      BY <1>2 DEF ListAnswered, WalkInv
    <2>2. Collected(selected, downFiles, Children[asked] \o pending) BY <2>1, CollectListing
    <2>3. Children[asked] \in Seq(Nodes) BY <2>1, TreeAssumption
    <2>4. selected' = selected /\ selected \in Seq(Nodes) /\ show' # "pre_tips"
      BY <1>2 DEF ListAnswered, WalkInv
    <2>5. Continue(Walk(pending, Children[asked], downFiles)) BY <1>2 DEF ListAnswered
    <2> QED BY <2>1, <2>2, <2>3, <2>4, <2>5, ContinueCollects
  <1>3. ASSUME UNCHANGED <<selected, downFiles>>, status' \in {1, 4}, status \in {2, 3},
               status' = 4 => status = 3, show' = show
        PROVE  WalkInv'
    BY <1>3 DEF WalkInv
  <1>4. CASE ListFails BY <1>4, <1>3 DEF ListFails
  <1>5. CASE PipeCloses \/ PipeFails BY <1>5, <1>3 DEF PipeCloses, PipeFails, Ends
  <1>6. ASSUME UNCHANGED <<status, selected, pending, asked, downFiles>>,
               show' = "pre_tips" => status = 0
        PROVE  WalkInv'
    BY <1>6 DEF WalkInv
  <1>7. CASE Open \/ CancelTips \/ CloseDialog BY <1>6, <1>7 DEF Open, CancelTips, CloseDialog
  <1>8. ASSUME UNCHANGED page PROVE WalkInv' BY <1>6, <1>8 DEF page, WalkInv
  <1>9. ASSUME NEW i \in DOMAIN fetchMap, NEW outcome \in {"ok", "failed"}, Fetched(i, outcome)
        PROVE  WalkInv'
    BY <1>8, <1>9 DEF Fetched
  <1>10. CASE Pull \/ FileArrives \/ ReadChunk \/ ReadFails \/ Pipe
    BY <1>8, <1>10 DEF Pull, FileArrives, ReadChunk, ReadFails, Pipe
  <1>11. CASE WorkerMessage \/ StreamArrives \/ WorkerFetch \/ WorkerStops \/ Save \/ UserCancels
    BY <1>8, <1>11 DEF WorkerMessage, StreamArrives, WorkerFetch, WorkerStops, Save, UserCancels
  <1>12. CASE UNCHANGED packageVars BY <1>8, <1>12 DEF packageVars
  <1> QED BY <1>1, <1>2, <1>4, <1>5, <1>7, <1>9, <1>10, <1>11, <1>12 DEF PackageNext

LEMMA WalkInit == PackageInit => WalkInv
  BY EmptySeq DEF PackageInit, WalkInv

\* All that is collected is the walk of the selection.
LEMMA WalkShows ==
  ASSUME WalkInv, status \in {3, 4}
  PROVE  IsWalk(downFiles)
  <1>1. /\ downFiles \in Seq(Files) /\ Len(downFiles) \in Nat /\ Ordered(downFiles)
        /\ \A p \in Files : (\E i \in 1 .. Len(selected) : Leads(selected[i], p))
                              <=> \E i \in 1 .. Len(downFiles) : downFiles[i] = p
    BY DEF WalkInv, Collected
  <1>2. \A p \in Files : (\E s \in Range(selected) : IsPrefix(s, p))
                           <=> \E i \in 1 .. Len(selected) : Leads(selected[i], p)
    <2>1. Range(selected) = {selected[i] : i \in 1 .. Len(selected)}
      <3>1. DOMAIN selected = 1 .. Len(selected) BY DEF WalkInv
      <3> QED BY <3>1 DEF Range
    <2>2. \A i \in 1 .. Len(selected) : selected[i] \in Path
      BY NodesArePaths, ElementOfSeq DEF WalkInv
    <2> QED BY <2>1, <2>2, NodesArePaths, PrefixLeads
  <1>3. Range(downFiles) = {p \in Files : \E i \in 1 .. Len(downFiles) : downFiles[i] = p}
    BY <1>1, ElementOfSeq DEF Range
  <1>4. \A i \in 1 .. Len(downFiles) - 1 : Before(downFiles[i], downFiles[i + 1])
    BY <1>1 DEF Ordered
  <1> QED BY <1>1, <1>2, <1>3, <1>4 DEF IsWalk

-----------------------------------------------------------------------------
(***************************************************************************)
(* The recursive definitions of BytesOf and FlattenSeq, unfolded: a        *)
(* function that starts and goes on as theirs does is theirs.              *)
(***************************************************************************)
Recurs(f, S, a, H, m) ==
  f \in [0 .. m -> S] /\ f[0] = a /\ \A n \in 1 .. m : f[n] = H[<<n, f[n - 1]>>]

LEMMA Recursion ==
  ASSUME NEW S, NEW a \in S, NEW H \in [Nat \X S -> S], NEW m \in Nat
  PROVE  \E f : Recurs(f, S, a, H, m)
  <1> DEFINE Good(k) == \E f \in [0 .. k -> S] :
                           f[0] = a /\ \A n \in 1 .. k : f[n] = H[<<n, f[n - 1]>>]
             T == {k \in Nat : Good(k)}
  <1>1. 0 \in T
    <2>1. [n \in 0 .. 0 |-> a] \in [0 .. 0 -> S] /\ [n \in 0 .. 0 |-> a][0] = a OBVIOUS
    <2>2. Good(0)
      <3> DEFINE f == [n \in 0 .. 0 |-> a]
      <3>1. f \in [0 .. 0 -> S] /\ f[0] = a BY <2>1
      <3>2. \A n \in 1 .. 0 : f[n] = H[<<n, f[n - 1]>>] OBVIOUS
      <3> HIDE DEF f
      <3> QED BY <3>1, <3>2
    <2> QED BY <2>2
  <1>2. \A k \in T : k + 1 \in T
    <2> SUFFICES ASSUME NEW k \in Nat, Good(k) PROVE Good(k + 1) OBVIOUS
    <2>1. PICK f \in [0 .. k -> S] : f[0] = a /\ \A n \in 1 .. k : f[n] = H[<<n, f[n - 1]>>]
      OBVIOUS
    <2> DEFINE g == [n \in 0 .. k + 1 |-> IF n = k + 1 THEN H[<<k + 1, f[k]>>] ELSE f[n]]
    <2>2. g \in [0 .. k + 1 -> S] OBVIOUS
    <2>3. \A n \in 0 .. k : n \in 0 .. k + 1 /\ n # k + 1 OBVIOUS
    <2>4. \A n \in 0 .. k : g[n] = f[n] BY <2>3
    <2>5. g[k + 1] = H[<<k + 1, f[k]>>] OBVIOUS
    <2> HIDE DEF g
    <2>6. ASSUME NEW n \in 1 .. k + 1 PROVE g[n] = H[<<n, g[n - 1]>>]
      <3>1. CASE n = k + 1
        <4>1. n - 1 = k /\ k \in 0 .. k BY <3>1
        <4> QED BY <2>4, <2>5, <3>1, <4>1
      <3>2. CASE n # k + 1
        <4>1. n \in 1 .. k /\ n \in 0 .. k /\ n - 1 \in 0 .. k BY <3>2
        <4> QED BY <2>1, <2>4, <4>1
      <3> QED BY <3>1, <3>2
    <2>7. g[0] = a BY <2>1, <2>4
    <2> QED BY <2>2, <2>6, <2>7
  <1> HIDE DEF Good
  <1>3. T = Nat BY <1>1, <1>2, NaturalInduction
  <1>4. Good(m) BY <1>3
  <1> QED BY <1>4 DEF Good, Recurs

\* Two functions that start alike and go on alike are alike.
Alike(f, g, m) == f[0] = g[0] /\ \A n \in 1 .. m : f[n - 1] = g[n - 1] => f[n] = g[n]

LEMMA RecursionIsUnique ==
  ASSUME NEW m \in Nat, NEW f, NEW g, Alike(f, g, m)
  PROVE  \A n \in 0 .. m : f[n] = g[n]
  <1> DEFINE T == {n \in Nat : n <= m => f[n] = g[n]}
  <1>1. 0 \in T BY DEF Alike
  <1>2. \A n \in T : n + 1 \in T
    <2> SUFFICES ASSUME NEW n \in Nat, n <= m => f[n] = g[n], n + 1 <= m
                 PROVE  f[n + 1] = g[n + 1]
      OBVIOUS
    <2>1. n + 1 \in 1 .. m /\ (n + 1) - 1 = n OBVIOUS
    <2> QED BY <2>1 DEF Alike
  <1> HIDE DEF T
  <1>3. T = Nat BY <1>1, <1>2, NaturalInduction DEF T
  <1> QED BY <1>3 DEF T

NameSet == Path \cup {TrimTo[q] : q \in DOMAIN TrimTo}

Piece == [kind : {"header"}, name : NameSet] \cup [kind : {"data"}, file : Files, n : Nat]
         \cup [kind : {"footer"}, length : Nat]
         \cup [kind : {"central"}, entries : Seq([name : NameSet, offset : Nat, length : Nat]),
               count : Nat]

LEMMA BytesOfPiece ==
  /\ \A c \in Piece : Bytes(c) \in Nat
  /\ \A name \in NameSet : Header(name) \in Piece /\ Bytes(Header(name)) = HeaderLen
  /\ \A file \in Files, n \in Nat : Data(file, n) \in Piece /\ Bytes(Data(file, n)) = 1
  /\ \A n \in Nat : Footer(n) \in Piece /\ Bytes(Footer(n)) = FooterLen
  BY ZipAssumption DEF Piece, Bytes, Header, Data, Footer

LEMMA BytesUnfold ==
  ASSUME NEW s \in Seq(Piece), NEW f \in [0 .. Len(s) -> Int], f[0] = 0,
         \A n \in 1 .. Len(s) : f[n] = f[n - 1] + Bytes(s[n])
  PROVE  BytesOf(s) = f[Len(s)]
  <1> DEFINE m == Len(s)
             Sum(g) == g = [n \in 0 .. m |-> IF n = 0 THEN 0 ELSE g[n - 1] + Bytes(s[n])]
             u == CHOOSE g : Sum(g)
  <1>1. m \in Nat /\ BytesOf(s) = u[m] BY DEF BytesOf
  <1>2. Sum(f)
    <2> DEFINE h == [n \in 0 .. m |-> IF n = 0 THEN 0 ELSE f[n - 1] + Bytes(s[n])]
    <2>1. \A n \in 0 .. m : f[n] = h[n] BY <1>1
    <2>2. f = [n \in 0 .. m |-> f[n]] /\ h = [n \in 0 .. m |-> h[n]] OBVIOUS
    <2> HIDE DEF h
    <2>3. f = h BY <2>1, <2>2
    <2> QED BY <2>3 DEF h
  <1> HIDE DEF Sum
  <1>3. Sum(u) BY <1>2
  <1> HIDE DEF u, m
  <1>4. u[0] = 0 /\ \A n \in 1 .. m : u[n] = u[n - 1] + Bytes(s[n]) BY <1>1, <1>3 DEF Sum
  <1>5. \A n \in 0 .. m : u[n] = f[n]
    <2>1. m \in Nat /\ Alike(u, f, m) BY <1>1, <1>4 DEF m, Alike
    <2> QED BY <2>1, RecursionIsUnique
  <1> QED BY <1>1, <1>5 DEF m

\* The partial sums of a sequence of chunks.
LEMMA BytesSums ==
  ASSUME NEW s \in Seq(Piece)
  PROVE  \E f \in [0 .. Len(s) -> Nat] :
           /\ f[0] = 0 /\ \A n \in 1 .. Len(s) : f[n] = f[n - 1] + Bytes(s[n])
           /\ BytesOf(s) = f[Len(s)]
  <1> DEFINE H == [p \in Nat \X Nat |->
                     IF p[1] \in 1 .. Len(s) THEN p[2] + Bytes(s[p[1]]) ELSE 0]
  <1>1. \A n \in 1 .. Len(s) : Bytes(s[n]) \in Nat BY BytesOfPiece, ElementOfSeq
  <1>2. H \in [Nat \X Nat -> Nat] BY <1>1
  <1>3. \A n \in 1 .. Len(s), x \in Nat : H[<<n, x>>] = x + Bytes(s[n]) OBVIOUS
  <1> HIDE DEF H
  <1>4. PICK f : Recurs(f, Nat, 0, H, Len(s))
    <2>1. Len(s) \in Nat /\ 0 \in Nat OBVIOUS
    <2> QED BY <1>2, <2>1, Recursion
  <1>5. \A n \in 1 .. Len(s) : f[n] = f[n - 1] + Bytes(s[n])
    <2> SUFFICES ASSUME NEW n \in 1 .. Len(s) PROVE f[n] = f[n - 1] + Bytes(s[n]) OBVIOUS
    <2>1. n - 1 \in 0 .. Len(s) OBVIOUS
    <2> QED BY <1>3, <1>4, <2>1 DEF Recurs
  <1>6. f \in [0 .. Len(s) -> Nat] /\ f[0] = 0 BY <1>4 DEF Recurs
  <1>7. BytesOf(s) = f[Len(s)] BY <1>5, <1>6, BytesUnfold
  <1> QED BY <1>5, <1>6, <1>7

LEMMA BytesOfConcat ==
  ASSUME NEW s \in Seq(Piece), NEW t \in Seq(Piece)
  PROVE  /\ BytesOf(s) \in Nat /\ BytesOf(t) \in Nat
         /\ BytesOf(s \o t) = BytesOf(s) + BytesOf(t)
  <1> DEFINE st == s \o t
             a == Len(s)
             b == Len(t)
  <1>1. /\ st \in Seq(Piece) /\ a \in Nat /\ b \in Nat /\ Len(st) = a + b
        /\ \A n \in 1 .. Len(st) : st[n] = IF n <= a THEN s[n] ELSE t[n - a]
    BY ConcatProperties
  <1>2. PICK f \in [0 .. Len(st) -> Nat] :
           /\ f[0] = 0 /\ \A n \in 1 .. Len(st) : f[n] = f[n - 1] + Bytes(st[n])
           /\ BytesOf(st) = f[Len(st)]
    BY <1>1, BytesSums
  <1> HIDE DEF st
  <1>3. BytesOf(s) = f[a]
    <2> DEFINE g == [n \in 0 .. a |-> f[n]]
    <2>1. \A n \in 0 .. a : n \in 0 .. Len(st) BY <1>1
    <2>2. g \in [0 .. a -> Int] /\ g[0] = 0 /\ g[a] = f[a] BY <1>1, <1>2, <2>1
    <2>3. \A n \in 1 .. a : g[n] = g[n - 1] + Bytes(s[n])
      <3> SUFFICES ASSUME NEW n \in 1 .. a PROVE g[n] = g[n - 1] + Bytes(s[n]) OBVIOUS
      <3>1. n \in 0 .. a /\ n - 1 \in 0 .. a /\ n \in 1 .. Len(st) /\ st[n] = s[n] BY <1>1
      <3> QED BY <1>2, <3>1
    <2> HIDE DEF g
    <2> QED BY <2>2, <2>3, BytesUnfold
  <1>4. BytesOf(t) = f[a + b] - f[a]
    <2> DEFINE g == [n \in 0 .. b |-> f[a + n] - f[a]]
    <2>1. \A n \in 0 .. b : a + n \in 0 .. Len(st) BY <1>1
    <2>2. a \in 0 .. Len(st) BY <1>1
    <2>3. g \in [0 .. b -> Int] /\ g[0] = 0 /\ g[b] = f[a + b] - f[a] BY <1>1, <2>1, <2>2
    <2>4. \A n \in 1 .. b : g[n] = g[n - 1] + Bytes(t[n])
      <3> SUFFICES ASSUME NEW n \in 1 .. b PROVE g[n] = g[n - 1] + Bytes(t[n]) OBVIOUS
      <3>1. /\ n \in 0 .. b /\ n - 1 \in 0 .. b /\ a + n \in 1 .. Len(st)
            /\ (a + n) - 1 = a + (n - 1) /\ (a + n) - a = n /\ ~ (a + n <= a)
        BY <1>1
      <3>2. st[a + n] = t[n] BY <1>1, <3>1
      <3>3. f[a + n] = f[a + (n - 1)] + Bytes(t[n]) BY <1>2, <3>1, <3>2
      <3>4. g[n] = f[a + n] - f[a] /\ g[n - 1] = f[a + (n - 1)] - f[a] BY <3>1
      <3>5. Bytes(t[n]) \in Nat BY BytesOfPiece, ElementOfSeq
      <3>6. f[a] \in Nat /\ f[a + n] \in Nat /\ f[a + (n - 1)] \in Nat BY <2>1, <2>2, <3>1
      <3> QED BY <3>3, <3>4, <3>5, <3>6
    <2> HIDE DEF g
    <2> QED BY <2>3, <2>4, BytesUnfold
  <1>5. f[a] \in Nat /\ f[a + b] \in Nat /\ a + b = Len(st) BY <1>1
  <1>6. BytesOf(t) \in Nat
    <2>1. PICK g \in [0 .. b -> Nat] : BytesOf(t) = g[b] BY BytesSums
    <2> QED BY <1>1, <2>1
  <1> QED BY <1>2, <1>3, <1>4, <1>5, <1>6 DEF st

LEMMA FlattenUnfold ==
  ASSUME NEW X, NEW s \in Seq(Seq(X)), NEW f \in [0 .. Len(s) -> Seq(X)], f[0] = <<>>,
         \A n \in 1 .. Len(s) : f[n] = f[n - 1] \o s[n]
  PROVE  FlattenSeq(s) = f[Len(s)]
  <1> DEFINE m == Len(s)
             Flat(g) == g = [i \in 1 .. m |-> IF i = 1 THEN s[i] ELSE g[i - 1] \o s[i]]
             u == CHOOSE g : Flat(g)
  <1>1. m \in Nat OBVIOUS
  <1>2. CASE m = 0
    <2>1. FlattenSeq(s) = s BY <1>2 DEF FlattenSeq
    <2>2. s = <<>> BY <1>2
    <2> QED BY <1>2, <2>1, <2>2
  <1>3. CASE m # 0
    <2>1. FlattenSeq(s) = u[m] BY <1>3 DEF FlattenSeq
    <2>2. f[1] = s[1]
      <3>1. 1 \in 1 .. m /\ 1 - 1 = 0 BY <1>1, <1>3
      <3>2. f[1] = <<>> \o s[1] BY <3>1
      <3>3. s[1] \in Seq(X) BY <3>1, ElementOfSeq
      <3> QED BY <3>2, <3>3, ConcatEmptySeq
    <2> DEFINE h == [i \in 1 .. m |-> f[i]]
               k == [i \in 1 .. m |-> IF i = 1 THEN s[i] ELSE h[i - 1] \o s[i]]
    <2>3. \A i \in 1 .. m : h[i] = k[i]
      <3> SUFFICES ASSUME NEW i \in 1 .. m PROVE h[i] = k[i] OBVIOUS
      <3>1. CASE i = 1 BY <2>2, <3>1
      <3>2. CASE i # 1
        <4>1. i - 1 \in 1 .. m BY <1>1, <3>2
        <4> QED BY <3>2, <4>1
      <3> QED BY <3>1, <3>2
    <2>4. Flat(h)
      <3>1. h = [i \in 1 .. m |-> h[i]] /\ k = [i \in 1 .. m |-> k[i]] OBVIOUS
      <3> HIDE DEF k, h
      <3>2. h = k BY <2>3, <3>1
      <3> QED BY <3>2 DEF k
    <2> HIDE DEF Flat, h
    <2>5. Flat(u) BY <2>4
    <2> HIDE DEF u
    <2> DEFINE v == [i \in 0 .. m |-> IF i = 0 THEN <<>> ELSE u[i]]
    <2>6. v[0] = f[0] BY <1>1
    <2>7. ASSUME NEW n \in 1 .. m, v[n - 1] = f[n - 1] PROVE v[n] = f[n]
      <3>1. v[n] = u[n] BY <1>1
      <3>2. CASE n = 1 BY <2>2, <2>5, <3>1, <3>2 DEF Flat
      <3>3. CASE n # 1
        <4>1. n - 1 \in 1 .. m /\ n - 1 \in 0 .. m BY <1>1, <3>3
        <4>2. u[n] = u[n - 1] \o s[n] BY <2>5, <3>3 DEF Flat
        <4>3. v[n - 1] = u[n - 1] BY <4>1
        <4> QED BY <2>7, <3>1, <4>2, <4>3
      <3> QED BY <3>2, <3>3
    <2>8. u[m] = v[m] BY <1>1, <1>3
    <2> HIDE DEF v
    <2>9. Alike(v, f, m) BY <2>6, <2>7 DEF Alike
    <2>10. \A n \in 0 .. m : v[n] = f[n]
      <3> HIDE DEF m
      <3> QED BY <1>1, <2>9, RecursionIsUnique
    <2> QED BY <1>1, <2>1, <2>8, <2>10
  <1> QED BY <1>2, <1>3

-----------------------------------------------------------------------------
(***************************************************************************)
(* The archive, file by file.                                              *)
(***************************************************************************)
FileUpTo(p, m) == <<Header(ZipName(p))>> \o [n \in 1 .. m |-> Data(p, n)]

LEMMA BytesOfOne ==
  ASSUME NEW c \in Piece
  PROVE  <<c>> \in Seq(Piece) /\ BytesOf(<<c>>) = Bytes(c)
  <1> DEFINE s == <<c>>
             f == [n \in 0 .. 1 |-> IF n = 0 THEN 0 ELSE Bytes(c)]
  <1>1. s \in Seq(Piece) /\ Len(s) = 1 /\ s[1] = c OBVIOUS
  <1>2. Bytes(c) \in Nat BY BytesOfPiece
  <1>3. f \in [0 .. 1 -> Int] /\ f[0] = 0 /\ f[1] = Bytes(c) BY <1>2
  <1> HIDE DEF s, f
  <1>4. \A n \in 1 .. 1 : f[n] = f[n - 1] + Bytes(s[n]) BY <1>1, <1>2, <1>3
  <1>5. BytesOf(s) = f[1] BY <1>1, <1>3, <1>4, BytesUnfold
  <1> QED BY <1>1, <1>3, <1>5 DEF s

LEMMA NamesFit == \A p \in Files : ZipName(p) \in NameSet
  <1> SUFFICES ASSUME NEW p \in Files PROVE ZipName(p) \in NameSet OBVIOUS
  <1>1. p \in Path /\ Len(p) \in Nat BY NodesArePaths DEF Path
  <1>2. ASSUME Len(p) > 1 PROVE Tail(p) \in Path BY <1>1, <1>2, HeadTailProperties DEF Path
  <1> QED BY <1>1, <1>2 DEF ZipName, NameSet

LEMMA FileGrows ==
  ASSUME NEW p \in Files, NEW m \in Nat
  PROVE  /\ FileUpTo(p, m) \in Seq(Piece)
         /\ FileUpTo(p, 0) = <<Header(ZipName(p))>>
         /\ FileUpTo(p, m + 1) = Append(FileUpTo(p, m), Data(p, m + 1))
         /\ BytesOf(FileUpTo(p, m)) = HeaderLen + m
  <1> DEFINE h == <<Header(ZipName(p))>>
             D(k) == [n \in 1 .. k |-> Data(p, n)]
  <1>1. h \in Seq(Piece) /\ Len(h) = 1 /\ BytesOf(h) = HeaderLen
    <2>1. Header(ZipName(p)) \in Piece /\ Bytes(Header(ZipName(p))) = HeaderLen
      BY NamesFit, BytesOfPiece
    <2> QED BY <2>1, BytesOfOne
  <1>2. \A k \in Nat : /\ D(k) \in Seq(Piece) /\ Len(D(k)) = k
                       /\ \A n \in 1 .. k : D(k)[n] = Data(p, n)
    <2> SUFFICES ASSUME NEW k \in Nat
                 PROVE  /\ D(k) \in Seq(Piece) /\ Len(D(k)) = k
                        /\ \A n \in 1 .. k : D(k)[n] = Data(p, n)
      OBVIOUS
    <2>1. \A n \in 1 .. k : Data(p, n) \in Piece BY BytesOfPiece
    <2> QED BY <2>1
  <1>3. BytesOf(D(m)) = m
    <2> DEFINE f == [n \in 0 .. m |-> n]
               d == D(m)
    <2>1. d \in Seq(Piece) /\ Len(d) = m /\ \A n \in 1 .. m : d[n] = Data(p, n) BY <1>2
    <2>2. f \in [0 .. m -> Int] /\ f[0] = 0 /\ f[m] = m OBVIOUS
    <2>3. \A n \in 1 .. m : f[n] = f[n - 1] + Bytes(d[n])
      <3> SUFFICES ASSUME NEW n \in 1 .. m PROVE f[n] = f[n - 1] + Bytes(d[n]) OBVIOUS
      <3>1. Bytes(d[n]) = 1 BY <2>1, BytesOfPiece
      <3>2. f[n] = n /\ f[n - 1] = n - 1 OBVIOUS
      <3> QED BY <3>1, <3>2
    <2> HIDE DEF f, d
    <2>4. BytesOf(d) = f[m] BY <2>1, <2>2, <2>3, BytesUnfold
    <2> QED BY <2>2, <2>4 DEF d
  <1>4. D(0) = <<>> OBVIOUS
  <1>5. D(m + 1) = Append(D(m), Data(p, m + 1))
    <2>1. /\ D(m + 1) \in Seq(Piece) /\ Len(D(m + 1)) = m + 1
          /\ \A n \in 1 .. m + 1 : D(m + 1)[n] = Data(p, n)
      BY <1>2
    <2> DEFINE a == Append(D(m), Data(p, m + 1))
               d == D(m)
    <2>2. d \in Seq(Piece) /\ Len(d) = m /\ \A n \in 1 .. m : d[n] = Data(p, n) BY <1>2
    <2>3. Data(p, m + 1) \in Piece BY BytesOfPiece
    <2> HIDE DEF d
    <2>4. /\ Append(d, Data(p, m + 1)) \in Seq(Piece) /\ Len(Append(d, Data(p, m + 1))) = m + 1
          /\ \A n \in 1 .. m : Append(d, Data(p, m + 1))[n] = d[n]
          /\ Append(d, Data(p, m + 1))[m + 1] = Data(p, m + 1)
      BY <2>2, <2>3, AppendProperties
    <2>5. a \in Seq(Piece) /\ Len(a) = m + 1 /\ \A n \in 1 .. m + 1 : a[n] = Data(p, n)
      BY <2>2, <2>4 DEF d
    <2> HIDE DEF a, D
    <2>6. D(m + 1) = a BY <2>1, <2>5, SeqEqual
    <2> QED BY <2>6 DEF a
  <1> HIDE DEF h
  <1>6. D(m) \in Seq(Piece) /\ Data(p, m + 1) \in Piece BY <1>2, BytesOfPiece
  <1>7. \A k \in Nat : FileUpTo(p, k) = h \o D(k) BY DEF FileUpTo, h
  <1> HIDE DEF D
  <1>8. FileUpTo(p, 0) = h BY <1>1, <1>4, <1>7, ConcatEmptySeq
  <1>9. FileUpTo(p, m) \in Seq(Piece) /\ BytesOf(FileUpTo(p, m)) = HeaderLen + m
    BY <1>1, <1>3, <1>6, <1>7, ConcatProperties, BytesOfConcat
  <1>10. FileUpTo(p, m + 1) = Append(h \o D(m), Data(p, m + 1))
    <2>1. h \o Append(D(m), Data(p, m + 1)) = Append(h \o D(m), Data(p, m + 1))
      <3> DEFINE c == Data(p, m + 1)
      <3> HIDE DEF c
      <3>1. c \in Piece BY <1>6 DEF c
      <3>2. Append(D(m), c) = D(m) \o <<c>> /\ <<c>> \in Seq(Piece) BY <1>6, <3>1, AppendIsConcat
      <3>3. h \o (D(m) \o <<c>>) = (h \o D(m)) \o <<c>> BY <1>1, <1>6, <3>2, ConcatAssociative
      <3>4. h \o D(m) \in Seq(Piece) BY <1>1, <1>6, ConcatProperties
      <3>5. Append(h \o D(m), c) = (h \o D(m)) \o <<c>> BY <3>1, <3>4, AppendIsConcat
      <3> QED BY <3>2, <3>3, <3>5 DEF c
    <2>2. m + 1 \in Nat OBVIOUS
    <2> QED BY <1>5, <1>7, <2>1, <2>2
  <1> QED BY <1>7, <1>8, <1>9, <1>10 DEF h

LEMMA FileEnds ==
  ASSUME NEW p \in Files
  PROVE  /\ Chunks[p] \in Nat
         /\ FileInArchive(p) = Append(FileUpTo(p, Chunks[p]), Footer(Chunks[p]))
         /\ FileInArchive(p) \in Seq(Piece)
         /\ BytesOf(FileInArchive(p)) = HeaderLen + Chunks[p] + FooterLen
  <1>1. Chunks[p] \in Nat BY PackageAssumption
  <1> DEFINE a == FileUpTo(p, Chunks[p])
             c == Footer(Chunks[p])
  <1>2. FileInArchive(p) = a \o <<c>> BY DEF FileInArchive, FileUpTo
  <1>3. a \in Seq(Piece) /\ BytesOf(a) = HeaderLen + Chunks[p] BY <1>1, FileGrows
  <1>4. c \in Piece /\ Bytes(c) = FooterLen BY <1>1, BytesOfPiece
  <1> HIDE DEF a, c
  <1>5. <<c>> \in Seq(Piece) /\ BytesOf(<<c>>) = FooterLen BY <1>4, BytesOfOne
  <1>6. Append(a, c) = a \o <<c>> /\ a \o <<c>> \in Seq(Piece)
    BY <1>3, <1>4, <1>5, AppendIsConcat, ConcatProperties
  <1>7. BytesOf(a \o <<c>>) = BytesOf(a) + FooterLen BY <1>3, <1>5, BytesOfConcat
  <1> QED BY <1>1, <1>2, <1>3, <1>6, <1>7 DEF a, c

LEMMA ArchiveGrows ==
  ASSUME downFiles \in Seq(Files)
  PROVE  /\ ArchiveOf(0) = <<>>
         /\ \A n \in 0 .. N : ArchiveOf(n) \in Seq(Piece) /\ BytesOf(ArchiveOf(n)) \in Nat
         /\ \A n \in 1 .. N : ArchiveOf(n) = ArchiveOf(n - 1) \o FileInArchive(downFiles[n])
  <1> DEFINE F(i) == FileInArchive(downFiles[i])
             H == [q \in Nat \X Seq(Piece) |-> IF q[1] \in 1 .. N THEN q[2] \o F(q[1]) ELSE q[2]]
  <1>1. N \in Nat BY DEF N
  <1>2. \A i \in 1 .. N : F(i) \in Seq(Piece) BY FileEnds, ElementOfSeq DEF N
  <1>3. H \in [Nat \X Seq(Piece) -> Seq(Piece)]
    <2> SUFFICES ASSUME NEW q \in Nat \X Seq(Piece)
                 PROVE  (IF q[1] \in 1 .. N THEN q[2] \o F(q[1]) ELSE q[2]) \in Seq(Piece)
      OBVIOUS
    <2> QED BY <1>2, ConcatProperties
  <1> HIDE DEF F
  <1>4. \A i \in 1 .. N, x \in Seq(Piece) : H[<<i, x>>] = x \o F(i)
    <2> SUFFICES ASSUME NEW i \in 1 .. N, NEW x \in Seq(Piece)
                 PROVE  H[<<i, x>>] = x \o F(i)
      OBVIOUS
    <2> DEFINE q == <<i, x>>
    <2>1. q \in Nat \X Seq(Piece) /\ q[1] = i /\ q[2] = x BY <1>1
    <2> HIDE DEF q
    <2>2. H[q] = q[2] \o F(q[1]) BY <2>1
    <2> QED BY <2>1, <2>2 DEF q
  <1> HIDE DEF H
  <1>5. PICK f : Recurs(f, Seq(Piece), <<>>, H, N)
    <2>1. <<>> \in Seq(Piece) BY EmptySeq
    <2> HIDE DEF N
    <2> QED BY <1>1, <1>3, <2>1, Recursion
  <1>6. f \in [0 .. N -> Seq(Piece)] /\ f[0] = <<>> BY <1>5 DEF Recurs
  <1>7. \A i \in 1 .. N : f[i] = f[i - 1] \o F(i)
    <2> SUFFICES ASSUME NEW i \in 1 .. N PROVE f[i] = f[i - 1] \o F(i) OBVIOUS
    <2>1. f[i - 1] \in Seq(Piece)
      <3>1. i - 1 \in 0 .. N BY <1>1
      <3> QED BY <1>6, <3>1
    <2> QED BY <1>4, <1>5, <2>1 DEF Recurs
  <1>8. \A n \in 0 .. N : ArchiveOf(n) = f[n]
    <2> SUFFICES ASSUME NEW n \in 0 .. N PROVE ArchiveOf(n) = f[n] OBVIOUS
    <2> DEFINE s == [i \in 1 .. n |-> F(i)]
               g == [i \in 0 .. n |-> f[i]]
    <2>1. \A i \in 1 .. n : i \in 1 .. N BY <1>1
    <2>2. \A i \in 0 .. n : i \in 0 .. N BY <1>1
    <2>3. n \in Nat BY <1>1
    <2>4. s \in Seq(Seq(Piece)) /\ Len(s) = n /\ \A i \in 1 .. n : s[i] = F(i)
      BY <1>2, <2>1, <2>3
    <2>5. g \in [0 .. n -> Seq(Piece)] /\ g[0] = <<>> /\ g[n] = f[n]
      BY <1>6, <2>2, <2>3
    <2>6. \A i \in 1 .. n : g[i] = g[i - 1] \o s[i]
      <3> SUFFICES ASSUME NEW i \in 1 .. n PROVE g[i] = g[i - 1] \o s[i] OBVIOUS
      <3>1. i \in 0 .. n /\ i - 1 \in 0 .. n BY <2>3
      <3> QED BY <1>7, <2>1, <2>4, <3>1
    <2>7. ArchiveOf(n) = FlattenSeq(s) BY DEF ArchiveOf, F
    <2> HIDE DEF s, g
    <2>8. FlattenSeq(s) = g[n] BY <2>4, <2>5, <2>6, FlattenUnfold
    <2> QED BY <2>5, <2>7, <2>8
  <1>9. ArchiveOf(0) = <<>> BY <1>1, <1>6, <1>8
  <1>10. \A n \in 0 .. N : ArchiveOf(n) \in Seq(Piece) BY <1>6, <1>8
  <1>11. \A n \in 1 .. N : ArchiveOf(n) = ArchiveOf(n - 1) \o F(n)
    <2> SUFFICES ASSUME NEW n \in 1 .. N PROVE ArchiveOf(n) = ArchiveOf(n - 1) \o F(n) OBVIOUS
    <2>1. n \in 0 .. N /\ n - 1 \in 0 .. N BY <1>1
    <2> QED BY <1>7, <1>8, <2>1
  <1>12. \A n \in 0 .. N : BytesOf(ArchiveOf(n)) \in Nat BY <1>10, BytesOfConcat
  <1> QED BY <1>9, <1>10, <1>11, <1>12 DEF F

\* Every file is within the archive.
LEMMA ArchiveBounds ==
  ASSUME downFiles \in Seq(Files), NEW n \in 1 .. N
  PROVE  /\ BytesOf(ArchiveOf(n)) = BytesOf(ArchiveOf(n - 1)) + HeaderLen + Chunks[downFiles[n]] + FooterLen
         /\ BytesOf(ArchiveOf(n)) <= BytesOf(ArchiveOf(N))
  <1> DEFINE B(i) == BytesOf(ArchiveOf(i))
             T == {k \in Nat : n + k <= N => B(n) <= B(n + k)}
  <1>1. N \in Nat BY DEF N
  <1>2. \A i \in 0 .. N : B(i) \in Nat /\ ArchiveOf(i) \in Seq(Piece) BY ArchiveGrows
  <1>3. ASSUME NEW i \in 1 .. N
        PROVE  /\ B(i) = B(i - 1) + HeaderLen + Chunks[downFiles[i]] + FooterLen
               /\ B(i - 1) <= B(i)
    <2>1. downFiles[i] \in Files BY ElementOfSeq DEF N
    <2>2. /\ Chunks[downFiles[i]] \in Nat /\ FileInArchive(downFiles[i]) \in Seq(Piece)
          /\ BytesOf(FileInArchive(downFiles[i])) = HeaderLen + Chunks[downFiles[i]] + FooterLen
      BY <2>1, FileEnds
    <2>3. i - 1 \in 0 .. N BY <1>1
    <2>4. B(i) = B(i - 1) + BytesOf(FileInArchive(downFiles[i]))
      BY <1>2, <2>2, <2>3, ArchiveGrows, BytesOfConcat
    <2>5. B(i - 1) \in Nat BY <1>2, <2>3
    <2> QED BY <2>2, <2>4, <2>5, ZipAssumption
  <1> HIDE DEF B
  <1>4. 0 \in T
    <2>1. n \in 0 .. N /\ n + 0 = n BY <1>1
    <2>2. B(n) <= B(n + 0) BY <1>2, <2>1
    <2> QED BY <2>2
  <1>5. \A k \in T : k + 1 \in T
    <2> SUFFICES ASSUME NEW k \in Nat, n + k <= N => B(n) <= B(n + k), n + (k + 1) <= N
                 PROVE  B(n) <= B(n + (k + 1))
      OBVIOUS
    <2>1. n + (k + 1) \in 1 .. N /\ n + (k + 1) - 1 = n + k BY <1>1
    <2>2. n \in 0 .. N /\ n + k \in 0 .. N /\ n + (k + 1) \in 0 .. N BY <1>1
    <2>3. B(n + k) <= B(n + (k + 1)) BY <1>3, <2>1
    <2>4. B(n) \in Nat /\ B(n + k) \in Nat /\ B(n + (k + 1)) \in Nat BY <1>2, <2>2
    <2>5. B(n) <= B(n + k) BY <1>1, <2>2
    <2> QED BY <2>3, <2>4, <2>5
  <1>6. T = Nat
    <2> HIDE DEF T
    <2>1. T \in SUBSET Nat BY DEF T
    <2> QED BY <1>4, <1>5, <2>1, NaturalInduction
  <1>7. B(n) <= B(N)
    <2> HIDE DEF T
    <2>1. N - n \in Nat /\ n + (N - n) = N BY <1>1
    <2>2. N - n \in T BY <1>6, <2>1
    <2>3. n + (N - n) <= N => B(n) <= B(n + (N - n)) BY <2>2 DEF T
    <2> QED BY <1>1, <2>1, <2>3
  <1> QED BY <1>3, <1>7 DEF B

-----------------------------------------------------------------------------
(***************************************************************************)
(* The writer.  While its stream is readable it has entered the first e    *)
(* files, and is between two files or within the last of them.             *)
(***************************************************************************)
Written == handed \o zip.out

Entered(e) ==
  /\ e = Len(zip.filenames) /\ e <= N /\ ~ zip.closed
  /\ e = IF pulling = "file" THEN currentIndex - 2 ELSE currentIndex - 1
  /\ currentIndex - 1 <= N
  /\ \A i \in 1 .. e, p \in Files : p = downFiles[i] => zip.filenames[i] = ZipName(p)
  /\ \A i, j \in 1 .. e : i # j => zip.filenames[i] # zip.filenames[j]
  /\ Len(zip.lengths) = e
  /\ \A i \in 1 .. e : i < e \/ ~ zip.active => zip.lengths[i] = Chunks[downFiles[i]]
  /\ Len(zip.offsets) = e /\ \A i \in 1 .. e : zip.offsets[i] = BytesOf(ArchiveOf(i - 1))

Between(e) ==
  /\ ~ zip.active /\ zip.activeZipIndex = e + 1
  /\ zip.offset = BytesOf(ArchiveOf(e))
  /\ Written = ArchiveOf(e)

Within(e) ==
  /\ zip.active /\ zip.activeZipIndex = e /\ e > 0
  /\ \E p \in Files, m \in Nat :
       /\ p = downFiles[e] /\ m = zip.lengths[e] /\ m <= Chunks[p]
       /\ Written = ArchiveOf(e - 1) \o FileUpTo(p, m)
  /\ zip.offset = BytesOf(ArchiveOf(e - 1)) + HeaderLen

Finished ==
  /\ \A i, j \in 1 .. N, p, q \in Files :
       p = downFiles[i] /\ q = downFiles[j] /\ i # j => ZipName(p) # ZipName(q)
  /\ \E n \in Nat, c \in Piece :
       /\ n = N /\ Written = Append(ArchiveOf(n), c)
       /\ BytesOf(ArchiveOf(n)) < Uint32 /\ n < Uint16 => c = Directory

ZipTypes ==
  /\ zip.filenames \in Seq(NameSet) /\ zip.lengths \in Seq(Nat) /\ zip.offsets \in Seq(Nat)
  /\ zip.out \in Seq(Piece) /\ zip.active \in BOOLEAN
  /\ handed \in Seq(Piece) /\ downFiles \in Seq(Files)
  /\ pulling \in {"idle", "file", "chunk"}

ZipFits ==
  /\ zip.state = "readable" => \E e \in Nat : Entered(e) /\ (Between(e) \/ Within(e))
  /\ zip.state = "closed" => Finished
  /\ pulling # "idle" => zip.state = "readable"
  /\ pulling = "file" => ~ zip.active
  /\ pulling = "chunk" => zip.active

ArchiveInv ==
  /\ ZipTypes /\ ZipFits
  /\ status \in {0, 2} => zip = NewZip /\ handed = <<>>
  /\ status = 4 => zip.state = "closed" /\ zip.out = <<>>

Unwritten ==
  /\ zip = NewZip /\ handed = <<>> /\ pulling = "idle" /\ currentIndex = 1
  /\ downFiles \in Seq(Files)

LEMMA NothingWritten == Unwritten => ZipTypes /\ ZipFits
  <1> SUFFICES ASSUME Unwritten PROVE ZipTypes /\ ZipFits OBVIOUS
  <1> USE DEF Unwritten
  <1> USE DEF NewZip
  <1>1. /\ zip.filenames = <<>> /\ zip.lengths = <<>> /\ zip.offsets = <<>> /\ zip.out = <<>>
        /\ zip.active = FALSE /\ zip.closed = FALSE /\ zip.activeZipIndex = 1 /\ zip.offset = 0
        /\ zip.state = "readable"
    OBVIOUS
  <1>2. ZipTypes BY <1>1, EmptySeq DEF ZipTypes
  <1>3. N \in Nat BY DEF N
  <1>4. Written = <<>> BY <1>1 DEF Written
  <1>5. ArchiveOf(0) = <<>> BY ArchiveGrows
  <1>6. BytesOf(<<>>) = 0
    <2> DEFINE s == <<>>
               f == [n \in 0 .. 0 |-> 0]
    <2>1. s \in Seq(Piece) /\ Len(s) = 0 BY EmptySeq
    <2>2. f \in [0 .. 0 -> Int] /\ f[0] = 0 OBVIOUS
    <2> HIDE DEF s, f
    <2>3. \A n \in 1 .. 0 : f[n] = f[n - 1] + Bytes(s[n]) OBVIOUS
    <2>4. BytesOf(s) = f[0] BY <2>1, <2>2, <2>3, BytesUnfold
    <2> QED BY <2>2, <2>4 DEF s
  <1>7. Entered(0) BY <1>1, <1>3, EmptySeq DEF Entered
  <1>8. Between(0) BY <1>1, <1>4, <1>5, <1>6 DEF Between
  <1> QED BY <1>1, <1>2, <1>7, <1>8 DEF ZipFits

\* The archive is a function of the files and of the selection.
LEMMA ArchiveSame ==
  ASSUME UNCHANGED <<downFiles, selected>>
  PROVE  /\ N' = N
         /\ \A p : ZipName(p)' = ZipName(p)
         /\ \A p, m : FileUpTo(p, m)' = FileUpTo(p, m)
         /\ \A n : ArchiveOf(n)' = ArchiveOf(n)
         /\ Directory' = Directory
  <1>1. N' = N BY DEF N
  <1>2. \A p : ZipName(p)' = ZipName(p) BY DEF ZipName
  <1>3. \A p, m : FileUpTo(p, m)' = FileUpTo(p, m) BY <1>2 DEF FileUpTo
  <1>4. \A p : FileInArchive(p)' = FileInArchive(p) BY <1>2 DEF FileInArchive
  <1>5. \A n : ArchiveOf(n)' = ArchiveOf(n)
    <2> SUFFICES ASSUME NEW n PROVE ArchiveOf(n)' = ArchiveOf(n) OBVIOUS
    <2>1. [i \in 1 .. n |-> FileInArchive(downFiles[i])]' = [i \in 1 .. n |-> FileInArchive(downFiles[i])]
      BY DEF FileInArchive, ZipName
    <2> QED BY <2>1 DEF ArchiveOf
  <1>6. Directory' = Directory BY <1>1, <1>5 DEF Directory, ZipName
  <1> QED BY <1>1, <1>2, <1>3, <1>5, <1>6

LEMMA NothingWrittenNext == Unwritten' => (ZipTypes /\ ZipFits)'
  BY NothingWritten, PTL

\* A step that leaves the writer's books alone, and the chunks written.
LEMMA ZipKeeps ==
  ASSUME NEW e \in Nat, UNCHANGED <<downFiles, selected, currentIndex>>,
         zip'.filenames = zip.filenames, zip'.lengths = zip.lengths, zip'.offsets = zip.offsets,
         zip'.offset = zip.offset, zip'.active = zip.active, zip'.closed = zip.closed,
         zip'.activeZipIndex = zip.activeZipIndex, Written' = Written,
         pulling' = "file" <=> pulling = "file"
  PROVE  /\ Entered(e) => Entered(e)'
         /\ Between(e) => Between(e)'
         /\ Within(e) => Within(e)'
         /\ Finished => Finished'
  <1>1. /\ (ArchiveOf(e - 1))' = ArchiveOf(e - 1) /\ (ArchiveOf(e))' = ArchiveOf(e)
        /\ \A i : ArchiveOf(i)' = ArchiveOf(i) /\ \A p : ZipName(p)' = ZipName(p)
    BY ArchiveSame
  <1>2. N' = N BY ArchiveSame
  <1>3. ASSUME Within(e) PROVE Within(e)'
    <2>1. PICK p \in Files, m \in Nat :
                 /\ p = downFiles[e] /\ m = zip.lengths[e] /\ m <= Chunks[p]
                 /\ Written = ArchiveOf(e - 1) \o FileUpTo(p, m)
      BY <1>3 DEF Within
    <2>2. FileUpTo(p, m)' = FileUpTo(p, m) BY ArchiveSame
    <2>3. (Written = ArchiveOf(e - 1) \o FileUpTo(p, m))' BY <1>1, <2>1, <2>2
    <2> QED BY <1>1, <1>3, <2>1, <2>3 DEF Within
  <1>4. ASSUME Finished PROVE Finished' BY <1>4, ArchiveSame DEF Finished
  <1>5. ASSUME Between(e) PROVE Between(e)' BY <1>1, <1>5 DEF Between
  <1>6. ASSUME Entered(e) PROVE Entered(e)'
    <2>1. \A i \in 1 .. e : BytesOf(ArchiveOf(i - 1))' = BytesOf(ArchiveOf(i - 1)) BY <1>1
    <2> QED BY <1>1, <1>2, <1>6, <2>1 DEF Entered
  <1> QED BY <1>3, <1>4, <1>5, <1>6

LEMMA PipeWrites ==
  ASSUME ZipTypes, zip.out # <<>>, handed' = Append(handed, Head(zip.out)), zip'.out = Tail(zip.out)
  PROVE  Written' = Written /\ handed' \in Seq(Piece) /\ zip'.out \in Seq(Piece)
  <1> DEFINE h == handed
             o == zip.out
             x == Head(o)
             t == Tail(o)
  <1>1. h \in Seq(Piece) /\ o \in Seq(Piece) /\ o # <<>> BY DEF ZipTypes
  <1> HIDE DEF h, o
  <1>2. x \in Piece /\ t \in Seq(Piece) /\ Len(t) = Len(o) - 1 /\ x = o[1]
        /\ \A i \in 1 .. Len(t) : t[i] = o[i + 1]
    BY <1>1, HeadTailProperties
  <1> HIDE DEF x, t
  <1>3. Append(h, x) \in Seq(Piece) /\ Len(Append(h, x)) = Len(h) + 1 
        /\ \A i \in 1 .. Len(h) : Append(h, x)[i] = h[i]
        /\ Append(h, x)[Len(h) + 1] = x
    BY <1>1, <1>2, AppendProperties
  <1> DEFINE a == Append(h, x)
             l == a \o t
             r == h \o o
  <1> HIDE DEF a
  <1>4. a \in Seq(Piece) /\ Len(a) = Len(h) + 1 /\ a[Len(h) + 1] = x
        /\ \A i \in 1 .. Len(h) : a[i] = h[i]
    BY <1>3 DEF a
  <1>5. /\ l \in Seq(Piece) /\ Len(l) = Len(a) + Len(t)
        /\ \A i \in 1 .. Len(l) : l[i] = IF i <= Len(a) THEN a[i] ELSE t[i - Len(a)]
    <2>1. a \in Seq(Piece) /\ t \in Seq(Piece) BY <1>2, <1>4
    <2> QED BY <2>1, ConcatProperties
  <1>6. /\ r \in Seq(Piece) /\ Len(r) = Len(h) + Len(o)
        /\ \A i \in 1 .. Len(r) : r[i] = IF i <= Len(h) THEN h[i] ELSE o[i - Len(h)]
    BY <1>1, ConcatProperties
  <1> HIDE DEF l, r
  <1>7. Len(h) \in Nat /\ Len(o) \in Nat /\ Len(o) # 0 BY <1>1, EmptySeq
  <1>8. Len(l) = Len(r) BY <1>2, <1>4, <1>5, <1>6, <1>7
  <1>9. \A i \in 1 .. Len(l) : l[i] = r[i]
    <2> SUFFICES ASSUME NEW i \in 1 .. Len(l) PROVE l[i] = r[i] OBVIOUS
    <2>1. CASE i <= Len(h) BY <1>4, <1>5, <1>6, <1>7, <1>8, <2>1
    <2>2. CASE i = Len(h) + 1
      <3>1. l[i] = x BY <1>4, <1>5, <1>7, <2>2
      <3>2. r[i] = o[i - Len(h)] /\ i - Len(h) = 1 BY <1>6, <1>7, <1>8, <2>2
      <3> QED BY <1>2, <3>1, <3>2
    <2>3. CASE i > Len(h) + 1
      <3> DEFINE j == i - Len(a)
      <3>1. j \in 1 .. Len(t) /\ j + 1 = i - Len(h) BY <1>2, <1>4, <1>5, <1>7, <2>3
      <3>2. l[i] = t[j] BY <1>4, <1>5, <1>7, <2>3
      <3>3. r[i] = o[i - Len(h)] BY <1>6, <1>7, <1>8, <2>3
      <3> HIDE DEF j
      <3> QED BY <1>2, <3>1, <3>2, <3>3
    <2> QED BY <1>5, <1>7, <2>1, <2>2, <2>3
  <1>10. l = r BY <1>5, <1>6, <1>8, <1>9, SeqEqual
  <1> QED BY <1>2, <1>4, <1>10 DEF Written, h, o, x, t, a, l, r

-----------------------------------------------------------------------------
\* The steps of the writer.
LEMMA CloseFits ==
  ASSUME IsWriter(zip), ZipTypes, ZipFits, currentIndex \in Nat \ {0}, pulling = "idle",
         zip.state = "readable", zip.out = <<>>, ~ zip.active, currentIndex > N,
         zip' = Close(zip), UNCHANGED <<downFiles, selected, currentIndex, pulling, handed>>
  PROVE  (ZipTypes /\ ZipFits)'
  <1> DEFINE entries == [i \in 1 .. Len(zip.filenames) |->
                          [name   |-> zip.filenames[i],
                           offset |-> zip.offsets[i] % Uint32,
                           length |-> zip.lengths[i] % Uint32]]
             c == Central(entries)
  <1>1. PICK e \in Nat : Entered(e) /\ Between(e) BY DEF ZipFits, Within
  <1>2. /\ e = N /\ N \in Nat /\ Len(zip.filenames) = e /\ ~ zip.closed
        /\ \A i \in 1 .. e, p \in Files : p = downFiles[i] => zip.filenames[i] = ZipName(p)
        /\ \A i, j \in 1 .. e : i # j => zip.filenames[i] # zip.filenames[j]
        /\ \A i \in 1 .. e : zip.lengths[i] = Chunks[downFiles[i]]
        /\ \A i \in 1 .. e : zip.offsets[i] = BytesOf(ArchiveOf(i - 1))
    BY <1>1 DEF Entered, N
  <1>3. /\ zip'.out = Append(zip.out, c) /\ zip'.state = "closed"
        /\ zip'.filenames = zip.filenames /\ zip'.lengths = zip.lengths
        /\ zip'.offsets = zip.offsets /\ zip'.active = zip.active
    BY <1>2 DEF Close, CloseZip, IsWriter, Fields
  <1>4. downFiles \in Seq(Files) /\ \A i \in 1 .. N : downFiles[i] \in Files
    BY ElementOfSeq DEF ZipTypes, N
  <1>5. c \in Piece
    <2>1. \A i \in 1 .. e : /\ zip.filenames[i] \in NameSet /\ zip.offsets[i] \in Nat
                            /\ zip.lengths[i] \in Nat
      BY <1>1, <1>2, ElementOfSeq DEF ZipTypes, Entered
    <2>2. \A i \in 1 .. e : entries[i] \in [name : NameSet, offset : Nat, length : Nat]
      BY <1>2, <2>1, ZipAssumption
    <2>3. entries \in Seq([name : NameSet, offset : Nat, length : Nat]) /\ Len(entries) = e
      BY <1>2, <2>2
    <2> HIDE DEF entries
    <2>4. Len(entries) % Uint16 \in Nat BY <2>3, ZipAssumption
    <2> QED BY <2>3, <2>4 DEF Central, Piece
  <1>6. ASSUME BytesOf(ArchiveOf(N)) < Uint32, N < Uint16 PROVE c = Directory
    <2>1. ASSUME NEW i \in 1 .. N
          PROVE  /\ zip.offsets[i] % Uint32 = BytesOf(ArchiveOf(i - 1))
                 /\ zip.lengths[i] % Uint32 = Chunks[downFiles[i]]
                 /\ zip.filenames[i] = ZipName(downFiles[i])
      <3>1. BytesOf(ArchiveOf(i - 1)) \in Nat /\ BytesOf(ArchiveOf(N)) \in Nat
        <4>1. i - 1 \in 0 .. N /\ N \in 0 .. N BY <1>2
        <4> QED BY <1>4, <4>1, ArchiveGrows
      <3>2. Chunks[downFiles[i]] \in Nat BY <1>4, FileEnds
      <3>3. BytesOf(ArchiveOf(i - 1)) + HeaderLen + Chunks[downFiles[i]] + FooterLen
              <= BytesOf(ArchiveOf(N))
        BY <1>4, ArchiveBounds
      <3>4. \A x \in Nat : x < Uint32 => x % Uint32 = x BY ZipAssumption
      <3>5. BytesOf(ArchiveOf(i - 1)) < Uint32 /\ Chunks[downFiles[i]] < Uint32
        BY <1>6, <3>1, <3>2, <3>3, ZipAssumption
      <3> QED BY <1>2, <1>4, <3>1, <3>2, <3>4, <3>5
    <2> DEFINE there == [i \in 1 .. N |-> [name   |-> ZipName(downFiles[i]),
                                          offset |-> BytesOf(ArchiveOf(i - 1)),
                                          length |-> Chunks[downFiles[i]]]]
    <2>2. entries = [i \in 1 .. N |-> entries[i]] /\ there = [i \in 1 .. N |-> there[i]]
      BY <1>2
    <2>3. \A i \in 1 .. N : entries[i] = there[i] BY <1>2, <2>1
    <2>4. Len(entries) % Uint16 = N
      <3>1. Len(entries) = N BY <1>2
      <3>2. \A x \in Nat : x < Uint16 => x % Uint16 = x BY ZipAssumption
      <3> HIDE DEF entries
      <3> QED BY <1>2, <1>6, <3>1, <3>2
    <2>5. Directory = [kind |-> "central", entries |-> there, count |-> N] BY DEF Directory
    <2> HIDE DEF entries, there
    <2>6. entries = there BY <2>2, <2>3
    <2> QED BY <2>4, <2>5, <2>6 DEF Central
  <1> HIDE DEF c
  <1>7. /\ N' = N /\ Directory' = Directory /\ \A n : ArchiveOf(n)' = ArchiveOf(n)
        /\ \A p : ZipName(p)' = ZipName(p)
    BY ArchiveSame
  <1>8. Written' = Append(ArchiveOf(N), c)
    <2>1. handed \in Seq(Piece) BY DEF ZipTypes
    <2>2. Written = handed /\ Written = ArchiveOf(N)
      BY <1>1, <1>2, <2>1, ConcatEmptySeq DEF Written, Between
    <2>3. zip'.out = <<c>> BY <1>3
    <2>4. handed \o <<c>> = Append(handed, c) BY <1>5, <2>1, AppendIsConcat
    <2> QED BY <2>2, <2>3, <2>4 DEF Written
  <1>9. Finished'
    <2>1. \A i, j \in 1 .. N, p, q \in Files :
            p = downFiles[i] /\ q = downFiles[j] /\ i # j => ZipName(p) # ZipName(q)
      <3> SUFFICES ASSUME NEW i \in 1 .. N, NEW j \in 1 .. N, NEW p \in Files, NEW q \in Files,
                          p = downFiles[i], q = downFiles[j], i # j
                   PROVE  ZipName(p) # ZipName(q)
        OBVIOUS
      <3>1. zip.filenames[i] = ZipName(p) /\ zip.filenames[j] = ZipName(q) BY <1>2
      <3>2. zip.filenames[i] # zip.filenames[j] BY <1>2
      <3> QED BY <3>1, <3>2
    <2>2. /\ (ArchiveOf(N))' = ArchiveOf(N) BY ArchiveSame, <1>7
    <2>3. PICK n \in Nat : n = N BY <1>2
    <2>4. /\ n = N' /\ Written' = Append(ArchiveOf(n)', c)
          /\ BytesOf(ArchiveOf(n)') < Uint32 /\ n < Uint16 => c = Directory'
      BY <1>6, <1>7, <1>8, <2>3
    <2> QED BY <1>5, <1>7, <2>1, <2>4 DEF Finished
  <1>10. ZipTypes'
    <2>1. zip'.out \in Seq(Piece) BY <1>3, <1>5, AppendProperties DEF ZipTypes
    <2> QED BY <1>3, <2>1 DEF ZipTypes
  <1> QED BY <1>3, <1>9, <1>10 DEF ZipFits

LEMMA ErrorFits ==
  ASSUME IsWriter(zip), ZipTypes, zip' = Fail(zip), pulling' = "idle", UNCHANGED <<downFiles, handed>>
  PROVE  (ZipTypes /\ ZipFits)'
  <1>1. /\ zip'.state = "errored" /\ zip'.out = <<>> /\ zip'.filenames = zip.filenames
        /\ zip'.lengths = zip.lengths /\ zip'.offsets = zip.offsets /\ zip'.active = zip.active
    BY DEF Fail, IsWriter, Fields
  <1> QED BY <1>1, EmptySeq DEF ZipTypes, ZipFits

\* What is put out is written.
LEMMA OutAppends ==
  ASSUME ZipTypes, NEW c \in Piece, zip'.out = Append(zip.out, c), handed' = handed
  PROVE  /\ zip'.out \in Seq(Piece) /\ Written \in Seq(Piece)
         /\ Written' = Written \o <<c>> /\ Written' = Append(Written, c)
  <1> DEFINE h == handed
             o == zip.out
  <1>1. h \in Seq(Piece) /\ o \in Seq(Piece) BY DEF ZipTypes
  <1> HIDE DEF h, o
  <1>2. Append(o, c) = o \o <<c>> /\ <<c>> \in Seq(Piece) /\ Append(o, c) \in Seq(Piece)
    BY <1>1, AppendIsConcat, AppendProperties
  <1>3. h \o (o \o <<c>>) = (h \o o) \o <<c>> BY <1>1, <1>2, ConcatAssociative
  <1>4. h \o o \in Seq(Piece) BY <1>1, ConcatProperties
  <1>5. Append(h \o o, c) = (h \o o) \o <<c>> BY <1>4, AppendIsConcat
  <1> QED BY <1>2, <1>3, <1>4, <1>5 DEF Written, h, o

LEMMA EnqueueFits ==
  ASSUME IsWriter(zip), ZipTypes, ZipFits, currentIndex \in Nat \ {0}, pulling = "file",
         pulling' = "idle", zip' = Enqueue(zip, ZipName(downFiles[currentIndex - 1])),
         UNCHANGED <<downFiles, selected, currentIndex, handed>>
  PROVE  (ZipTypes /\ ZipFits)'
  <1> DEFINE n == currentIndex - 1
             p == downFiles[n]
             name == ZipName(p)
             h == Header(name)
  <1>1. zip.state = "readable" /\ ~ zip.active BY DEF ZipFits
  <1>2. PICK e \in Nat : Entered(e) /\ Between(e) BY <1>1 DEF ZipFits, Within
  <1>3. e = n - 1 /\ n \in 1 .. N /\ n \in Nat /\ ~ zip.closed /\ N \in Nat BY <1>2 DEF Entered, N
  <1>4. p \in Files /\ downFiles \in Seq(Files) BY <1>3, ElementOfSeq DEF ZipTypes, N
  <1>5. name \in NameSet /\ h \in Piece BY <1>4, NamesFit, BytesOfPiece
  <1>6. CASE name \in Range(zip.filenames)
    <2>1. zip' = Fail(zip) BY <1>6 DEF Enqueue
    <2> QED BY <2>1, ErrorFits
  <1>7. CASE name \notin Range(zip.filenames)
    <2>1. zip' = WriteHeader([zip EXCEPT !.filenames = Append(@, name), !.lengths = Append(@, 0)])
      BY <1>1, <1>3, <1>7 DEF Enqueue
    <2> DEFINE fs == Append(zip.filenames, name)
    <2>2. /\ zip'.filenames = fs /\ zip'.lengths = Append(zip.lengths, 0)
          /\ zip'.offsets = Append(zip.offsets, zip.offset) /\ zip'.offset = zip.offset + HeaderLen
          /\ zip'.active = TRUE /\ zip'.activeZipIndex = zip.activeZipIndex
          /\ zip'.out = Append(zip.out, Header(fs[zip.activeZipIndex]))
          /\ zip'.closed = zip.closed /\ zip'.state = zip.state
      BY <2>1 DEF WriteHeader, IsWriter, Fields
    <2>3. /\ fs \in Seq(NameSet) /\ Len(fs) = n /\ fs[n] = name
          /\ \A i \in 1 .. e : fs[i] = zip.filenames[i] /\ fs[i] # name
      <3>1. zip.filenames \in Seq(NameSet) /\ Len(zip.filenames) = e BY <1>2 DEF ZipTypes, Entered
      <3>2. \A i \in 1 .. e : zip.filenames[i] # name BY <1>7, <3>1 DEF Range
      <3> HIDE DEF name, n
      <3> QED BY <1>3, <1>5, <3>1, <3>2, AppendProperties
    <2>4. /\ Append(zip.lengths, 0) \in Seq(Nat) /\ Len(Append(zip.lengths, 0)) = n
          /\ Append(zip.lengths, 0)[n] = 0
          /\ \A i \in 1 .. e : Append(zip.lengths, 0)[i] = zip.lengths[i]
      <3>1. zip.lengths \in Seq(Nat) /\ Len(zip.lengths) = e BY <1>2 DEF ZipTypes, Entered
      <3> HIDE DEF n
      <3> QED BY <1>3, <3>1, AppendProperties
    <2>5. zip.offset \in Nat /\ zip.offset = BytesOf(ArchiveOf(e))
      <3>1. e \in 0 .. N BY <1>3
      <3> QED BY <1>2, <1>4, <3>1, ArchiveGrows DEF Between
    <2>6. /\ Append(zip.offsets, zip.offset) \in Seq(Nat) /\ Len(Append(zip.offsets, zip.offset)) = n
          /\ Append(zip.offsets, zip.offset)[n] = zip.offset
          /\ \A i \in 1 .. e : Append(zip.offsets, zip.offset)[i] = zip.offsets[i]
      <3>1. zip.offsets \in Seq(Nat) /\ Len(zip.offsets) = e BY <1>2 DEF ZipTypes, Entered
      <3> HIDE DEF n
      <3> QED BY <1>3, <2>5, <3>1, AppendProperties
    <2>7. zip.activeZipIndex = n BY <1>2, <1>3 DEF Between
    <2>8. zip'.out = Append(zip.out, h) BY <2>2, <2>3, <2>7
    <2> HIDE DEF fs, h, name, p, n
    <2>9. zip'.out \in Seq(Piece) /\ Written' = Written \o <<h>> BY <1>5, <2>8, OutAppends
    <2>10. ZipTypes' BY <2>2, <2>3, <2>4, <2>6, <2>9 DEF ZipTypes
    <2>11. PICK k \in Nat : k = n BY <1>3
    <2>12. /\ N' = N /\ \A i : ArchiveOf(i)' = ArchiveOf(i) /\ \A q : ZipName(q)' = ZipName(q)
           /\ \A q, m : FileUpTo(q, m)' = FileUpTo(q, m)
      BY ArchiveSame
    <2>13. (ArchiveOf(k - 1))' = ArchiveOf(k - 1) /\ k - 1 = e BY <1>3, <2>11, <2>12
    <2>14. Entered(k)'
      <3>1. \A i \in 1 .. k, q \in Files : q = downFiles'[i] => zip'.filenames[i] = ZipName(q)'
        <4> SUFFICES ASSUME NEW i \in 1 .. k, NEW q \in Files, q = downFiles[i]
                     PROVE  zip'.filenames[i] = ZipName(q)
          BY <2>12
        <4>1. CASE i = k BY <2>2, <2>3, <2>11, <4>1 DEF p, name
        <4>2. CASE i # k
          <5>1. i \in 1 .. e BY <1>3, <2>11, <4>2
          <5> QED BY <1>2, <2>2, <2>3, <5>1 DEF Entered
        <4> QED BY <4>1, <4>2
      <3>2. \A i, j \in 1 .. k : i # j => zip'.filenames[i] # zip'.filenames[j]
        <4>1. \A i \in 1 .. k : i = k \/ i \in 1 .. e BY <1>3, <2>11
        <4>2. \A i, j \in 1 .. e : i # j => zip.filenames[i] # zip.filenames[j] BY <1>2 DEF Entered
        <4> SUFFICES ASSUME NEW i \in 1 .. k, NEW j \in 1 .. k, i # j
                     PROVE  zip'.filenames[i] # zip'.filenames[j]
          OBVIOUS
        <4>3. CASE i = k
          <5>1. j \in 1 .. e BY <4>1, <4>3
          <5> QED BY <2>2, <2>3, <2>11, <4>3, <5>1
        <4>4. CASE j = k
          <5>1. i \in 1 .. e BY <4>1, <4>4
          <5> QED BY <2>2, <2>3, <2>11, <4>4, <5>1
        <4>5. CASE i # k /\ j # k
          <5>1. i \in 1 .. e /\ j \in 1 .. e BY <4>1, <4>5
          <5> QED BY <2>2, <2>3, <4>2, <5>1
        <4> QED BY <4>3, <4>4, <4>5
      <3>3. \A i \in 1 .. k : i < k \/ ~ zip'.active => zip'.lengths[i] = Chunks[downFiles'[i]]
        <4> SUFFICES ASSUME NEW i \in 1 .. k, i < k PROVE zip'.lengths[i] = Chunks[downFiles[i]]
          BY <2>2
        <4>1. i \in 1 .. e BY <1>3, <2>11
        <4> QED BY <1>1, <1>2, <2>2, <2>4, <4>1 DEF Entered
      <3>4. \A i \in 1 .. k : zip'.offsets[i] = BytesOf(ArchiveOf(i - 1))'
        <4> SUFFICES ASSUME NEW i \in 1 .. k PROVE zip'.offsets[i] = BytesOf(ArchiveOf(i - 1))
          BY <2>12
        <4>1. CASE i = k BY <2>2, <2>5, <2>6, <2>11, <2>13, <4>1
        <4>2. CASE i # k
          <5>1. i \in 1 .. e BY <1>3, <2>11, <4>2
          <5> QED BY <1>2, <2>2, <2>6, <5>1 DEF Entered
        <4> QED BY <4>1, <4>2
      <3>5. k = Len(zip'.filenames) /\ k <= N' /\ ~ zip'.closed
        BY <1>3, <2>2, <2>3, <2>11, <2>12
      <3>6. k = (IF pulling' = "file" THEN currentIndex' - 2 ELSE currentIndex' - 1)
            /\ currentIndex' - 1 <= N'
        BY <1>3, <2>11, <2>12 DEF n
      <3>7. Len(zip'.lengths) = k /\ Len(zip'.offsets) = k BY <2>2, <2>4, <2>6, <2>11
      <3> QED BY <3>1, <3>2, <3>3, <3>4, <3>5, <3>6, <3>7 DEF Entered
    <2>15. Within(k)'
      <3>0. PICK q \in Files : q = p BY <1>4
      <3>1. FileUpTo(q, 0) = <<h>> BY <3>0, FileGrows DEF h, name
      <3>2. ArchiveOf(k - 1) = ArchiveOf(e) /\ Written = ArchiveOf(e) BY <1>2, <2>13 DEF Between
      <3>3. FileUpTo(q, 0)' = FileUpTo(q, 0) BY <2>12
      <3>4. Written' = (ArchiveOf(k - 1))' \o FileUpTo(q, 0)'
        BY <2>9, <2>13, <3>1, <3>2, <3>3
      <3>5. q = downFiles'[k] /\ 0 = zip'.lengths[k] /\ 0 <= Chunks[q]
        BY <1>4, <2>2, <2>4, <2>11, <3>0, FileEnds DEF p
      <3>6. zip'.active /\ zip'.activeZipIndex = k /\ k > 0 BY <1>3, <2>2, <2>7, <2>11
      <3>7. zip'.offset = (BytesOf(ArchiveOf(k - 1)))' + HeaderLen BY <2>2, <2>5, <2>13, <3>2
      <3>8. \E m \in Nat : /\ q = downFiles'[k] /\ m = zip'.lengths[k] /\ m <= Chunks[q]
                           /\ Written' = (ArchiveOf(k - 1))' \o FileUpTo(q, m)'
        BY <3>4, <3>5
      <3> QED BY <3>6, <3>7, <3>8 DEF Within
    <2> QED BY <1>1, <2>2, <2>10, <2>14, <2>15 DEF ZipFits
  <1> QED BY <1>6, <1>7

LEMMA ReadFits ==
  ASSUME IsWriter(zip), ZipTypes, ZipFits, currentIndex \in Nat \ {0}, ReadChunk
  PROVE  (ZipTypes /\ ZipFits)'
  <1>1. /\ zip.state = "readable" /\ zip.active /\ pulling = "chunk" /\ pulling' = "idle"
        /\ UNCHANGED <<downFiles, selected, currentIndex, handed>>
    BY DEF ReadChunk, ZipFits, page
  <1>2. PICK e \in Nat : Entered(e) /\ Within(e) BY <1>1 DEF ZipFits, Between
  <1>3. PICK p \in Files, m \in Nat :
               /\ p = downFiles[e] /\ m = zip.lengths[e] /\ m <= Chunks[p]
               /\ Written = ArchiveOf(e - 1) \o FileUpTo(p, m)
    BY <1>2 DEF Within
  <1>4. zip.activeZipIndex = e /\ e \in 1 .. N /\ N \in Nat /\ ~ zip.closed
    BY <1>2 DEF Within, Entered, N
  <1>5. downFiles \in Seq(Files) /\ Chunks[p] \in Nat BY FileEnds DEF ZipTypes
  <1>6. /\ N' = N /\ \A i : ArchiveOf(i)' = ArchiveOf(i) /\ \A q : ZipName(q)' = ZipName(q)
        /\ \A q, i : FileUpTo(q, i)' = FileUpTo(q, i)
    BY <1>1, ArchiveSame
  <1>7. /\ ArchiveOf(e - 1) \in Seq(Piece) /\ (ArchiveOf(e - 1))' = ArchiveOf(e - 1)
        /\ (ArchiveOf(e))' = ArchiveOf(e)
    <2>1. e - 1 \in 0 .. N BY <1>4
    <2> QED BY <1>5, <1>6, <2>1, ArchiveGrows
  <1>8. FileUpTo(p, m) \in Seq(Piece) BY FileGrows
  <1>9. ASSUME zip'.filenames = zip.filenames, zip'.offsets = zip.offsets, zip'.closed = zip.closed,
               Len(zip'.lengths) = e, \A i \in 1 .. e : i < e => zip'.lengths[i] = zip.lengths[i],
               ~ zip'.active => zip'.lengths[e] = Chunks[p]
        PROVE  Entered(e)'
    <2>1. \A i \in 1 .. e : i < e \/ ~ zip'.active => zip'.lengths[i] = Chunks[downFiles'[i]]
      <3> SUFFICES ASSUME NEW i \in 1 .. e, i < e \/ ~ zip'.active
                   PROVE  zip'.lengths[i] = Chunks[downFiles[i]]
        BY <1>1
      <3>1. CASE i < e BY <1>2, <1>9, <3>1 DEF Entered
      <3>2. CASE ~ (i < e)
        <4>1. i = e BY <1>4, <3>2
        <4> QED BY <1>3, <1>9, <3>2, <4>1
      <3> QED BY <3>1, <3>2
    <2>2. \A i \in 1 .. e : zip'.offsets[i] = BytesOf(ArchiveOf(i - 1))'
      BY <1>2, <1>6, <1>9 DEF Entered
    <2>3. \A i \in 1 .. e, q \in Files : q = downFiles'[i] => zip'.filenames[i] = ZipName(q)'
      BY <1>1, <1>2, <1>6, <1>9 DEF Entered
    <2>4. e = Len(zip'.filenames) /\ e <= N' /\ ~ zip'.closed /\ Len(zip'.offsets) = e
      BY <1>2, <1>6, <1>9 DEF Entered
    <2>5. /\ e = (IF pulling' = "file" THEN currentIndex' - 2 ELSE currentIndex' - 1)
          /\ currentIndex' - 1 <= N'
      BY <1>1, <1>2, <1>6 DEF Entered
    <2>6. \A i, j \in 1 .. e : i # j => zip'.filenames[i] # zip'.filenames[j]
      BY <1>2, <1>9 DEF Entered
    <2>7. Len(zip'.lengths) = e BY <1>9
    <2> QED BY <2>1, <2>2, <2>3, <2>4, <2>5, <2>6, <2>7 DEF Entered
  <1>10. CASE zip' = WriteData(zip, p) /\ m < Chunks[p]
    <2>1. /\ zip'.lengths = [zip.lengths EXCEPT ![e] = m + 1]
          /\ zip'.out = Append(zip.out, Data(p, m + 1))
          /\ zip'.filenames = zip.filenames /\ zip'.offsets = zip.offsets
          /\ zip'.offset = zip.offset /\ zip'.active = zip.active /\ zip'.closed = zip.closed
          /\ zip'.activeZipIndex = e /\ zip'.state = zip.state
      BY <1>3, <1>4, <1>10 DEF WriteData, IsWriter, Fields
    <2>2. Len(zip.lengths) = e /\ zip.lengths \in Seq(Nat) BY <1>2 DEF Entered, ZipTypes
    <2>3. /\ zip'.lengths \in Seq(Nat) /\ Len(zip'.lengths) = e /\ zip'.lengths[e] = m + 1
          /\ \A i \in 1 .. e : i < e => zip'.lengths[i] = zip.lengths[i]
      BY <1>4, <2>1, <2>2, ExceptSeq
    <2>4. Data(p, m + 1) \in Piece BY BytesOfPiece
    <2>5. zip'.out \in Seq(Piece) /\ Written' = Written \o <<Data(p, m + 1)>>
      BY <1>1, <2>1, <2>4, OutAppends
    <2>6. ZipTypes' BY <1>1, <2>1, <2>3, <2>5 DEF ZipTypes
    <2>7. Entered(e)' BY <1>1, <1>9, <2>1, <2>3
    <2>8. Written' = (ArchiveOf(e - 1))' \o FileUpTo(p, m + 1)'
      <3> DEFINE d == Data(p, m + 1)
                 A == ArchiveOf(e - 1)
                 F == FileUpTo(p, m)
      <3>1. FileUpTo(p, m + 1) = Append(F, d) /\ FileUpTo(p, m + 1)' = FileUpTo(p, m + 1)
        BY <1>6, FileGrows
      <3>2. A \in Seq(Piece) /\ F \in Seq(Piece) /\ d \in Piece /\ Written = A \o F
        BY <1>3, <1>7, <1>8, <2>4
      <3>3. (ArchiveOf(e - 1))' = A /\ Written' = Written \o <<d>> BY <1>7, <2>5
      <3> HIDE DEF d, A, F
      <3>4. Append(F, d) = F \o <<d>> /\ <<d>> \in Seq(Piece) BY <3>2, AppendIsConcat
      <3>5. A \o (F \o <<d>>) = (A \o F) \o <<d>> BY <3>2, <3>4, ConcatAssociative
      <3> QED BY <3>1, <3>2, <3>3, <3>4, <3>5
    <2>9. Within(e)'
      <3>1. zip'.offset = (BytesOf(ArchiveOf(e - 1)))' + HeaderLen BY <1>2, <1>7, <2>1 DEF Within
      <3>2. p = downFiles'[e] /\ m + 1 = zip'.lengths[e] /\ m + 1 <= Chunks[p] /\ m + 1 \in Nat
        BY <1>1, <1>3, <1>5, <1>10, <2>3
      <3>3. \E k \in Nat : /\ p = downFiles'[e] /\ k = zip'.lengths[e] /\ k <= Chunks[p]
                           /\ Written' = (ArchiveOf(e - 1))' \o FileUpTo(p, k)'
        BY <2>8, <3>2
      <3>4. zip'.active /\ zip'.activeZipIndex = e /\ e > 0 BY <1>1, <1>4, <2>1
      <3> QED BY <3>1, <3>3, <3>4 DEF Within
    <2> QED BY <1>1, <2>1, <2>6, <2>7, <2>9 DEF ZipFits
  <1>11. CASE zip' = WriteFooter(zip) /\ m = Chunks[p]
    <2> DEFINE y == [zip EXCEPT !.out = Append(@, Footer(m)), !.offset = @ + m + FooterLen]
               z == [y EXCEPT !.activeZipIndex = @ + 1, !.active = FALSE]
    <2>1. zip' = NextFile(y) BY <1>3, <1>4, <1>11 DEF WriteFooter
    <2>2. IsWriter(y) /\ y.activeZipIndex = e /\ y.filenames = zip.filenames /\ y.closed = zip.closed
      BY <1>4 DEF IsWriter, Fields
    <2>3. zip' = z
      <3>1. z.activeZipIndex = e + 1 /\ z.filenames = zip.filenames /\ z.closed = zip.closed
        BY <2>2 DEF IsWriter, Fields
      <3>2. ~ (z.activeZipIndex <= Len(z.filenames)) /\ ~ z.closed
        <4>1. Len(zip.filenames) = e BY <1>2 DEF Entered
        <4> HIDE DEF y, z
        <4> QED BY <1>4, <3>1, <4>1
      <3> QED BY <2>1, <3>2 DEF NextFile
    <2>4. /\ zip'.lengths = zip.lengths /\ zip'.out = Append(zip.out, Footer(m))
          /\ zip'.filenames = zip.filenames /\ zip'.offsets = zip.offsets
          /\ zip'.offset = zip.offset + m + FooterLen /\ zip'.active = FALSE
          /\ zip'.closed = zip.closed /\ zip'.activeZipIndex = e + 1 /\ zip'.state = zip.state
      BY <1>4, <2>3 DEF IsWriter, Fields
    <2>5. Footer(m) \in Piece BY BytesOfPiece
    <2> HIDE DEF y, z
    <2>6. zip'.out \in Seq(Piece) /\ Written' = Written \o <<Footer(m)>>
      BY <1>1, <2>4, <2>5, OutAppends
    <2>7. ZipTypes' BY <1>1, <2>4, <2>6 DEF ZipTypes
    <2>8. Len(zip.lengths) = e BY <1>2 DEF Entered
    <2>9. Entered(e)' BY <1>1, <1>3, <1>9, <1>11, <2>4, <2>8
    <2>10. ArchiveOf(e) = ArchiveOf(e - 1) \o FileInArchive(p)
      BY <1>3, <1>4, <1>5, ArchiveGrows
    <2>11. Written' = ArchiveOf(e)
      <3> DEFINE c == Footer(m)
                 A == ArchiveOf(e - 1)
                 F == FileUpTo(p, m)
      <3>1. FileInArchive(p) = Append(F, c) BY <1>11, FileEnds
      <3>2. A \in Seq(Piece) /\ F \in Seq(Piece) /\ c \in Piece /\ Written = A \o F
        BY <1>3, <1>7, <1>8, <2>5
      <3> HIDE DEF c, A, F
      <3>3. Append(F, c) = F \o <<c>> /\ <<c>> \in Seq(Piece) BY <3>2, AppendIsConcat
      <3>4. A \o (F \o <<c>>) = (A \o F) \o <<c>> BY <3>2, <3>3, ConcatAssociative
      <3> QED BY <2>6, <2>10, <3>1, <3>2, <3>3, <3>4 DEF c, A, F
    <2>12. zip'.offset = BytesOf(ArchiveOf(e))
      <3>1. BytesOf(ArchiveOf(e)) = BytesOf(ArchiveOf(e - 1)) + HeaderLen + Chunks[p] + FooterLen
        BY <1>3, <1>4, <1>5, ArchiveBounds
      <3>2. zip.offset = BytesOf(ArchiveOf(e - 1)) + HeaderLen BY <1>2 DEF Within
      <3> QED BY <1>11, <2>4, <3>1, <3>2
    <2>13. Between(e)'
      <3>1. (BytesOf(ArchiveOf(e)))' = BytesOf(ArchiveOf(e)) BY <1>7
      <3> QED BY <1>7, <2>4, <2>11, <2>12, <3>1 DEF Between
    <2> QED BY <1>1, <2>4, <2>7, <2>9, <2>13 DEF ZipFits
  <1>12. zip' = IF m < Chunks[p] THEN WriteData(zip, p) ELSE WriteFooter(zip)
    BY <1>3, <1>4 DEF ReadChunk
  <1> QED BY <1>3, <1>5, <1>10, <1>11, <1>12

LEMMA PullFits ==
  ASSUME IsWriter(zip), ZipTypes, ZipFits, currentIndex \in Nat \ {0}, Pull
  PROVE  (ZipTypes /\ ZipFits)'
  <1>1. /\ zip.state = "readable" /\ pulling = "idle" /\ zip.out = <<>>
        /\ UNCHANGED <<downFiles, selected, handed>>
    BY DEF Pull, page
  <1>2. PICK e \in Nat : Entered(e) /\ (Between(e) \/ Within(e)) BY <1>1 DEF ZipFits
  <1>3. CASE zip.active /\ pulling' = "chunk" /\ UNCHANGED <<currentIndex, zip>>
    <2>1. Written' = Written BY <1>1, <1>3 DEF Written
    <2>2. Entered(e)' /\ (Between(e)' \/ Within(e)') BY <1>1, <1>2, <1>3, <2>1, ZipKeeps
    <2> QED BY <1>1, <1>3, <2>2 DEF ZipTypes, ZipFits
  <1>4. CASE ~ zip.active /\ currentIndex > N /\ zip' = Close(zip) /\ UNCHANGED <<currentIndex, pulling>>
    BY <1>1, <1>4, CloseFits
  <1>5. CASE /\ ~ zip.active /\ currentIndex <= N /\ pulling' = "file"
             /\ currentIndex' = currentIndex + 1 /\ UNCHANGED zip
    <2>1. Between(e) BY <1>2, <1>5 DEF Within
    <2>2. /\ N' = N /\ \A i : ArchiveOf(i)' = ArchiveOf(i) /\ \A q : ZipName(q)' = ZipName(q)
      BY <1>1, ArchiveSame
    <2>3. Written' = Written BY <1>1, <1>5 DEF Written
    <2>4. Between(e)' BY <1>5, <2>1, <2>2, <2>3 DEF Between
    <2>5. Entered(e)'
      <3>1. \A i \in 1 .. e : BytesOf(ArchiveOf(i - 1))' = BytesOf(ArchiveOf(i - 1)) BY <2>2
      <3>2. e = currentIndex' - 2 /\ currentIndex' - 1 <= N
        BY <1>1, <1>2, <1>5 DEF Entered
      <3> QED BY <1>1, <1>2, <1>5, <2>2, <3>1, <3>2 DEF Entered
    <2> QED BY <1>1, <1>5, <2>4, <2>5 DEF ZipTypes, ZipFits
  <1> QED BY <1>3, <1>4, <1>5 DEF Pull

-----------------------------------------------------------------------------
(***************************************************************************)
(* Every step keeps the books.                                             *)
(***************************************************************************)
\* What a step of the page does not touch stays written.
LEMMA BooksKept ==
  ASSUME ArchiveInv, UNCHANGED <<downFiles, selected, currentIndex, pulling, zip, handed>>,
         status' \in {0, 2} => status \in {0, 2},
         status' = 4 => status = 4 \/ (zip.state = "closed" /\ zip.out = <<>>)
  PROVE  ArchiveInv'
  <1>1. Written' = Written BY DEF Written
  <1>3. Finished => Finished' BY <1>1, ZipKeeps
  <1>4. ZipFits'
    <2>1. ASSUME zip'.state = "readable"
          PROVE  \E e \in Nat : Entered(e)' /\ (Between(e)' \/ Within(e)')
      <3>1. PICK e \in Nat : Entered(e) /\ (Between(e) \/ Within(e))
        BY <2>1 DEF ArchiveInv, ZipFits
      <3>2. Entered(e)' /\ (Between(e)' \/ Within(e)') BY <1>1, <3>1, ZipKeeps
      <3> QED BY <3>2
    <2> QED BY <1>3, <2>1 DEF ArchiveInv, ZipFits
  <1>5. ZipTypes' BY DEF ArchiveInv, ZipTypes
  <1> QED BY <1>4, <1>5 DEF ArchiveInv

LEMMA PipeFits ==
  ASSUME IsWriter(zip), ZipTypes, ZipFits, Pipe
  PROVE  (ZipTypes /\ ZipFits)'
  <1>1. /\ zip.out # <<>> /\ handed' = Append(handed, Head(zip.out))
        /\ zip' = [zip EXCEPT !.out = Tail(@)]
        /\ UNCHANGED <<downFiles, selected, currentIndex, pulling>>
    BY DEF Pipe, page, pull
  <1>2. /\ zip'.filenames = zip.filenames /\ zip'.lengths = zip.lengths
        /\ zip'.offsets = zip.offsets /\ zip'.offset = zip.offset /\ zip'.active = zip.active
        /\ zip'.closed = zip.closed /\ zip'.activeZipIndex = zip.activeZipIndex
        /\ zip'.state = zip.state /\ zip'.out = Tail(zip.out)
    BY <1>1 DEF IsWriter, Fields
  <1>3. Written' = Written /\ handed' \in Seq(Piece) /\ zip'.out \in Seq(Piece)
    BY <1>1, <1>2, PipeWrites
  <1>5. Finished => Finished' BY <1>1, <1>2, <1>3, ZipKeeps
  <1>6. ASSUME zip'.state = "readable"
        PROVE  \E e \in Nat : Entered(e)' /\ (Between(e)' \/ Within(e)')
    <2>1. PICK e \in Nat : Entered(e) /\ (Between(e) \/ Within(e))
      BY <1>2, <1>6 DEF ZipFits
    <2>2. Entered(e)' /\ (Between(e)' \/ Within(e)') BY <1>1, <1>2, <1>3, <2>1, ZipKeeps
    <2> QED BY <2>2
  <1>7. ZipTypes' BY <1>1, <1>2, <1>3 DEF ZipTypes
  <1> QED BY <1>1, <1>2, <1>5, <1>6, <1>7 DEF ZipFits

LEMMA ArchiveInit == PackageInit => ArchiveInv
  <1>1. PackageInit => Unwritten BY EmptySeq DEF PackageInit, Unwritten
  <1> QED BY <1>1, NothingWritten DEF PackageInit, ArchiveInv

LEMMA ArchiveStep ==
  ASSUME ArchiveInv, FetchInv, WalkInv', [PackageNext]_packageVars
  PROVE  ArchiveInv'
  <1> USE DEF page, pull, worker
  <1>0. /\ IsWriter(zip) /\ ZipTypes /\ ZipFits /\ currentIndex \in Nat \ {0}
    BY DEF ArchiveInv, FetchInv, Requested, ZipFits
  \* The walk.
  <1>1. ASSUME status \in {0, 2}, UNCHANGED <<currentIndex, pulling, zip, handed>>, status' # 4
        PROVE  ArchiveInv'
    <2>1. currentIndex = 1 /\ pulling = "idle" /\ zip = NewZip /\ handed = <<>>
      BY <1>1 DEF FetchInv, Shown, NotBegun, ArchiveInv
    <2>2. NewZip' = NewZip BY DEF NewZip
    <2>3. Unwritten' BY <1>1, <2>1, <2>2 DEF WalkInv, Unwritten
    <2>4. (ZipTypes /\ ZipFits)' BY <2>3, NothingWrittenNext
    <2> QED BY <1>1, <2>1, <2>2, <2>4 DEF ArchiveInv
  <1>2. ASSUME NEW s \in Selections, Confirm(s) PROVE ArchiveInv'
    <2>1. status = 0 BY <1>2 DEF Confirm, FetchInv, Shown
    <2>2. status' # 4 BY <1>2 DEF Confirm, Continue
    <2> QED BY <1>1, <1>2, <2>1, <2>2 DEF Confirm
  <1>3. CASE ListAnswered
    <2>1. status' # 4 BY <1>3 DEF ListAnswered, Continue
    <2> QED BY <1>1, <1>3, <2>1 DEF ListAnswered
  \* The writer.
  <1>4. ASSUME (ZipTypes /\ ZipFits)', status' = status, status \notin {0, 2, 4} PROVE ArchiveInv'
    BY <1>4 DEF ArchiveInv
  <1>5. ASSUME pulling # "idle" PROVE status \notin {0, 2, 4}
    BY <1>5 DEF FetchInv, Shown, NotBegun, ArchiveInv, ZipFits
  <1>6. CASE Pull
    <2>1. (ZipTypes /\ ZipFits)' BY <1>0, <1>6, PullFits
    <2> QED BY <1>4, <1>6, <2>1 DEF Pull
  <1>7. CASE FileArrives
    <2>1. /\ pulling = "file" /\ pulling' = "idle" /\ status' = status
          /\ UNCHANGED <<downFiles, selected, currentIndex, handed>>
          /\ \/ zip' = Enqueue(zip, ZipName(downFiles[currentIndex - 1]))
             \/ zip' = Fail(zip)
      BY <1>7 DEF FileArrives
    <2>2. (ZipTypes /\ ZipFits)' BY <1>0, <2>1, EnqueueFits, ErrorFits
    <2> QED BY <1>4, <1>5, <2>1, <2>2
  <1>8. CASE ReadChunk
    <2>1. (ZipTypes /\ ZipFits)' BY <1>0, <1>8, ReadFits
    <2> QED BY <1>4, <1>5, <1>8, <2>1 DEF ReadChunk
  <1>9. CASE ReadFails
    <2>1. (ZipTypes /\ ZipFits)' BY <1>0, <1>9, ErrorFits DEF ReadFails
    <2> QED BY <1>4, <1>5, <1>9, <2>1 DEF ReadFails
  <1>10. CASE Pipe
    <2>1. (ZipTypes /\ ZipFits)' BY <1>0, <1>10, PipeFits
    <2> QED BY <1>4, <1>10, <2>1 DEF Pipe
  \* The rest.
  <1>11. CASE PipeCloses BY <1>11, BooksKept DEF PipeCloses, Ends
  <1>12. CASE PipeFails \/ ListFails BY <1>12, BooksKept DEF PipeFails, Ends, ListFails
  <1>13. ASSUME UNCHANGED <<status, downFiles, selected, currentIndex, pulling, zip, handed>>
         PROVE  ArchiveInv'
    BY <1>13, BooksKept
  <1>14. CASE Open \/ CancelTips \/ CloseDialog
    BY <1>13, <1>14 DEF Open, CancelTips, CloseDialog
  <1>15. ASSUME NEW i \in DOMAIN fetchMap, NEW outcome \in {"ok", "failed"}, Fetched(i, outcome)
         PROVE  ArchiveInv'
    BY <1>13, <1>15 DEF Fetched
  <1>16. CASE WorkerMessage \/ StreamArrives \/ WorkerFetch \/ WorkerStops \/ Save \/ UserCancels
    BY <1>13, <1>16 DEF WorkerMessage, StreamArrives, WorkerFetch, WorkerStops, Save, UserCancels
  <1>17. CASE UNCHANGED packageVars BY <1>13, <1>17 DEF packageVars
  <1> QED BY <1>2, <1>3, <1>6, <1>7, <1>8, <1>9, <1>10, <1>11, <1>12, <1>14, <1>15, <1>16, <1>17
          DEF PackageNext

-----------------------------------------------------------------------------
(***************************************************************************)
(* The channel: a transferred stream that holds no more than Cap chunks    *)
(* hands over more only to a browser that takes them.                      *)
(***************************************************************************)
ChannelInv ==
  /\ taken \in Nat /\ (taken > 0 => response = "stream")
  /\ mode = "transfer" => Len(handed) - taken <= Cap

LEMMA ChannelInit == PackageInit => ChannelInv
  BY PackageAssumption DEF PackageInit, ChannelInv

LEMMA ChannelStep ==
  ASSUME ChannelInv, ZipTypes, [PackageNext]_packageVars
  PROVE  ChannelInv'
  <1> USE DEF page, pull, worker, ChannelInv
  <1>1. Len(handed) \in Nat BY DEF ZipTypes
  <1>2. CASE Pipe
    <2>1. Len(handed') = Len(handed) + 1 /\ UNCHANGED <<taken, response, mode>>
      BY <1>2 DEF Pipe, ZipTypes
    <2>2. mode = "transfer" => Len(handed) - taken < Cap BY <1>2 DEF Pipe
    <2> QED BY <1>1, <2>1, <2>2, PackageAssumption
  <1>3. CASE Save
    <2>1. taken' = taken + 1 /\ response = "stream" /\ UNCHANGED <<handed, response, mode>>
      BY <1>3 DEF Save
    <2> QED BY <1>1, <2>1, PackageAssumption
  <1>4. CASE WorkerFetch BY <1>4 DEF WorkerFetch
  <1>5. ASSUME UNCHANGED <<handed, taken, response, mode>> PROVE ChannelInv' BY <1>5
  <1>6. ASSUME NEW s \in Selections, Confirm(s) PROVE ChannelInv' BY <1>5, <1>6 DEF Confirm
  <1>7. ASSUME NEW i \in DOMAIN fetchMap, NEW outcome \in {"ok", "failed"}, Fetched(i, outcome)
        PROVE  ChannelInv'
    BY <1>5, <1>7 DEF Fetched
  <1>8. CASE Open \/ CancelTips \/ CloseDialog \/ ListAnswered \/ ListFails
    BY <1>5, <1>8 DEF Open, CancelTips, CloseDialog, ListAnswered, ListFails
  <1>9. CASE Pull \/ FileArrives \/ ReadChunk \/ ReadFails
    BY <1>5, <1>9 DEF Pull, FileArrives, ReadChunk, ReadFails
  <1>10. CASE PipeCloses \/ PipeFails BY <1>5, <1>10 DEF PipeCloses, PipeFails, Ends
  <1>11. CASE WorkerMessage \/ StreamArrives \/ WorkerStops \/ UserCancels
    BY <1>5, <1>11 DEF WorkerMessage, StreamArrives, WorkerStops, UserCancels
  <1>12. CASE UNCHANGED packageVars BY <1>5, <1>12 DEF packageVars
  <1> QED BY <1>2, <1>3, <1>4, <1>6, <1>7, <1>8, <1>9, <1>10, <1>11, <1>12 DEF PackageNext

\* A download that the page shows as complete has handed over the archive of
\* the whole selection, whatever failed, was late or was taken away meanwhile.
THEOREM HandsOverTheWhole == PackageSpec => []CompleteIsWhole
  <1> DEFINE Inv == FetchInv /\ WalkInv /\ ArchiveInv /\ ChannelInv
  <1>1. PackageInit => Inv BY FetchInit, WalkInit, ArchiveInit, ChannelInit
  <1>2. Inv /\ [PackageNext]_packageVars => Inv'
    <2> SUFFICES ASSUME Inv, [PackageNext]_packageVars PROVE Inv' OBVIOUS
    <2>1. FetchInv' BY FetchStep
    <2>2. WalkInv' BY WalkStep
    <2>3. ArchiveInv' BY <2>2, ArchiveStep
    <2>4. ChannelInv' BY ChannelStep DEF ArchiveInv
    <2> QED BY <2>1, <2>2, <2>3, <2>4
  <1>3. Inv => CompleteIsWhole
    <2> SUFFICES ASSUME Inv, status = 4 PROVE CompleteIsWhole BY DEF CompleteIsWhole
    <2>1. IsWalk(downFiles) BY WalkShows
    <2>2. Finished /\ ZipTypes /\ zip.out = <<>> BY DEF ArchiveInv, ZipFits
    <2>3. downFiles \in Seq(Files) /\ N \in Nat /\ \A i \in 1 .. N : downFiles[i] \in Files
      BY <2>2, ElementOfSeq DEF ZipTypes, N
    <2>4. PICK n \in Nat, c \in Piece :
                 /\ n = N /\ Written = Append(ArchiveOf(n), c)
                 /\ BytesOf(ArchiveOf(n)) < Uint32 /\ n < Uint16 => c = Directory
      BY <2>2 DEF Finished
    <2>5. handed = Append(ArchiveOf(n), c)
      <3>1. handed \in Seq(Piece) BY <2>2 DEF ZipTypes
      <3>2. Written = handed BY <2>2, <3>1, ConcatEmptySeq DEF Written
      <3> QED BY <2>4, <3>2
    <2>6. ArchiveOf(n) \in Seq(Piece)
      <3>1. n \in 0 .. N BY <2>3, <2>4
      <3> QED BY <2>3, <3>1, ArchiveGrows
    <2>7. Front(handed) = ArchiveOf(N) /\ Last(handed) = c
      <3> DEFINE a == ArchiveOf(n)
      <3>1. a \in Seq(Piece) /\ handed = Append(a, c) /\ a = ArchiveOf(N) BY <2>4, <2>5, <2>6
      <3> HIDE DEF a
      <3>2. /\ handed \in Seq(Piece) /\ Len(handed) = Len(a) + 1 /\ handed[Len(a) + 1] = c
            /\ \A i \in 1 .. Len(a) : handed[i] = a[i]
        BY <3>1, AppendProperties
      <3>3. Last(handed) = c BY <3>2 DEF Last
      <3>4. Front(handed) = a
        <4>1. Len(a) \in Nat BY <3>1
        <4>2. /\ SubSeq(handed, 1, Len(a)) \in Seq(Piece) /\ Len(SubSeq(handed, 1, Len(a))) = Len(a)
              /\ \A i \in 1 .. Len(a) : SubSeq(handed, 1, Len(a))[i] = handed[i]
          BY <3>2, <4>1, SubSeqProperties
        <4>3. SubSeq(handed, 1, Len(a)) = a BY <3>1, <3>2, <4>2, SeqEqual
        <4>4. Len(handed) - 1 = Len(a) BY <3>2, <4>1
        <4> QED BY <4>3, <4>4 DEF Front
      <3> QED BY <3>1, <3>3, <3>4
    <2>8. BytesOf(ArchiveOf(N)) < Uint32 /\ N < Uint16 => Last(handed) = Directory
      BY <2>4, <2>7
    <2>9. \A i, j \in 1 .. N : i # j => ZipName(downFiles[i]) # ZipName(downFiles[j])
      BY <2>2, <2>3 DEF Finished
    <2>10. mode = "transfer" /\ Len(handed) > Cap => response = "stream"
      BY <2>2, PackageAssumption DEF ChannelInv, ZipTypes
    <2> QED BY <2>1, <2>7, <2>8, <2>9, <2>10 DEF CompleteIsWhole
  <1> HIDE DEF Inv
  <1> QED BY <1>1, <1>2, <1>3, PTL DEF PackageSpec
=============================================================================
