--------------------------- MODULE TransferProof ----------------------------
(***************************************************************************)
(* What Transfer promises, for any names, devices and requests and any     *)
(* number of failing calls.                                                *)
(*                                                                         *)
(* That no data is lost is a matter of counting.  A move across devices    *)
(* removes its source because it has copied it; two of them may have       *)
(* copied the same data, and other requests may move either copy about     *)
(* meanwhile.  What keeps the data is that there are always more complete  *)
(* copies of it than removals to come (Enough).                            *)
(***************************************************************************)
EXTENDS TransferAlone, FiniteSetTheorems, TLAPS

Slot == Entry \cup {Absent}

\* The steps at which nothing has been set aside, those of a case-only rename,
\* and those at which something has.
Early  == {"idle", "probeSrc", "probeDst", "rename", "xprobe", "caseOut", "fill", "filling",
           "backup", "check", "create", "receive", "link", "unlink", "mkdir"}
Case   == {"caseOut", "caseIn", "caseUndo"}
Aside  == {"caseIn", "caseUndo", "moveIn", "unbackup", "restore", "dropBackup"}
Staged == {"filling", "promote", "receive", "link", "unlink"}

\* An entry that may be seen: a file in it is complete, and its data is known.
Sound(e) == e # Absent => e.data \in known /\ (e.dir \/ e.whole)

\* What an operation is doing fits what it was asked for.
JobOK(at, j, ex) ==
  /\ at \in {"probeSrc", "probeDst"} => j.kind \in {"rename", "move", "copy"}
  /\ at = "rename" => j.kind \in {"rename", "move"}
  /\ at \in Case => /\ j.kind \in {"rename", "move"} /\ j.src = j.dst
                    /\ j.kind = "move" => j.overwrite
  /\ at \in {"moveIn", "unbackup"} => j.kind \in {"rename", "move"} /\ j.src # j.dst
  /\ at = "unbackup" => j.kind = "move"
  /\ at \in {"backup", "moveIn", "unbackup", "restore", "dropBackup"} => j.overwrite
  /\ at = "backup" => \/ ex /\ j.kind \in {"copy", "xmove"}
                      \/ j.kind \in {"rename", "move"} /\ j.src # j.dst
  /\ at = "xprobe" => j.kind = "move" /\ j.src # j.dst
  /\ at \in {"fill", "filling"} => j.kind \in {"copy", "xmove"}
  /\ at = "promote" => j.kind \in {"copy", "xmove", "upload"}
  /\ at \in {"erase", "erasing"} => j.kind \in {"remove", "xmove"}
  /\ at \in {"check", "create", "receive", "link", "unlink"} => j.kind = "upload"
  /\ at = "mkdir" => j.kind = "mkdir"
  /\ ex => \/ j.kind \in {"rename", "move"}
           \/ j.kind \in {"copy", "xmove"} /\ j.overwrite
  /\ j.kind = "rename" => Device[j.src] = Device[j.dst]

AsideOK(at, ex, b) ==
  /\ at \in Early => b = Absent
  /\ at \in {"promote", "erase", "erasing"} => (ex <=> b # Absent)
  /\ at \in Aside => b # Absent

StageOK(at, j, s) ==
  /\ at \in Staged => s # Absent
  /\ at = "backup" /\ j.kind \in {"copy", "xmove"} => s # Absent
  /\ s # Absent => /\ j.kind \notin {"rename", "move"}
                   /\ j.kind # "upload" => s.data \in known
                   /\ j.kind = "upload" => ~s.dir
                   /\ at \in {"backup", "promote", "link"} => s.dir \/ s.whole

GivenBack(o) ==
  pc[o] \in {"discard", "failed"} /\ backup[o] # Absent => faults > 0 \/ o \in taken

OpFits(o) ==
  /\ pc[o] = "idle" => /\ stage[o] = Absent /\ copied[o] = Absent /\ existed[o] = FALSE
                       /\ claims[o] = {}
  /\ pc[o] # "idle" => JobOK(pc[o], job[o], existed[o])
  /\ AsideOK(pc[o], existed[o], backup[o])
  /\ StageOK(pc[o], job[o], stage[o])
  /\ Sound(backup[o])
  /\ backup[o] # Absent /\ job[o].overwrite => backup[o].data \in claims[o]
  /\ GivenBack(o)

\* The history variables are what Record makes them.
HistoryFits(o) ==
  /\ stage[o] # Absent => copied[o] = IF stage[o].whole THEN stage[o].data ELSE Absent
  /\ pc[o] # "idle" /\ job[o].kind # "upload" => copied[o] \in known \cup {Absent}
  /\ Running(o) => Entitled(job[o], pc[o], files, copied[o]) \subseteq claims[o]
  /\ Occupied(job[o], pc[o], files, backup[o]) => o \in taken

\* The operation cannot fail any more, or may destroy what it wants if it does.
SettledAs(at, j) ==
  \/ at \in {"ok", "copied", "cancelled", "dropBackup"}
  \/ at \in {"erase", "erasing"} /\ j.kind = "xmove"
  \/ at # "idle" /\ MayFailDestroying(j)

Spent(c) == \E o \in Ops : c \in claims[o] /\ SettledAs(pc[o], job[o])

\* Everything that is kept, under whatever name.
Names == Paths \cup Ops
Kept  == [x \in Names |-> IF x \in Paths THEN files[x] ELSE backup[x]]

CopiesIn(f, c) == {x \in Names : f[x] # Absent /\ f[x].whole /\ f[x].data = c}

\* The operations that will remove one copy, having made one.
Owes(at, j, copy, c) == at = "erase" /\ j.kind = "xmove" /\ copy = c
Owing(c) == {o \in Ops : Owes(pc[o], job[o], copied[o], c)}

Enough(c)  == Cardinality(CopiesIn(Kept, c)) > Cardinality(Owing(c))
Counted(c) == Spent(c) \/ Enough(c)

IInv ==
  /\ TypeOK
  /\ \A p \in Paths : Sound(files[p])
  /\ \A o \in Ops : OpFits(o) /\ HistoryFits(o)
  /\ WholeData(files) \subseteq known
  /\ \A c \in known : Counted(c)

-----------------------------------------------------------------------------
(***************************************************************************)
(* Counting.                                                               *)
(***************************************************************************)

LEMMA CountMore ==
  ASSUME NEW S, NEW T, NEW P, NEW Q, IsFiniteSet(T), IsFiniteSet(P),
         S \subseteq T, Q \subseteq P, Cardinality(S) > Cardinality(P)
  PROVE  Cardinality(T) > Cardinality(Q)
<1>1. IsFiniteSet(S) /\ Cardinality(S) <= Cardinality(T)
  BY FS_Subset
<1>2. IsFiniteSet(Q) /\ Cardinality(Q) <= Cardinality(P)
  BY FS_Subset
<1>3. /\ Cardinality(S) \in Nat /\ Cardinality(T) \in Nat
      /\ Cardinality(P) \in Nat /\ Cardinality(Q) \in Nat
  BY <1>1, <1>2, FS_CardinalityType
<1> QED
  BY <1>1, <1>2, <1>3

\* One copy goes to another name.
LEMMA CountMoved ==
  ASSUME NEW S, NEW T, NEW P, NEW Q, NEW x, NEW y, IsFiniteSet(T), IsFiniteSet(P),
         x \in S, y \notin S, (S \ {x}) \cup {y} \subseteq T, Q \subseteq P,
         Cardinality(S) > Cardinality(P), IsFiniteSet(S)
  PROVE  Cardinality(T) > Cardinality(Q)
<1> DEFINE R == S \ {x}
<1>1. IsFiniteSet(R) /\ Cardinality(R) = Cardinality(S) - 1
  BY FS_RemoveElement
<1>2. y \notin R
  OBVIOUS
<1> HIDE DEF R
<1>3. IsFiniteSet(R \cup {y}) /\ Cardinality(R \cup {y}) = Cardinality(R) + 1
  BY <1>1, <1>2, FS_AddElement
<1>4. Cardinality(S) \in Nat
  BY FS_CardinalityType
<1>5. Cardinality(R \cup {y}) > Cardinality(P)
  BY <1>1, <1>3, <1>4
<1>6. R \cup {y} \subseteq T
  BY DEF R
<1> QED
  BY <1>5, <1>6, CountMore

\* One copy goes, and one operation that was to remove it.
LEMMA CountPaid ==
  ASSUME NEW S, NEW T, NEW P, NEW Q, IsFiniteSet(T), IsFiniteSet(P), IsFiniteSet(S),
         \E x : S \ {x} \subseteq T, \E o \in P : Q \subseteq P \ {o},
         Cardinality(S) > Cardinality(P)
  PROVE  Cardinality(T) > Cardinality(Q)
<1>. PICK x : S \ {x} \subseteq T
  OBVIOUS
<1>. PICK o \in P : Q \subseteq P \ {o}
  OBVIOUS
<1>1. IsFiniteSet(S \ {x}) /\ Cardinality(S \ {x}) >= Cardinality(S) - 1
  <2>1. Cardinality(S) \in Nat
    BY FS_CardinalityType
  <2>2. CASE x \in S
    <3>1. IsFiniteSet(S \ {x}) /\ Cardinality(S \ {x}) = Cardinality(S) - 1
      BY <2>2, FS_RemoveElement
    <3> QED
      BY <2>1, <3>1
  <2>3. CASE x \notin S
    <3>1. S \ {x} = S
      BY <2>3
    <3> QED
      BY <2>1, <3>1
  <2> QED
    BY <2>2, <2>3
<1>2. IsFiniteSet(P \ {o}) /\ Cardinality(P \ {o}) = Cardinality(P) - 1
  BY FS_RemoveElement
<1>3. Cardinality(S) \in Nat /\ Cardinality(P) \in Nat /\ Cardinality(S \ {x}) \in Nat
  BY <1>1, FS_CardinalityType
<1>4. Cardinality(S \ {x}) > Cardinality(P \ {o})
  BY <1>1, <1>2, <1>3
<1> QED
  BY <1>2, <1>4, CountMore

\* One copy comes, and one operation that is to remove it.
LEMMA CountOwed ==
  ASSUME NEW S, NEW T, NEW P, NEW Q, NEW y, NEW o, IsFiniteSet(T), IsFiniteSet(P), IsFiniteSet(S),
         S \cup {y} \subseteq T, y \notin S, Q \subseteq P \cup {o}, Cardinality(S) > Cardinality(P)
  PROVE  Cardinality(T) > Cardinality(Q)
<1>1. IsFiniteSet(S \cup {y}) /\ Cardinality(S \cup {y}) = Cardinality(S) + 1
  BY FS_AddElement
<1>2. Cardinality(S) \in Nat /\ Cardinality(P) \in Nat
  BY FS_CardinalityType
<1>3. IsFiniteSet(P \cup {o}) /\ Cardinality(P \cup {o}) <= Cardinality(P) + 1
  <2>1. CASE o \notin P
    <3>1. IsFiniteSet(P \cup {o}) /\ Cardinality(P \cup {o}) = Cardinality(P) + 1
      BY <2>1, FS_AddElement
    <3> QED
      BY <1>2, <3>1
  <2>2. CASE o \in P
    <3>1. P \cup {o} = P
      BY <2>2
    <3> QED
      BY <1>2, <3>1
  <2> QED
    BY <2>1, <2>2
<1>4. Cardinality(P \cup {o}) \in Nat
  BY <1>3, FS_CardinalityType
<1>5. Cardinality(S \cup {y}) > Cardinality(P \cup {o})
  BY <1>1, <1>2, <1>3, <1>4
<1> QED
  BY <1>3, <1>5, CountMore

LEMMA Finite == \A f, c : IsFiniteSet(CopiesIn(f, c))
<1>1. IsFiniteSet(Names)
  BY PathsAssumption, FS_Union DEF Names
<1>2. \A f, c : CopiesIn(f, c) \in SUBSET Names
  BY DEF CopiesIn
<1> QED
  BY <1>1, <1>2, FS_Subset

LEMMA FiniteOps == \A S \in SUBSET Ops : IsFiniteSet(S)
BY PathsAssumption, FS_Subset

-----------------------------------------------------------------------------
(***************************************************************************)
(* A step of o sets what is o's; Record does the rest.                     *)
(***************************************************************************)

Becomes(o, at, j, ex, s, b) ==
  /\ pc' = [pc EXCEPT ![o] = at]
  /\ job' = [job EXCEPT ![o] = j]
  /\ existed' = [existed EXCEPT ![o] = ex]
  /\ stage' = [stage EXCEPT ![o] = s]
  /\ backup' = [backup EXCEPT ![o] = b]

\* What the stage has come to hold.
CopiedBy(o, s) ==
  IF s = Absent THEN copied[o] ELSE IF s.whole THEN s.data ELSE Absent

Places == {"idle"} \cup Working \cup Ended

LEMMA Values ==
  ASSUME IInv, NEW o \in Ops,
         NEW at \in Places, NEW j \in Job, NEW ex \in BOOLEAN, NEW s \in Slot, NEW b \in Slot,
         Becomes(o, at, j, ex, s, b)
  PROVE  /\ pc'[o] = at /\ job'[o] = j /\ existed'[o] = ex /\ stage'[o] = s /\ backup'[o] = b
         /\ \A r \in Ops \ {o} : /\ pc'[r] = pc[r] /\ job'[r] = job[r] /\ existed'[r] = existed[r]
                                /\ stage'[r] = stage[r] /\ backup'[r] = backup[r]
         /\ pc' \in [Ops -> Places] /\ job' \in [Ops -> Job \cup {Absent}]
         /\ existed' \in [Ops -> BOOLEAN] /\ stage' \in [Ops -> Slot] /\ backup' \in [Ops -> Slot]
BY DEF IInv, TypeOK, Becomes, Places, Slot

\* The history variables after the step.
LEMMA Recorded ==
  ASSUME IInv, NEW o \in Ops, Record,
         NEW at \in Places, NEW j \in Job, NEW ex \in BOOLEAN, NEW s \in Slot, NEW b \in Slot,
         Becomes(o, at, j, ex, s, b), files' \in [Paths -> Slot]
  PROVE  /\ known \subseteq known' /\ WholeData(files') \subseteq known'
         /\ \A c \in known' \ known : c \in WholeData(files')
         /\ known' \in SUBSET Contents
         /\ copied' \in [Ops -> Contents \cup {Absent}]
         /\ copied'[o] = CopiedBy(o, s)
         /\ \A r \in Ops \ {o} : copied'[r] = copied[r]
         /\ claims' \in [Ops -> SUBSET Contents]
         /\ \A r \in Ops : claims[r] \subseteq claims'[r]
         /\ \A r \in Ops : pc'[r] \in Working =>
                            Entitled(job'[r], pc'[r], files', copied'[r]) \subseteq claims'[r]
         /\ \A r \in Ops \ {o} : pc[r] = "idle" => claims'[r] = claims[r]
         /\ taken' \in SUBSET Ops /\ taken \subseteq taken'
         /\ \A r \in Ops : Occupied(job'[r], pc'[r], files', backup'[r]) => r \in taken'
<1>1. /\ pc'[o] = at /\ job'[o] = j /\ stage'[o] = s /\ backup'[o] = b
      /\ \A r \in Ops \ {o} : pc'[r] = pc[r] /\ job'[r] = job[r] /\ stage'[r] = stage[r]
      /\ pc' \in [Ops -> Places] /\ job' \in [Ops -> Job \cup {Absent}]
      /\ stage' \in [Ops -> Slot]
  BY Values
<1>2. /\ known \in SUBSET Contents /\ copied \in [Ops -> Contents \cup {Absent}]
      /\ claims \in [Ops -> SUBSET Contents] /\ taken \in SUBSET Ops
  BY DEF IInv, TypeOK
<1>3. WholeData(files') \subseteq Contents
  BY DEF WholeData, Slot, Entry
<1>4. /\ known \subseteq known' /\ WholeData(files') \subseteq known'
      /\ \A c \in known' \ known : c \in WholeData(files')
      /\ known' \in SUBSET Contents
  BY <1>2, <1>3 DEF Record
<1>5. \A r \in Ops : copied'[r] = CASE stage'[r] = Absent -> copied[r]
                                    [] stage'[r] # Absent /\ stage'[r].whole  -> stage'[r].data
                                    [] stage'[r] # Absent /\ ~stage'[r].whole -> Absent
  BY DEF Record
<1>6. copied'[o] = CopiedBy(o, s)
  BY <1>1, <1>5 DEF CopiedBy
<1>7. \A r \in Ops \ {o} : copied'[r] = copied[r]
  BY <1>1, <1>5 DEF IInv, HistoryFits
<1>8. CopiedBy(o, s) \in Contents \cup {Absent}
  BY <1>2 DEF CopiedBy, Slot, Entry
<1>9. copied' \in [Ops -> Contents \cup {Absent}]
  <2>1. \A r \in Ops : copied'[r] \in Contents \cup {Absent}
    BY <1>2, <1>6, <1>7, <1>8
  <2>2. copied' = [r \in Ops |-> copied'[r]]
    BY DEF Record
  <2> QED
    BY <2>1, <2>2
<1>10. \A r \in Ops : claims'[r] = claims[r] \cup
            (IF pc'[r] \in Working THEN Entitled(job'[r], pc'[r], files', copied'[r]) ELSE {})
  BY DEF Record
<1>11. \A r \in Ops : pc'[r] \in Working => Entitled(job'[r], pc'[r], files', copied'[r]) \subseteq Contents
  <2> SUFFICES ASSUME NEW r \in Ops, pc'[r] \in Working
               PROVE  Entitled(job'[r], pc'[r], files', copied'[r]) \subseteq Contents
    OBVIOUS
  <2>1. job'[r] \in Job
    BY <1>1 DEF IInv, TypeOK, Working
  <2>2. job'[r].dst \in Paths /\ job'[r].src \in Paths
    BY <2>1 DEF Job
  <2>3. \A p \in Paths : DataAt(files', p) \subseteq Contents
    BY DEF DataAt, Slot, Entry
  <2> QED
    BY <2>2, <2>3 DEF Entitled
<1>12. claims' \in [Ops -> SUBSET Contents]
  <2>1. \A r \in Ops : claims'[r] \in SUBSET Contents
    BY <1>2, <1>10, <1>11
  <2>2. claims' = [r \in Ops |-> claims'[r]]
    BY DEF Record
  <2> QED
    BY <2>1, <2>2
<1>13. /\ \A r \in Ops : claims[r] \subseteq claims'[r]
       /\ \A r \in Ops : pc'[r] \in Working =>
                          Entitled(job'[r], pc'[r], files', copied'[r]) \subseteq claims'[r]
       /\ \A r \in Ops \ {o} : pc[r] = "idle" => claims'[r] = claims[r]
  BY <1>1, <1>10 DEF Working
<1>14. taken' \in SUBSET Ops /\ taken \subseteq taken'
  BY <1>2 DEF Record
<1>15. \A r \in Ops : Occupied(job'[r], pc'[r], files', backup'[r]) => r \in taken'
  BY DEF Record
<1> QED
  BY <1>4, <1>6, <1>7, <1>9, <1>12, <1>13, <1>14, <1>15

\* Data that becomes known is there, and nothing is going to remove it.
LEMMA NewCounted ==
  ASSUME NEW c, c \in WholeData(files'),
         files' \in [Paths -> Slot], Owing(c)' = {}
  PROVE  Counted(c)'
<1>1. PICK p \in Paths : files'[p] # Absent /\ files'[p].whole /\ files'[p].data = c
  BY DEF WholeData
<1>2. p \in CopiesIn(Kept, c)'
  BY <1>1 DEF CopiesIn, Kept, Names
<1> DEFINE S == CopiesIn(Kept, c)'
<1>3. IsFiniteSet(S)
  BY Finite DEF CopiesIn
<1>4. Cardinality(S) \in Nat /\ Cardinality(S) # 0
  BY <1>2, <1>3, FS_CardinalityType, FS_EmptySet
<1>5. Cardinality(Owing(c)') = 0
  BY FS_EmptySet
<1> QED
  BY <1>4, <1>5 DEF Counted, Enough

\* What holds of an operation goes on to hold while others take their steps.
LEMMA Others ==
  ASSUME IInv, NEW o \in Ops, Record, NEW r \in Ops \ {o},
         NEW at \in Working \cup Ended, NEW j \in Job, NEW ex \in BOOLEAN, NEW s \in Slot, NEW b \in Slot,
         Becomes(o, at, j, ex, s, b), files' \in [Paths -> Slot],
         faults' \in Nat, faults' >= faults
  PROVE  OpFits(r)' /\ HistoryFits(r)' /\ (SettledAs(pc[r], job[r]) <=> SettledAs(pc[r], job[r])')
<1>1. at \in Places
  BY DEF Places
<1>2. /\ pc'[r] = pc[r] /\ job'[r] = job[r] /\ existed'[r] = existed[r]
      /\ stage'[r] = stage[r] /\ backup'[r] = backup[r]
  BY <1>1, Values
<1>3. /\ known \subseteq known' /\ copied'[r] = copied[r] /\ claims[r] \subseteq claims'[r]
      /\ pc'[r] \in Working => Entitled(job'[r], pc'[r], files', copied'[r]) \subseteq claims'[r]
      /\ pc[r] = "idle" => claims'[r] = claims[r]
      /\ taken \subseteq taken'
      /\ Occupied(job'[r], pc'[r], files', backup'[r]) => r \in taken'
  BY <1>1, Recorded
<1>4. OpFits(r) /\ HistoryFits(r) /\ faults \in Nat
  BY DEF IInv, TypeOK
<1>5. GivenBack(r)'
  BY <1>2, <1>3, <1>4 DEF OpFits, GivenBack
<1>6. StageOK(pc[r], job[r], stage[r])' /\ Sound(backup[r])'
  BY <1>2, <1>3, <1>4 DEF OpFits, StageOK, Sound
<1>7. JobOK(pc[r], job[r], existed[r]) = JobOK(pc[r], job[r], existed[r])'
  BY <1>2 DEF JobOK
<1>8. AsideOK(pc[r], existed[r], backup[r])'
  BY <1>2, <1>4 DEF OpFits, AsideOK
<1>9. OpFits(r)'
  BY <1>2, <1>3, <1>4, <1>5, <1>6, <1>7, <1>8 DEF OpFits
<1>10. HistoryFits(r)'
  BY <1>2, <1>3, <1>4 DEF HistoryFits, Running
<1>11. SettledAs(pc[r], job[r]) <=> SettledAs(pc[r], job[r])'
  BY <1>2 DEF SettledAs
<1> QED
  BY <1>9, <1>10, <1>11

\* So it is enough to say what the step of o does, and to count.
LEMMA Advance ==
  ASSUME IInv, NEW o \in Ops, Record,
         NEW at \in Working \cup Ended, NEW j \in Job, NEW ex \in BOOLEAN, NEW s \in Slot, NEW b \in Slot,
         Becomes(o, at, j, ex, s, b), files' \in [Paths -> Slot],
         faults' \in Nat, faults' >= faults,
         JobOK(at, j, ex), AsideOK(at, ex, b), StageOK(at, j, s),
         b # Absent => /\ b.data \in known /\ (b.dir \/ b.whole)
                       /\ j.overwrite => b.data \in claims[o],
         at \in {"discard", "failed"} /\ b # Absent => faults' > 0 \/ o \in taken,
         j.kind # "upload" => copied[o] \in known \cup {Absent},
         \A p \in Paths : Sound(files[p])',
         \A c \in known : Counted(c)'
  PROVE  IInv'
<1>1. at \in Places /\ at # "idle" /\ (at \in Working \/ at \in Ended)
  BY DEF Places, Working, Ended
<1>2. /\ pc'[o] = at /\ job'[o] = j /\ existed'[o] = ex /\ stage'[o] = s /\ backup'[o] = b
      /\ pc' \in [Ops -> Places] /\ job' \in [Ops -> Job \cup {Absent}]
      /\ existed' \in [Ops -> BOOLEAN] /\ stage' \in [Ops -> Slot] /\ backup' \in [Ops -> Slot]
      /\ \A r \in Ops \ {o} : pc'[r] = pc[r] /\ job'[r] = job[r]
  BY <1>1, Values
<1>3. /\ known \subseteq known' /\ copied'[o] = CopiedBy(o, s) /\ claims[o] \subseteq claims'[o]
      /\ pc'[o] \in Working => Entitled(job'[o], pc'[o], files', copied'[o]) \subseteq claims'[o]
      /\ taken \subseteq taken'
      /\ Occupied(job'[o], pc'[o], files', backup'[o]) => o \in taken'
      /\ WholeData(files') \subseteq known' /\ known' \in SUBSET Contents
      /\ copied' \in [Ops -> Contents \cup {Absent}] /\ claims' \in [Ops -> SUBSET Contents]
      /\ taken' \in SUBSET Ops
      /\ \A c \in known' \ known : c \in WholeData(files')
      /\ \A r \in Ops \ {o} : copied'[r] = copied[r]
  BY <1>1, Recorded
<1>4. OpFits(o)'
  <2>1. JobOK(pc[o], job[o], existed[o])' /\ AsideOK(pc[o], existed[o], backup[o])'
    BY <1>2 DEF JobOK, AsideOK
  <2>2. StageOK(pc[o], job[o], stage[o])'
    BY <1>2, <1>3 DEF StageOK
  <2>3. Sound(backup[o])' /\ (backup[o] # Absent /\ job[o].overwrite => backup[o].data \in claims[o])'
    BY <1>2, <1>3 DEF Sound
  <2>4. GivenBack(o)'
    BY <1>2, <1>3 DEF GivenBack
  <2> QED
    BY <1>1, <1>2, <2>1, <2>2, <2>3, <2>4 DEF OpFits
<1>5. j.kind # "upload" => copied'[o] \in known \cup {Absent}
  BY <1>3 DEF CopiedBy, StageOK
<1>6. HistoryFits(o)'
  <2>1. (stage[o] # Absent => copied[o] = IF stage[o].whole THEN stage[o].data ELSE Absent)'
    BY <1>2, <1>3 DEF CopiedBy
  <2> QED
    BY <1>2, <1>3, <1>5, <2>1 DEF HistoryFits, Running
<1>7. \A r \in Ops : OpFits(r)' /\ HistoryFits(r)'
  <2> TAKE r \in Ops
  <2>1. CASE r = o
    BY <1>4, <1>6, <2>1
  <2>2. CASE r # o
    BY <2>2, Others
  <2> QED
    BY <2>1, <2>2
<1>8. TypeOK'
  <2>1. SlotsOK'
    BY <1>7 DEF SlotsOK, OpFits, AsideOK, StageOK, Aside, Staged
  <2>2. \A r \in Ops : job'[r] = Absent <=> pc'[r] = "idle"
    BY <1>1, <1>2, AbsentAssumption DEF IInv, TypeOK
  <2> QED
    BY <1>2, <1>3, <2>1, <2>2 DEF TypeOK, Slot, Places
<1>9. \A c \in known' : Counted(c)'
  <2> TAKE c \in known'
  <2>1. CASE c \in known
    BY <2>1
  <2>2. CASE c \notin known
    <3>1. c \in WholeData(files') /\ c # Absent
      BY <1>3, <2>2, AbsentAssumption
    <3>2. \A r \in Ops : pc'[r] = "erase" /\ job'[r].kind = "xmove" => copied'[r] # c
      BY <1>2, <1>3, <1>5, <2>2, <3>1 DEF IInv, HistoryFits
    <3>3. Owing(c)' = {}
      BY <3>2 DEF Owing, Owes
    <3> QED
      BY <1>3, <3>1, <3>3, NewCounted
  <2> QED
    BY <2>1, <2>2
<1> QED
  BY <1>3, <1>7, <1>8, <1>9 DEF IInv

-----------------------------------------------------------------------------
(***************************************************************************)
(* Counting, by what a step does with the entries that are kept.           *)
(***************************************************************************)

LEMMA SpentStays ==
  ASSUME IInv, NEW o \in Ops, Record,
         NEW at \in Working \cup Ended, NEW j \in Job, NEW ex \in BOOLEAN, NEW s \in Slot, NEW b \in Slot,
         Becomes(o, at, j, ex, s, b), files' \in [Paths -> Slot], faults' \in Nat, faults' >= faults,
         SettledAs(pc[o], job[o]) => SettledAs(at, j), NEW c, Spent(c) \/ (c \in claims[o] /\ SettledAs(at, j))
  PROVE  Spent(c)'
<1>1. at \in Places
  BY DEF Places
<1>2. pc'[o] = at /\ job'[o] = j
  BY <1>1, Values
<1>3. \A r \in Ops : claims[r] \subseteq claims'[r]
  BY <1>1, Recorded
<1>4. PICK r \in Ops : c \in claims[r] /\ (r # o => SettledAs(pc[r], job[r]))
                      /\ (r = o => SettledAs(at, j))
  BY DEF Spent
<1>5. CASE r = o
  BY <1>2, <1>3, <1>4, <1>5 DEF Spent, SettledAs
<1>6. CASE r # o
  BY <1>3, <1>4, <1>6, Others DEF Spent
<1> QED
  BY <1>5, <1>6

LEMMA OwingStep ==
  ASSUME IInv, NEW o \in Ops, Record,
         NEW at \in Working \cup Ended, NEW j \in Job, NEW ex \in BOOLEAN, NEW s \in Slot, NEW b \in Slot,
         Becomes(o, at, j, ex, s, b), files' \in [Paths -> Slot], NEW c
  PROVE  /\ Owing(c)' \subseteq Owing(c) \cup {o}
         /\ o \in Owing(c)' <=> Owes(at, j, CopiedBy(o, s), c)
<1>1. at \in Places
  BY DEF Places
<1>2. /\ pc'[o] = at /\ job'[o] = j
      /\ \A r \in Ops \ {o} : pc'[r] = pc[r] /\ job'[r] = job[r]
  BY <1>1, Values
<1>3. copied'[o] = CopiedBy(o, s) /\ \A r \in Ops \ {o} : copied'[r] = copied[r]
  BY <1>1, Recorded
<1> QED
  BY <1>2, <1>3 DEF Owing, Owes

\* What is kept stays as it is, or only more is kept.
LEMMA KeptGrows ==
  ASSUME IInv, NEW o \in Ops, Record,
         NEW at \in Working \cup Ended, NEW j \in Job, NEW ex \in BOOLEAN, NEW s \in Slot, NEW b \in Slot,
         Becomes(o, at, j, ex, s, b), files' \in [Paths -> Slot], faults' \in Nat, faults' >= faults,
         SettledAs(pc[o], job[o]) => SettledAs(at, j),
         ~(at = "erase" /\ j.kind = "xmove"),
         \A z \in Names : Kept[z] # Absent => Kept'[z] = Kept[z]
  PROVE  \A c \in known : Counted(c)'
<1> SUFFICES ASSUME NEW c \in known PROVE Counted(c)'
  OBVIOUS
<1>1. CASE Spent(c)
  BY <1>1, SpentStays DEF Counted
<1>2. CASE Enough(c)
  <2>1. o \notin Owing(c)' /\ Owing(c)' \subseteq Owing(c) \cup {o}
    BY OwingStep DEF Owes
  <2>2. CopiesIn(Kept, c) \subseteq CopiesIn(Kept', c)
    BY DEF CopiesIn
  <2>3. IsFiniteSet(CopiesIn(Kept', c)) /\ IsFiniteSet(Owing(c))
    BY Finite, FiniteOps DEF Owing
  <2>4. Cardinality(CopiesIn(Kept', c)) > Cardinality(Owing(c)')
    BY <1>2, <2>1, <2>2, <2>3, CountMore DEF Enough
  <2>5. CopiesIn(Kept', c) = CopiesIn(Kept, c)'
    BY DEF CopiesIn
  <2> QED
    BY <2>4, <2>5 DEF Counted, Enough
<1> QED
  BY <1>1, <1>2 DEF IInv, Counted

\* An entry goes from x to y, where the operation may destroy what stands there.
LEMMA KeptMoves ==
  ASSUME IInv, NEW o \in Ops, Record,
         NEW at \in Working \cup Ended, NEW j \in Job, NEW ex \in BOOLEAN, NEW s \in Slot, NEW b \in Slot,
         Becomes(o, at, j, ex, s, b), files' \in [Paths -> Slot], faults' \in Nat, faults' >= faults,
         SettledAs(pc[o], job[o]) => SettledAs(at, j),
         ~(at = "erase" /\ j.kind = "xmove"),
         NEW x \in Names, NEW y \in Names, x # y, Kept'[y] = Kept[x],
         \A z \in Names \ {x, y} : Kept'[z] = Kept[z],
         Kept[y] # Absent => Kept[y].data \in claims[o] /\ SettledAs(at, j)
  PROVE  \A c \in known : Counted(c)'
<1> SUFFICES ASSUME NEW c \in known PROVE Counted(c)'
  OBVIOUS
<1>1. CASE Spent(c) \/ (c \in claims[o] /\ SettledAs(at, j))
  BY <1>1, SpentStays DEF Counted
<1>2. CASE Enough(c) /\ ~(c \in claims[o] /\ SettledAs(at, j))
  <2> DEFINE S == CopiesIn(Kept, c)
             T == CopiesIn(Kept', c)
  <2>1. Owing(c)' \subseteq Owing(c)
    BY OwingStep DEF Owes
  <2>2. y \notin S
    BY <1>2 DEF CopiesIn
  <2>3. IsFiniteSet(S) /\ IsFiniteSet(T) /\ IsFiniteSet(Owing(c))
    BY Finite, FiniteOps DEF Owing
  <2>4. Cardinality(S) > Cardinality(Owing(c))
    BY <1>2 DEF Enough
  <2>5. Cardinality(T) > Cardinality(Owing(c)')
    <3>1. CASE x \in S
      <4>1. (S \ {x}) \cup {y} \subseteq T
        BY <2>2, <3>1 DEF CopiesIn
      <4> HIDE DEF S, T
      <4> QED
        BY <2>1, <2>2, <2>3, <2>4, <3>1, <4>1, CountMoved
    <3>2. CASE x \notin S
      <4>1. S \subseteq T
        BY <2>2, <3>2 DEF CopiesIn
      <4> HIDE DEF S, T
      <4> QED
        BY <2>1, <2>3, <2>4, <4>1, CountMore
    <3> QED
      BY <3>1, <3>2
  <2>6. T = CopiesIn(Kept, c)'
    BY DEF CopiesIn
  <2> HIDE DEF S, T
  <2> QED
    BY <2>5, <2>6 DEF Counted, Enough
<1> QED
  BY <1>1, <1>2 DEF IInv, Counted

\* An entry is put at y, where the operation may destroy what stands there; a
\* move across devices that puts a complete copy there owes a removal.
LEMMA KeptPlaced ==
  ASSUME IInv, NEW o \in Ops, Record,
         NEW at \in Working \cup Ended, NEW j \in Job, NEW ex \in BOOLEAN, NEW s \in Slot, NEW b \in Slot,
         Becomes(o, at, j, ex, s, b), files' \in [Paths -> Slot], faults' \in Nat, faults' >= faults,
         SettledAs(pc[o], job[o]) => SettledAs(at, j),
         NEW y \in Names, \A z \in Names \ {y} : Kept'[z] = Kept[z],
         Kept[y] # Absent => Kept[y].data \in claims[o] /\ SettledAs(at, j),
         \A c \in known : Owes(at, j, CopiedBy(o, s), c) => y \in CopiesIn(Kept', c)
  PROVE  \A c \in known : Counted(c)'
<1> SUFFICES ASSUME NEW c \in known PROVE Counted(c)'
  OBVIOUS
<1>1. CASE Spent(c) \/ (c \in claims[o] /\ SettledAs(at, j))
  BY <1>1, SpentStays DEF Counted
<1>2. CASE Enough(c) /\ ~(c \in claims[o] /\ SettledAs(at, j))
  <2> DEFINE S == CopiesIn(Kept, c)
             T == CopiesIn(Kept', c)
  <2>1. /\ Owing(c)' \subseteq Owing(c) \cup {o}
        /\ o \in Owing(c)' <=> Owes(at, j, CopiedBy(o, s), c)
    BY OwingStep
  <2>2. y \notin S /\ S \subseteq T
    BY <1>2 DEF CopiesIn
  <2>3. IsFiniteSet(S) /\ IsFiniteSet(T) /\ IsFiniteSet(Owing(c))
    BY Finite, FiniteOps DEF Owing
  <2>4. Cardinality(S) > Cardinality(Owing(c))
    BY <1>2 DEF Enough
  <2>5. Cardinality(T) > Cardinality(Owing(c)')
    <3>1. CASE o \in Owing(c)'
      <4>1. y \in T
        BY <2>1, <3>1
      <4> HIDE DEF S, T
      <4>2. S \cup {y} \subseteq T
        BY <2>2, <4>1
      <4> QED
        BY <2>1, <2>2, <2>3, <2>4, <4>2, CountOwed
    <3>2. CASE o \notin Owing(c)'
      <4>1. Owing(c)' \subseteq Owing(c)
        BY <2>1, <3>2
      <4> HIDE DEF S, T
      <4> QED
        BY <2>2, <2>3, <2>4, <4>1, CountMore
    <3> QED
      BY <3>1, <3>2
  <2>6. T = CopiesIn(Kept, c)'
    BY DEF CopiesIn
  <2> HIDE DEF S, T
  <2> QED
    BY <2>5, <2>6 DEF Counted, Enough
<1> QED
  BY <1>1, <1>2 DEF IInv, Counted

\* What stands at x is removed, or begins to be: the operation may destroy it,
\* or owed the removal.
LEMMA KeptTaken ==
  ASSUME IInv, NEW o \in Ops, Record,
         NEW at \in Working \cup Ended, NEW j \in Job, NEW ex \in BOOLEAN, NEW s \in Slot, NEW b \in Slot,
         Becomes(o, at, j, ex, s, b), files' \in [Paths -> Slot], faults' \in Nat, faults' >= faults,
         SettledAs(pc[o], job[o]) => SettledAs(at, j),
         at # "erase", NEW x \in Names, \A z \in Names \ {x} : Kept'[z] = Kept[z],
         Kept[x] # Absent /\ Kept[x].whole =>
           \/ Kept[x].data \in claims[o] /\ SettledAs(at, j)
           \/ o \in Owing(Kept[x].data)
  PROVE  \A c \in known : Counted(c)'
<1> SUFFICES ASSUME NEW c \in known PROVE Counted(c)'
  OBVIOUS
<1>1. CASE Spent(c) \/ (c \in claims[o] /\ SettledAs(at, j))
  BY <1>1, SpentStays DEF Counted
<1>2. CASE Enough(c) /\ ~(c \in claims[o] /\ SettledAs(at, j))
  <2> DEFINE S == CopiesIn(Kept, c)
             T == CopiesIn(Kept', c)
  <2>1. Owing(c)' \subseteq Owing(c) \ {o}
    BY OwingStep DEF Owes
  <2>2. S \ {x} \subseteq T
    BY DEF CopiesIn
  <2>3. IsFiniteSet(S) /\ IsFiniteSet(T) /\ IsFiniteSet(Owing(c))
    BY Finite, FiniteOps DEF Owing
  <2>4. Cardinality(S) > Cardinality(Owing(c))
    BY <1>2 DEF Enough
  <2>5. x \in S => o \in Owing(c)
    BY <1>2 DEF CopiesIn
  <2>6. T = CopiesIn(Kept, c)'
    BY DEF CopiesIn
  <2> HIDE DEF S, T
  <2>7. Cardinality(T) > Cardinality(Owing(c)')
    <3>1. CASE o \in Owing(c)
      <4>1. (\E z : S \ {z} \subseteq T) /\ \E r \in Owing(c) : Owing(c)' \subseteq Owing(c) \ {r}
        BY <2>1, <2>2, <3>1
      <4> QED
        BY <2>3, <2>4, <4>1, CountPaid
    <3>2. CASE o \notin Owing(c)
      <4>1. S \subseteq T /\ Owing(c)' \subseteq Owing(c)
        BY <2>1, <2>2, <2>5, <3>2
      <4> QED
        BY <2>3, <2>4, <4>1, CountMore
    <3> QED
      BY <3>1, <3>2
  <2> QED
    BY <2>6, <2>7 DEF Counted, Enough
<1> QED
  BY <1>1, <1>2 DEF IInv, Counted

-----------------------------------------------------------------------------
(***************************************************************************)
(* The steps that leave all names as they are.                             *)
(***************************************************************************)

LEMMA Calls ==
  ASSUME IInv, NEW possible \in BOOLEAN, Works(possible) \/ Errs(possible)
  PROVE  /\ faults' \in Nat /\ faults' >= faults
         /\ Works(possible) => possible
         /\ ~Works(possible) => ~possible \/ faults' > 0
BY DEF IInv, TypeOK, Works, Errs

LEMMA Mine ==
  ASSUME IInv, NEW o \in Ops
  PROVE  /\ stage[o] \in Slot /\ backup[o] \in Slot /\ existed[o] \in BOOLEAN
         /\ pc[o] \in Places /\ OpFits(o) /\ HistoryFits(o) /\ faults \in Nat
         /\ pc[o] # "idle" => job[o] \in Job
         /\ pc[o] # "idle" => job[o].src \in Paths /\ job[o].dst \in Paths
         /\ pc[o] # "idle" => job[o].kind \in Kinds \cup {"xmove"} /\ job[o].overwrite \in BOOLEAN
BY DEF IInv, TypeOK, Slot, Places, Job

LEMMA Quiet ==
  ASSUME IInv, NEW o \in Ops, Record,
         NEW at \in Working \cup Ended, NEW j \in Job, NEW ex \in BOOLEAN, NEW s \in Slot,
         Becomes(o, at, j, ex, s, backup[o]), UNCHANGED files, faults' \in Nat, faults' >= faults,
         JobOK(at, j, ex), AsideOK(at, ex, backup[o]), StageOK(at, j, s),
         backup[o] # Absent => j = job[o],
         at \in {"discard", "failed"} /\ backup[o] # Absent => faults' > 0 \/ o \in taken,
         j.kind # "upload" => copied[o] \in known \cup {Absent},
         SettledAs(pc[o], job[o]) => SettledAs(at, j),
         ~(at = "erase" /\ j.kind = "xmove")
  PROVE  IInv'
<1>1. files' \in [Paths -> Slot] /\ backup[o] \in Slot /\ at \in Places
  BY DEF IInv, TypeOK, Slot, Places
<1>2. \A r \in Ops : backup'[r] = backup[r]
  BY <1>1, Values
<1>3. \A z \in Names : Kept'[z] = Kept[z]
  BY <1>2 DEF Kept, Names
<1>4. \A c \in known : Counted(c)'
  BY <1>1, <1>3, KeptGrows
<1>5. known \subseteq known'
  BY DEF Record
<1>6. \A p \in Paths : Sound(files[p])'
  BY <1>5 DEF IInv, Sound
<1>7. backup[o] # Absent => /\ backup[o].data \in known /\ (backup[o].dir \/ backup[o].whole)
                            /\ j.overwrite => backup[o].data \in claims[o]
  BY DEF IInv, OpFits, Sound
<1> QED
  BY <1>1, <1>4, <1>6, <1>7, Advance

\* Only the step, and perhaps the stage, is another one.
LEMMA Walk ==
  ASSUME IInv, NEW o \in Ops, Record, pc[o] # "idle",
         NEW at \in Working \cup Ended, NEW s \in Slot, Goto(o, at),
         stage' = [stage EXCEPT ![o] = s],
         UNCHANGED <<files, backup, job, existed>>, faults' \in Nat, faults' >= faults,
         JobOK(at, job[o], existed[o]), AsideOK(at, existed[o], backup[o]), StageOK(at, job[o], s),
         at \in {"discard", "failed"} /\ backup[o] # Absent => faults' > 0 \/ o \in taken,
         SettledAs(pc[o], job[o]) => SettledAs(at, job[o]),
         at # "erase"
  PROVE  IInv'
<1>1. job[o] \in Job /\ existed[o] \in BOOLEAN
  BY Mine
<1>2. Becomes(o, at, job[o], existed[o], s, backup[o])
  BY DEF IInv, TypeOK, Becomes, Goto
<1>3. job[o].kind # "upload" => copied[o] \in known \cup {Absent}
  BY DEF IInv, HistoryFits
<1> QED
  BY <1>1, <1>2, <1>3, Quiet

LEMMA WalkOn ==
  ASSUME IInv, NEW o \in Ops, Record, pc[o] # "idle",
         NEW at \in Working \cup Ended, Goto(o, at), UNCHANGED <<disk, job, existed>>,
         faults' \in Nat, faults' >= faults,
         JobOK(at, job[o], existed[o]), AsideOK(at, existed[o], backup[o]),
         StageOK(at, job[o], stage[o]),
         at \in {"discard", "failed"} /\ backup[o] # Absent => faults' > 0 \/ o \in taken,
         SettledAs(pc[o], job[o]) => SettledAs(at, job[o]),
         at # "erase"
  PROVE  IInv'
<1>1. stage[o] \in Slot
  BY Mine
<1>2. stage' = [stage EXCEPT ![o] = stage[o]]
  BY DEF IInv, TypeOK, disk
<1> QED
  BY <1>1, <1>2, Walk DEF disk

-----------------------------------------------------------------------------
LEMMA BeginInv == ASSUME IInv, NEW o \in Ops, Begin(o), Record PROVE IInv'
<1>1. PICK j \in Jobs : job' = [job EXCEPT ![o] = j] /\ Goto(o, FirstStep(j.kind))
  BY DEF Begin
<1>2. /\ j \in Job /\ j.kind \in Kinds
      /\ j.kind = "rename" => Device[j.src] = Device[j.dst]
  BY JobsAssumption
<1>3. /\ stage[o] = Absent /\ copied[o] = Absent /\ existed[o] = FALSE /\ backup[o] = Absent
      /\ faults' = faults /\ faults \in Nat /\ pc[o] = "idle"
  BY DEF Begin, IInv, TypeOK, OpFits, AsideOK, Early
<1> DEFINE at == FirstStep(j.kind)
<1>4. /\ at \in Working /\ at \in {"probeSrc", "check", "erase", "mkdir"}
      /\ at = "probeSrc" => j.kind \in {"rename", "move", "copy"}
      /\ at = "check" => j.kind = "upload"
      /\ at = "erase" => j.kind = "remove"
      /\ at = "mkdir" => j.kind = "mkdir"
  BY <1>2 DEF FirstStep, Kinds, Working
<1>5. Becomes(o, at, j, FALSE, Absent, backup[o])
  BY <1>1, <1>3 DEF IInv, TypeOK, Becomes, Goto, Begin, disk
<1> HIDE DEF at
<1>6. JobOK(at, j, FALSE)
  BY <1>2, <1>4 DEF JobOK, Case
<1>7. AsideOK(at, FALSE, backup[o]) /\ StageOK(at, j, Absent)
  BY <1>3, <1>4 DEF AsideOK, StageOK, Aside, Staged
<1>8. ~SettledAs(pc[o], job[o])
  BY <1>3 DEF SettledAs
<1>9. /\ UNCHANGED files /\ faults' \in Nat /\ faults' >= faults
      /\ at \in Working \cup Ended /\ FALSE \in BOOLEAN /\ Absent \in Slot
      /\ ~(at = "erase" /\ j.kind = "xmove") /\ at \notin {"discard", "failed"}
      /\ backup[o] # Absent => j = job[o]
      /\ j.kind # "upload" => copied[o] \in known \cup {Absent}
  BY <1>3, <1>4 DEF Slot, Begin, disk
<1> QED
  BY <1>2, <1>5, <1>6, <1>7, <1>8, <1>9, Quiet

\* The operation gives up, or is done.
LEMMA Ends ==
  ASSUME IInv, NEW o \in Ops, Record, pc[o] # "idle",
         NEW at \in {"discard", "failed", "ok", "copied", "cancelled"}, NEW s \in {Absent, stage[o]},
         Goto(o, at), stage' = [stage EXCEPT ![o] = s],
         UNCHANGED <<files, backup, job, existed>>, faults' \in Nat, faults' >= faults,
         at \in {"discard", "failed"} /\ backup[o] # Absent => faults' > 0 \/ o \in taken,
         SettledAs(pc[o], job[o]) => SettledAs(at, job[o])
  PROVE  IInv'
<1>1. at \in Working \cup Ended /\ s \in Slot
  BY Mine DEF Working, Ended, Slot
<1>2. JobOK(at, job[o], existed[o])
  BY Mine DEF OpFits, JobOK, Case
<1>3. AsideOK(at, existed[o], backup[o])
  BY DEF AsideOK, Aside, Early
<1>4. StageOK(at, job[o], s)
  BY Mine DEF OpFits, StageOK, Staged
<1> QED
  BY <1>1, <1>2, <1>3, <1>4, Walk

LEMMA EndsAsIs ==
  ASSUME IInv, NEW o \in Ops, Record, pc[o] # "idle",
         NEW at \in {"discard", "failed", "ok", "copied", "cancelled"},
         Goto(o, at), UNCHANGED <<disk, job, existed>>, faults' \in Nat, faults' >= faults,
         at \in {"discard", "failed"} /\ backup[o] # Absent => faults' > 0 \/ o \in taken,
         SettledAs(pc[o], job[o]) => SettledAs(at, job[o])
  PROVE  IInv'
<1>1. stage' = [stage EXCEPT ![o] = stage[o]]
  BY DEF IInv, TypeOK, disk
<1> QED
  BY <1>1, Ends DEF disk

\* Most operations that fail have set nothing aside.
LEMMA FailsEarly ==
  ASSUME IInv, NEW o \in Ops, Record, pc[o] \in Early \ {"idle"},
         NEW at \in {"discard", "failed"},
         Goto(o, at), UNCHANGED <<disk, job, existed>>, faults' \in Nat, faults' >= faults
  PROVE  IInv'
<1>1. backup[o] = Absent /\ pc[o] # "idle"
  BY DEF IInv, OpFits, AsideOK
<1>2. SettledAs(pc[o], job[o]) => SettledAs(at, job[o])
  BY DEF SettledAs, Early
<1> QED
  BY <1>1, <1>2, EndsAsIs

LEMMA CancelInv == ASSUME IInv, NEW o \in Ops, Cancel(o), Record PROVE IInv'
<1>1. /\ pc[o] # "idle" /\ Goto(o, "cancelled") /\ UNCHANGED <<disk, job, existed, faults>>
      /\ faults \in Nat
  BY DEF Cancel, Running, Working, IInv, TypeOK
<1>2. SettledAs("cancelled", job[o])
  BY DEF SettledAs
<1> QED
  BY <1>1, <1>2, EndsAsIs

LEMMA ProbeSrcInv == ASSUME IInv, NEW o \in Ops, ProbeSrc(o), Record PROVE IInv'
<1> DEFINE there == files[job[o].src] # Absent
<1>1. /\ pc[o] = "probeSrc" /\ UNCHANGED <<disk, job, existed>>
      /\ Works(there) \/ Errs(there)
      /\ OpFits(o) /\ backup[o] = Absent
  BY DEF ProbeSrc, IInv, OpFits, AsideOK, Early
<1>2. faults' \in Nat /\ faults' >= faults
  BY <1>1, Calls
<1>3. CASE Goto(o, "probeDst")
  <2>1. JobOK("probeDst", job[o], existed[o])
    BY <1>1 DEF OpFits, JobOK, Case
  <2>2. AsideOK("probeDst", existed[o], backup[o]) /\ StageOK("probeDst", job[o], stage[o])
    BY <1>1 DEF OpFits, AsideOK, StageOK, Aside, Staged
  <2>3. SettledAs(pc[o], job[o]) => SettledAs("probeDst", job[o])
    BY <1>1 DEF SettledAs
  <2>4. "probeDst" \in Working
    BY DEF Working
  <2> QED
    BY <1>1, <1>2, <1>3, <2>1, <2>2, <2>3, <2>4, WalkOn
<1>4. CASE Goto(o, "failed")
  BY <1>1, <1>2, <1>4, FailsEarly DEF Early
<1> QED
  BY <1>3, <1>4 DEF ProbeSrc

LEMMA ProbeDstInv == ASSUME IInv, NEW o \in Ops, ProbeDst(o), Record PROVE IInv'
<1> DEFINE present == files[job[o].dst] # Absent
           goOn    == ~Conflict(o, present)
           at      == AfterProbe(o, present)
           j       == job[o]
<1>1. /\ pc[o] = "probeDst" /\ UNCHANGED <<disk, job>>
      /\ Works(goOn) \/ Errs(goOn)
      /\ OpFits(o) /\ backup[o] = Absent /\ JobOK("probeDst", j, existed[o])
      /\ j \in Job /\ stage[o] \in Slot
  BY Mine DEF ProbeDst, IInv, OpFits, AsideOK, Early
<1>2. faults' \in Nat /\ faults' >= faults
  <2>1. goOn \in BOOLEAN
    BY DEF Conflict
  <2> QED
    BY <1>1, <2>1, Calls
<1>3. CASE Works(goOn) /\ existed' = [existed EXCEPT ![o] = present] /\ Goto(o, at)
  <2>1. j.kind \in {"rename", "move", "copy"}
    BY <1>1 DEF JobOK
  <2>2. /\ at \in {"fill", "rename", "caseOut", "backup"}
        /\ at = "fill" => j.kind = "copy" /\ (present => j.overwrite)
        /\ at = "rename" => j.kind \in {"rename", "move"}
        /\ at = "caseOut" => /\ j.kind \in {"rename", "move"} /\ j.src = j.dst
                             /\ j.kind = "move" => j.overwrite
        /\ at = "backup" => j.kind \in {"rename", "move"} /\ j.src # j.dst /\ j.overwrite
    <3>1. present => j.overwrite \/ (j.kind = "rename" /\ j.src = j.dst)
      BY <1>3 DEF Works, Conflict, SameEntry
    <3>2. at = IF j.kind = "copy" THEN "fill" ELSE IF ~present THEN "rename"
               ELSE IF j.src = j.dst THEN "caseOut" ELSE "backup"
      <4>1. CASE j.kind = "copy"
        BY <2>1, <4>1 DEF AfterProbe
      <4>2. CASE j.kind # "copy" /\ ~present
        BY <2>1, <4>2 DEF AfterProbe
      <4>3. CASE j.kind # "copy" /\ present /\ SameEntry(o)
        BY <2>1, <4>3 DEF AfterProbe, SameEntry
      <4>4. CASE j.kind # "copy" /\ present /\ ~SameEntry(o)
        BY <2>1, <4>4 DEF AfterProbe, SameEntry
      <4> QED
        BY <4>1, <4>2, <4>3, <4>4
    <3> HIDE DEF present, at
    <3> QED
      BY <2>1, <3>1, <3>2
  <2> HIDE DEF at
  <2>3. JobOK(at, j, present)
    BY <1>1, <2>1, <2>2 DEF JobOK, Case
  <2>4. AsideOK(at, present, backup[o])
    BY <1>1, <2>2 DEF AsideOK, Aside
  <2>5. StageOK(at, j, stage[o])
    BY <1>1, <2>1, <2>2 DEF OpFits, StageOK, Staged
  <2>6. Becomes(o, at, j, present, stage[o], backup[o])
    BY <1>1, <1>3 DEF IInv, TypeOK, Becomes, Goto, disk
  <2>7. SettledAs(pc[o], j) => SettledAs(at, j)
    BY <1>1, <2>2 DEF SettledAs
  <2>8. /\ at \in Working \cup Ended /\ at # "erase" /\ at \notin {"discard", "failed"}
        /\ UNCHANGED files /\ present \in BOOLEAN
        /\ j.kind # "upload" => copied[o] \in known \cup {Absent}
    BY <1>1, <2>2 DEF Working, disk, IInv, HistoryFits
  <2> HIDE DEF at, present, j
  <2>9. j = job[o]
    BY DEF j
  <2> QED
    BY <1>1, <1>2, <2>3, <2>4, <2>5, <2>6, <2>7, <2>8, <2>9, Quiet
<1>4. CASE Goto(o, "failed") /\ UNCHANGED existed
  BY <1>1, <1>2, <1>4, FailsEarly DEF Early
<1> QED
  BY <1>3, <1>4 DEF ProbeDst

LEMMA XProbeInv == ASSUME IInv, NEW o \in Ops, XProbe(o), Record PROVE IInv'
<1> DEFINE present == files[job[o].dst] # Absent
           goOn    == ~(present /\ ~job[o].overwrite)
           j       == [job[o] EXCEPT !.kind = "xmove"]
<1>1. /\ pc[o] = "xprobe" /\ UNCHANGED disk
      /\ Works(goOn) \/ Errs(goOn)
      /\ OpFits(o) /\ backup[o] = Absent /\ JobOK("xprobe", job[o], existed[o])
      /\ job[o] \in Job /\ stage[o] \in Slot /\ job[o].kind = "move"
      /\ HistoryFits(o)
  BY Mine DEF XProbe, IInv, OpFits, AsideOK, Early, JobOK
<1>2. faults' \in Nat /\ faults' >= faults
  <2>1. goOn \in BOOLEAN
    OBVIOUS
  <2> QED
    BY <1>1, <2>1, Calls
<1>3. CASE Works(goOn) /\ existed' = [existed EXCEPT ![o] = present]
           /\ job' = [job EXCEPT ![o].kind = "xmove"] /\ Goto(o, "fill")
  <2>1. /\ j \in Job /\ j.kind = "xmove" /\ j.src = job[o].src /\ j.dst = job[o].dst
        /\ j.overwrite = job[o].overwrite
    BY <1>1 DEF Job
  <2>2. present => job[o].overwrite
    BY <1>3 DEF Works
  <2>3. job' = [job EXCEPT ![o] = j]
    BY <1>3
  <2>4. present \in BOOLEAN
    OBVIOUS
  <2> HIDE DEF present, j
  <2>5. JobOK("fill", j, present)
    BY <2>1, <2>2 DEF JobOK, Case
  <2>6. AsideOK("fill", present, backup[o])
    BY <1>1 DEF AsideOK, Aside
  <2>7. StageOK("fill", j, stage[o])
    BY <1>1, <2>1 DEF OpFits, StageOK, Staged
  <2>8. Becomes(o, "fill", j, present, stage[o], backup[o])
    BY <1>1, <1>3, <2>3 DEF IInv, TypeOK, Becomes, Goto, disk
  <2>9. ~SettledAs(pc[o], job[o])
    BY <1>1, <2>1 DEF SettledAs, MayFailDestroying, JobOK
  <2>10. /\ "fill" \in Working \cup Ended /\ UNCHANGED files
         /\ copied[o] \in known \cup {Absent} /\ present \in BOOLEAN
    BY <1>1, <2>4 DEF Working, disk, HistoryFits
  <2> QED
    BY <1>1, <1>2, <2>1, <2>5, <2>6, <2>7, <2>8, <2>9, <2>10, Quiet
<1>4. CASE Goto(o, "failed") /\ UNCHANGED <<existed, job>>
  BY <1>1, <1>2, <1>4, FailsEarly DEF Early
<1> QED
  BY <1>3, <1>4 DEF XProbe

-----------------------------------------------------------------------------
(***************************************************************************)
(* The steps that rename an entry.                                         *)
(***************************************************************************)

\* What stands at the destination of an operation that may replace it.
LEMMA MayDestroy ==
  ASSUME IInv, NEW o \in Ops, Running(o), job[o].overwrite, files[job[o].dst] # Absent
  PROVE  files[job[o].dst].data \in claims[o]
BY Mine DEF HistoryFits, Entitled, DataAt

LEMMA Lands ==
  ASSUME IInv, NEW o \in Ops, Running(o), NEW e, MayLand(o, e, job[o].dst), files[job[o].dst] # Absent
  PROVE  files[job[o].dst].data \in claims[o]
BY MayDestroy DEF MayLand

\* From one name to another.
LEMMA FileMoves ==
  ASSUME IInv, NEW o \in Ops, Record, pc[o] # "idle", NEW at \in {"ok", "dropBackup"}, Goto(o, at),
         UNCHANGED <<stage, backup, job, existed>>, faults' \in Nat, faults' >= faults,
         NEW x \in Paths, NEW y \in Paths, x # y,
         files' = [files EXCEPT ![y] = files[x], ![x] = Absent],
         JobOK(at, job[o], existed[o]), AsideOK(at, existed[o], backup[o]),
         files[y] # Absent => files[y].data \in claims[o]
  PROVE  IInv'
<1>1. /\ at \in Working \cup Ended /\ job[o] \in Job /\ existed[o] \in BOOLEAN
      /\ stage[o] \in Slot /\ backup[o] \in Slot /\ OpFits(o) /\ HistoryFits(o)
      /\ files \in [Paths -> Slot] /\ at \in Places
  BY Mine DEF Working, Ended, IInv, TypeOK, Slot, Places
<1>2. Becomes(o, at, job[o], existed[o], stage[o], backup[o])
  BY DEF IInv, TypeOK, Becomes, Goto
<1>3. files' \in [Paths -> Slot] /\ files'[y] = files[x] /\ files'[x] = Absent
      /\ \A p \in Paths \ {x, y} : files'[p] = files[p]
  BY <1>1 DEF Slot
<1>4. \A r \in Ops : backup'[r] = backup[r]
  OBVIOUS
<1>5. SettledAs(at, job[o])
  BY DEF SettledAs
<1>6. /\ x \in Names /\ y \in Names /\ Kept'[y] = Kept[x] /\ Kept[y] = files[y]
      /\ \A z \in Names \ {x, y} : Kept'[z] = Kept[z]
  BY <1>3, <1>4 DEF Kept, Names
<1>7. \A c \in known : Counted(c)'
  BY <1>1, <1>2, <1>3, <1>5, <1>6, KeptMoves
<1>8. known \subseteq known'
  BY DEF Record
<1>9. \A p \in Paths : Sound(files[p])'
  BY <1>3, <1>8 DEF IInv, Sound
<1>10. StageOK(at, job[o], stage[o])
  BY <1>1 DEF OpFits, StageOK, Staged
<1>11. backup[o] # Absent => /\ backup[o].data \in known /\ (backup[o].dir \/ backup[o].whole)
                             /\ job[o].overwrite => backup[o].data \in claims[o]
  BY <1>1 DEF OpFits, Sound
<1>12. job[o].kind # "upload" => copied[o] \in known \cup {Absent}
  BY <1>1 DEF HistoryFits
<1> QED
  BY <1>1, <1>2, <1>3, <1>7, <1>9, <1>10, <1>11, <1>12, Advance

\* From a name to the hidden one of the operation.
LEMMA GoesAside ==
  ASSUME IInv, NEW o \in Ops, Record, pc[o] # "idle", NEW at \in {"caseIn", "moveIn", "promote"},
         Goto(o, at), UNCHANGED <<stage, job, existed>>, faults' \in Nat, faults' >= faults,
         NEW x \in Paths, backup[o] = Absent, files[x] # Absent,
         files' = [files EXCEPT ![x] = Absent], backup' = [backup EXCEPT ![o] = files[x]],
         JobOK(at, job[o], existed[o]), at = "promote" => existed[o], StageOK(at, job[o], stage[o]),
         job[o].overwrite => files[x].data \in claims[o],
         SettledAs(pc[o], job[o]) => SettledAs(at, job[o])
  PROVE  IInv'
<1>1. /\ at \in Working \cup Ended /\ job[o] \in Job /\ existed[o] \in BOOLEAN
      /\ stage[o] \in Slot /\ OpFits(o) /\ HistoryFits(o)
      /\ files \in [Paths -> Slot] /\ at \in Places
  BY Mine DEF Working, Ended, IInv, TypeOK, Slot, Places
<1>2. Becomes(o, at, job[o], existed[o], stage[o], files[x])
  BY DEF IInv, TypeOK, Becomes, Goto
<1>3. files' \in [Paths -> Slot] /\ files[x] \in Slot /\ files'[x] = Absent
      /\ \A p \in Paths \ {x} : files'[p] = files[p]
  BY <1>1 DEF Slot
<1>4. backup'[o] = files[x] /\ \A r \in Ops \ {o} : backup'[r] = backup[r]
  BY <1>1, <1>2, <1>3, Values
<1>5. /\ x \in Names /\ o \in Names /\ x # o /\ Kept'[o] = Kept[x] /\ Kept[o] = Absent
      /\ \A z \in Names \ {x, o} : Kept'[z] = Kept[z]
  BY <1>3, <1>4, PathsAssumption DEF Kept, Names
<1>6. \A c \in known : Counted(c)'
  BY <1>1, <1>2, <1>3, <1>5, KeptMoves
<1>7. known \subseteq known'
  BY DEF Record
<1>8. \A p \in Paths : Sound(files[p])'
  BY <1>3, <1>7 DEF IInv, Sound
<1>9. AsideOK(at, existed[o], files[x])
  BY DEF AsideOK, Early
<1>10. files[x].data \in known /\ (files[x].dir \/ files[x].whole)
  BY DEF IInv, Sound
<1>11. job[o].kind # "upload" => copied[o] \in known \cup {Absent}
  BY <1>1 DEF HistoryFits
<1> QED
  BY <1>1, <1>2, <1>3, <1>6, <1>8, <1>9, <1>10, <1>11, Advance

\* From the hidden name to one that can be seen.
LEMMA ComesBack ==
  ASSUME IInv, NEW o \in Ops, Record, pc[o] # "idle",
         NEW at \in {"ok", "failed", "xprobe", "discard"},
         Goto(o, at), UNCHANGED <<stage, job, existed>>, faults' \in Nat, faults' >= faults,
         NEW x \in Paths, backup[o] # Absent,
         files' = [files EXCEPT ![x] = backup[o]], backup' = [backup EXCEPT ![o] = Absent],
         JobOK(at, job[o], existed[o]),
         files[x] # Absent => files[x].data \in claims[o] /\ SettledAs(at, job[o]),
         SettledAs(pc[o], job[o]) => SettledAs(at, job[o])
  PROVE  IInv'
<1>1. /\ at \in Working \cup Ended /\ job[o] \in Job /\ existed[o] \in BOOLEAN
      /\ stage[o] \in Slot /\ backup[o] \in Slot /\ Absent \in Slot /\ OpFits(o) /\ HistoryFits(o)
      /\ files \in [Paths -> Slot] /\ at \in Places
  BY Mine DEF Working, Ended, IInv, TypeOK, Slot, Places
<1>2. Becomes(o, at, job[o], existed[o], stage[o], Absent)
  BY DEF IInv, TypeOK, Becomes, Goto
<1>3. files' \in [Paths -> Slot] /\ files'[x] = backup[o]
      /\ \A p \in Paths \ {x} : files'[p] = files[p]
  BY <1>1
<1>4. backup'[o] = Absent /\ \A r \in Ops \ {o} : backup'[r] = backup[r]
  BY <1>1, <1>2, Values
<1>5. /\ x \in Names /\ o \in Names /\ x # o /\ Kept'[x] = Kept[o] /\ Kept[x] = files[x]
      /\ \A z \in Names \ {x, o} : Kept'[z] = Kept[z]
  BY <1>3, <1>4, PathsAssumption DEF Kept, Names
<1>6. \A c \in known : Counted(c)'
  BY <1>1, <1>2, <1>3, <1>5, KeptMoves
<1>7. known \subseteq known'
  BY DEF Record
<1>8. \A p \in Paths : Sound(files[p])'
  BY <1>1, <1>3, <1>7 DEF IInv, OpFits, Sound
<1>9. AsideOK(at, existed[o], Absent)
  BY DEF AsideOK, Aside
<1>10. StageOK(at, job[o], stage[o])
  BY <1>1 DEF OpFits, StageOK, Staged
<1>11. job[o].kind # "upload" => copied[o] \in known \cup {Absent}
  BY <1>1 DEF HistoryFits
<1> QED
  BY <1>1, <1>2, <1>3, <1>6, <1>8, <1>9, <1>10, <1>11, Advance

LEMMA RenameInv == ASSUME IInv, NEW o \in Ops, Rename(o), Record PROVE IInv'
<1> DEFINE x == job[o].src
           y == job[o].dst
           can == SameDevice(o) /\ x # y /\ MayLand(o, files[x], y)
<1>1. /\ pc[o] = "rename" /\ UNCHANGED <<stage, backup, job, existed>> /\ pc[o] # "idle"
      /\ OpFits(o) /\ backup[o] = Absent /\ JobOK("rename", job[o], existed[o])
      /\ x \in Paths /\ y \in Paths /\ Running(o) /\ job[o].kind \in {"rename", "move"}
  BY Mine DEF Rename, IInv, OpFits, AsideOK, Early, Running, Working, JobOK
<1>2. CASE /\ Works(can) /\ files' = [files EXCEPT ![y] = files[x], ![x] = Absent]
           /\ Goto(o, "ok")
  <2>1. can /\ faults' = faults /\ faults \in Nat
    BY <1>2 DEF Works, IInv, TypeOK
  <2>2. files[y] # Absent => files[y].data \in claims[o]
    BY <1>1, <2>1, Lands
  <2>3. JobOK("ok", job[o], existed[o])
    BY <1>1 DEF JobOK, Case
  <2>4. AsideOK("ok", existed[o], backup[o])
    BY DEF AsideOK, Aside, Early
  <2>5. x # y /\ faults' \in Nat /\ faults' >= faults /\ "ok" \in {"ok", "dropBackup"}
    BY <2>1
  <2>6. files' = [files EXCEPT ![y] = files[x], ![x] = Absent] /\ Goto(o, "ok")
    BY <1>2
  <2> HIDE DEF x, y
  <2> QED
    BY <1>1, <2>2, <2>3, <2>4, <2>5, <2>6, FileMoves
<1>3. CASE ~SameDevice(o) /\ Goto(o, "xprobe") /\ UNCHANGED <<files, faults>>
  <2>1. x # y /\ job[o].kind = "move"
    BY <1>1, <1>3 DEF SameDevice, JobOK
  <2>2. JobOK("xprobe", job[o], existed[o])
    BY <1>1, <2>1 DEF JobOK, Case
  <2>3. AsideOK("xprobe", existed[o], backup[o]) /\ StageOK("xprobe", job[o], stage[o])
    BY <1>1 DEF OpFits, AsideOK, StageOK, Aside, Staged
  <2>4. ~SettledAs(pc[o], job[o])
    BY <1>1, <2>1 DEF SettledAs, MayFailDestroying
  <2>5. "xprobe" \in Working /\ faults' \in Nat /\ faults' >= faults /\ UNCHANGED disk
    BY <1>1, <1>3 DEF Working, IInv, TypeOK, disk
  <2> QED
    BY <1>1, <1>3, <2>2, <2>3, <2>4, <2>5, WalkOn
<1>4. CASE Errs(can) /\ Goto(o, "failed") /\ UNCHANGED files
  <2>1. faults' \in Nat /\ faults' >= faults
    BY <1>4 DEF Errs, IInv, TypeOK
  <2> QED
    BY <1>1, <1>4, <2>1, FailsEarly DEF Early, disk
<1> QED
  BY <1>2, <1>3, <1>4 DEF Rename

LEMMA CaseOutInv == ASSUME IInv, NEW o \in Ops, CaseOut(o), Record PROVE IInv'
<1> DEFINE x == job[o].src
<1>1. /\ pc[o] = "caseOut" /\ UNCHANGED <<stage, job, existed>> /\ pc[o] # "idle"
      /\ OpFits(o) /\ backup[o] = Absent /\ JobOK("caseOut", job[o], existed[o])
      /\ x \in Paths /\ Running(o) /\ x = job[o].dst
  BY Mine DEF CaseOut, IInv, OpFits, AsideOK, Early, Running, Working, JobOK, Case
<1>2. faults' \in Nat /\ faults' >= faults
  BY Calls DEF CaseOut
<1>3. CASE /\ files[x] # Absent /\ backup' = [backup EXCEPT ![o] = files[x]]
           /\ files' = [files EXCEPT ![x] = Absent] /\ Goto(o, "caseIn")
  <2>1. JobOK("caseIn", job[o], existed[o])
    BY <1>1 DEF JobOK, Case
  <2>2. StageOK("caseIn", job[o], stage[o])
    BY <1>1 DEF OpFits, StageOK, JobOK, Case, Staged
  <2>3. job[o].overwrite => files[x].data \in claims[o]
    BY <1>1, <1>3, MayDestroy
  <2>4. SettledAs(pc[o], job[o]) => SettledAs("caseIn", job[o])
    BY <1>1 DEF SettledAs
  <2>5. "caseIn" \in {"caseIn", "moveIn", "promote"}
    OBVIOUS
  <2> HIDE DEF x
  <2> QED
    BY <1>1, <1>2, <1>3, <2>1, <2>2, <2>3, <2>4, <2>5, GoesAside
<1>4. CASE Goto(o, "failed") /\ UNCHANGED <<files, backup>>
  BY <1>1, <1>2, <1>4, FailsEarly DEF Early, disk
<1> QED
  BY <1>3, <1>4 DEF CaseOut, Works

LEMMA CaseInInv == ASSUME IInv, NEW o \in Ops, CaseIn(o), Record PROVE IInv'
<1> DEFINE y == job[o].dst
           can == MayLand(o, backup[o], y)
<1>1. /\ pc[o] = "caseIn" /\ UNCHANGED <<stage, job, existed>> /\ pc[o] # "idle"
      /\ OpFits(o) /\ backup[o] # Absent /\ JobOK("caseIn", job[o], existed[o])
      /\ y \in Paths /\ Running(o)
  BY Mine DEF CaseIn, IInv, OpFits, AsideOK, Aside, Running, Working
<1>2. faults' \in Nat /\ faults' >= faults
  BY Calls DEF CaseIn, MayLand
<1>3. CASE /\ can /\ files' = [files EXCEPT ![y] = backup[o]]
           /\ backup' = [backup EXCEPT ![o] = Absent] /\ Goto(o, "ok")
  <2>1. JobOK("ok", job[o], existed[o])
    BY <1>1 DEF JobOK, Case
  <2>2. files[y] # Absent => files[y].data \in claims[o] /\ SettledAs("ok", job[o])
    BY <1>1, <1>3, Lands DEF SettledAs
  <2>3. SettledAs("ok", job[o]) /\ "ok" \in {"ok", "failed", "xprobe", "discard"}
    BY DEF SettledAs
  <2> HIDE DEF y
  <2> QED
    BY <1>1, <1>2, <1>3, <2>1, <2>2, <2>3, ComesBack
<1>4. CASE Goto(o, "caseUndo") /\ UNCHANGED <<files, backup>>
  <2>1. JobOK("caseUndo", job[o], existed[o])
    BY <1>1 DEF JobOK, Case
  <2>2. AsideOK("caseUndo", existed[o], backup[o]) /\ StageOK("caseUndo", job[o], stage[o])
    BY <1>1 DEF OpFits, AsideOK, StageOK, JobOK, Case, Early, Staged
  <2>3. SettledAs(pc[o], job[o]) => SettledAs("caseUndo", job[o])
    BY <1>1 DEF SettledAs
  <2>4. "caseUndo" \in Working /\ UNCHANGED disk
    BY <1>1, <1>4 DEF Working, disk
  <2> QED
    BY <1>1, <1>2, <1>4, <2>1, <2>2, <2>3, <2>4, WalkOn
<1> QED
  BY <1>3, <1>4 DEF CaseIn, Works

LEMMA CaseUndoInv == ASSUME IInv, NEW o \in Ops, CaseUndo(o), Record PROVE IInv'
<1> DEFINE x == job[o].src
           can == IF job[o].kind = "move" THEN MayReplace(backup[o], x) ELSE files[x] = Absent
<1>1. /\ pc[o] = "caseUndo" /\ UNCHANGED <<stage, job, existed>> /\ Goto(o, "failed")
      /\ OpFits(o) /\ HistoryFits(o) /\ backup[o] # Absent /\ JobOK("caseUndo", job[o], existed[o])
      /\ x \in Paths /\ Running(o) /\ pc[o] # "idle"
      /\ x = job[o].dst /\ job[o].kind \in {"rename", "move"}
      /\ job[o].kind = "move" => job[o].overwrite
  BY Mine DEF CaseUndo, IInv, OpFits, AsideOK, Aside, Running, Working, JobOK, Case
<1>2. faults' \in Nat /\ faults' >= faults
  <2>1. can \in BOOLEAN
    BY DEF MayReplace, Empty
  <2> QED
    BY <2>1, Calls DEF CaseUndo
<1>3. JobOK("failed", job[o], existed[o])
  BY <1>1 DEF JobOK, Case
<1>4. SettledAs(pc[o], job[o]) => SettledAs("failed", job[o])
  BY <1>1 DEF SettledAs
<1>5. CASE /\ can /\ files' = [files EXCEPT ![x] = backup[o]]
           /\ backup' = [backup EXCEPT ![o] = Absent]
  <2>1. files[x] # Absent => files[x].data \in claims[o] /\ SettledAs("failed", job[o])
    BY <1>1, <1>5, MayDestroy DEF SettledAs, MayFailDestroying
  <2>2. "failed" \in {"ok", "failed", "xprobe", "discard"}
    OBVIOUS
  <2> HIDE DEF x
  <2> QED
    BY <1>1, <1>2, <1>3, <1>4, <1>5, <2>1, <2>2, ComesBack
<1>6. CASE Errs(can) /\ UNCHANGED <<files, backup>>
  <2>1. ~can => files[x] # Absent
    BY DEF MayReplace
  <2>2. faults' > 0 \/ o \in taken
    BY <1>1, <1>6, <2>1 DEF Errs, HistoryFits, Occupied, IInv, TypeOK
  <2>3. UNCHANGED <<disk, job, existed>>
    BY <1>1, <1>6 DEF disk
  <2> QED
    BY <1>1, <1>2, <1>4, <2>2, <2>3, EndsAsIs
<1> QED
  BY <1>5, <1>6 DEF CaseUndo, Works

LEMMA BackupInv == ASSUME IInv, NEW o \in Ops, Backup(o), Record PROVE IInv'
<1> DEFINE x == job[o].dst
<1>1. /\ pc[o] = "backup" /\ UNCHANGED <<stage, job, existed>> /\ pc[o] # "idle"
      /\ OpFits(o) /\ backup[o] = Absent /\ JobOK("backup", job[o], existed[o])
      /\ StageOK("backup", job[o], stage[o])
      /\ x \in Paths /\ Running(o) /\ job[o].overwrite
  BY Mine DEF Backup, IInv, OpFits, AsideOK, Early, Running, Working, JobOK
<1>2. faults' \in Nat /\ faults' >= faults
  BY Calls DEF Backup
<1>3. CASE /\ files[x] # Absent /\ backup' = [backup EXCEPT ![o] = files[x]]
           /\ files' = [files EXCEPT ![x] = Absent] /\ Goto(o, AfterBackup(o))
  <2> DEFINE at == AfterBackup(o)
  <2>1. /\ at \in {"moveIn", "promote"}
        /\ at = "promote" <=> job[o].kind \in {"copy", "xmove"}
    BY DEF AfterBackup, Copies
  <2> HIDE DEF at
  <2>2. JobOK(at, job[o], existed[o]) /\ (at = "promote" => existed[o])
    BY <1>1, <2>1 DEF JobOK, Case
  <2>3. StageOK(at, job[o], stage[o])
    BY <1>1, <2>1 DEF StageOK, Staged
  <2>4. job[o].overwrite => files[x].data \in claims[o]
    BY <1>1, <1>3, MayDestroy
  <2>5. SettledAs(pc[o], job[o]) => SettledAs(at, job[o])
    BY <1>1, <2>1 DEF SettledAs
  <2>6. at \in {"caseIn", "moveIn", "promote"} /\ Goto(o, at)
    BY <1>3, <2>1 DEF at
  <2> HIDE DEF x
  <2> QED
    BY <1>1, <1>2, <1>3, <2>2, <2>3, <2>4, <2>5, <2>6, GoesAside
<1>4. CASE Goto(o, AfterBackupError(o)) /\ UNCHANGED <<files, backup>>
  <2>1. AfterBackupError(o) \in {"discard", "failed"}
    BY DEF AfterBackupError
  <2> QED
    BY <1>1, <1>2, <1>4, <2>1, FailsEarly DEF Early, disk
<1> QED
  BY <1>3, <1>4 DEF Backup, Works

LEMMA MoveInInv == ASSUME IInv, NEW o \in Ops, MoveIn(o), Record PROVE IInv'
<1> DEFINE x == job[o].src
           y == job[o].dst
           can == SameDevice(o) /\ MayLand(o, files[x], y)
<1>1. /\ pc[o] = "moveIn" /\ UNCHANGED <<stage, backup, job, existed>> /\ pc[o] # "idle"
      /\ OpFits(o) /\ backup[o] # Absent /\ JobOK("moveIn", job[o], existed[o])
      /\ x \in Paths /\ y \in Paths /\ x # y /\ Running(o) /\ job[o].overwrite
      /\ job[o].kind \in {"rename", "move"} /\ stage[o] = Absent
  BY Mine DEF MoveIn, IInv, OpFits, AsideOK, StageOK, Aside, Running, Working, JobOK
<1>2. CASE /\ Works(can) /\ files' = [files EXCEPT ![y] = files[x], ![x] = Absent]
           /\ Goto(o, "dropBackup")
  <2>1. can /\ faults' \in Nat /\ faults' >= faults
    BY <1>2 DEF Works, IInv, TypeOK
  <2>2. files[y] # Absent => files[y].data \in claims[o]
    BY <1>1, <2>1, Lands
  <2>3. JobOK("dropBackup", job[o], existed[o])
    BY <1>1 DEF JobOK, Case
  <2>4. AsideOK("dropBackup", existed[o], backup[o])
    BY <1>1 DEF AsideOK, Early
  <2>5. "dropBackup" \in {"ok", "dropBackup"} /\ Goto(o, "dropBackup")
        /\ files' = [files EXCEPT ![y] = files[x], ![x] = Absent]
    BY <1>2
  <2> HIDE DEF x, y
  <2> QED
    BY <1>1, <2>1, <2>2, <2>3, <2>4, <2>5, FileMoves
<1>3. ASSUME NEW at \in {"unbackup", "restore"}, Goto(o, at), UNCHANGED files,
             at = "unbackup" => ~SameDevice(o), faults' \in Nat, faults' >= faults
      PROVE  IInv'
  <2>1. JobOK(at, job[o], existed[o])
    BY <1>1, <1>3 DEF SameDevice, JobOK, Case
  <2>2. AsideOK(at, existed[o], backup[o]) /\ StageOK(at, job[o], stage[o])
    BY <1>1, <1>3 DEF AsideOK, StageOK, Early, Staged
  <2>3. SettledAs(pc[o], job[o]) => SettledAs(at, job[o])
    BY <1>1 DEF SettledAs
  <2>4. at \in Working /\ UNCHANGED disk /\ at \notin {"discard", "failed", "erase"}
    BY <1>1, <1>3 DEF Working, disk
  <2> QED
    BY <1>1, <1>3, <2>1, <2>2, <2>3, <2>4, WalkOn
<1>4. CASE ~SameDevice(o) /\ Goto(o, "unbackup") /\ UNCHANGED <<files, faults>>
  BY <1>3, <1>4 DEF IInv, TypeOK
<1>5. CASE Errs(can) /\ Goto(o, "restore") /\ UNCHANGED files
  <2>1. faults' \in Nat /\ faults' >= faults
    BY <1>5 DEF Errs, IInv, TypeOK
  <2> QED
    BY <1>3, <1>5, <2>1
<1> QED
  BY <1>2, <1>4, <1>5 DEF MoveIn

\* Putting the backup back; what is refused another request is to blame for,
\* or an outside reason.
LEMMA PutBackInv ==
  ASSUME IInv, NEW o \in Ops, Record, pc[o] \in {"unbackup", "restore"},
         NEW done \in {"xprobe", "discard", "failed"}, NEW refused \in {"discard", "failed"},
         PutBack(o, done, refused), done = "xprobe" => pc[o] = "unbackup"
  PROVE  IInv'
<1> DEFINE x == job[o].dst
<1>1. /\ UNCHANGED <<stage, job, existed>> /\ pc[o] # "idle"
      /\ OpFits(o) /\ HistoryFits(o) /\ backup[o] # Absent /\ JobOK(pc[o], job[o], existed[o])
      /\ x \in Paths /\ job[o].overwrite
  BY Mine DEF PutBack, IInv, OpFits, AsideOK, Aside, JobOK
<1>2. faults' \in Nat /\ faults' >= faults
  BY Calls DEF PutBack
<1>3. CASE /\ files[x] = Absent /\ files' = [files EXCEPT ![x] = backup[o]]
           /\ backup' = [backup EXCEPT ![o] = Absent] /\ Goto(o, done)
  <2>1. JobOK(done, job[o], existed[o])
    BY <1>1 DEF JobOK, Case
  <2>2. SettledAs(pc[o], job[o]) => SettledAs(done, job[o])
    BY <1>1 DEF SettledAs
  <2>3. done \in {"ok", "failed", "xprobe", "discard"}
    OBVIOUS
  <2> HIDE DEF x
  <2> QED
    BY <1>1, <1>2, <1>3, <2>1, <2>2, <2>3, ComesBack
<1>4. CASE Errs(files[x] = Absent) /\ Goto(o, refused) /\ UNCHANGED <<files, backup>>
  <2>1. faults' > 0 \/ o \in taken
    BY <1>1, <1>4 DEF Errs, HistoryFits, Occupied, IInv, TypeOK
  <2>2. SettledAs(pc[o], job[o]) => SettledAs(refused, job[o])
    BY <1>1 DEF SettledAs
  <2>3. UNCHANGED <<disk, job, existed>>
    BY <1>1, <1>4 DEF disk
  <2> QED
    BY <1>1, <1>2, <1>4, <2>1, <2>2, <2>3, EndsAsIs
<1> QED
  BY <1>3, <1>4 DEF PutBack, Works

LEMMA UnbackupInv == ASSUME IInv, NEW o \in Ops, Unbackup(o), Record PROVE IInv'
BY PutBackInv DEF Unbackup

LEMMA RestoreInv == ASSUME IInv, NEW o \in Ops, Restore(o), Record PROVE IInv'
<1>1. AfterBackupError(o) \in {"discard", "failed"}
  BY DEF AfterBackupError
<1> QED
  BY <1>1, PutBackInv DEF Restore

LEMMA DropBackupInv == ASSUME IInv, NEW o \in Ops, DropBackup(o), Record PROVE IInv'
<1>1. /\ pc[o] = "dropBackup" /\ UNCHANGED <<files, stage, job, existed>> /\ pc[o] # "idle"
      /\ Goto(o, "ok") /\ backup[o] # Absent /\ backup[o] \in Slot /\ Sound(backup[o])
      /\ job[o].overwrite /\ backup[o].data \in claims[o] /\ OpFits(o)
      /\ job[o] \in Job /\ existed[o] \in BOOLEAN /\ stage[o] \in Slot
      /\ job[o].kind # "upload" => copied[o] \in known \cup {Absent}
  BY Mine DEF DropBackup, OpFits, AsideOK, Aside, JobOK, HistoryFits
<1>2. faults' \in Nat /\ faults' >= faults
  BY Calls DEF DropBackup
<1> DEFINE half == [backup[o] EXCEPT !.whole = FALSE]
<1>3. PICK b \in Slot : /\ backup' = [backup EXCEPT ![o] = b]
                        /\ b # Absent => /\ b.data = backup[o].data
                                         /\ b.dir \/ b.whole
  <2>1. CASE backup' = [backup EXCEPT ![o] = Absent]
    BY <2>1 DEF Slot
  <2>2. CASE UNCHANGED backup
    <3>1. backup' = [backup EXCEPT ![o] = backup[o]]
      BY <2>2 DEF IInv, TypeOK
    <3> QED
      BY <1>1, <3>1 DEF Sound
  <2>3. CASE backup[o].dir /\ backup' = [backup EXCEPT ![o].whole = FALSE]
    <3>1. half \in Slot /\ half.data = backup[o].data /\ half.dir
      BY <1>1, <2>3 DEF Slot, Entry
    <3>2. backup' = [backup EXCEPT ![o] = half]
      BY <2>3
    <3> HIDE DEF half
    <3> QED
      BY <3>1, <3>2
  <2> QED
    BY <2>1, <2>2, <2>3 DEF DropBackup
<1>4. /\ "ok" \in Working \cup Ended /\ "ok" \in Places
      /\ files' \in [Paths -> Slot]
  BY <1>1 DEF Ended, Places, IInv, TypeOK, Slot
<1>5. Becomes(o, "ok", job[o], existed[o], stage[o], b)
  BY <1>1, <1>3 DEF IInv, TypeOK, Becomes, Goto
<1>6. \A r \in Ops \ {o} : backup'[r] = backup[r]
  BY <1>1, <1>4, <1>5, Values
<1>7. /\ o \in Names /\ Kept[o] = backup[o]
      /\ \A z \in Names \ {o} : Kept'[z] = Kept[z]
  BY <1>1, <1>6, PathsAssumption DEF Kept, Names
<1>8. SettledAs("ok", job[o])
  BY DEF SettledAs
<1>9. \A c \in known : Counted(c)'
  BY <1>1, <1>2, <1>4, <1>5, <1>7, <1>8, KeptTaken
<1>10. known \subseteq known'
  BY DEF Record
<1>11. \A p \in Paths : Sound(files[p])'
  BY <1>1, <1>10 DEF IInv, Sound
<1>12. JobOK("ok", job[o], existed[o]) /\ AsideOK("ok", existed[o], b)
       /\ StageOK("ok", job[o], stage[o])
  BY <1>1 DEF OpFits, JobOK, AsideOK, StageOK, Case, Early, Aside, Staged
<1>13. b # Absent => b.data \in known /\ b.data \in claims[o]
  BY <1>1, <1>3 DEF Sound
<1> QED
  BY <1>1, <1>2, <1>3, <1>4, <1>5, <1>9, <1>11, <1>12, <1>13, Advance

-----------------------------------------------------------------------------
(***************************************************************************)
(* The steps that work on a staging entry.                                 *)
(***************************************************************************)

LEMMA FillInv == ASSUME IInv, NEW o \in Ops, Fill(o), Record PROVE IInv'
<1> DEFINE e == files[job[o].src]
           s == [e EXCEPT !.whole = FALSE]
<1>1. /\ pc[o] = "fill" /\ UNCHANGED <<files, backup, job, existed>> /\ pc[o] # "idle"
      /\ OpFits(o) /\ backup[o] = Absent /\ JobOK("fill", job[o], existed[o])
      /\ e \in Slot /\ Sound(e) /\ job[o].kind \in {"copy", "xmove"}
  BY Mine DEF Fill, IInv, TypeOK, Slot, OpFits, AsideOK, Early, JobOK
<1>2. faults' \in Nat /\ faults' >= faults
  BY Calls DEF Fill
<1>3. CASE e # Absent /\ stage' = [stage EXCEPT ![o] = s] /\ Goto(o, "filling")
  <2>1. s \in Entry /\ s.data \in known
    BY <1>1, <1>3 DEF Slot, Entry, Sound
  <2>2. s \in Slot /\ s # Absent
    BY <2>1, AbsentAssumption DEF Slot
  <2> HIDE DEF s
  <2>3. JobOK("filling", job[o], existed[o])
    BY <1>1 DEF JobOK, Case
  <2>4. AsideOK("filling", existed[o], backup[o])
    BY <1>1 DEF AsideOK, Aside
  <2>5. StageOK("filling", job[o], s)
    BY <1>1, <2>1, <2>2 DEF StageOK
  <2>6. SettledAs(pc[o], job[o]) => SettledAs("filling", job[o])
    BY <1>1 DEF SettledAs
  <2>7. "filling" \in Working \cup Ended
    BY DEF Working
  <2> QED
    BY <1>1, <1>2, <1>3, <2>2, <2>3, <2>4, <2>5, <2>6, <2>7, Walk
<1>4. CASE Goto(o, "discard") /\ UNCHANGED stage
  BY <1>1, <1>2, <1>4, FailsEarly DEF Early, disk
<1> QED
  BY <1>3, <1>4 DEF Fill, Works

LEMMA FillingInv == ASSUME IInv, NEW o \in Ops, Filling(o), Record PROVE IInv'
<1> DEFINE e     == files[job[o].src]
           whole == ~stage[o].dir \/ (e # Absent /\ e.data = stage[o].data /\ e.whole)
           s     == [stage[o] EXCEPT !.whole = whole]
           at    == IF existed[o] THEN "backup" ELSE "promote"
<1>1. /\ pc[o] = "filling" /\ UNCHANGED <<files, backup, job, existed>> /\ pc[o] # "idle"
      /\ OpFits(o) /\ backup[o] = Absent /\ JobOK("filling", job[o], existed[o])
      /\ stage[o] # Absent /\ stage[o] \in Entry /\ StageOK("filling", job[o], stage[o])
      /\ job[o].kind \in {"copy", "xmove"} /\ existed[o] \in BOOLEAN
      /\ e \in Slot
  BY Mine DEF Filling, IInv, TypeOK, Slot, OpFits, AsideOK, StageOK, Staged, Early, JobOK
<1>2. whole \in BOOLEAN /\ (whole \/ e # Absent) \in BOOLEAN
  BY <1>1 DEF Slot, Entry
<1>3. faults' \in Nat /\ faults' >= faults
  <2> HIDE DEF whole
  <2> QED
    BY <1>2, Calls DEF Filling, whole
<1>4. CASE stage' = [stage EXCEPT ![o].whole = whole] /\ Goto(o, at)
  <2>1. /\ s \in Entry /\ s.data = stage[o].data /\ s.dir = stage[o].dir
        /\ s.dir \/ s.whole
    BY <1>1, <1>2 DEF Entry
  <2>2. s \in Slot /\ s # Absent
    BY <2>1, AbsentAssumption DEF Slot
  <2>3. stage' = [stage EXCEPT ![o] = s]
    BY <1>4
  <2>4. at \in {"backup", "promote"} /\ (at = "backup" <=> existed[o])
    BY <1>1
  <2> HIDE DEF s, at, whole, e
  <2>5. JobOK(at, job[o], existed[o])
    BY <1>1, <2>4 DEF JobOK, Case
  <2>6. AsideOK(at, existed[o], backup[o])
    BY <1>1, <2>4 DEF AsideOK, Aside
  <2>7. StageOK(at, job[o], s)
    BY <1>1, <2>1, <2>2 DEF StageOK
  <2>8. SettledAs(pc[o], job[o]) => SettledAs(at, job[o])
    BY <1>1, <2>4 DEF SettledAs
  <2>9. at \in Working \cup Ended /\ at \notin {"discard", "failed", "erase"} /\ Goto(o, at)
    BY <1>4, <2>4 DEF Working
  <2> QED
    BY <1>1, <1>3, <2>2, <2>3, <2>5, <2>6, <2>7, <2>8, <2>9, Walk
<1>5. CASE Goto(o, AfterFillError(o)) /\ UNCHANGED stage
  BY <1>1, <1>3, <1>5, FailsEarly DEF AfterFillError, Early, disk
<1> QED
  BY <1>4, <1>5 DEF Filling, Works

LEMMA PromoteInv == ASSUME IInv, NEW o \in Ops, Promote(o), Record PROVE IInv'
<1> DEFINE y   == job[o].dst
           can == MayLand(o, stage[o], y)
           at  == IF job[o].kind = "xmove" THEN "erase"
                  ELSE IF existed[o] THEN "dropBackup" ELSE "ok"
<1>1. /\ pc[o] = "promote" /\ UNCHANGED <<backup, job, existed>> /\ pc[o] # "idle"
      /\ OpFits(o) /\ HistoryFits(o) /\ JobOK("promote", job[o], existed[o])
      /\ AsideOK("promote", existed[o], backup[o]) /\ StageOK("promote", job[o], stage[o])
      /\ stage[o] # Absent /\ stage[o] \in Entry /\ y \in Paths /\ Running(o)
      /\ job[o] \in Job /\ existed[o] \in BOOLEAN /\ backup[o] \in Slot
      /\ job[o].kind \in {"copy", "xmove", "upload"}
      /\ existed[o] => job[o].overwrite
  BY Mine DEF Promote, Slot, OpFits, StageOK, Staged, Running, Working, JobOK
<1>2. faults' \in Nat /\ faults' >= faults
  <2>1. can \in BOOLEAN
    BY DEF MayLand, MayReplace, Empty
  <2> QED
    BY <2>1, Calls DEF Promote
<1>3. CASE /\ can /\ files' = [files EXCEPT ![y] = stage[o]]
           /\ stage' = [stage EXCEPT ![o] = Absent] /\ Goto(o, at)
  <2>1. /\ at \in {"erase", "dropBackup", "ok"}
        /\ at = "erase" => job[o].kind = "xmove"
        /\ at = "dropBackup" => existed[o]
    BY <1>1
  <2>2. files[y] # Absent => files[y].data \in claims[o]
    BY <1>1, <1>3, Lands
  <2>3. Goto(o, at)
    BY <1>3
  <2> HIDE DEF at, can, y
  <2>4. files' \in [Paths -> Slot] /\ files'[y] = stage[o]
        /\ \A p \in Paths \ {y} : files'[p] = files[p]
    BY <1>1, <1>3 DEF IInv, TypeOK, Slot
  <2>5. SettledAs(at, job[o])
    BY <2>1 DEF SettledAs
  <2>6. Becomes(o, at, job[o], existed[o], Absent, backup[o])
    BY <1>1, <1>3, <2>3 DEF IInv, TypeOK, Becomes, Goto
  <2>7. /\ y \in Names /\ Kept[y] = files[y] /\ Kept'[y] = stage[o]
        /\ \A z \in Names \ {y} : Kept'[z] = Kept[z]
    BY <1>1, <2>4 DEF Kept, Names
  <2>8. \A c \in known : Owes(at, job[o], CopiedBy(o, Absent), c) => y \in CopiesIn(Kept', c)
    <3> SUFFICES ASSUME NEW c \in known, copied[o] = c PROVE y \in CopiesIn(Kept', c)
      BY DEF Owes, CopiedBy
    <3>1. c # Absent
      BY AbsentAssumption DEF IInv, TypeOK
    <3>2. stage[o].whole /\ stage[o].data = c
      BY <1>1, <3>1 DEF HistoryFits
    <3> QED
      BY <1>1, <2>7, <3>2 DEF CopiesIn
  <2>9. at \in Working \cup Ended /\ Absent \in Slot /\ at \notin {"discard", "failed"}
    BY <2>1 DEF Working, Ended, Slot
  <2>10. \A c \in known : Counted(c)'
    BY <1>1, <1>2, <2>2, <2>4, <2>5, <2>6, <2>7, <2>8, <2>9, KeptPlaced
  <2> known \subseteq known' /\ WholeData(files') \subseteq known'
    BY DEF Record
  <2>11. stage[o].data \in known' /\ (stage[o].dir \/ stage[o].whole)
    <3>1. stage[o].dir \/ stage[o].whole
      BY <1>1 DEF StageOK
    <3>2. CASE stage[o].whole
      <4>1. stage[o].data \in WholeData(files')
        BY <1>1, <2>4, <3>2 DEF WholeData
      <4> QED
        BY <3>1, <4>1
    <3>3. CASE ~stage[o].whole
      <4>1. stage[o].data \in known
        BY <1>1, <3>1, <3>3 DEF StageOK
      <4> QED
        BY <3>1, <4>1
    <3> QED
      BY <3>2, <3>3
  <2>12. \A p \in Paths : Sound(files[p])'
    BY <2>4, <2>11 DEF IInv, Sound
  <2>13. JobOK(at, job[o], existed[o])
    BY <1>1, <2>1 DEF JobOK, Case
  <2>14. AsideOK(at, existed[o], backup[o])
    BY <1>1, <2>1 DEF AsideOK, Early, Aside
  <2>15. StageOK(at, job[o], Absent)
    BY <2>1 DEF StageOK, Staged
  <2>16. backup[o] # Absent => /\ backup[o].data \in known /\ (backup[o].dir \/ backup[o].whole)
                               /\ job[o].overwrite => backup[o].data \in claims[o]
    BY <1>1 DEF OpFits, Sound
  <2>17. job[o].kind # "upload" => copied[o] \in known \cup {Absent}
    BY <1>1 DEF HistoryFits
  <2> QED
    BY <1>1, <1>2, <2>4, <2>6, <2>9, <2>10, <2>12, <2>13, <2>14, <2>15, <2>16, <2>17, Advance
<1>4. CASE Goto(o, AfterPromoteError(o)) /\ UNCHANGED <<files, stage>>
  <2>1. SettledAs(pc[o], job[o]) => FALSE
    BY <1>1 DEF SettledAs, MayFailDestroying
  <2>2. UNCHANGED <<disk, job, existed>>
    BY <1>1, <1>4 DEF disk
  <2>3. CASE existed[o]
    <3>1. Goto(o, "restore")
      BY <1>4, <2>3 DEF AfterPromoteError
    <3>2. JobOK("restore", job[o], existed[o])
      BY <1>1, <2>3 DEF JobOK, Case
    <3>3. AsideOK("restore", existed[o], backup[o]) /\ StageOK("restore", job[o], stage[o])
      BY <1>1, <2>3 DEF AsideOK, StageOK, Early, Staged
    <3>4. "restore" \in Working
      BY DEF Working
    <3> QED
      BY <1>1, <1>2, <2>1, <2>2, <3>1, <3>2, <3>3, <3>4, WalkOn
  <2>4. CASE ~existed[o]
    <3>1. Goto(o, "discard") /\ backup[o] = Absent
      BY <1>1, <1>4, <2>4 DEF AfterPromoteError, AsideOK
    <3> QED
      BY <1>1, <1>2, <2>1, <2>2, <3>1, EndsAsIs
  <2> QED
    BY <2>3, <2>4
<1> QED
  BY <1>3, <1>4 DEF Promote, Works

LEMMA DiscardInv == ASSUME IInv, NEW o \in Ops, Discard(o), Record PROVE IInv'
<1>1. /\ pc[o] = "discard" /\ UNCHANGED <<files, backup, job, existed>> /\ pc[o] # "idle"
      /\ Goto(o, "failed") /\ OpFits(o) /\ faults \in Nat
  BY Mine DEF Discard
<1>2. faults' \in Nat /\ faults' >= faults
  BY Calls DEF Discard
<1>3. backup[o] # Absent => faults' > 0 \/ o \in taken
  BY <1>1, <1>2 DEF OpFits, GivenBack
<1>4. SettledAs(pc[o], job[o]) => SettledAs("failed", job[o])
  BY <1>1 DEF SettledAs
<1>5. CASE stage' = [stage EXCEPT ![o] = Absent]
  BY <1>1, <1>2, <1>3, <1>4, <1>5, Ends
<1>6. CASE UNCHANGED stage
  BY <1>1, <1>2, <1>3, <1>4, <1>6, EndsAsIs DEF disk
<1> QED
  BY <1>5, <1>6 DEF Discard

LEMMA UnlinkInv == ASSUME IInv, NEW o \in Ops, Unlink(o), Record PROVE IInv'
<1>1. /\ pc[o] = "unlink" /\ UNCHANGED <<files, backup, job, existed>> /\ pc[o] # "idle"
      /\ Goto(o, "ok")
  BY DEF Unlink
<1>2. faults' \in Nat /\ faults' >= faults
  BY Calls DEF Unlink
<1>3. SettledAs("ok", job[o])
  BY DEF SettledAs
<1>4. CASE stage' = [stage EXCEPT ![o] = Absent]
  BY <1>1, <1>2, <1>3, <1>4, Ends
<1>5. CASE UNCHANGED stage
  BY <1>1, <1>2, <1>3, <1>5, EndsAsIs DEF disk
<1> QED
  BY <1>4, <1>5 DEF Unlink

-----------------------------------------------------------------------------
(***************************************************************************)
(* The steps that remove a visible entry, and those of upload and mkdir.   *)
(***************************************************************************)

\* What an operation that removes its source does to it.
LEMMA SourceGoes ==
  ASSUME IInv, NEW o \in Ops, Record, pc[o] \in {"erase", "erasing"},
         NEW at \in {"erasing", "dropBackup", "ok"}, Goto(o, at),
         UNCHANGED <<stage, backup, job, existed>>, faults' \in Nat, faults' >= faults,
         NEW x \in Paths, x = job[o].src, NEW e \in Slot, files' = [files EXCEPT ![x] = e],
         e # Absent => files[x] # Absent /\ e.data = files[x].data /\ e.dir,
         at = "dropBackup" => existed[o] /\ job[o].kind = "xmove",
         pc[o] = "erasing" => ~files[x].whole
  PROVE  IInv'
<1>1. /\ pc[o] # "idle" /\ OpFits(o) /\ HistoryFits(o) /\ Running(o)
      /\ JobOK(pc[o], job[o], existed[o]) /\ AsideOK(pc[o], existed[o], backup[o])
      /\ job[o] \in Job /\ existed[o] \in BOOLEAN /\ stage[o] \in Slot /\ backup[o] \in Slot
      /\ job[o].kind \in {"remove", "xmove"}
  BY Mine DEF OpFits, Running, Working, JobOK
<1>2. /\ at \in Working \cup Ended /\ at \in Places
  BY DEF Working, Ended, Places
<1>3. /\ files' \in [Paths -> Slot] /\ files'[x] = e
      /\ \A p \in Paths \ {x} : files'[p] = files[p]
  BY DEF IInv, TypeOK, Slot
<1>4. Becomes(o, at, job[o], existed[o], stage[o], backup[o])
  BY DEF IInv, TypeOK, Becomes, Goto
<1>5. /\ x \in Names /\ Kept[x] = files[x]
      /\ \A z \in Names \ {x} : Kept'[z] = Kept[z]
  BY <1>3, PathsAssumption DEF Kept, Names
<1>6. SettledAs(at, job[o])
  BY <1>1 DEF SettledAs, MayFailDestroying
<1>7. ASSUME pc[o] = "erase", files[x] # Absent
      PROVE  \/ files[x].data \in claims[o]
             \/ o \in Owing(files[x].data)
  <2>1. Entitled(job[o], pc[o], files, copied[o]) \subseteq claims[o]
    BY <1>1 DEF HistoryFits
  <2>2. DataAt(files, x) = {files[x].data}
    BY <1>7 DEF DataAt
  <2>3. CASE job[o].kind = "remove"
    BY <2>1, <2>2, <2>3 DEF Entitled
  <2>4. CASE job[o].kind = "xmove" /\ files[x].data # copied[o]
    BY <1>7, <2>1, <2>2, <2>4 DEF Entitled
  <2>5. CASE job[o].kind = "xmove" /\ files[x].data = copied[o]
    BY <1>7, <2>5 DEF Owing, Owes
  <2> QED
    BY <1>1, <2>3, <2>4, <2>5
<1>8. Kept[x] # Absent /\ Kept[x].whole =>
        \/ Kept[x].data \in claims[o] /\ SettledAs(at, job[o])
        \/ o \in Owing(Kept[x].data)
  BY <1>5, <1>6, <1>7
<1>9. at # "erase"
  OBVIOUS
<1>10. \A c \in known : Counted(c)'
  BY <1>1, <1>2, <1>3, <1>4, <1>5, <1>6, <1>8, <1>9, KeptTaken
<1>11. known \subseteq known'
  BY DEF Record
<1>12. \A p \in Paths : Sound(files[p])'
  BY <1>3, <1>11 DEF IInv, Sound
<1>13. JobOK(at, job[o], existed[o])
  BY <1>1 DEF JobOK, Case
<1>14. AsideOK(at, existed[o], backup[o])
  BY <1>1 DEF AsideOK, Early, Aside
<1>15. StageOK(at, job[o], stage[o])
  BY <1>1 DEF OpFits, StageOK, Staged
<1>16. backup[o] # Absent => /\ backup[o].data \in known /\ (backup[o].dir \/ backup[o].whole)
                             /\ job[o].overwrite => backup[o].data \in claims[o]
  BY <1>1 DEF OpFits, Sound
<1>17. job[o].kind # "upload" => copied[o] \in known \cup {Absent}
  BY <1>1 DEF HistoryFits
<1>18. at \notin {"discard", "failed"}
  OBVIOUS
<1> QED
  BY <1>1, <1>2, <1>3, <1>4, <1>10, <1>12, <1>13, <1>14, <1>15, <1>16, <1>17, <1>18, Advance

LEMMA NotRemoved ==
  ASSUME IInv, NEW o \in Ops, Record, pc[o] \in {"erase", "erasing"}, Goto(o, EraseError(o)),
         UNCHANGED <<disk, job, existed>>, faults' \in Nat, faults' >= faults
  PROVE  IInv'
<1>1. /\ pc[o] # "idle" /\ JobOK(pc[o], job[o], existed[o]) /\ AsideOK(pc[o], existed[o], backup[o])
      /\ existed[o] \in BOOLEAN
  BY Mine DEF OpFits
<1>2. EraseError(o) \in {"copied", "failed"}
      /\ (EraseError(o) = "failed" <=> job[o].kind # "xmove")
  BY DEF EraseError
<1>3. EraseError(o) = "failed" => backup[o] = Absent
  BY <1>1, <1>2 DEF JobOK, AsideOK
<1>4. SettledAs(EraseError(o), job[o])
  BY <1>1, <1>2 DEF JobOK, SettledAs, MayFailDestroying
<1> QED
  BY <1>1, <1>2, <1>3, <1>4, EndsAsIs

LEMMA EraseInv == ASSUME IInv, NEW o \in Ops, Erase(o), Record PROVE IInv'
<1> DEFINE x == job[o].src
           half == [files[x] EXCEPT !.whole = FALSE]
<1>1. /\ pc[o] = "erase" /\ UNCHANGED <<stage, backup, job, existed>> /\ x \in Paths
      /\ files[x] \in Slot
  BY Mine DEF Erase, IInv, TypeOK, Slot
<1>2. faults' \in Nat /\ faults' >= faults
  BY Calls DEF Erase
<1>3. CASE /\ files[x] # Absent /\ files[x].dir
           /\ files' = [files EXCEPT ![x].whole = FALSE] /\ Goto(o, "erasing")
  <2>1. half \in Slot /\ half.data = files[x].data /\ half.dir
    BY <1>1, <1>3 DEF Slot, Entry
  <2>2. files' = [files EXCEPT ![x] = half]
    BY <1>3
  <2>3. "erasing" \in {"erasing", "dropBackup", "ok"} /\ pc[o] # "erasing"
    BY <1>1
  <2>4. half # Absent => files[x] # Absent /\ half.data = files[x].data /\ half.dir
    BY <1>3, <2>1
  <2>5. Goto(o, "erasing") /\ "erasing" # "dropBackup" /\ x = job[o].src
    BY <1>3
  <2> HIDE DEF half, x
  <2> QED
    BY <1>1, <1>2, <2>1, <2>2, <2>3, <2>4, <2>5, SourceGoes
<1>4. CASE /\ files' = [files EXCEPT ![x] = Absent] /\ Goto(o, AfterErase(o))
  <2>1. /\ AfterErase(o) \in {"dropBackup", "ok"} /\ Absent \in Slot
        /\ AfterErase(o) = "dropBackup" => existed[o] /\ job[o].kind = "xmove"
    BY DEF AfterErase, Slot
  <2> QED
    BY <1>1, <1>2, <1>4, <2>1, SourceGoes
<1>5. CASE Goto(o, EraseError(o)) /\ UNCHANGED files
  BY <1>1, <1>2, <1>5, NotRemoved DEF disk
<1> QED
  BY <1>3, <1>4, <1>5 DEF Erase, Works

LEMMA ErasingInv == ASSUME IInv, NEW o \in Ops, Erasing(o), Record PROVE IInv'
<1> DEFINE x == job[o].src
           emptied == files[x] # Absent /\ files[x].dir /\ ~files[x].whole
<1>1. /\ pc[o] = "erasing" /\ UNCHANGED <<stage, backup, job, existed>> /\ x \in Paths
      /\ files[x] \in Slot
  BY Mine DEF Erasing, IInv, TypeOK, Slot
<1>2. emptied \in BOOLEAN
  BY <1>1 DEF Slot, Entry
<1>3. faults' \in Nat /\ faults' >= faults
  BY <1>2, Calls DEF Erasing
<1>4. CASE emptied /\ files' = [files EXCEPT ![x] = Absent] /\ Goto(o, AfterErase(o))
  <2>1. /\ AfterErase(o) \in {"dropBackup", "ok"} /\ Absent \in Slot
        /\ AfterErase(o) = "dropBackup" => existed[o] /\ job[o].kind = "xmove"
    BY DEF AfterErase, Slot
  <2> QED
    BY <1>1, <1>3, <1>4, <2>1, SourceGoes
<1>5. CASE Goto(o, EraseError(o)) /\ UNCHANGED files
  BY <1>1, <1>3, <1>5, NotRemoved DEF disk
<1> QED
  BY <1>4, <1>5 DEF Erasing, Works

LEMMA CheckInv == ASSUME IInv, NEW o \in Ops, Check(o), Record PROVE IInv'
<1> DEFINE can == job[o].overwrite \/ files[job[o].dst] = Absent
<1>1. /\ pc[o] = "check" /\ UNCHANGED <<disk, job, existed>> /\ pc[o] # "idle"
      /\ OpFits(o) /\ backup[o] = Absent /\ JobOK("check", job[o], existed[o])
      /\ job[o].kind = "upload" /\ can \in BOOLEAN
  BY Mine DEF Check, OpFits, AsideOK, Early, JobOK
<1>2. faults' \in Nat /\ faults' >= faults
  BY <1>1, Calls DEF Check
<1>3. CASE Goto(o, "create")
  <2>1. JobOK("create", job[o], existed[o])
    BY <1>1 DEF JobOK, Case
  <2>2. AsideOK("create", existed[o], backup[o]) /\ StageOK("create", job[o], stage[o])
    BY <1>1 DEF OpFits, AsideOK, StageOK, Aside, Staged
  <2>3. SettledAs(pc[o], job[o]) => SettledAs("create", job[o])
    BY <1>1 DEF SettledAs
  <2>4. "create" \in Working
    BY DEF Working
  <2> QED
    BY <1>1, <1>2, <1>3, <2>1, <2>2, <2>3, <2>4, WalkOn
<1>4. CASE Goto(o, "failed")
  BY <1>1, <1>2, <1>4, FailsEarly DEF Early
<1> QED
  BY <1>3, <1>4 DEF Check

LEMMA CreateInv == ASSUME IInv, NEW o \in Ops, Create(o), Record PROVE IInv'
<1> DEFINE s == [data |-> o, dir |-> FALSE, whole |-> FALSE]
<1>1. /\ pc[o] = "create" /\ UNCHANGED <<files, backup, job, existed>> /\ pc[o] # "idle"
      /\ OpFits(o) /\ backup[o] = Absent /\ JobOK("create", job[o], existed[o])
      /\ job[o].kind = "upload"
  BY Mine DEF Create, OpFits, AsideOK, Early, JobOK
<1>2. faults' \in Nat /\ faults' >= faults
  BY Calls DEF Create
<1>3. CASE stage' = [stage EXCEPT ![o] = s] /\ Goto(o, "receive")
  <2>1. s \in Entry /\ ~s.dir
    BY DEF Entry, Contents
  <2>2. s \in Slot /\ s # Absent
    BY <2>1, AbsentAssumption DEF Slot
  <2> HIDE DEF s
  <2>3. JobOK("receive", job[o], existed[o])
    BY <1>1 DEF JobOK, Case
  <2>4. AsideOK("receive", existed[o], backup[o])
    BY <1>1 DEF AsideOK, Aside
  <2>5. StageOK("receive", job[o], s)
    BY <1>1, <2>1, <2>2 DEF StageOK
  <2>6. SettledAs(pc[o], job[o]) => SettledAs("receive", job[o])
    BY <1>1 DEF SettledAs
  <2>7. "receive" \in Working \cup Ended
    BY DEF Working
  <2> QED
    BY <1>1, <1>2, <1>3, <2>2, <2>3, <2>4, <2>5, <2>6, <2>7, Walk
<1>4. CASE Goto(o, "failed") /\ UNCHANGED stage
  BY <1>1, <1>2, <1>4, FailsEarly DEF Early, disk
<1> QED
  BY <1>3, <1>4 DEF Create

LEMMA ReceiveInv == ASSUME IInv, NEW o \in Ops, Receive(o), Record PROVE IInv'
<1> DEFINE s  == [stage[o] EXCEPT !.whole = TRUE]
           at == IF job[o].overwrite THEN "promote" ELSE "link"
<1>1. /\ pc[o] = "receive" /\ UNCHANGED <<files, backup, job, existed>> /\ pc[o] # "idle"
      /\ OpFits(o) /\ backup[o] = Absent /\ JobOK("receive", job[o], existed[o])
      /\ stage[o] # Absent /\ stage[o] \in Entry /\ StageOK("receive", job[o], stage[o])
      /\ job[o].kind = "upload" /\ existed[o] = FALSE
  BY Mine DEF Receive, Slot, OpFits, AsideOK, StageOK, Staged, Early, JobOK
<1>2. faults' \in Nat /\ faults' >= faults
  BY Calls DEF Receive
<1>3. CASE stage' = [stage EXCEPT ![o].whole = TRUE] /\ Goto(o, at)
  <2>1. s \in Entry /\ s.dir = stage[o].dir /\ s.whole
    BY <1>1 DEF Entry
  <2>2. s \in Slot /\ s # Absent
    BY <2>1, AbsentAssumption DEF Slot
  <2>3. stage' = [stage EXCEPT ![o] = s]
    BY <1>3
  <2>4. at \in {"promote", "link"}
    OBVIOUS
  <2>5. Goto(o, at)
    BY <1>3
  <2>6. ~s.dir
    BY <1>1, <2>1 DEF StageOK
  <2> HIDE DEF s, at
  <2>7. JobOK(at, job[o], existed[o])
    BY <1>1, <2>4 DEF JobOK, Case
  <2>8. AsideOK(at, existed[o], backup[o])
    BY <1>1, <2>4 DEF AsideOK, Aside
  <2>9. StageOK(at, job[o], s)
    BY <1>1, <2>1, <2>2, <2>4, <2>6 DEF StageOK
  <2>10. SettledAs(pc[o], job[o]) => SettledAs(at, job[o])
    BY <1>1, <2>4 DEF SettledAs
  <2>11. at \in Working \cup Ended /\ at \notin {"discard", "failed", "erase"}
    BY <2>4 DEF Working
  <2> QED
    BY <1>1, <1>2, <2>2, <2>3, <2>5, <2>7, <2>8, <2>9, <2>10, <2>11, Walk
<1>4. CASE Goto(o, AfterFillError(o)) /\ UNCHANGED stage
  BY <1>1, <1>2, <1>4, FailsEarly DEF AfterFillError, Early, disk
<1> QED
  BY <1>3, <1>4 DEF Receive

\* An entry appears at a name that was free.
LEMMA Appears ==
  ASSUME IInv, NEW o \in Ops, Record, pc[o] \in Early \ {"idle"}, NEW at \in {"unlink", "ok"},
         Goto(o, at), UNCHANGED <<stage, backup, job, existed>>, faults' \in Nat, faults' >= faults,
         NEW y \in Paths, NEW e \in Entry, files[y] = Absent, files' = [files EXCEPT ![y] = e],
         e.whole, JobOK(at, job[o], existed[o]), StageOK(at, job[o], stage[o]),
         ~SettledAs(pc[o], job[o])
  PROVE  IInv'
<1>1. /\ pc[o] # "idle" /\ OpFits(o) /\ HistoryFits(o)
      /\ job[o] \in Job /\ existed[o] \in BOOLEAN /\ stage[o] \in Slot /\ backup[o] \in Slot
      /\ backup[o] = Absent /\ e # Absent
  BY Mine, AbsentAssumption DEF OpFits, AsideOK
<1>2. at \in Working \cup Ended /\ at \in Places /\ at \notin {"erase", "discard", "failed"}
  BY DEF Working, Ended, Places
<1>3. /\ files' \in [Paths -> Slot] /\ files'[y] = e
      /\ \A p \in Paths \ {y} : files'[p] = files[p]
  BY DEF IInv, TypeOK, Slot
<1>4. Becomes(o, at, job[o], existed[o], stage[o], backup[o])
  BY DEF IInv, TypeOK, Becomes, Goto
<1>5. \A z \in Names : Kept[z] # Absent => Kept'[z] = Kept[z]
  BY <1>3, PathsAssumption DEF Kept, Names
<1>6. \A c \in known : Counted(c)'
  BY <1>1, <1>2, <1>3, <1>4, <1>5, KeptGrows
<1>7. known \subseteq known' /\ WholeData(files') \subseteq known'
  BY DEF Record
<1>8. e.data \in WholeData(files')
  BY <1>1, <1>3 DEF WholeData
<1>9. \A p \in Paths : Sound(files[p])'
  BY <1>3, <1>7, <1>8 DEF IInv, Sound
<1>10. AsideOK(at, existed[o], backup[o])
  BY <1>1 DEF AsideOK, Aside
<1>11. job[o].kind # "upload" => copied[o] \in known \cup {Absent}
  BY <1>1 DEF HistoryFits
<1> QED
  BY <1>1, <1>2, <1>3, <1>4, <1>6, <1>9, <1>10, <1>11, Advance

LEMMA LinkInv == ASSUME IInv, NEW o \in Ops, Link(o), Record PROVE IInv'
<1> DEFINE y == job[o].dst
<1>1. /\ pc[o] = "link" /\ UNCHANGED <<stage, backup, job, existed>> /\ pc[o] # "idle"
      /\ OpFits(o) /\ JobOK("link", job[o], existed[o]) /\ StageOK("link", job[o], stage[o])
      /\ stage[o] \in Entry /\ job[o].kind = "upload" /\ y \in Paths /\ stage[o].whole
  BY Mine DEF Link, Slot, OpFits, StageOK, Staged, JobOK
<1>2. faults' \in Nat /\ faults' >= faults
  BY Calls DEF Link
<1>3. CASE files[y] = Absent /\ files' = [files EXCEPT ![y] = stage[o]] /\ Goto(o, "unlink")
  <2>1. JobOK("unlink", job[o], existed[o]) /\ StageOK("unlink", job[o], stage[o])
    BY <1>1 DEF JobOK, StageOK, Case, Staged
  <2>2. ~SettledAs(pc[o], job[o]) /\ pc[o] \in Early \ {"idle"} /\ "unlink" \in {"unlink", "ok"}
    BY <1>1 DEF SettledAs, MayFailDestroying, Early
  <2> HIDE DEF y
  <2> QED
    BY <1>1, <1>2, <1>3, <2>1, <2>2, Appears
<1>4. CASE Goto(o, "discard") /\ UNCHANGED files
  BY <1>1, <1>2, <1>4, FailsEarly DEF Early, disk
<1> QED
  BY <1>3, <1>4 DEF Link, Works

LEMMA MkdirInv == ASSUME IInv, NEW o \in Ops, Mkdir(o), Record PROVE IInv'
<1> DEFINE y == job[o].dst
           e == [data |-> o, dir |-> TRUE, whole |-> TRUE]
           can == files[y] # Absent => files[y].dir
<1>1. /\ pc[o] = "mkdir" /\ UNCHANGED <<stage, backup, job, existed>> /\ pc[o] # "idle"
      /\ OpFits(o) /\ JobOK("mkdir", job[o], existed[o]) /\ job[o].kind = "mkdir"
      /\ y \in Paths /\ files[y] \in Slot
  BY Mine DEF Mkdir, OpFits, JobOK, IInv, TypeOK, Slot
<1>2. faults' \in Nat /\ faults' >= faults
  <2>1. can \in BOOLEAN
    BY <1>1 DEF Slot, Entry
  <2> QED
    BY <2>1, Calls DEF Mkdir
<1>3. CASE files[y] = Absent /\ files' = [files EXCEPT ![y] = e] /\ Goto(o, "ok")
  <2>1. JobOK("ok", job[o], existed[o]) /\ StageOK("ok", job[o], stage[o])
    BY <1>1 DEF OpFits, JobOK, StageOK, Case, Staged
  <2>2. ~SettledAs(pc[o], job[o]) /\ pc[o] \in Early \ {"idle"} /\ "ok" \in {"unlink", "ok"}
    BY <1>1 DEF SettledAs, MayFailDestroying, Early
  <2>3. e \in Entry /\ e.whole
    BY DEF Entry, Contents
  <2> HIDE DEF y, e
  <2> QED
    BY <1>1, <1>2, <1>3, <2>1, <2>2, <2>3, Appears
<1>4. CASE UNCHANGED files /\ Goto(o, "ok")
  <2>1. SettledAs("ok", job[o]) /\ "ok" \notin {"discard", "failed"}
    BY DEF SettledAs
  <2> QED
    BY <1>1, <1>2, <1>4, <2>1, EndsAsIs DEF disk
<1>5. CASE UNCHANGED files /\ Goto(o, "failed")
  BY <1>1, <1>2, <1>5, FailsEarly DEF Early, disk
<1> QED
  BY <1>3, <1>4, <1>5 DEF Mkdir

-----------------------------------------------------------------------------
(***************************************************************************)
(* The invariant, and what follows from it.                                *)
(***************************************************************************)

LEMMA InitInv == Init => IInv
<1> SUFFICES ASSUME Init PROVE IInv
  OBVIOUS
<1>1. /\ files \in [Paths -> Slot]
      /\ \A p \in Paths : files[p] # Absent => files[p].whole /\ files[p].data = p
  <2>1. PICK shape \in [Paths -> {"file", "dir", "none"}] :
          files = [p \in Paths |->
                    IF shape[p] = "none" THEN Absent
                    ELSE [data |-> p, dir |-> shape[p] = "dir", whole |-> TRUE]]
    BY DEF Init
  <2> QED
    BY <2>1 DEF Slot, Entry, Contents
<1>2. known = WholeData(files) /\ known \subseteq Contents
  BY <1>1 DEF Init, WholeData, Contents
<1>3. \A p \in Paths : Sound(files[p])
  BY <1>1, <1>2 DEF Sound, WholeData
<1>4. TypeOK
  BY <1>1, <1>2, AbsentAssumption DEF Init, TypeOK, SlotsOK, Slot
<1>5. \A o \in Ops : OpFits(o) /\ HistoryFits(o)
  BY DEF Init, OpFits, HistoryFits, AsideOK, StageOK, Sound, GivenBack, Occupied, Running,
         Working, Early, Aside, Staged
<1>6. \A c \in known : Counted(c)
  <2> TAKE c \in known
  <2>1. PICK p \in Paths : files[p] # Absent /\ files[p].whole /\ files[p].data = c
    BY <1>1, <1>2 DEF WholeData
  <2>2. p \in CopiesIn(Kept, c)
    BY <2>1 DEF CopiesIn, Kept, Names
  <2>3. Owing(c) = {}
    BY DEF Init, Owing, Owes
  <2> DEFINE S == CopiesIn(Kept, c)
  <2>4. IsFiniteSet(S)
    BY Finite
  <2>5. Cardinality(S) \in Nat /\ Cardinality(S) # 0
    BY <2>2, <2>4, FS_CardinalityType, FS_EmptySet
  <2>6. Cardinality(Owing(c)) = 0
    BY <2>3, FS_EmptySet
  <2> QED
    BY <2>5, <2>6 DEF Counted, Enough
<1> QED
  BY <1>2, <1>3, <1>4, <1>5, <1>6 DEF IInv

LEMMA NextInv == IInv /\ [Next]_vars => IInv'
<1> SUFFICES ASSUME IInv, [Next]_vars PROVE IInv'
  OBVIOUS
<1>1. CASE UNCHANGED vars
  <2>1. /\ files' = files /\ stage' = stage /\ backup' = backup /\ job' = job /\ pc' = pc
        /\ existed' = existed /\ faults' = faults /\ known' = known /\ copied' = copied
        /\ claims' = claims /\ taken' = taken
    BY <1>1 DEF vars
  <2>2. TypeOK' /\ (\A p \in Paths : Sound(files[p])') /\ (WholeData(files) \subseteq known)'
    BY <2>1 DEF IInv, TypeOK, SlotsOK, Sound, WholeData
  <2>3. \A o \in Ops : OpFits(o)' /\ HistoryFits(o)'
    BY <2>1 DEF IInv, OpFits, HistoryFits, Sound, GivenBack, JobOK, AsideOK, StageOK, Running
  <2>4. \A c \in known' : Counted(c)'
    BY <2>1 DEF IInv, Counted, Spent, Enough, CopiesIn, Kept, Owing
  <2> QED
    BY <2>2, <2>3, <2>4 DEF IInv
<1>2. ASSUME NEW o \in Ops, Step(o), Record PROVE IInv'
  <2>1. CASE Begin(o) \/ Cancel(o) \/ ProbeSrc(o) \/ ProbeDst(o) \/ XProbe(o) \/ Rename(o)
    BY <1>2, <2>1, BeginInv, CancelInv, ProbeSrcInv, ProbeDstInv, XProbeInv, RenameInv
  <2>2. CASE CaseOut(o) \/ CaseIn(o) \/ CaseUndo(o)
    BY <1>2, <2>2, CaseOutInv, CaseInInv, CaseUndoInv
  <2>3. CASE Backup(o) \/ MoveIn(o) \/ Unbackup(o) \/ Restore(o) \/ DropBackup(o)
    BY <1>2, <2>3, BackupInv, MoveInInv, UnbackupInv, RestoreInv, DropBackupInv
  <2>4. CASE Fill(o) \/ Filling(o) \/ Promote(o) \/ Discard(o)
    BY <1>2, <2>4, FillInv, FillingInv, PromoteInv, DiscardInv
  <2>5. CASE Erase(o) \/ Erasing(o)
    BY <1>2, <2>5, EraseInv, ErasingInv
  <2>6. CASE Check(o) \/ Create(o) \/ Receive(o) \/ Link(o) \/ Unlink(o) \/ Mkdir(o)
    BY <1>2, <2>6, CheckInv, CreateInv, ReceiveInv, LinkInv, UnlinkInv, MkdirInv
  <2> QED
    BY <1>2, <2>1, <2>2, <2>3, <2>4, <2>5, <2>6 DEF Step
<1> QED
  BY <1>1, <1>2 DEF Next

LEMMA Invariance == Spec => []IInv
BY InitInv, NextInv, PTL DEF Spec

-----------------------------------------------------------------------------
\* Whatever the requests do, each works on hidden entries it has, and every
\* name holds an entry or nothing.
THEOREM TypeCorrect == Spec => []TypeOK
<1>1. IInv => TypeOK
  BY DEF IInv
<1> QED
  BY <1>1, Invariance, PTL

\* No visible file is one that is still being written.
THEOREM OnlyWholeFiles == Spec => []VisibleFilesWhole
<1>1. IInv => VisibleFilesWhole
  BY DEF IInv, VisibleFilesWhole, Sound
<1> QED
  BY <1>1, Invariance, PTL

\* What an operation set aside and does not put back, when it fails, it could
\* not put back: a call failed, or the place was taken.
THEOREM GivesBack == Spec => []DestinationGivenBack
<1>1. IInv => DestinationGivenBack
  BY DEF IInv, OpFits, GivenBack, DestinationGivenBack
<1> QED
  BY <1>1, Invariance, PTL

\* For any number of concurrent requests on any devices, of which any may be
\* cut off and any number of calls may fail: data that was once visible is
\* kept under some name, unless an operation that may destroy it does.
THEOREM NothingIsLost == Spec => []NoLoss
<1>1. ASSUME IInv, NEW c \in known
      PROVE  \/ c \in Stored
             \/ \E o \in Ops : c \in claims[o] /\ (pc[o] = "failed" => MayFailDestroying(job[o]))
  <2>1. CASE Spent(c)
    BY <2>1 DEF Spent, SettledAs
  <2>2. CASE Enough(c)
    <3>1. CopiesIn(Kept, c) # {}
      <4>1. IsFiniteSet(Owing(c))
        BY FiniteOps DEF Owing
      <4>2. Cardinality(Owing(c)) \in Nat
        BY <4>1, FS_CardinalityType
      <4>3. Cardinality({}) = 0
        BY FS_EmptySet
      <4> QED
        BY <2>2, <4>2, <4>3 DEF Enough
    <3>2. PICK x \in Names : Kept[x] # Absent /\ Kept[x].whole /\ Kept[x].data = c
      BY <3>1 DEF CopiesIn
    <3>3. DOMAIN files = Paths /\ DOMAIN backup = Ops
      BY <1>1 DEF IInv, TypeOK
    <3>4. CASE x \in Paths
      <4>1. Kept[x] = files[x]
        BY <3>4 DEF Kept, Names
      <4>2. c \in WholeData(files)
        BY <3>2, <3>3, <3>4, <4>1 DEF WholeData
      <4> QED
        BY <4>2 DEF Stored
    <3>5. CASE x \in Ops \ Paths
      <4>1. Kept[x] = backup[x]
        BY <3>5 DEF Kept, Names
      <4>2. c \in WholeData(backup)
        BY <3>2, <3>3, <3>5, <4>1 DEF WholeData
      <4> QED
        BY <4>2 DEF Stored
    <3> QED
      BY <3>4, <3>5 DEF Names
  <2> QED
    BY <1>1, <2>1, <2>2 DEF IInv, Counted
<1>2. IInv => NoLoss
  BY <1>1 DEF NoLoss
<1> QED
  BY <1>2, Invariance, PTL

-----------------------------------------------------------------------------
(***************************************************************************)
(* One request at a time.  Nothing interferes, so what the operation found *)
(* is still so when it acts on it, and a call fails only for an outside    *)
(* reason, those of HasOneUnforcedFailure excepted.                        *)
(***************************************************************************)

Fresh(r) == [data |-> r, dir |-> FALSE, whole |-> TRUE]

\* What the operation was asked, and what it has found.
Asks(j) ==
  /\ j.kind \in {"copy", "xmove"} => j.src # j.dst
  /\ j.kind = "xmove" => Device[j.src] # Device[j.dst]
  /\ j.kind \in {"upload", "remove", "mkdir"} => j.src = j.dst

Finds(at, j, ex, x, y) ==
  /\ at \in {"probeSrc", "probeDst", "rename", "xprobe", "backup", "moveIn", "unbackup", "fill",
             "filling"} => (x # Absent => x.whole)
  /\ at \in {"probeDst", "rename", "caseOut", "xprobe", "backup", "moveIn", "unbackup", "fill",
             "filling"} => x # Absent
  /\ at \in {"rename", "caseIn", "caseUndo", "moveIn", "unbackup", "restore", "link"} => y = Absent
  /\ at = "promote" /\ j.kind # "upload" => x # Absent /\ y = Absent
  /\ at \in {"backup", "dropBackup"} => y # Absent
  /\ at \in {"fill", "filling"} => (ex <=> y # Absent)
  /\ at \in {"create", "receive"} => j.overwrite \/ y = Absent
  /\ at = "promote" /\ j.kind = "upload" => j.overwrite
  /\ at \in {"erase", "erasing"} /\ j.kind = "xmove" => y # Absent
  /\ at = "erasing" => x # Absent /\ x.dir /\ ~x.whole
  /\ at \in {"xprobe", "unbackup"} => Device[j.src] # Device[j.dst]

\* What it has staged.
Stages(r, at, j, s, x) ==
  /\ at \in {"probeSrc", "probeDst", "xprobe", "fill", "check", "create", "mkdir", "erase", "erasing"}
       => s = Absent
  /\ at = "filling" => s.data = x.data /\ s.dir = x.dir
  /\ at \in {"backup", "promote"} /\ j.kind \in {"copy", "xmove"} => s = x
  /\ at = "receive" => s # Absent /\ s.data = r /\ ~s.dir
  /\ at \in {"promote", "link"} /\ j.kind = "upload" => s = Fresh(r)
  /\ at = "restore" /\ j.kind \notin {"copy", "xmove"} => s = Absent

IsDir(e) == e # Absent /\ e.dir

\* How many calls have failed.
Blames(at, j, s, b, y, n) ==
  /\ at \in {"restore", "caseUndo"} => n >= 1
  /\ at = "discard" => n >= 1 \/ (j.kind = "upload" /\ IsDir(y))
  /\ at = "discard" /\ b # Absent => n >= 2
  /\ at = "failed" /\ (b # Absent \/ s # Absent)
       => IF \/ j.kind = "upload" /\ IsDir(y)
             \/ j.kind = "move" /\ Device[j.src] # Device[j.dst]
            THEN n >= 1 ELSE n >= 2

Steady(r) ==
  pc[r] # "idle" =>
    /\ Asks(job[r])
    /\ Finds(pc[r], job[r], existed[r], files[job[r].src], files[job[r].dst])
    /\ Stages(r, pc[r], job[r], stage[r], files[job[r].src])
    /\ Blames(pc[r], job[r], stage[r], backup[r], files[job[r].dst], faults)

\* Before the operation begins, everything is as it was at the start.
Start == \A r \in Ops : pc[r] = "idle" => \A p \in Paths : files[p] # Absent => files[p].whole

AInv == IInv /\ Start /\ \A r \in Ops : Steady(r)

-----------------------------------------------------------------------------
(***************************************************************************)
(* What the abstract operation sees of all this.                           *)
(***************************************************************************)

\* What stands at p, counting what r has set aside.
See(r, p) ==
  IF files[p] = Absent /\ backup[r] # Absent /\ job[r].dst = p THEN backup[r] ELSE files[p]

LEMMA Tree ==
  ASSUME NEW o, Ops = {o}
  PROVE  /\ LogicalTree = [p \in Paths |-> See(o, p)]
         /\ LogicalTree' = [p \in Paths |-> See(o, p)']
<1>1. \A S : S = {o} => (CHOOSE r \in S : TRUE) = o
  OBVIOUS
<1>2. ASSUME NEW p \in Paths
      PROVE  IF backup[o] # Absent /\ job[o].dst = p THEN SetAside(p) = {o} ELSE SetAside(p) = {}
  BY DEF SetAside
<1>3. ASSUME NEW p \in Paths
      PROVE  LogicalTree[p] = See(o, p)
  BY <1>1, <1>2 DEF LogicalTree, See
<1>4. ASSUME NEW p \in Paths
      PROVE  IF (backup[o] # Absent /\ job[o].dst = p)'
               THEN SetAside(p)' = {o} ELSE SetAside(p)' = {}
  BY DEF SetAside
<1>5. ASSUME NEW p \in Paths
      PROVE  LogicalTree'[p] = See(o, p)'
  BY <1>1, <1>4 DEF LogicalTree, See
<1>6. LogicalTree = [p \in Paths |-> LogicalTree[p]] /\ LogicalTree' = [p \in Paths |-> LogicalTree'[p]]
  BY DEF LogicalTree
<1> QED
  BY <1>3, <1>5, <1>6

LEMMA StateIs ==
  ASSUME NEW o
  PROVE  /\ pc[o] \in {"idle"} \cup Ended => StateOf(o) = pc[o]
         /\ pc[o] \in {"dropBackup", "unlink"} => StateOf(o) = "applied"
         /\ pc[o] = "erase" /\ job[o].kind = "xmove" => StateOf(o) = "applied"
         /\ pc[o] = "erasing" => StateOf(o) = "emptying"
         /\ pc[o] = "erase" /\ job[o].kind # "xmove" => StateOf(o) = "running"
         /\ pc[o] \in Working \ {"dropBackup", "unlink", "erase", "erasing"} => StateOf(o) = "running"
<1>1. CASE pc[o] \in {"idle"} \cup Ended
  BY <1>1 DEF StateOf, Ended, Working
<1>2. CASE pc[o] \in {"dropBackup", "unlink"}
  BY <1>2 DEF StateOf, Ended, Working
<1>3. CASE pc[o] = "erase" /\ job[o].kind = "xmove"
  BY <1>3 DEF StateOf, Ended, Working
<1>4. CASE pc[o] = "erase" /\ job[o].kind # "xmove"
  BY <1>4 DEF StateOf, Ended, Working
<1>5. CASE pc[o] = "erasing"
  BY <1>5 DEF StateOf, Ended, Working
<1>6. CASE pc[o] \in Working \ {"dropBackup", "unlink", "erase", "erasing"}
  BY <1>6 DEF StateOf, Ended, Working
<1>7. CASE pc[o] \notin {"idle"} \cup Ended \cup Working
  BY <1>7 DEF Ended, Working
<1> QED
  BY <1>1, <1>2, <1>3, <1>4, <1>5, <1>6, <1>7

LEMMA StateBecomes ==
  ASSUME NEW o
  PROVE  /\ pc'[o] \in {"idle"} \cup Ended => StateOf(o)' = pc'[o]
         /\ pc'[o] \in {"dropBackup", "unlink"} => StateOf(o)' = "applied"
         /\ pc'[o] = "erase" /\ job'[o].kind = "xmove" => StateOf(o)' = "applied"
         /\ pc'[o] = "erasing" => StateOf(o)' = "emptying"
         /\ pc'[o] = "erase" /\ job'[o].kind # "xmove" => StateOf(o)' = "running"
         /\ pc'[o] \in Working \ {"dropBackup", "unlink", "erase", "erasing"} => StateOf(o)' = "running"
<1>1. CASE pc'[o] \in {"idle"} \cup Ended
  BY <1>1 DEF StateOf, Ended, Working
<1>2. CASE pc'[o] \in {"dropBackup", "unlink"}
  BY <1>2 DEF StateOf, Ended, Working
<1>3. CASE pc'[o] = "erase" /\ job'[o].kind = "xmove"
  BY <1>3 DEF StateOf, Ended, Working
<1>4. CASE pc'[o] = "erase" /\ job'[o].kind # "xmove"
  BY <1>4 DEF StateOf, Ended, Working
<1>5. CASE pc'[o] = "erasing"
  BY <1>5 DEF StateOf, Ended, Working
<1>6. CASE pc'[o] \in Working \ {"dropBackup", "unlink", "erase", "erasing"}
  BY <1>6 DEF StateOf, Ended, Working
<1>7. CASE pc'[o] \notin {"idle"} \cup Ended \cup Working
  BY <1>7 DEF Ended, Working
<1> QED
  BY <1>1, <1>2, <1>3, <1>4, <1>5, <1>6, <1>7

\* The parts of an abstract step.
LEMMA ToState ==
  ASSUME NEW o, Ops = {o}, NEW l, StateOf(o)' = l
  PROVE  Atomic!To(o, l)
BY DEF Atomic!To

LEMMA SameJob ==
  ASSUME NEW o, Ops = {o}, Asked(o)' = Asked(o)
  PROVE  [r \in Ops |-> Asked(r)]' = [r \in Ops |-> Asked(r)]
OBVIOUS

\* What a step of the operation is to the abstract one.
Shown(at, kind) ==
  IF at \in {"idle"} \cup Ended THEN at
  ELSE IF at \in {"dropBackup", "unlink"} \/ (at = "erase" /\ kind = "xmove") THEN "applied"
  ELSE IF at = "erasing" THEN "emptying" ELSE "running"

LEMMA States ==
  ASSUME NEW o, Ops = {o}, IInv,
         NEW at \in Working \cup Ended, NEW j \in Job, NEW ex \in BOOLEAN, NEW s \in Slot, NEW b \in Slot,
         Becomes(o, at, j, ex, s, b)
  PROVE  StateOf(o) = Shown(pc[o], job[o].kind) /\ StateOf(o)' = Shown(at, j.kind)
<1>1. o \in Ops /\ at \in Places /\ pc[o] \in Places
  BY DEF Places, IInv, TypeOK
<1>2. pc'[o] = at /\ job'[o] = j
  BY <1>1, Values
<1>3. StateOf(o) = Shown(pc[o], job[o].kind)
  BY <1>1, StateIs DEF Shown, Ended, Working, Places
<1>4. StateOf(o)' = Shown(at, j.kind)
  <2>1. \/ at \in {"idle"} \cup Ended
        \/ at \in {"dropBackup", "unlink"}
        \/ at = "erasing"
        \/ at = "erase" /\ j.kind = "xmove"
        \/ at = "erase" /\ j.kind # "xmove"
        \/ at \in Working \ {"dropBackup", "unlink", "erase", "erasing"}
    BY <1>1 DEF Places
  <2> QED
    BY <1>2, <2>1, StateBecomes DEF Shown, Ended, Working
<1> QED
  BY <1>3, <1>4

\* A step of the abstract operation that has no effect on the name space.
Passes(o, was, is) ==
  \/ is = was
  \/ was = "running" /\ is = "failed"
  \/ was = "applied" /\ is = "ok"
  \/ was \in {"running", "applied", "emptying"} /\ is = "cancelled"
  \/ was = "emptying" /\ Asked(o).kind = "remove" /\ is = "failed"
  \/ was \in {"applied", "emptying"} /\ Atomic!Crosses(Asked(o)) /\ is = "copied"

\* The name space stays as it is.
LEMMA Unseen ==
  ASSUME NEW o, Ops = {o}, IInv, pc[o] # "idle",
         NEW at \in Working \cup Ended, NEW j \in Job, NEW ex \in BOOLEAN, NEW s \in Slot, NEW b \in Slot,
         Becomes(o, at, j, ex, s, b),
         \A p \in Paths : See(o, p)' = See(o, p), Asked(o)' = Asked(o),
         Passes(o, Shown(pc[o], job[o].kind), Shown(at, j.kind))
  PROVE  [Atomic!Next]_(Atomic!vars)
<1>1. StateOf(o) = Shown(pc[o], job[o].kind) /\ StateOf(o)' = Shown(at, j.kind)
  BY States
<1>2. LogicalTree' = LogicalTree
  BY Tree
<1>3. [r \in Ops |-> Asked(r)]' = [r \in Ops |-> Asked(r)]
  BY SameJob
<1>4. [r \in Ops |-> StateOf(r)][o] = StateOf(o) /\ [r \in Ops |-> Asked(r)][o] = Asked(o)
  OBVIOUS
<1>5. CASE StateOf(o)' = StateOf(o)
  <2>1. [r \in Ops |-> StateOf(r)]' = [r \in Ops |-> StateOf(r)]
    BY <1>5
  <2> QED
    BY <1>2, <1>3, <2>1 DEF Atomic!vars
<1>6. CASE \/ StateOf(o) = "running" /\ StateOf(o)' = "failed"
           \/ StateOf(o) = "emptying" /\ Asked(o).kind = "remove" /\ StateOf(o)' = "failed"
           \/ StateOf(o) \in {"applied", "emptying"} /\ Atomic!Crosses(Asked(o)) /\ StateOf(o)' = "copied"
  <2>1. Atomic!Fail(o)
    BY <1>2, <1>3, <1>4, <1>6, ToState DEF Atomic!Fail
  <2> QED
    BY <2>1 DEF Atomic!Next
<1>7. CASE StateOf(o) = "applied" /\ StateOf(o)' = "ok"
  <2>1. Atomic!Return(o)
    BY <1>2, <1>3, <1>4, <1>7, ToState DEF Atomic!Return
  <2> QED
    BY <2>1 DEF Atomic!Next
<1>8. CASE StateOf(o) \in {"running", "applied", "emptying"} /\ StateOf(o)' = "cancelled"
  <2>1. Atomic!Cancel(o)
    BY <1>2, <1>3, <1>4, <1>8, ToState DEF Atomic!Cancel
  <2> QED
    BY <2>1 DEF Atomic!Next
<1> QED
  BY <1>1, <1>5, <1>6, <1>7, <1>8 DEF Passes

\* The operation has its effect.
LEMMA Takes ==
  ASSUME NEW o, Ops = {o}, IInv,
         NEW at \in Working \cup Ended, NEW j \in Job, NEW ex \in BOOLEAN, NEW s \in Slot, NEW b \in Slot,
         Becomes(o, at, j, ex, s, b), Asked(o)' = Asked(o),
         Shown(pc[o], job[o].kind) = "running",
         \/ Shown(at, j.kind) = "applied"
         \/ Shown(at, j.kind) = "ok" /\ ~Atomic!Crosses(Asked(o)),
         \/ Atomic!Moved(Asked(o)) \/ Atomic!Copied(Asked(o))
         \/ Atomic!Stored(o, Asked(o)) \/ Atomic!Made(o, Asked(o))
  PROVE  [Atomic!Next]_(Atomic!vars)
<1>1. StateOf(o) = Shown(pc[o], job[o].kind) /\ StateOf(o)' = Shown(at, j.kind)
  BY States
<1>2. [r \in Ops |-> Asked(r)]' = [r \in Ops |-> Asked(r)]
  BY SameJob
<1>3. [r \in Ops |-> StateOf(r)][o] = StateOf(o) /\ [r \in Ops |-> Asked(r)][o] = Asked(o)
  OBVIOUS
<1>4. Atomic!To(o, StateOf(o)')
  BY ToState
<1>5. \E next \in {"applied"} \cup (IF Atomic!Crosses(Asked(o)) THEN {} ELSE {"ok"}) : Atomic!To(o, next)
  BY <1>1, <1>4
<1>6. Atomic!Apply(o)
  BY <1>1, <1>2, <1>3, <1>5 DEF Atomic!Apply
<1> QED
  BY <1>6 DEF Atomic!Next

\* The operation is as steady as its new values are.
LEMMA StaysSteady ==
  ASSUME NEW o \in Ops, IInv,
         NEW at \in Working \cup Ended, NEW j \in Job, NEW ex \in BOOLEAN, NEW s \in Slot, NEW b \in Slot,
         Becomes(o, at, j, ex, s, b),
         Asks(j), Finds(at, j, ex, files'[j.src], files'[j.dst]),
         Stages(o, at, j, s, files'[j.src]), Blames(at, j, s, b, files'[j.dst], faults')
  PROVE  Steady(o)'
<1>1. at \in Places
  BY DEF Places
<1>2. pc'[o] = at /\ job'[o] = j /\ existed'[o] = ex /\ stage'[o] = s /\ backup'[o] = b
  BY <1>1, Values
<1>3. Asks(job'[o]) /\ Finds(pc'[o], job'[o], existed'[o], files'[job'[o].src], files'[job'[o].dst])
  BY <1>2
<1>4. /\ Stages(o, pc'[o], job'[o], stage'[o], files'[job'[o].src])
      /\ Blames(pc'[o], job'[o], stage'[o], backup'[o], files'[job'[o].dst], faults')
  BY <1>2
<1> QED
  BY <1>3, <1>4 DEF Steady, Asks, Finds, Stages, Blames

LEMMA Known ==
  ASSUME AInv, NEW o \in Ops, pc[o] # "idle"
  PROVE  /\ IInv /\ OpFits(o) /\ HistoryFits(o)
         /\ job[o] \in Job /\ job[o] # Absent
         /\ job[o].src \in Paths /\ job[o].dst \in Paths /\ job[o].overwrite \in BOOLEAN
         /\ job[o].kind \in Kinds \cup {"xmove"}
         /\ stage[o] \in Slot /\ backup[o] \in Slot /\ existed[o] \in BOOLEAN /\ pc[o] \in Places
         /\ files[job[o].src] \in Slot /\ files[job[o].dst] \in Slot /\ faults \in Nat
         /\ JobOK(pc[o], job[o], existed[o]) /\ AsideOK(pc[o], existed[o], backup[o])
         /\ StageOK(pc[o], job[o], stage[o]) /\ Asks(job[o])
         /\ Finds(pc[o], job[o], existed[o], files[job[o].src], files[job[o].dst])
         /\ Stages(o, pc[o], job[o], stage[o], files[job[o].src])
         /\ Blames(pc[o], job[o], stage[o], backup[o], files[job[o].dst], faults)
<1>1. IInv /\ Steady(o)
  BY DEF AInv
<1>2. /\ OpFits(o) /\ HistoryFits(o) /\ stage[o] \in Slot /\ backup[o] \in Slot
      /\ existed[o] \in BOOLEAN /\ pc[o] \in Places /\ faults \in Nat
      /\ job[o] \in Job /\ job[o].src \in Paths /\ job[o].dst \in Paths
      /\ job[o].kind \in Kinds \cup {"xmove"} /\ job[o].overwrite \in BOOLEAN
  BY <1>1, Mine
<1>3. files[job[o].src] \in Slot /\ files[job[o].dst] \in Slot
  BY <1>1, <1>2 DEF IInv, TypeOK, Slot
<1>4. job[o] # Absent
  BY <1>2, AbsentAssumption
<1> QED
  BY <1>1, <1>2, <1>3, <1>4 DEF OpFits, Steady

\* A step that leaves the name space alone, with one operation.
LEMMA Walks ==
  ASSUME NEW o, Ops = {o}, AInv, pc[o] # "idle",
         NEW at \in Working \cup Ended, NEW ex \in BOOLEAN, NEW s \in Slot, NEW kind \in Kinds \cup {"xmove"},
         Goto(o, at), UNCHANGED <<files, backup>>,
         job' = [job EXCEPT ![o].kind = kind], existed' = [existed EXCEPT ![o] = ex],
         stage' = [stage EXCEPT ![o] = s],
         kind = job[o].kind \/ (job[o].kind = "move" /\ kind = "xmove"),
         Asks([job[o] EXCEPT !.kind = kind]),
         Finds(at, [job[o] EXCEPT !.kind = kind], ex, files[job[o].src], files[job[o].dst]),
         Stages(o, at, [job[o] EXCEPT !.kind = kind], s, files[job[o].src]),
         Blames(at, [job[o] EXCEPT !.kind = kind], s, backup[o], files[job[o].dst], faults'),
         Passes(o, Shown(pc[o], job[o].kind), Shown(at, kind))
  PROVE  Steady(o)' /\ [Atomic!Next]_(Atomic!vars)
<1> DEFINE j == [job[o] EXCEPT !.kind = kind]
<1>1. o \in Ops /\ IInv /\ job[o] \in Job /\ job[o] # Absent /\ backup[o] \in Slot /\ at \in Places
  BY Known DEF AInv, Places
<1>2. /\ j \in Job /\ j.kind = kind /\ j.src = job[o].src /\ j.dst = job[o].dst
      /\ j.overwrite = job[o].overwrite /\ j # Absent
  BY <1>1, AbsentAssumption DEF Job
<1>3. kind = job[o].kind => j = job[o]
  BY <1>1 DEF Job
<1>4. kind = "xmove" => [j EXCEPT !.kind = "move"] = [job[o] EXCEPT !.kind = "move"]
  BY <1>1 DEF Job
<1>5. job[o].kind = "move" => [job[o] EXCEPT !.kind = "move"] = job[o]
  BY <1>1 DEF Job
<1>6. job' = [job EXCEPT ![o] = j]
  OBVIOUS
<1>7. Asks(j) /\ Finds(at, j, ex, files[j.src], files[j.dst]) /\ Stages(o, at, j, s, files[j.src])
      /\ Blames(at, j, s, backup[o], files[j.dst], faults')
  BY <1>2
<1> HIDE DEF j
<1>8. Becomes(o, at, j, ex, s, backup[o])
  BY <1>1, <1>6 DEF IInv, TypeOK, Becomes, Goto
<1>9. job'[o] = j /\ backup'[o] = backup[o]
  BY <1>1, <1>2, <1>8, Values
<1>10. Asked(o)' = Asked(o)
  BY <1>1, <1>2, <1>3, <1>4, <1>5, <1>9 DEF Asked
<1>11. \A p \in Paths : See(o, p)' = See(o, p)
  BY <1>2, <1>9 DEF See
<1>12. Steady(o)'
  BY <1>1, <1>2, <1>7, <1>8, StaysSteady
<1>13. [Atomic!Next]_(Atomic!vars)
  BY <1>1, <1>2, <1>8, <1>10, <1>11, Unseen
<1> QED
  BY <1>12, <1>13

\* The same when only the step and the stage change.
LEMMA WalksOn ==
  ASSUME NEW o, Ops = {o}, AInv, pc[o] # "idle",
         NEW at \in Working \cup Ended, NEW s \in Slot,
         Goto(o, at), UNCHANGED <<files, backup, job, existed>>, stage' = [stage EXCEPT ![o] = s],
         Finds(at, job[o], existed[o], files[job[o].src], files[job[o].dst]),
         Stages(o, at, job[o], s, files[job[o].src]),
         Blames(at, job[o], s, backup[o], files[job[o].dst], faults'),
         Passes(o, Shown(pc[o], job[o].kind), Shown(at, job[o].kind))
  PROVE  Steady(o)' /\ [Atomic!Next]_(Atomic!vars)
<1>1. /\ o \in Ops /\ IInv /\ job[o] \in Job /\ existed[o] \in BOOLEAN /\ Asks(job[o])
      /\ job[o].kind \in Kinds \cup {"xmove"}
  BY Known DEF AInv
<1>2. [job[o] EXCEPT !.kind = job[o].kind] = job[o]
  BY <1>1 DEF Job
<1>3. /\ job' = [job EXCEPT ![o].kind = job[o].kind]
      /\ existed' = [existed EXCEPT ![o] = existed[o]]
  BY <1>1, <1>2 DEF IInv, TypeOK
<1>4. PICK kind \in Kinds \cup {"xmove"} :
        kind = job[o].kind /\ [job[o] EXCEPT !.kind = kind] = job[o]
  BY <1>1, <1>2
<1>5. job' = [job EXCEPT ![o].kind = kind] /\ existed' = [existed EXCEPT ![o] = existed[o]]
  BY <1>3, <1>4
<1>6. /\ Asks([job[o] EXCEPT !.kind = kind])
      /\ Finds(at, [job[o] EXCEPT !.kind = kind], existed[o], files[job[o].src], files[job[o].dst])
      /\ Stages(o, at, [job[o] EXCEPT !.kind = kind], s, files[job[o].src])
      /\ Blames(at, [job[o] EXCEPT !.kind = kind], s, backup[o], files[job[o].dst], faults')
      /\ Passes(o, Shown(pc[o], job[o].kind), Shown(at, kind))
  BY <1>1, <1>4
<1> QED
  BY <1>1, <1>4, <1>5, <1>6, Walks

LEMMA WalksBy ==
  ASSUME NEW o, Ops = {o}, AInv, pc[o] # "idle",
         NEW at \in Working \cup Ended,
         Goto(o, at), UNCHANGED <<disk, job, existed>>,
         Finds(at, job[o], existed[o], files[job[o].src], files[job[o].dst]),
         Stages(o, at, job[o], stage[o], files[job[o].src]),
         Blames(at, job[o], stage[o], backup[o], files[job[o].dst], faults'),
         Passes(o, Shown(pc[o], job[o].kind), Shown(at, job[o].kind))
  PROVE  Steady(o)' /\ [Atomic!Next]_(Atomic!vars)
<1>1. stage' = [stage EXCEPT ![o] = stage[o]] /\ stage[o] \in Slot
  BY Known DEF disk, AInv, IInv, TypeOK
<1> QED
  BY <1>1, WalksOn DEF disk

\* Giving up before anything is set aside, or before anything is staged.
LEMMA GivesUp ==
  ASSUME NEW o, Ops = {o}, AInv, pc[o] # "idle", Shown(pc[o], job[o].kind) = "running",
         backup[o] = Absent, UNCHANGED <<disk, job, existed>>,
         \/ Goto(o, "failed") /\ stage[o] = Absent
         \/ Goto(o, "discard") /\ (faults' >= 1 \/ (job[o].kind = "upload" /\ IsDir(files[job[o].dst])))
  PROVE  Steady(o)' /\ [Atomic!Next]_(Atomic!vars)
<1>1. PICK at \in {"failed", "discard"} :
        /\ Goto(o, at)
        /\ at = "failed" => stage[o] = Absent
        /\ at = "discard" => faults' >= 1 \/ (job[o].kind = "upload" /\ IsDir(files[job[o].dst]))
  OBVIOUS
<1>2. Finds(at, job[o], existed[o], files[job[o].src], files[job[o].dst])
  BY DEF Finds
<1>3. Stages(o, at, job[o], stage[o], files[job[o].src])
  BY DEF Stages
<1>4. Blames(at, job[o], stage[o], backup[o], files[job[o].dst], faults')
  BY <1>1 DEF Blames
<1>5. Shown(at, job[o].kind) \in {"failed", "running"} /\ at \in Working \cup Ended
  BY DEF Shown, Ended, Working
<1>6. \/ Shown(at, job[o].kind) = Shown(pc[o], job[o].kind)
      \/ Shown(at, job[o].kind) = "failed" /\ Shown(pc[o], job[o].kind) = "running"
  BY <1>5
<1> QED
  BY <1>1, <1>2, <1>3, <1>4, <1>5, <1>6, WalksBy DEF Passes

\* A call that can succeed and does not has failed for an outside reason.
LEMMA Blamed ==
  ASSUME IInv, NEW possible \in BOOLEAN, Works(possible) \/ Errs(possible)
  PROVE  /\ faults \in Nat /\ faults' \in Nat /\ faults' >= faults
         /\ ~Works(possible) /\ possible => faults' = faults + 1
         /\ Works(possible) => faults' = faults
BY DEF IInv, TypeOK, Works, Errs

LEMMA CancelAlone ==
  ASSUME NEW o, Ops = {o}, AInv, Cancel(o) PROVE Steady(o)' /\ [Atomic!Next]_(Atomic!vars)
<1>1. /\ pc[o] # "idle" /\ Goto(o, "cancelled") /\ UNCHANGED <<disk, job, existed>>
      /\ pc[o] \in Working
  BY DEF Cancel, Running, Working
<1>2. /\ Finds("cancelled", job[o], existed[o], files[job[o].src], files[job[o].dst])
      /\ Stages(o, "cancelled", job[o], stage[o], files[job[o].src])
      /\ Blames("cancelled", job[o], stage[o], backup[o], files[job[o].dst], faults')
  BY DEF Finds, Stages, Blames
<1>3. Shown("cancelled", job[o].kind) = "cancelled" /\ "cancelled" \in Working \cup Ended
  BY DEF Shown, Ended
<1>4. Shown(pc[o], job[o].kind) \in {"running", "applied", "emptying"}
  BY <1>1 DEF Shown, Ended, Working
<1> QED
  BY <1>1, <1>2, <1>3, <1>4, WalksBy DEF Passes

LEMMA ProbeSrcAlone ==
  ASSUME NEW o, Ops = {o}, AInv, ProbeSrc(o) PROVE Steady(o)' /\ [Atomic!Next]_(Atomic!vars)
<1> DEFINE there == files[job[o].src] # Absent
<1>1. /\ pc[o] = "probeSrc" /\ UNCHANGED <<disk, job, existed>>
      /\ Works(there) \/ Errs(there)
      /\ Shown(pc[o], job[o].kind) = "running" /\ pc[o] # "idle"
  BY DEF ProbeSrc, Shown, Ended
<1>2. /\ o \in Ops /\ IInv /\ backup[o] = Absent /\ stage[o] = Absent
      /\ Finds("probeSrc", job[o], existed[o], files[job[o].src], files[job[o].dst])
  BY <1>1, Known DEF AsideOK, Early, Stages
<1>3. CASE Works(there) /\ Goto(o, "probeDst")
  <2>1. there
    BY <1>3 DEF Works
  <2>2. Finds("probeDst", job[o], existed[o], files[job[o].src], files[job[o].dst])
    BY <1>2, <2>1 DEF Finds
  <2>3. /\ Stages(o, "probeDst", job[o], stage[o], files[job[o].src])
        /\ Blames("probeDst", job[o], stage[o], backup[o], files[job[o].dst], faults')
    BY <1>2 DEF Stages, Blames
  <2>4. Shown("probeDst", job[o].kind) = "running" /\ "probeDst" \in Working \cup Ended
    BY DEF Shown, Ended, Working
  <2> QED
    BY <1>1, <1>3, <2>2, <2>3, <2>4, WalksBy DEF Passes
<1>4. CASE Goto(o, "failed")
  BY <1>1, <1>2, <1>4, GivesUp
<1> QED
  BY <1>3, <1>4 DEF ProbeSrc

LEMMA CheckAlone ==
  ASSUME NEW o, Ops = {o}, AInv, Check(o) PROVE Steady(o)' /\ [Atomic!Next]_(Atomic!vars)
<1> DEFINE can == job[o].overwrite \/ files[job[o].dst] = Absent
<1>1. /\ pc[o] = "check" /\ UNCHANGED <<disk, job, existed>>
      /\ Shown(pc[o], job[o].kind) = "running" /\ pc[o] # "idle"
  BY DEF Check, Shown, Ended
<1>2. o \in Ops /\ IInv /\ backup[o] = Absent /\ stage[o] = Absent
  BY <1>1, Known DEF AsideOK, Early, Stages
<1>3. CASE Works(can) /\ Goto(o, "create")
  <2>1. can
    BY <1>3 DEF Works
  <2>2. Finds("create", job[o], existed[o], files[job[o].src], files[job[o].dst])
    BY <1>2, <2>1 DEF Finds
  <2>3. /\ Stages(o, "create", job[o], stage[o], files[job[o].src])
        /\ Blames("create", job[o], stage[o], backup[o], files[job[o].dst], faults')
    BY <1>2 DEF Stages, Blames
  <2>4. Shown("create", job[o].kind) = "running" /\ "create" \in Working \cup Ended
    BY DEF Shown, Ended, Working
  <2> QED
    BY <1>1, <1>3, <2>2, <2>3, <2>4, WalksBy DEF Passes
<1>4. CASE Goto(o, "failed")
  BY <1>1, <1>2, <1>4, GivesUp
<1> QED
  BY <1>3, <1>4 DEF Check

LEMMA ProbeDstAlone ==
  ASSUME NEW o, Ops = {o}, AInv, ProbeDst(o) PROVE Steady(o)' /\ [Atomic!Next]_(Atomic!vars)
<1> DEFINE present == files[job[o].dst] # Absent
           goOn    == ~Conflict(o, present)
           at      == AfterProbe(o, present)
           j       == job[o]
<1>1. /\ pc[o] = "probeDst" /\ UNCHANGED <<disk, job>>
      /\ Shown(pc[o], job[o].kind) = "running" /\ pc[o] # "idle"
  BY DEF ProbeDst, Shown, Ended
<1>2. /\ o \in Ops /\ IInv /\ backup[o] = Absent /\ stage[o] = Absent
      /\ Finds("probeDst", j, existed[o], files[j.src], files[j.dst])
      /\ JobOK("probeDst", j, existed[o]) /\ j \in Job /\ Asks(j)
      /\ j.kind \in {"rename", "move", "copy"}
  BY <1>1, Known DEF AsideOK, Early, Stages, JobOK
<1>3. CASE Works(goOn) /\ existed' = [existed EXCEPT ![o] = present] /\ Goto(o, at)
  <2>1. /\ at \in {"fill", "rename", "caseOut", "backup"}
        /\ at = "fill" => j.kind = "copy"
        /\ at = "rename" => ~present
        /\ at = "caseOut" => present
        /\ at = "backup" => present /\ j.kind # "copy"
    <3>1. CASE j.kind = "copy"
      BY <3>1 DEF AfterProbe
    <3>2. CASE j.kind # "copy" /\ ~present
      BY <3>2 DEF AfterProbe
    <3>3. CASE j.kind # "copy" /\ present /\ SameEntry(o)
      BY <3>3 DEF AfterProbe
    <3>4. CASE j.kind # "copy" /\ present /\ ~SameEntry(o)
      BY <3>4 DEF AfterProbe
    <3> QED
      BY <3>1, <3>2, <3>3, <3>4
  <2> HIDE DEF at
  <2>2. Finds(at, j, present, files[j.src], files[j.dst])
    BY <1>2, <2>1 DEF Finds
  <2>3. /\ Stages(o, at, j, stage[o], files[j.src])
        /\ Blames(at, j, stage[o], backup[o], files[j.dst], faults')
    BY <1>2, <2>1 DEF Stages, Blames
  <2>4. /\ Shown(at, j.kind) = "running" /\ at \in Working \cup Ended
    BY <2>1 DEF Shown, Ended, Working
  <2>5. /\ [j EXCEPT !.kind = j.kind] = j /\ j.kind \in Kinds \cup {"xmove"}
    BY <1>2 DEF Job
  <2>6. /\ job' = [job EXCEPT ![o].kind = j.kind] /\ UNCHANGED <<files, backup>>
        /\ stage' = [stage EXCEPT ![o] = stage[o]] /\ stage[o] \in Slot /\ present \in BOOLEAN
    BY <1>1, <1>2, <2>5 DEF IInv, TypeOK, disk, Slot
  <2> HIDE DEF present
  <2> QED
    BY <1>1, <1>2, <1>3, <2>2, <2>3, <2>4, <2>5, <2>6, Walks DEF Passes
<1>4. CASE Goto(o, "failed") /\ UNCHANGED existed
  BY <1>1, <1>2, <1>4, GivesUp
<1> QED
  BY <1>3, <1>4 DEF ProbeDst

LEMMA XProbeAlone ==
  ASSUME NEW o, Ops = {o}, AInv, XProbe(o) PROVE Steady(o)' /\ [Atomic!Next]_(Atomic!vars)
<1> DEFINE present == files[job[o].dst] # Absent
           goOn    == ~(present /\ ~job[o].overwrite)
           j       == [job[o] EXCEPT !.kind = "xmove"]
<1>1. /\ pc[o] = "xprobe" /\ UNCHANGED disk
      /\ Shown(pc[o], job[o].kind) = "running" /\ pc[o] # "idle"
  BY DEF XProbe, Shown, Ended
<1>2. /\ o \in Ops /\ IInv /\ backup[o] = Absent /\ stage[o] = Absent
      /\ Finds("xprobe", job[o], existed[o], files[job[o].src], files[job[o].dst])
      /\ job[o] \in Job /\ Asks(job[o]) /\ job[o].kind = "move" /\ job[o].src # job[o].dst
      /\ Device[job[o].src] # Device[job[o].dst]
  BY <1>1, Known DEF AsideOK, Early, Stages, JobOK, Finds
<1>3. CASE Works(goOn) /\ existed' = [existed EXCEPT ![o] = present]
           /\ job' = [job EXCEPT ![o].kind = "xmove"] /\ Goto(o, "fill")
  <2>1. /\ j.kind = "xmove" /\ j.src = job[o].src /\ j.dst = job[o].dst
    BY <1>2 DEF Job
  <2>2. /\ UNCHANGED <<files, backup>> /\ present \in BOOLEAN
        /\ stage' = [stage EXCEPT ![o] = stage[o]] /\ stage[o] \in Slot
    BY <1>1, <1>2 DEF IInv, TypeOK, disk, Slot
  <2>3. present <=> files[job[o].dst] # Absent
    OBVIOUS
  <2>4. /\ job' = [job EXCEPT ![o].kind = "xmove"] /\ Goto(o, "fill")
        /\ existed' = [existed EXCEPT ![o] = present]
    BY <1>3
  <2> HIDE DEF j, present
  <2>5. Asks(j) /\ Finds("fill", j, present, files[job[o].src], files[job[o].dst])
    BY <1>2, <2>1, <2>3 DEF Asks, Finds
  <2>6. /\ Stages(o, "fill", j, stage[o], files[job[o].src])
        /\ Blames("fill", j, stage[o], backup[o], files[job[o].dst], faults')
    BY <1>2 DEF Stages, Blames
  <2>7. /\ Shown("fill", "xmove") = "running" /\ "fill" \in Working \cup Ended
        /\ "xmove" \in Kinds \cup {"xmove"}
    BY DEF Shown, Ended, Working
  <2>8. j = [job[o] EXCEPT !.kind = "xmove"]
    BY DEF j
  <2> QED
    BY <1>1, <1>2, <2>2, <2>4, <2>5, <2>6, <2>7, <2>8, Walks DEF Passes
<1>4. CASE Goto(o, "failed") /\ UNCHANGED <<existed, job>>
  BY <1>1, <1>2, <1>4, GivesUp
<1> QED
  BY <1>3, <1>4 DEF XProbe

LEMMA Alike ==
  ASSUME NEW e \in Entry, NEW f \in Entry,
         e.data = f.data, e.dir <=> f.dir, e.whole <=> f.whole
  PROVE  e = f
BY DEF Entry

LEMMA CreateAlone ==
  ASSUME NEW o, Ops = {o}, AInv, Create(o) PROVE Steady(o)' /\ [Atomic!Next]_(Atomic!vars)
<1> DEFINE s == [data |-> o, dir |-> FALSE, whole |-> FALSE]
<1>1. /\ pc[o] = "create" /\ UNCHANGED <<files, backup, job, existed>>
      /\ Shown(pc[o], job[o].kind) = "running" /\ pc[o] # "idle"
  BY DEF Create, Shown, Ended
<1>2. /\ o \in Ops /\ IInv /\ backup[o] = Absent /\ stage[o] = Absent
      /\ Finds("create", job[o], existed[o], files[job[o].src], files[job[o].dst])
  BY <1>1, Known DEF AsideOK, Early, Stages
<1>3. CASE stage' = [stage EXCEPT ![o] = s] /\ Goto(o, "receive")
  <2>1. s \in Entry /\ s.data = o /\ ~s.dir
    BY <1>2 DEF Entry, Contents
  <2>9. s \in Slot /\ s # Absent
    BY <2>1, AbsentAssumption DEF Slot
  <2> HIDE DEF s
  <2>2. Finds("receive", job[o], existed[o], files[job[o].src], files[job[o].dst])
    BY <1>2 DEF Finds
  <2>3. /\ Stages(o, "receive", job[o], s, files[job[o].src])
        /\ Blames("receive", job[o], s, backup[o], files[job[o].dst], faults')
    BY <2>1, <2>9 DEF Stages, Blames
  <2>4. Shown("receive", job[o].kind) = "running" /\ "receive" \in Working \cup Ended
    BY DEF Shown, Ended, Working
  <2> QED
    BY <1>1, <1>3, <2>9, <2>2, <2>3, <2>4, WalksOn DEF Passes
<1>4. CASE Goto(o, "failed") /\ UNCHANGED stage
  BY <1>1, <1>2, <1>4, GivesUp DEF disk
<1> QED
  BY <1>3, <1>4 DEF Create

LEMMA ReceiveAlone ==
  ASSUME NEW o, Ops = {o}, AInv, Receive(o) PROVE Steady(o)' /\ [Atomic!Next]_(Atomic!vars)
<1> DEFINE s  == [stage[o] EXCEPT !.whole = TRUE]
           at == IF job[o].overwrite THEN "promote" ELSE "link"
<1>1. /\ pc[o] = "receive" /\ UNCHANGED <<files, backup, job, existed>>
      /\ Shown(pc[o], job[o].kind) = "running" /\ pc[o] # "idle"
  BY DEF Receive, Shown, Ended
<1>2. /\ o \in Ops /\ IInv /\ backup[o] = Absent
      /\ stage[o] \in Entry /\ stage[o].data = o /\ ~stage[o].dir /\ job[o].kind = "upload"
      /\ Finds("receive", job[o], existed[o], files[job[o].src], files[job[o].dst])
  BY <1>1, Known DEF AsideOK, Early, Stages, JobOK, Slot
<1>3. CASE stage' = [stage EXCEPT ![o].whole = TRUE] /\ Goto(o, at)
  <2>9. s \in Entry /\ s.data = o /\ ~s.dir /\ s.whole
    BY <1>2 DEF Entry
  <2>10. /\ Fresh(o) \in Entry /\ Fresh(o).data = o /\ ~Fresh(o).dir /\ Fresh(o).whole
    BY <1>2 DEF Entry, Fresh, Contents
  <2>1. s = Fresh(o)
    BY <2>9, <2>10, Alike
  <2>2. stage' = [stage EXCEPT ![o] = s]
    BY <1>3
  <2>3. /\ at \in {"promote", "link"} /\ (at = "promote" <=> job[o].overwrite)
        /\ Goto(o, at)
    BY <1>3
  <2>4. s \in Slot
    BY <1>2, <2>1 DEF Slot, Entry, Contents, Fresh
  <2> HIDE DEF s, at
  <2>5. Finds(at, job[o], existed[o], files[job[o].src], files[job[o].dst])
    BY <1>2, <2>3 DEF Finds
  <2>6. /\ Stages(o, at, job[o], s, files[job[o].src])
        /\ Blames(at, job[o], s, backup[o], files[job[o].dst], faults')
    BY <1>2, <2>1, <2>3 DEF Stages, Blames
  <2>7. Shown(at, job[o].kind) = "running" /\ at \in Working \cup Ended
    BY <2>3 DEF Shown, Ended, Working
  <2> QED
    BY <1>1, <2>2, <2>3, <2>4, <2>5, <2>6, <2>7, WalksOn DEF Passes
<1>4. CASE Errs(TRUE) /\ Goto(o, AfterFillError(o)) /\ UNCHANGED stage
  <2>1. faults' >= 1
    BY <1>2, <1>4 DEF Errs, IInv, TypeOK
  <2> QED
    BY <1>1, <1>2, <1>4, <2>1, GivesUp DEF AfterFillError, disk
<1> QED
  BY <1>3, <1>4 DEF Receive

LEMMA FillAlone ==
  ASSUME NEW o, Ops = {o}, AInv, Fill(o) PROVE Steady(o)' /\ [Atomic!Next]_(Atomic!vars)
<1> DEFINE e == files[job[o].src]
           s == [e EXCEPT !.whole = FALSE]
<1>1. /\ pc[o] = "fill" /\ UNCHANGED <<files, backup, job, existed>>
      /\ Shown(pc[o], job[o].kind) = "running" /\ pc[o] # "idle"
  BY DEF Fill, Shown, Ended
<1>2. /\ o \in Ops /\ IInv /\ backup[o] = Absent /\ e \in Slot /\ e # Absent
      /\ Finds("fill", job[o], existed[o], files[job[o].src], files[job[o].dst])
  BY <1>1, Known DEF AsideOK, Early, Finds
<1>3. CASE stage' = [stage EXCEPT ![o] = s] /\ Goto(o, "filling")
  <2>1. s \in Slot /\ s.data = e.data /\ s.dir = e.dir
    BY <1>2 DEF Slot, Entry
  <2> HIDE DEF s
  <2>2. Finds("filling", job[o], existed[o], files[job[o].src], files[job[o].dst])
    BY <1>2 DEF Finds
  <2>3. /\ Stages(o, "filling", job[o], s, files[job[o].src])
        /\ Blames("filling", job[o], s, backup[o], files[job[o].dst], faults')
    BY <2>1 DEF Stages, Blames
  <2>4. Shown("filling", job[o].kind) = "running" /\ "filling" \in Working \cup Ended
    BY DEF Shown, Ended, Working
  <2> QED
    BY <1>1, <1>3, <2>1, <2>2, <2>3, <2>4, WalksOn DEF Passes
<1>4. CASE Errs(e # Absent) /\ Goto(o, "discard") /\ UNCHANGED stage
  <2>1. faults' >= 1
    BY <1>2, <1>4 DEF Errs, IInv, TypeOK
  <2> QED
    BY <1>1, <1>2, <1>4, <2>1, GivesUp DEF disk
<1> QED
  BY <1>3, <1>4 DEF Fill

LEMMA FillingAlone ==
  ASSUME NEW o, Ops = {o}, AInv, Filling(o) PROVE Steady(o)' /\ [Atomic!Next]_(Atomic!vars)
<1> DEFINE e     == files[job[o].src]
           whole == ~stage[o].dir \/ (e # Absent /\ e.data = stage[o].data /\ e.whole)
           s     == [stage[o] EXCEPT !.whole = TRUE]
           at    == IF existed[o] THEN "backup" ELSE "promote"
<1>1. /\ pc[o] = "filling" /\ UNCHANGED <<files, backup, job, existed>>
      /\ Shown(pc[o], job[o].kind) = "running" /\ pc[o] # "idle"
  BY DEF Filling, Shown, Ended
<1>2. /\ o \in Ops /\ IInv /\ backup[o] = Absent /\ stage[o] \in Slot /\ stage[o] # Absent
      /\ e \in Slot /\ e # Absent /\ e.whole
      /\ stage[o].data = e.data /\ stage[o].dir = e.dir /\ job[o].kind \in {"copy", "xmove"}
      /\ Finds("filling", job[o], existed[o], files[job[o].src], files[job[o].dst])
      /\ existed[o] \in BOOLEAN
  BY <1>1, Known DEF AsideOK, Early, StageOK, Staged, Finds, Stages, JobOK
<1>3. whole
  BY <1>2
<1>4. s = e /\ e \in Slot
  <2>1. e \in Entry /\ e \in Slot /\ s \in Entry /\ s.whole /\ e.whole
    BY <1>2 DEF Slot, Entry
  <2>2. s.data = e.data
    BY <1>2, <2>1 DEF Entry
  <2>3. s.dir <=> e.dir
    BY <1>2, <2>1 DEF Entry
  <2> HIDE DEF s, e
  <2> QED
    BY <2>1, <2>2, <2>3, Alike
<1>5. CASE stage' = [stage EXCEPT ![o].whole = whole] /\ Goto(o, at)
  <2>1. whole = TRUE
    BY <1>3
  <2>2. stage' = [stage EXCEPT ![o] = s]
    BY <1>5, <2>1
  <2>3. at \in {"backup", "promote"} /\ (at = "backup" <=> existed[o]) /\ Goto(o, at)
    BY <1>2, <1>5
  <2> HIDE DEF s, at, whole
  <2>4. Finds(at, job[o], existed[o], files[job[o].src], files[job[o].dst])
    BY <1>2, <2>3 DEF Finds
  <2>5. /\ Stages(o, at, job[o], s, files[job[o].src])
        /\ Blames(at, job[o], s, backup[o], files[job[o].dst], faults')
    BY <1>2, <1>4, <2>3 DEF Stages, Blames
  <2>6. Shown(at, job[o].kind) = "running" /\ at \in Working \cup Ended
    BY <2>3 DEF Shown, Ended, Working
  <2> QED
    BY <1>1, <1>4, <2>2, <2>3, <2>4, <2>5, <2>6, WalksOn DEF Passes
<1>6. CASE Errs(whole) /\ Goto(o, AfterFillError(o)) /\ UNCHANGED stage
  <2>1. faults' >= 1
    <3> HIDE DEF whole
    <3> QED
      BY <1>2, <1>3, <1>6 DEF Errs, IInv, TypeOK
  <2> QED
    BY <1>1, <1>2, <1>6, <2>1, GivesUp DEF AfterFillError, disk
<1> QED
  BY <1>5, <1>6 DEF Filling

LEMMA DiscardAlone ==
  ASSUME NEW o, Ops = {o}, AInv, Discard(o) PROVE Steady(o)' /\ [Atomic!Next]_(Atomic!vars)
<1>1. /\ pc[o] = "discard" /\ UNCHANGED <<files, backup, job, existed>> /\ Goto(o, "failed")
      /\ Shown(pc[o], job[o].kind) = "running" /\ pc[o] # "idle"
  BY DEF Discard, Shown, Ended
<1>2. /\ o \in Ops /\ IInv /\ stage[o] \in Slot /\ faults \in Nat
      /\ Blames("discard", job[o], stage[o], backup[o], files[job[o].dst], faults)
  BY <1>1, Known
<1>3. PICK s \in {Absent, stage[o]} :
        /\ stage' = [stage EXCEPT ![o] = s]
        /\ s # Absent => faults' = faults + 1
        /\ faults' \in Nat /\ faults' >= faults
  <2>1. CASE Works(TRUE) /\ stage' = [stage EXCEPT ![o] = Absent]
    BY <1>2, <2>1 DEF Works
  <2>2. CASE Errs(TRUE) /\ UNCHANGED stage
    <3>1. stage' = [stage EXCEPT ![o] = stage[o]]
      BY <1>2, <2>2 DEF IInv, TypeOK
    <3>2. faults' = faults + 1 /\ faults' \in Nat /\ faults' >= faults
      BY <1>2, <2>2 DEF Errs
    <3> QED
      BY <3>1, <3>2
  <2> QED
    BY <2>1, <2>2 DEF Discard
<1>4. Finds("failed", job[o], existed[o], files[job[o].src], files[job[o].dst])
  BY DEF Finds
<1>5. Stages(o, "failed", job[o], s, files[job[o].src])
  BY DEF Stages
<1>6. Blames("failed", job[o], s, backup[o], files[job[o].dst], faults')
  BY <1>2, <1>3 DEF Blames
<1>7. Shown("failed", job[o].kind) = "failed" /\ "failed" \in Working \cup Ended /\ s \in Slot
  BY <1>2 DEF Shown, Ended, Slot
<1> QED
  BY <1>1, <1>3, <1>4, <1>5, <1>6, <1>7, WalksOn DEF Passes

LEMMA UnlinkAlone ==
  ASSUME NEW o, Ops = {o}, AInv, Unlink(o) PROVE Steady(o)' /\ [Atomic!Next]_(Atomic!vars)
<1>1. /\ pc[o] = "unlink" /\ UNCHANGED <<files, backup, job, existed>> /\ Goto(o, "ok")
      /\ Shown(pc[o], job[o].kind) = "applied" /\ pc[o] # "idle"
  BY DEF Unlink, Shown, Ended
<1>2. o \in Ops /\ IInv /\ stage[o] \in Slot
  BY <1>1, Known
<1>3. PICK s \in {Absent, stage[o]} : stage' = [stage EXCEPT ![o] = s]
  BY <1>2 DEF Unlink, IInv, TypeOK
<1>4. /\ Finds("ok", job[o], existed[o], files[job[o].src], files[job[o].dst])
      /\ Stages(o, "ok", job[o], s, files[job[o].src])
      /\ Blames("ok", job[o], s, backup[o], files[job[o].dst], faults')
  BY DEF Finds, Stages, Blames
<1>5. Shown("ok", job[o].kind) = "ok" /\ "ok" \in Working \cup Ended /\ s \in Slot
  BY <1>2 DEF Shown, Ended, Slot
<1> QED
  BY <1>1, <1>3, <1>4, <1>5, WalksOn DEF Passes

\* Setting an entry aside, or putting it back, is not seen.
LEMMA Hides ==
  ASSUME NEW o, Ops = {o}, AInv, pc[o] # "idle",
         NEW at \in Working \cup Ended, NEW b \in Slot,
         Goto(o, at), UNCHANGED <<stage, job, existed>>, backup' = [backup EXCEPT ![o] = b],
         \A p \in Paths : See(o, p)' = See(o, p),
         Finds(at, job[o], existed[o], files'[job[o].src], files'[job[o].dst]),
         Stages(o, at, job[o], stage[o], files'[job[o].src]),
         Blames(at, job[o], stage[o], b, files'[job[o].dst], faults'),
         Passes(o, Shown(pc[o], job[o].kind), Shown(at, job[o].kind))
  PROVE  Steady(o)' /\ [Atomic!Next]_(Atomic!vars)
<1>1. /\ o \in Ops /\ IInv /\ job[o] \in Job /\ existed[o] \in BOOLEAN /\ Asks(job[o])
      /\ stage[o] \in Slot
  BY Known DEF AInv
<1>2. Becomes(o, at, job[o], existed[o], stage[o], b)
  BY <1>1 DEF IInv, TypeOK, Becomes, Goto
<1>3. Asked(o)' = Asked(o)
  BY DEF Asked
<1>4. Steady(o)'
  BY <1>1, <1>2, StaysSteady
<1>5. [Atomic!Next]_(Atomic!vars)
  BY <1>1, <1>2, <1>3, Unseen
<1> QED
  BY <1>4, <1>5

\* What r sees of its own two names.
LEMMA Seen ==
  ASSUME IInv, NEW o \in Ops, NEW b \in Slot, backup' = [backup EXCEPT ![o] = b], job' = job
  PROVE  \A p \in Paths :
           See(o, p)' = IF files'[p] = Absent /\ b # Absent /\ job[o].dst = p THEN b ELSE files'[p]
BY DEF See, IInv, TypeOK

LEMMA DropBackupAlone ==
  ASSUME NEW o, Ops = {o}, AInv, DropBackup(o) PROVE Steady(o)' /\ [Atomic!Next]_(Atomic!vars)
<1>1. /\ pc[o] = "dropBackup" /\ UNCHANGED <<files, stage, job, existed>> /\ Goto(o, "ok")
      /\ Shown(pc[o], job[o].kind) = "applied" /\ pc[o] # "idle"
  BY DEF DropBackup, Shown, Ended
<1>2. /\ o \in Ops /\ IInv /\ backup[o] \in Slot /\ backup[o] # Absent
      /\ files[job[o].dst] # Absent
  BY <1>1, Known DEF AsideOK, Aside, Finds
<1>3. PICK b \in Slot : backup' = [backup EXCEPT ![o] = b]
  <2>1. CASE backup' = [backup EXCEPT ![o] = Absent]
    BY <2>1 DEF Slot
  <2>2. CASE UNCHANGED backup
    BY <1>2, <2>2 DEF IInv, TypeOK
  <2>3. CASE backup' = [backup EXCEPT ![o].whole = FALSE]
    <3>1. [backup[o] EXCEPT !.whole = FALSE] \in Slot
      BY <1>2 DEF Slot, Entry
    <3> QED
      BY <2>3, <3>1
  <2> QED
    BY <2>1, <2>2, <2>3 DEF DropBackup
<1>4. \A p \in Paths : See(o, p)' = See(o, p)
  BY <1>1, <1>2, <1>3, Seen DEF See
<1>5. /\ Finds("ok", job[o], existed[o], files'[job[o].src], files'[job[o].dst])
      /\ Stages(o, "ok", job[o], stage[o], files'[job[o].src])
      /\ Blames("ok", job[o], stage[o], b, files'[job[o].dst], faults')
  BY DEF Finds, Stages, Blames
<1>6. Shown("ok", job[o].kind) = "ok" /\ "ok" \in Working \cup Ended
  BY DEF Shown, Ended
<1>7. Passes(o, Shown(pc[o], job[o].kind), Shown("ok", job[o].kind))
  BY <1>1, <1>6 DEF Passes
<1> QED
  BY <1>1, <1>3, <1>4, <1>5, <1>6, <1>7, Hides

LEMMA BackupAlone ==
  ASSUME NEW o, Ops = {o}, AInv, Backup(o) PROVE Steady(o)' /\ [Atomic!Next]_(Atomic!vars)
<1> DEFINE j == job[o]
           b == files[j.dst]
           at == AfterBackup(o)
<1>1. /\ pc[o] = "backup" /\ UNCHANGED <<stage, job, existed>>
      /\ Shown(pc[o], j.kind) = "running" /\ pc[o] # "idle"
  BY DEF Backup, Shown, Ended
<1>2. /\ o \in Ops /\ IInv /\ backup[o] = Absent /\ b \in Slot /\ b # Absent /\ j.src # j.dst
      /\ j.src \in Paths /\ j.dst \in Paths
      /\ Finds("backup", j, existed[o], files[j.src], files[j.dst])
      /\ Stages(o, "backup", j, stage[o], files[j.src])
      /\ Copies(o) \/ (j.kind \in {"rename", "move"} /\ stage[o] = Absent)
  BY <1>1, Known DEF AsideOK, Early, Finds, Stages, StageOK, JobOK, Asks, Copies
<1>3. CASE /\ backup' = [backup EXCEPT ![o] = b]
           /\ files' = [files EXCEPT ![j.dst] = Absent]
           /\ Goto(o, at)
  <2>1. at \in {"promote", "moveIn"} /\ (at = "promote" => j.kind \in {"copy", "xmove"})
    BY DEF AfterBackup, Copies
  <2>2. files'[j.dst] = Absent /\ \A p \in Paths \ {j.dst} : files'[p] = files[p]
    BY <1>2, <1>3 DEF IInv, TypeOK
  <2> HIDE DEF at
  <2>3. \A p \in Paths : See(o, p)' = See(o, p)
    <3>1. /\ backup' = [backup EXCEPT ![o] = b] /\ job' = job /\ b \in Slot /\ pc[o] # "idle"
      BY <1>1, <1>2, <1>3
    <3>2. /\ \A p \in Paths : See(o, p) = files[p]
          /\ b = files[j.dst] /\ b # Absent
      BY <1>2 DEF See
    <3> HIDE DEF b
    <3>3. \A p \in Paths :
            See(o, p)' = IF files'[p] = Absent /\ b # Absent /\ j.dst = p THEN b ELSE files'[p]
      BY <1>2, <3>1, Seen
    <3> QED
      BY <2>2, <3>2, <3>3
  <2>4. Finds(at, j, existed[o], files'[j.src], files'[j.dst])
    BY <1>2, <2>1, <2>2 DEF Finds
  <2>5. /\ Stages(o, at, j, stage[o], files'[j.src])
        /\ Blames(at, j, stage[o], b, files'[j.dst], faults')
    BY <1>2, <2>1, <2>2 DEF Stages, Blames
  <2>6. Shown(at, j.kind) = "running" /\ at \in Working \cup Ended
    BY <2>1 DEF Shown, Ended, Working
  <2>7. Passes(o, Shown(pc[o], j.kind), Shown(at, j.kind))
    BY <1>1, <2>6 DEF Passes
  <2> HIDE DEF b
  <2> QED
    BY <1>1, <1>2, <1>3, <2>3, <2>4, <2>5, <2>6, <2>7, Hides
<1>4. CASE Errs(b # Absent) /\ Goto(o, AfterBackupError(o)) /\ UNCHANGED <<files, backup>>
  <2>1. faults' >= 1
    BY <1>2, <1>4 DEF Errs, IInv, TypeOK
  <2>2. CASE Copies(o)
    BY <1>1, <1>2, <1>4, <2>1, <2>2, GivesUp DEF AfterBackupError, disk
  <2>3. CASE ~Copies(o)
    BY <1>1, <1>2, <1>4, <2>3, GivesUp DEF AfterBackupError, disk
  <2> QED
    BY <2>2, <2>3
<1> QED
  BY <1>3, <1>4 DEF Backup

\* Putting back what was set aside.
LEMMA PutBackAlone ==
  ASSUME NEW o, Ops = {o}, AInv, NEW done \in Working \cup Ended, NEW refused \in Working \cup Ended,
         PutBack(o, done, refused), pc[o] # "idle",
         backup[o] # Absent, files[job[o].dst] = Absent,
         \A f \in [Paths -> Slot] :
            (job[o].src # job[o].dst => f[job[o].src] = files[job[o].src])
            => /\ Finds(done, job[o], existed[o], f[job[o].src], f[job[o].dst])
               /\ Stages(o, done, job[o], stage[o], f[job[o].src])
               /\ Blames(done, job[o], stage[o], Absent, f[job[o].dst], faults),
         /\ Finds(refused, job[o], existed[o], files[job[o].src], files[job[o].dst])
         /\ Stages(o, refused, job[o], stage[o], files[job[o].src])
         /\ Blames(refused, job[o], stage[o], backup[o], files[job[o].dst], faults + 1),
         Passes(o, Shown(pc[o], job[o].kind), Shown(done, job[o].kind)),
         Passes(o, Shown(pc[o], job[o].kind), Shown(refused, job[o].kind))
  PROVE  Steady(o)' /\ [Atomic!Next]_(Atomic!vars)
<1> DEFINE j == job[o]
           b == backup[o]
<1>1. /\ o \in Ops /\ IInv /\ b \in Slot /\ files \in [Paths -> Slot] /\ j.src \in Paths /\ j.dst \in Paths
      /\ UNCHANGED <<stage, job, existed>> /\ Absent \in Slot
  BY Known DEF PutBack, IInv, TypeOK, Slot
<1>2. CASE /\ Works(files[j.dst] = Absent)
           /\ files' = [files EXCEPT ![j.dst] = b]
           /\ backup' = [backup EXCEPT ![o] = Absent]
           /\ Goto(o, done)
  <2>1. /\ files' \in [Paths -> Slot] /\ files'[j.dst] = b
        /\ \A p \in Paths \ {j.dst} : files'[p] = files[p]
    BY <1>1, <1>2
  <2>2. faults' = faults
    BY <1>2 DEF Works
  <2>3. /\ Finds(done, j, existed[o], files'[j.src], files'[j.dst])
        /\ Stages(o, done, j, stage[o], files'[j.src])
        /\ Blames(done, j, stage[o], Absent, files'[j.dst], faults')
    BY <1>1, <2>1, <2>2
  <2>4. \A p \in Paths : See(o, p)' = See(o, p)
    BY <1>1, <1>2, <2>1, Seen DEF See
  <2> QED
    BY <1>1, <1>2, <2>3, <2>4, Hides
<1>3. CASE Errs(files[j.dst] = Absent) /\ Goto(o, refused) /\ UNCHANGED <<files, backup>>
  <2>1. faults' = faults + 1
    BY <1>3 DEF Errs
  <2> QED
    BY <1>1, <1>3, <2>1, WalksBy DEF disk
<1> QED
  BY <1>2, <1>3 DEF PutBack

LEMMA UnbackupAlone ==
  ASSUME NEW o, Ops = {o}, AInv, Unbackup(o) PROVE Steady(o)' /\ [Atomic!Next]_(Atomic!vars)
<1> DEFINE j == job[o]
<1>1. /\ pc[o] = "unbackup" /\ pc[o] # "idle" /\ Shown(pc[o], j.kind) = "running"
      /\ PutBack(o, "xprobe", "failed")
      /\ Shown("xprobe", j.kind) = "running" /\ Shown("failed", j.kind) = "failed"
      /\ "xprobe" \in Working \cup Ended /\ "failed" \in Working \cup Ended
  BY DEF Unbackup, Shown, Ended, Working
<1>2. /\ o \in Ops /\ backup[o] # Absent /\ files[j.dst] = Absent /\ stage[o] = Absent
      /\ faults \in Nat /\ j.kind = "move" /\ j.src # j.dst
      /\ Finds("unbackup", j, existed[o], files[j.src], files[j.dst])
      /\ Device[j.src] # Device[j.dst]
  BY <1>1, Known DEF AsideOK, Aside, Finds, StageOK, JobOK
<1>3. \A f \in [Paths -> Slot] : (j.src # j.dst => f[j.src] = files[j.src])
        => /\ Finds("xprobe", j, existed[o], f[j.src], f[j.dst])
           /\ Stages(o, "xprobe", j, stage[o], f[j.src])
           /\ Blames("xprobe", j, stage[o], Absent, f[j.dst], faults)
  BY <1>2 DEF Finds, Stages, Blames
<1>4. /\ Finds("failed", j, existed[o], files[j.src], files[j.dst])
      /\ Stages(o, "failed", j, stage[o], files[j.src])
      /\ Blames("failed", j, stage[o], backup[o], files[j.dst], faults + 1)
  BY <1>2 DEF Finds, Stages, Blames
<1>5. /\ Passes(o, Shown(pc[o], j.kind), Shown("xprobe", j.kind))
      /\ Passes(o, Shown(pc[o], j.kind), Shown("failed", j.kind))
  BY <1>1 DEF Passes
<1> QED
  BY <1>1, <1>2, <1>3, <1>4, <1>5, PutBackAlone

LEMMA RestoreAlone ==
  ASSUME NEW o, Ops = {o}, AInv, Restore(o) PROVE Steady(o)' /\ [Atomic!Next]_(Atomic!vars)
<1> DEFINE j == job[o]
           at == AfterBackupError(o)
<1>1. /\ pc[o] = "restore" /\ pc[o] # "idle" /\ Shown(pc[o], j.kind) = "running"
      /\ PutBack(o, at, at)
      /\ at \in {"discard", "failed"} /\ (at = "failed" => j.kind \notin {"copy", "xmove"})
  BY DEF Restore, Shown, Ended, AfterBackupError, Copies
<1> HIDE DEF at
<1>2. at \in Working \cup Ended /\ Shown(at, j.kind) \in {"running", "failed"}
  BY <1>1 DEF Shown, Ended, Working
<1>3. /\ o \in Ops /\ backup[o] # Absent /\ files[j.dst] = Absent
      /\ faults \in Nat /\ faults >= 1
      /\ j.kind \notin {"copy", "xmove"} => stage[o] = Absent
  BY <1>1, Known DEF AsideOK, Aside, Finds, Stages, Blames
<1>4. \A f \in [Paths -> Slot] :
        /\ Finds(at, j, existed[o], f[j.src], f[j.dst])
        /\ Stages(o, at, j, stage[o], f[j.src])
        /\ Blames(at, j, stage[o], Absent, f[j.dst], faults)
  BY <1>1, <1>3 DEF Finds, Stages, Blames
<1>5. /\ Finds(at, j, existed[o], files[j.src], files[j.dst])
      /\ Stages(o, at, j, stage[o], files[j.src])
      /\ Blames(at, j, stage[o], backup[o], files[j.dst], faults + 1)
  BY <1>1, <1>3 DEF Finds, Stages, Blames
<1>6. Passes(o, Shown(pc[o], j.kind), Shown(at, j.kind))
  BY <1>1, <1>2 DEF Passes
<1> QED
  BY <1>1, <1>2, <1>3, <1>4, <1>5, <1>6, PutBackAlone

-----------------------------------------------------------------------------
\* The steps at which the operation has its effect.
LEMMA AskedIs ==
  ASSUME NEW o, job[o] \in Job, job[o] # Absent
  PROVE  /\ Asked(o).src = job[o].src /\ Asked(o).dst = job[o].dst
         /\ Asked(o).overwrite = job[o].overwrite
         /\ Asked(o).kind = IF job[o].kind = "xmove" THEN "move" ELSE job[o].kind
<1>1. CASE job[o].kind = "xmove"
  BY <1>1 DEF Asked, Job
<1>2. CASE job[o].kind # "xmove"
  BY <1>2 DEF Asked
<1> QED
  BY <1>1, <1>2

LEMMA Effects ==
  ASSUME NEW o, Ops = {o}, AInv, pc[o] # "idle",
         NEW at \in Working \cup Ended, NEW s \in Slot, NEW b \in Slot,
         Goto(o, at), UNCHANGED <<job, existed>>,
         stage' = [stage EXCEPT ![o] = s], backup' = [backup EXCEPT ![o] = b],
         Finds(at, job[o], existed[o], files'[job[o].src], files'[job[o].dst]),
         Stages(o, at, job[o], s, files'[job[o].src]),
         Blames(at, job[o], s, b, files'[job[o].dst], faults'),
         Shown(pc[o], job[o].kind) = "running",
         \/ Shown(at, job[o].kind) = "applied"
         \/ Shown(at, job[o].kind) = "ok" /\ ~Atomic!Crosses(Asked(o)),
         \/ Atomic!Moved(Asked(o)) \/ Atomic!Copied(Asked(o))
         \/ Atomic!Stored(o, Asked(o)) \/ Atomic!Made(o, Asked(o))
  PROVE  Steady(o)' /\ [Atomic!Next]_(Atomic!vars)
<1>1. o \in Ops /\ IInv /\ job[o] \in Job /\ existed[o] \in BOOLEAN /\ Asks(job[o])
  BY Known DEF AInv
<1>2. Becomes(o, at, job[o], existed[o], s, b)
  BY <1>1 DEF IInv, TypeOK, Becomes, Goto
<1>3. Asked(o)' = Asked(o)
  BY DEF Asked
<1>4. Steady(o)'
  BY <1>1, <1>2, StaysSteady
<1>5. [Atomic!Next]_(Atomic!vars)
  BY <1>1, <1>2, <1>3, Takes
<1> QED
  BY <1>4, <1>5

LEMMA TreeIs ==
  ASSUME NEW o, Ops = {o}
  PROVE  \A p \in Paths : LogicalTree[p] = See(o, p)
BY Tree

LEMMA TreeStays ==
  ASSUME NEW o, Ops = {o}, \A p \in Paths : See(o, p)' = See(o, p)
  PROVE  LogicalTree' = LogicalTree
BY Tree

\* An entry appears at d.
LEMMA TreeGets ==
  ASSUME NEW o, Ops = {o}, NEW d \in Paths, NEW e,
         \A p \in Paths : See(o, p)' = IF p = d THEN e ELSE See(o, p)
  PROVE  LogicalTree' = [LogicalTree EXCEPT ![d] = e]
<1>1. LogicalTree = [p \in Paths |-> See(o, p)] /\ LogicalTree' = [p \in Paths |-> See(o, p)']
  BY Tree
<1>2. [LogicalTree EXCEPT ![d] = e] = [p \in Paths |-> IF p = d THEN e ELSE See(o, p)]
  BY <1>1
<1> QED
  BY <1>1, <1>2

\* The entry at s goes to d.
LEMMA TreeMoves ==
  ASSUME NEW o, Ops = {o}, NEW d \in Paths, NEW s \in Paths, s # d,
         \A p \in Paths : See(o, p)' = IF p = s THEN Absent ELSE IF p = d THEN See(o, s) ELSE See(o, p)
  PROVE  LogicalTree' = [LogicalTree EXCEPT ![d] = LogicalTree[s], ![s] = Absent]
<1>1. LogicalTree = [p \in Paths |-> See(o, p)] /\ LogicalTree' = [p \in Paths |-> See(o, p)']
  BY Tree
<1>2. [LogicalTree EXCEPT ![d] = LogicalTree[s], ![s] = Absent]
        = [p \in Paths |-> IF p = s THEN Absent ELSE IF p = d THEN See(o, s) ELSE See(o, p)]
  BY <1>1
<1> QED
  BY <1>1, <1>2

LEMMA CaseOutAlone ==
  ASSUME NEW o, Ops = {o}, AInv, CaseOut(o) PROVE Steady(o)' /\ [Atomic!Next]_(Atomic!vars)
<1> DEFINE j == job[o]
           b == files[j.src]
<1>1. /\ pc[o] = "caseOut" /\ UNCHANGED <<stage, job, existed>>
      /\ Shown(pc[o], j.kind) = "running" /\ pc[o] # "idle"
      /\ Shown("caseIn", j.kind) = "running" /\ "caseIn" \in Working \cup Ended
  BY DEF CaseOut, Shown, Ended, Working
<1>2. /\ o \in Ops /\ IInv /\ backup[o] = Absent /\ b \in Slot /\ b # Absent /\ j.src = j.dst
      /\ j.src \in Paths /\ stage[o] = Absent
  BY <1>1, Known DEF AsideOK, Early, Case, Finds, StageOK, JobOK
<1>3. CASE /\ backup' = [backup EXCEPT ![o] = b]
           /\ files' = [files EXCEPT ![j.src] = Absent]
           /\ Goto(o, "caseIn")
  <2>1. files'[j.dst] = Absent /\ \A p \in Paths \ {j.dst} : files'[p] = files[p]
    BY <1>2, <1>3 DEF IInv, TypeOK
  <2>2. \A p \in Paths : See(o, p)' = See(o, p)
    <3>1. backup' = [backup EXCEPT ![o] = b] /\ job' = job /\ b \in Slot /\ pc[o] # "idle"
      BY <1>1, <1>2, <1>3
    <3>2. /\ \A p \in Paths : See(o, p) = files[p]
          /\ b = files[j.dst] /\ b # Absent
      BY <1>2 DEF See
    <3> HIDE DEF b
    <3>3. \A p \in Paths :
            See(o, p)' = IF files'[p] = Absent /\ b # Absent /\ j.dst = p THEN b ELSE files'[p]
      BY <1>2, <3>1, Seen
    <3> QED
      BY <2>1, <3>2, <3>3
  <2>3. /\ Finds("caseIn", j, existed[o], files'[j.src], files'[j.dst])
        /\ Stages(o, "caseIn", j, stage[o], files'[j.src])
        /\ Blames("caseIn", j, stage[o], b, files'[j.dst], faults')
    BY <2>1 DEF Finds, Stages, Blames
  <2>4. Passes(o, Shown(pc[o], j.kind), Shown("caseIn", j.kind))
    BY <1>1 DEF Passes
  <2> HIDE DEF b
  <2> QED
    BY <1>1, <1>2, <1>3, <2>2, <2>3, <2>4, Hides
<1>4. CASE Goto(o, "failed") /\ UNCHANGED <<files, backup>>
  BY <1>1, <1>2, <1>4, GivesUp DEF disk
<1> QED
  BY <1>3, <1>4 DEF CaseOut

LEMMA CaseInAlone ==
  ASSUME NEW o, Ops = {o}, AInv, CaseIn(o) PROVE Steady(o)' /\ [Atomic!Next]_(Atomic!vars)
<1> DEFINE j == job[o]
<1>1. /\ pc[o] = "caseIn" /\ UNCHANGED <<stage, job, existed>>
      /\ Shown(pc[o], j.kind) = "running" /\ pc[o] # "idle"
      /\ Shown("ok", j.kind) = "ok" /\ "ok" \in Working \cup Ended
      /\ Shown("caseUndo", j.kind) = "running" /\ "caseUndo" \in Working \cup Ended
  BY DEF CaseIn, Shown, Ended, Working
<1>2. /\ o \in Ops /\ IInv /\ backup[o] \in Slot /\ backup[o] # Absent /\ j.src = j.dst
      /\ j.kind \in {"rename", "move"} /\ j.src \in Paths /\ stage[o] \in Slot
      /\ files[j.dst] = Absent /\ faults \in Nat /\ j \in Job /\ j # Absent
  BY <1>1, Known DEF AsideOK, Aside, Case, Finds, JobOK
<1>3. CASE /\ files' = [files EXCEPT ![j.dst] = backup[o]]
           /\ backup' = [backup EXCEPT ![o] = Absent]
           /\ Goto(o, "ok")
  <2>1. files'[j.dst] = backup[o] /\ \A p \in Paths \ {j.dst} : files'[p] = files[p]
    BY <1>2, <1>3 DEF IInv, TypeOK
  <2>2. Absent \in Slot /\ stage' = [stage EXCEPT ![o] = stage[o]]
    BY <1>1, <1>2 DEF Slot, IInv, TypeOK
  <2>3. \A p \in Paths : See(o, p)' = files'[p]
    BY <1>1, <1>2, <1>3, <2>2, Seen
  <2>4. \A p \in Paths : See(o, p)' = See(o, p)
    BY <1>2, <2>1, <2>3 DEF See
  <2>5. LogicalTree' = LogicalTree
    BY <2>4, TreeStays
  <2>6. LogicalTree[j.src] # Absent
    BY <1>2, TreeIs DEF See
  <2>7. /\ Asked(o).src = j.src /\ Asked(o).dst = j.dst /\ Asked(o).kind \in {"rename", "move"}
    BY <1>2, AskedIs
  <2>8. Atomic!Moved(Asked(o)) /\ ~Atomic!Crosses(Asked(o))
    BY <1>2, <2>5, <2>6, <2>7 DEF Atomic!Moved, Atomic!Crosses
  <2>9. /\ Finds("ok", j, existed[o], files'[j.src], files'[j.dst])
        /\ Stages(o, "ok", j, stage[o], files'[j.src])
        /\ Blames("ok", j, stage[o], Absent, files'[j.dst], faults')
    BY DEF Finds, Stages, Blames
  <2> QED
    BY <1>1, <1>2, <1>3, <2>2, <2>8, <2>9, Effects
<1>4. CASE Errs(MayLand(o, backup[o], j.dst)) /\ Goto(o, "caseUndo") /\ UNCHANGED <<files, backup>>
  <2>1. MayLand(o, backup[o], j.dst)
    BY <1>2 DEF MayLand, MayReplace
  <2>2. faults' >= 1
    BY <1>2, <1>4, <2>1 DEF Errs
  <2>3. /\ Finds("caseUndo", j, existed[o], files[j.src], files[j.dst])
        /\ Stages(o, "caseUndo", j, stage[o], files[j.src])
        /\ Blames("caseUndo", j, stage[o], backup[o], files[j.dst], faults')
    BY <1>2, <2>2 DEF Finds, Stages, Blames
  <2>4. Passes(o, Shown(pc[o], j.kind), Shown("caseUndo", j.kind))
    BY <1>1 DEF Passes
  <2> QED
    BY <1>1, <1>2, <1>4, <2>3, <2>4, WalksBy DEF disk
<1> QED
  BY <1>3, <1>4 DEF CaseIn

LEMMA CaseUndoAlone ==
  ASSUME NEW o, Ops = {o}, AInv, CaseUndo(o) PROVE Steady(o)' /\ [Atomic!Next]_(Atomic!vars)
<1> DEFINE j == job[o]
           can == IF j.kind = "move" THEN MayReplace(backup[o], j.src) ELSE files[j.src] = Absent
<1>1. /\ pc[o] = "caseUndo" /\ UNCHANGED <<stage, job, existed>> /\ Goto(o, "failed")
      /\ Shown(pc[o], j.kind) = "running" /\ pc[o] # "idle"
      /\ Shown("failed", j.kind) = "failed" /\ "failed" \in Working \cup Ended
  BY DEF CaseUndo, Shown, Ended, Working
<1>2. /\ o \in Ops /\ IInv /\ backup[o] \in Slot /\ backup[o] # Absent /\ j.src = j.dst
      /\ j.src \in Paths /\ stage[o] = Absent /\ Absent \in Slot
      /\ files[j.dst] = Absent /\ faults \in Nat /\ faults >= 1
  BY <1>1, Known DEF AsideOK, Aside, Case, Finds, JobOK, Blames, StageOK, Slot
<1>3. Passes(o, Shown(pc[o], j.kind), Shown("failed", j.kind))
  BY <1>1 DEF Passes
<1>4. \A f \in [Paths -> Slot] : /\ Finds("failed", j, existed[o], f[j.src], f[j.dst])
                               /\ Stages(o, "failed", j, stage[o], f[j.src])
                               /\ Blames("failed", j, stage[o], Absent, f[j.dst], faults')
  BY <1>2 DEF Finds, Stages, Blames
<1>5. CASE /\ files' = [files EXCEPT ![j.src] = backup[o]]
           /\ backup' = [backup EXCEPT ![o] = Absent]
  <2>1. /\ files' \in [Paths -> Slot] /\ files'[j.dst] = backup[o]
        /\ \A p \in Paths \ {j.dst} : files'[p] = files[p]
    BY <1>2, <1>5 DEF IInv, TypeOK, Slot
  <2>2. \A p \in Paths : See(o, p)' = files'[p]
    BY <1>1, <1>2, <1>5, Seen
  <2>3. \A p \in Paths : See(o, p)' = See(o, p)
    BY <1>2, <2>1, <2>2 DEF See
  <2> QED
    BY <1>1, <1>2, <1>3, <1>4, <1>5, <2>1, <2>3, Hides
<1>6. CASE Errs(can) /\ UNCHANGED <<files, backup>>
  <2>1. can
    BY <1>2 DEF MayReplace
  <2> HIDE DEF can
  <2>2. faults' >= 2 /\ faults' >= 1
    BY <1>2, <1>6, <2>1 DEF Errs
  <2>3. /\ Finds("failed", j, existed[o], files[j.src], files[j.dst])
        /\ Stages(o, "failed", j, stage[o], files[j.src])
        /\ Blames("failed", j, stage[o], backup[o], files[j.dst], faults')
    BY <1>2, <2>2 DEF Finds, Stages, Blames
  <2> QED
    BY <1>1, <1>3, <1>6, <2>3, WalksBy DEF disk
<1> QED
  BY <1>5, <1>6 DEF CaseUndo

LEMMA RenameAlone ==
  ASSUME NEW o, Ops = {o}, AInv, Rename(o) PROVE Steady(o)' /\ [Atomic!Next]_(Atomic!vars)
<1> DEFINE j == job[o]
           x == files[j.src]
           can == SameDevice(o) /\ j.src # j.dst /\ MayLand(o, x, j.dst)
<1>1. /\ pc[o] = "rename" /\ UNCHANGED <<stage, backup, job, existed>>
      /\ Shown(pc[o], j.kind) = "running" /\ pc[o] # "idle"
      /\ Shown("ok", j.kind) = "ok" /\ "ok" \in Working \cup Ended
      /\ Shown("xprobe", j.kind) = "running" /\ "xprobe" \in Working \cup Ended
  BY DEF Rename, Shown, Ended, Working
<1>2. /\ o \in Ops /\ IInv /\ backup[o] = Absent /\ stage[o] = Absent
      /\ x # Absent /\ x.whole /\ files[j.dst] = Absent
      /\ j.src \in Paths /\ j.dst \in Paths /\ j.kind \in {"rename", "move"}
      /\ j \in Job /\ j # Absent /\ files \in [Paths -> Slot] /\ Absent \in Slot
  BY <1>1, Known DEF AsideOK, Early, Finds, StageOK, JobOK, IInv, TypeOK, Slot
<1>3. stage' = [stage EXCEPT ![o] = Absent] /\ backup' = [backup EXCEPT ![o] = Absent]
  BY <1>1, <1>2 DEF IInv, TypeOK
<1>4. CASE /\ Works(can)
           /\ files' = [files EXCEPT ![j.dst] = x, ![j.src] = Absent]
           /\ Goto(o, "ok")
  <2>1. can
    BY <1>4 DEF Works
  <2>2. \A p \in Paths :
          files'[p] = IF p = j.src THEN Absent ELSE IF p = j.dst THEN x ELSE files[p]
    BY <1>2, <1>4, <2>1
  <2>3. /\ \A p \in Paths : See(o, p)' = files'[p]
        /\ \A p \in Paths : See(o, p) = files[p]
    BY <1>1, <1>2, <1>3, Seen DEF See
  <2>4. LogicalTree' = [LogicalTree EXCEPT ![j.dst] = LogicalTree[j.src], ![j.src] = Absent]
    BY <1>2, <2>1, <2>2, <2>3, TreeMoves
  <2>5. LogicalTree[j.src] # Absent /\ LogicalTree[j.dst] = Absent
    BY <1>2, <2>3, TreeIs
  <2>6. /\ Asked(o).src = j.src /\ Asked(o).dst = j.dst /\ Asked(o).kind \in {"rename", "move"}
    BY <1>2, AskedIs
  <2>7. Atomic!Moved(Asked(o)) /\ ~Atomic!Crosses(Asked(o))
    BY <2>1, <2>4, <2>5, <2>6 DEF Atomic!Moved, Atomic!Vacant, Atomic!Crosses, SameDevice
  <2>8. /\ Finds("ok", j, existed[o], files'[j.src], files'[j.dst])
        /\ Stages(o, "ok", j, Absent, files'[j.src])
        /\ Blames("ok", j, Absent, Absent, files'[j.dst], faults')
    BY DEF Finds, Stages, Blames
  <2> QED
    BY <1>1, <1>2, <1>3, <1>4, <2>7, <2>8, Effects
<1>5. CASE ~SameDevice(o) /\ Goto(o, "xprobe") /\ UNCHANGED <<files, faults>>
  <2>1. /\ Finds("xprobe", j, existed[o], files[j.src], files[j.dst])
        /\ Stages(o, "xprobe", j, stage[o], files[j.src])
        /\ Blames("xprobe", j, stage[o], backup[o], files[j.dst], faults')
    BY <1>2, <1>5 DEF Finds, Stages, Blames, SameDevice
  <2>2. Passes(o, Shown(pc[o], j.kind), Shown("xprobe", j.kind))
    BY <1>1 DEF Passes
  <2> QED
    BY <1>1, <1>2, <1>5, <2>1, <2>2, WalksBy DEF disk
<1>6. CASE Goto(o, "failed") /\ UNCHANGED files
  BY <1>1, <1>2, <1>6, GivesUp DEF disk
<1> QED
  BY <1>4, <1>5, <1>6 DEF Rename

LEMMA MoveInAlone ==
  ASSUME NEW o, Ops = {o}, AInv, MoveIn(o) PROVE Steady(o)' /\ [Atomic!Next]_(Atomic!vars)
<1> DEFINE j == job[o]
           x == files[j.src]
           can == SameDevice(o) /\ MayLand(o, x, j.dst)
<1>1. /\ pc[o] = "moveIn" /\ UNCHANGED <<stage, backup, job, existed>>
      /\ Shown(pc[o], j.kind) = "running" /\ pc[o] # "idle"
      /\ Shown("dropBackup", j.kind) = "applied" /\ "dropBackup" \in Working \cup Ended
      /\ Shown("unbackup", j.kind) = "running" /\ "unbackup" \in Working \cup Ended
      /\ Shown("restore", j.kind) = "running" /\ "restore" \in Working \cup Ended
  BY DEF MoveIn, Shown, Ended, Working
<1>2. /\ o \in Ops /\ IInv /\ backup[o] # Absent /\ backup[o] \in Slot /\ stage[o] = Absent
      /\ x # Absent /\ x.whole /\ files[j.dst] = Absent /\ j.src # j.dst /\ j.overwrite
      /\ j.src \in Paths /\ j.dst \in Paths /\ j.kind \in {"rename", "move"}
      /\ j \in Job /\ j # Absent /\ files \in [Paths -> Slot] /\ Absent \in Slot /\ faults \in Nat
  BY <1>1, Known DEF AsideOK, Aside, Finds, StageOK, JobOK, IInv, TypeOK, Slot
<1>3. stage' = [stage EXCEPT ![o] = Absent] /\ backup' = [backup EXCEPT ![o] = backup[o]]
  BY <1>1, <1>2 DEF IInv, TypeOK
<1>4. CASE /\ Works(can)
           /\ files' = [files EXCEPT ![j.dst] = x, ![j.src] = Absent]
           /\ Goto(o, "dropBackup")
  <2>1. SameDevice(o)
    BY <1>4 DEF Works
  <2>2. \A p \in Paths :
          files'[p] = IF p = j.src THEN Absent ELSE IF p = j.dst THEN x ELSE files[p]
    BY <1>2, <1>4
  <2>3. \A p \in Paths :
          See(o, p)' = IF files'[p] = Absent /\ backup[o] # Absent /\ j.dst = p THEN backup[o] ELSE files'[p]
    <3>1. PICK b \in Slot : b = backup[o] /\ backup' = [backup EXCEPT ![o] = b]
      BY <1>2, <1>3
    <3>2. \A p \in Paths :
            See(o, p)' = IF files'[p] = Absent /\ b # Absent /\ j.dst = p THEN b ELSE files'[p]
      BY <1>1, <1>2, <3>1, Seen
    <3> QED
      BY <3>1, <3>2
  <2>4. \A p \in Paths :
          See(o, p)' = IF p = j.src THEN Absent ELSE IF p = j.dst THEN See(o, j.src) ELSE See(o, p)
    BY <1>2, <2>2, <2>3 DEF See
  <2>5. LogicalTree' = [LogicalTree EXCEPT ![j.dst] = LogicalTree[j.src], ![j.src] = Absent]
    BY <1>2, <2>4, TreeMoves
  <2>6. LogicalTree[j.src] # Absent
    BY <1>2, TreeIs DEF See
  <2>7. /\ Asked(o).src = j.src /\ Asked(o).dst = j.dst /\ Asked(o).kind \in {"rename", "move"}
        /\ Asked(o).overwrite = j.overwrite
    BY <1>2, AskedIs
  <2>8. Atomic!Moved(Asked(o))
    BY <1>2, <2>1, <2>5, <2>6, <2>7 DEF Atomic!Moved, Atomic!Vacant, SameDevice
  <2>9. /\ Finds("dropBackup", j, existed[o], files'[j.src], files'[j.dst])
        /\ Stages(o, "dropBackup", j, Absent, files'[j.src])
        /\ Blames("dropBackup", j, Absent, backup[o], files'[j.dst], faults')
    BY <1>2, <2>2 DEF Finds, Stages, Blames
  <2> QED
    BY <1>1, <1>2, <1>3, <1>4, <2>8, <2>9, Effects
<1>5. CASE ~SameDevice(o) /\ Goto(o, "unbackup") /\ UNCHANGED <<files, faults>>
  <2>1. /\ Finds("unbackup", j, existed[o], files[j.src], files[j.dst])
        /\ Stages(o, "unbackup", j, stage[o], files[j.src])
        /\ Blames("unbackup", j, stage[o], backup[o], files[j.dst], faults')
    BY <1>2, <1>5 DEF Finds, Stages, Blames, SameDevice
  <2>2. Passes(o, Shown(pc[o], j.kind), Shown("unbackup", j.kind))
    BY <1>1 DEF Passes
  <2> QED
    BY <1>1, <1>2, <1>5, <2>1, <2>2, WalksBy DEF disk
<1>6. CASE SameDevice(o) /\ Errs(can) /\ Goto(o, "restore") /\ UNCHANGED files
  <2>1. can
    BY <1>2, <1>6 DEF MayLand, MayReplace
  <2> HIDE DEF can
  <2>2. faults' >= 1
    BY <1>2, <1>6, <2>1 DEF Errs
  <2>3. /\ Finds("restore", j, existed[o], files[j.src], files[j.dst])
        /\ Stages(o, "restore", j, stage[o], files[j.src])
        /\ Blames("restore", j, stage[o], backup[o], files[j.dst], faults')
    BY <1>2, <2>2 DEF Finds, Stages, Blames
  <2>4. Passes(o, Shown(pc[o], j.kind), Shown("restore", j.kind))
    BY <1>1 DEF Passes
  <2> QED
    BY <1>1, <1>2, <1>6, <2>3, <2>4, WalksBy DEF disk
<1> QED
  BY <1>4, <1>5, <1>6 DEF MoveIn

LEMMA LinkAlone ==
  ASSUME NEW o, Ops = {o}, AInv, Link(o) PROVE Steady(o)' /\ [Atomic!Next]_(Atomic!vars)
<1> DEFINE j == job[o]
<1>1. /\ pc[o] = "link" /\ UNCHANGED <<stage, backup, job, existed>>
      /\ Shown(pc[o], j.kind) = "running" /\ pc[o] # "idle"
      /\ Shown("unlink", j.kind) = "applied" /\ "unlink" \in Working \cup Ended
  BY DEF Link, Shown, Ended, Working
<1>2. /\ o \in Ops /\ IInv /\ backup[o] = Absent /\ stage[o] = Fresh(o) /\ stage[o] \in Slot
      /\ files[j.dst] = Absent /\ j.dst \in Paths /\ j.kind = "upload"
      /\ j \in Job /\ j # Absent /\ files \in [Paths -> Slot] /\ Absent \in Slot /\ faults \in Nat
  BY <1>1, Known DEF AsideOK, Early, Finds, Stages, JobOK, IInv, TypeOK, Slot
<1>3. stage' = [stage EXCEPT ![o] = stage[o]] /\ backup' = [backup EXCEPT ![o] = Absent]
  BY <1>1, <1>2 DEF IInv, TypeOK
<1>4. CASE files' = [files EXCEPT ![j.dst] = stage[o]] /\ Goto(o, "unlink")
  <2>1. \A p \in Paths : files'[p] = IF p = j.dst THEN Fresh(o) ELSE files[p]
    BY <1>2, <1>4
  <2>2. /\ \A p \in Paths : See(o, p)' = files'[p]
        /\ \A p \in Paths : See(o, p) = files[p]
    BY <1>1, <1>2, <1>3, Seen DEF See
  <2>3. LogicalTree' = [LogicalTree EXCEPT ![j.dst] = Fresh(o)]
    BY <1>2, <2>1, <2>2, TreeGets
  <2>4. LogicalTree[j.dst] = Absent
    BY <1>2, <2>2, TreeIs
  <2>5. Asked(o).dst = j.dst /\ Asked(o).kind = "upload"
    BY <1>2, AskedIs
  <2>6. Atomic!Stored(o, Asked(o))
    BY <2>3, <2>4, <2>5 DEF Atomic!Stored, Atomic!Vacant, Fresh
  <2>7. /\ Finds("unlink", j, existed[o], files'[j.src], files'[j.dst])
        /\ Stages(o, "unlink", j, stage[o], files'[j.src])
        /\ Blames("unlink", j, stage[o], Absent, files'[j.dst], faults')
    BY DEF Finds, Stages, Blames
  <2> QED
    BY <1>1, <1>2, <1>3, <1>4, <2>6, <2>7, Effects
<1>5. CASE Errs(files[j.dst] = Absent) /\ Goto(o, "discard") /\ UNCHANGED files
  <2>1. faults' >= 1
    BY <1>2, <1>5 DEF Errs
  <2> QED
    BY <1>1, <1>2, <1>5, <2>1, GivesUp DEF disk
<1> QED
  BY <1>4, <1>5 DEF Link

LEMMA MkdirAlone ==
  ASSUME NEW o, Ops = {o}, AInv, Mkdir(o) PROVE Steady(o)' /\ [Atomic!Next]_(Atomic!vars)
<1> DEFINE j == job[o]
           e == [data |-> o, dir |-> TRUE, whole |-> TRUE]
           can == files[j.dst] # Absent => files[j.dst].dir
<1>1. /\ pc[o] = "mkdir" /\ UNCHANGED <<stage, backup, job, existed>>
      /\ Shown(pc[o], j.kind) = "running" /\ pc[o] # "idle"
      /\ Shown("ok", j.kind) = "ok" /\ "ok" \in Working \cup Ended
  BY DEF Mkdir, Shown, Ended, Working
<1>2. /\ o \in Ops /\ IInv /\ backup[o] = Absent /\ stage[o] = Absent
      /\ j.dst \in Paths /\ j.kind = "mkdir"
      /\ j \in Job /\ j # Absent /\ files \in [Paths -> Slot] /\ Absent \in Slot
  BY <1>1, Known DEF AsideOK, Early, Stages, JobOK, IInv, TypeOK, Slot
<1>3. stage' = [stage EXCEPT ![o] = Absent] /\ backup' = [backup EXCEPT ![o] = Absent]
  BY <1>1, <1>2 DEF IInv, TypeOK
<1>4. CASE /\ Works(can)
           /\ files' = IF files[j.dst] # Absent THEN files ELSE [files EXCEPT ![j.dst] = e]
           /\ Goto(o, "ok")
  <2>1. files[j.dst] # Absent => files[j.dst].dir
    BY <1>4 DEF Works
  <2>2. /\ \A p \in Paths : See(o, p)' = files'[p]
        /\ \A p \in Paths : See(o, p) = files[p]
    BY <1>1, <1>2, <1>3, Seen DEF See
  <2>3. LogicalTree[j.dst] = files[j.dst]
    BY <1>2, <2>2, TreeIs
  <2>4. Asked(o).dst = j.dst /\ Asked(o).kind = "mkdir"
    BY <1>2, AskedIs
  <2>5. Atomic!Made(o, Asked(o))
    <3>1. CASE files[j.dst] = Absent
      <4>1. \A p \in Paths : files'[p] = IF p = j.dst THEN e ELSE files[p]
        BY <1>2, <1>4, <3>1
      <4>2. \A p \in Paths : See(o, p)' = IF p = j.dst THEN e ELSE See(o, p)
        BY <2>2, <4>1
      <4>3. LogicalTree' = [LogicalTree EXCEPT ![j.dst] = e]
        <5> HIDE DEF e
        <5> QED
          BY <1>2, <4>2, TreeGets
      <4> QED
        BY <2>3, <2>4, <3>1, <4>3 DEF Atomic!Made
    <3>2. CASE files[j.dst] # Absent
      <4>1. LogicalTree' = LogicalTree
        BY <1>4, <2>2, <3>2, TreeStays
      <4> QED
        BY <2>1, <2>3, <2>4, <3>2, <4>1 DEF Atomic!Made
    <3> QED
      BY <3>1, <3>2
  <2>6. ~Atomic!Crosses(Asked(o))
    BY <2>4 DEF Atomic!Crosses
  <2>7. /\ Finds("ok", j, existed[o], files'[j.src], files'[j.dst])
        /\ Stages(o, "ok", j, Absent, files'[j.src])
        /\ Blames("ok", j, Absent, Absent, files'[j.dst], faults')
    BY DEF Finds, Stages, Blames
  <2> QED
    BY <1>1, <1>2, <1>3, <1>4, <2>5, <2>6, <2>7, Effects
<1>5. CASE Goto(o, "failed") /\ UNCHANGED files
  BY <1>1, <1>2, <1>5, GivesUp DEF disk
<1> QED
  BY <1>4, <1>5 DEF Mkdir

\* The stage takes its place.
LEMMA PromoteAlone ==
  ASSUME NEW o, Ops = {o}, AInv, Promote(o) PROVE Steady(o)' /\ [Atomic!Next]_(Atomic!vars)
<1> DEFINE j == job[o]
           s == stage[o]
           can == MayLand(o, s, j.dst)
<1>1. /\ pc[o] = "promote" /\ UNCHANGED <<backup, job, existed>>
      /\ Shown(pc[o], j.kind) = "running" /\ pc[o] # "idle"
  BY DEF Promote, Shown, Ended
<1>2. /\ o \in Ops /\ IInv /\ backup[o] \in Slot /\ s \in Slot /\ s # Absent
      /\ j.src \in Paths /\ j.dst \in Paths /\ j.kind \in {"copy", "xmove", "upload"}
      /\ j \in Job /\ j # Absent /\ files \in [Paths -> Slot] /\ Absent \in Slot
      /\ existed[o] \in BOOLEAN /\ (existed[o] <=> backup[o] # Absent)
      /\ existed[o] => j.kind # "upload" /\ j.overwrite
  BY <1>1, Known DEF AsideOK, StageOK, Staged, JobOK, IInv, TypeOK, Slot
<1>3. /\ j.kind # "upload" => /\ s = files[j.src] /\ files[j.src] # Absent /\ files[j.dst] = Absent
                              /\ j.src # j.dst
      /\ j.kind = "upload" => j.overwrite /\ s = Fresh(o)
      /\ j.kind = "xmove" => Device[j.src] # Device[j.dst]
      /\ faults \in Nat
  BY <1>1, <1>2, Known DEF Asks, Finds, Stages
<1>4. PICK b \in Slot : b = backup[o] /\ backup' = [backup EXCEPT ![o] = b]
  BY <1>1, <1>2 DEF IInv, TypeOK
<1>5. ASSUME NEW at, at = (IF j.kind = "xmove" THEN "erase"
                           ELSE IF existed[o] THEN "dropBackup" ELSE "ok"),
             files' = [files EXCEPT ![j.dst] = s], stage' = [stage EXCEPT ![o] = Absent], Goto(o, at)
      PROVE  Steady(o)' /\ [Atomic!Next]_(Atomic!vars)
  <2>1. /\ at \in {"erase", "dropBackup", "ok"}
        /\ at = "erase" <=> j.kind = "xmove"
    BY <1>5
  <2>2. \A p \in Paths : files'[p] = IF p = j.dst THEN s ELSE files[p]
    BY <1>2, <1>5
  <2>3. \A p \in Paths :
          See(o, p)' = IF files'[p] = Absent /\ b # Absent /\ j.dst = p THEN b ELSE files'[p]
    BY <1>1, <1>2, <1>4, Seen
  <2>4. \A p \in Paths : See(o, p)' = IF p = j.dst THEN s ELSE See(o, p)
    BY <1>2, <2>2, <2>3 DEF See
  <2>5. LogicalTree' = [LogicalTree EXCEPT ![j.dst] = s]
    <3> HIDE DEF s
    <3> QED
      BY <1>2, <2>4, TreeGets
  <2>6. /\ Asked(o).src = j.src /\ Asked(o).dst = j.dst /\ Asked(o).overwrite = j.overwrite
        /\ Asked(o).kind = IF j.kind = "xmove" THEN "move" ELSE j.kind
    BY <1>2, AskedIs
  <2>7. CASE j.kind = "upload"
    <3>1. Atomic!Stored(o, Asked(o))
      BY <1>3, <2>5, <2>6, <2>7 DEF Atomic!Stored, Atomic!Vacant, Fresh
    <3>2. at = "ok"
      BY <1>2, <1>5, <2>7
    <3>3. /\ Shown(at, j.kind) = "ok" /\ ~Atomic!Crosses(Asked(o)) /\ at \in Working \cup Ended
      BY <2>6, <2>7, <3>2 DEF Shown, Ended, Atomic!Crosses
    <3>4. /\ Finds(at, j, existed[o], files'[j.src], files'[j.dst])
          /\ Stages(o, at, j, Absent, files'[j.src])
          /\ Blames(at, j, Absent, b, files'[j.dst], faults')
      BY <3>2 DEF Finds, Stages, Blames
    <3> QED
      BY <1>1, <1>2, <1>4, <1>5, <3>1, <3>3, <3>4, Effects
  <2>8. CASE j.kind # "upload"
    <3>1. LogicalTree[j.src] = s /\ LogicalTree[j.src] # Absent
      BY <1>2, <1>3, <2>8, TreeIs DEF See
    <3>2. LogicalTree[j.dst] = Absent \/ j.overwrite
      BY <1>2, <1>3, <2>8, TreeIs DEF See
    <3>3. Asked(o).kind = "copy" \/ (Asked(o).kind = "move" /\ Device[j.src] # Device[j.dst])
      BY <1>2, <1>3, <2>6, <2>8
    <3>4. Atomic!Copied(Asked(o))
      BY <2>5, <2>6, <3>1, <3>2, <3>3 DEF Atomic!Copied, Atomic!Vacant
    <3>5. /\ at \in Working \cup Ended
          /\ \/ Shown(at, j.kind) = "applied"
             \/ Shown(at, j.kind) = "ok" /\ ~Atomic!Crosses(Asked(o))
      BY <1>2, <2>1, <2>6 DEF Shown, Ended, Working, Atomic!Crosses
    <3>6. files'[j.dst] # Absent
      BY <1>2, <2>2
    <3>7. /\ Finds(at, j, existed[o], files'[j.src], files'[j.dst])
          /\ Stages(o, at, j, Absent, files'[j.src])
          /\ Blames(at, j, Absent, b, files'[j.dst], faults')
      BY <2>1, <3>6 DEF Finds, Stages, Blames
    <3> QED
      BY <1>1, <1>2, <1>4, <1>5, <3>4, <3>5, <3>7, Effects
  <2> QED
    BY <2>7, <2>8
<1>6. CASE Errs(can) /\ Goto(o, AfterPromoteError(o)) /\ UNCHANGED <<files, stage>>
  <2>1. ~can => j.kind = "upload" /\ IsDir(files[j.dst])
    BY <1>2, <1>3 DEF MayLand, MayReplace, IsDir, Fresh
  <2> HIDE DEF can
  <2>2. faults' >= 1 \/ (j.kind = "upload" /\ IsDir(files[j.dst]))
    BY <1>3, <1>6, <2>1 DEF Errs
  <2>3. CASE existed[o]
    <3>1. Goto(o, "restore") /\ faults' >= 1
      BY <1>2, <1>6, <2>2, <2>3 DEF AfterPromoteError
    <3>2. /\ Finds("restore", j, existed[o], files[j.src], files[j.dst])
          /\ Stages(o, "restore", j, stage[o], files[j.src])
          /\ Blames("restore", j, stage[o], backup[o], files[j.dst], faults')
      BY <1>2, <1>3, <2>3, <3>1 DEF Finds, Stages, Blames
    <3>3. Shown("restore", j.kind) = "running" /\ "restore" \in Working \cup Ended
      BY DEF Shown, Ended, Working
    <3>4. Passes(o, Shown(pc[o], j.kind), Shown("restore", j.kind))
      BY <1>1, <3>3 DEF Passes
    <3> QED
      BY <1>1, <1>2, <1>6, <3>1, <3>2, <3>3, <3>4, WalksBy DEF disk
  <2>4. CASE ~existed[o]
    <3>1. Goto(o, "discard") /\ backup[o] = Absent
      BY <1>2, <1>6, <2>4 DEF AfterPromoteError
    <3> QED
      BY <1>1, <1>2, <1>6, <2>2, <3>1, GivesUp DEF disk
  <2> QED
    BY <2>3, <2>4
<1> QED
  BY <1>5, <1>6 DEF Promote

\* Something is taken away at the source: a part of a directory, or the entry.
LEMMA Removes ==
  ASSUME NEW o, Ops = {o}, AInv, pc[o] \in {"erase", "erasing"},
         NEW at \in Working \cup Ended, NEW e \in Slot,
         files' = [files EXCEPT ![job[o].src] = e], Goto(o, at), UNCHANGED <<stage, backup, job, existed>>,
         \/ at = "erasing" /\ e # Absent /\ e.dir /\ ~e.whole /\ pc[o] = "erase"
         \/ at = "dropBackup" /\ job[o].kind = "xmove"
         \/ at = "ok",
         IF at = "erasing"
           THEN /\ files[job[o].src] # Absent /\ files[job[o].src].dir
                /\ e = [files[job[o].src] EXCEPT !.whole = FALSE]
           ELSE e = Absent
  PROVE  Steady(o)' /\ [Atomic!Next]_(Atomic!vars)
<1> DEFINE j == job[o]
<1>1. /\ o \in Ops /\ IInv /\ backup[o] \in Slot /\ stage[o] \in Slot /\ pc[o] # "idle"
      /\ j.src \in Paths /\ j.dst \in Paths /\ j.kind \in {"remove", "xmove"}
      /\ j \in Job /\ j # Absent /\ files \in [Paths -> Slot] /\ existed[o] \in BOOLEAN
      /\ stage[o] = Absent /\ Asks(j) /\ Absent \in Slot
      /\ j.kind = "remove" => backup[o] = Absent
      /\ j.kind = "xmove" => /\ files[j.dst] # Absent /\ j.src # j.dst
                             /\ Device[j.src] # Device[j.dst]
  BY Known DEF JobOK, AsideOK, Finds, Stages, Asks, IInv, TypeOK, Slot
<1>2. PICK b \in Slot : b = backup[o] /\ backup' = [backup EXCEPT ![o] = b]
  BY <1>1 DEF IInv, TypeOK
<1>3. stage' = [stage EXCEPT ![o] = Absent]
  BY <1>1 DEF IInv, TypeOK
<1>4. \A p \in Paths : files'[p] = IF p = j.src THEN e ELSE files[p]
  BY <1>1
<1>5. \A p \in Paths :
        See(o, p)' = IF files'[p] = Absent /\ b # Absent /\ j.dst = p THEN b ELSE files'[p]
  BY <1>1, <1>2, Seen
<1>6. \A p \in Paths : See(o, p)' = IF p = j.src THEN e ELSE See(o, p)
  BY <1>1, <1>2, <1>4, <1>5 DEF See
<1>7. LogicalTree' = [LogicalTree EXCEPT ![j.src] = e]
  BY <1>1, <1>6, TreeGets
<1>8. LogicalTree[j.src] = files[j.src]
  BY <1>1, TreeIs DEF See
<1>9. /\ Asked(o).src = j.src /\ Asked(o).dst = j.dst
      /\ Asked(o).kind = IF j.kind = "xmove" THEN "move" ELSE "remove"
  BY <1>1, AskedIs
<1>10. /\ Finds(at, j, existed[o], files'[j.src], files'[j.dst])
       /\ Stages(o, at, j, Absent, files'[j.src])
       /\ Blames(at, j, Absent, b, files'[j.dst], faults')
  BY <1>1, <1>4 DEF Finds, Stages, Blames
<1>11. Becomes(o, at, j, existed[o], Absent, b)
  BY <1>1, <1>2, <1>3 DEF IInv, TypeOK, Becomes, Goto
<1>12. Steady(o)'
  BY <1>1, <1>10, <1>11, StaysSteady
<1>13. StateOf(o) = Shown(pc[o], j.kind) /\ StateOf(o)' = Shown(at, j.kind)
  BY <1>1, <1>11, States
<1>14. /\ [r \in Ops |-> StateOf(r)][o] = StateOf(o) /\ [r \in Ops |-> Asked(r)][o] = Asked(o)
       /\ [r \in Ops |-> Asked(r)]' = [r \in Ops |-> Asked(r)]
  BY SameJob DEF Asked
<1>15. Atomic!To(o, StateOf(o)')
  BY ToState
<1>16. /\ pc[o] = "erase" /\ j.kind = "remove" => StateOf(o) = "running"
       /\ pc[o] = "erase" /\ j.kind = "xmove"  => StateOf(o) = "applied"
       /\ pc[o] = "erasing" => StateOf(o) = "emptying"
  BY <1>13 DEF Shown, Ended
<1>17. Atomic!MayErase(o) \/ StateOf(o) = "emptying"
  BY <1>1, <1>9, <1>14, <1>16 DEF Atomic!MayErase, Atomic!Crosses
<1>18. CASE at = "erasing"
  <2>1. StateOf(o)' = "emptying" /\ StateOf(o) # "emptying"
    BY <1>1, <1>13, <1>16, <1>18 DEF Shown, Ended
  <2>2. LogicalTree' = [LogicalTree EXCEPT ![j.src].whole = FALSE]
    BY <1>7, <1>8, <1>18
  <2>3. Atomic!Empty(o)
    BY <1>8, <1>9, <1>14, <1>15, <1>17, <1>18, <2>1, <2>2 DEF Atomic!Empty
  <2> QED
    BY <1>12, <2>3 DEF Atomic!Next
<1>19. CASE at # "erasing"
  <2>1. StateOf(o)' \in {"ok", "applied"}
    BY <1>13, <1>19 DEF Shown, Ended
  <2>2. \E next \in {"ok", "applied"} : Atomic!To(o, next)
    BY <1>15, <2>1
  <2>3. LogicalTree' = [LogicalTree EXCEPT ![j.src] = Absent]
    BY <1>7, <1>19
  <2>4. Atomic!Erase(o)
    BY <1>9, <1>14, <1>17, <2>2, <2>3 DEF Atomic!Erase
  <2> QED
    BY <1>12, <2>4 DEF Atomic!Next
<1> QED
  BY <1>18, <1>19

\* A removal that is refused.
LEMMA NotErased ==
  ASSUME NEW o, Ops = {o}, AInv, pc[o] \in {"erase", "erasing"},
         Goto(o, EraseError(o)), UNCHANGED <<files, stage, backup, job, existed>>
  PROVE  Steady(o)' /\ [Atomic!Next]_(Atomic!vars)
<1> DEFINE j == job[o]
           at == EraseError(o)
<1>1. /\ o \in Ops /\ pc[o] # "idle" /\ stage[o] = Absent /\ j.kind \in {"remove", "xmove"}
      /\ j.kind = "remove" => backup[o] = Absent
      /\ j.kind = "xmove" => Device[j.src] # Device[j.dst]
      /\ j \in Job /\ j # Absent
  BY Known DEF JobOK, AsideOK, Stages, Asks
<1>2. /\ at \in {"failed", "copied"} /\ (at = "failed" <=> j.kind = "remove") /\ Goto(o, at)
  BY <1>1 DEF EraseError
<1> HIDE DEF at
<1>3. /\ Asked(o).src = j.src /\ Asked(o).dst = j.dst
      /\ Asked(o).kind = IF j.kind = "xmove" THEN "move" ELSE "remove"
  BY <1>1, AskedIs
<1>4. j.kind = "xmove" => Atomic!Crosses(Asked(o))
  BY <1>1, <1>3 DEF Atomic!Crosses
<1>5. /\ Shown(at, j.kind) = at /\ at \in Working \cup Ended
      /\ Shown(pc[o], j.kind) = IF pc[o] = "erasing" THEN "emptying"
                                ELSE IF j.kind = "xmove" THEN "applied" ELSE "running"
  BY <1>1, <1>2 DEF Shown, Ended
<1>6. Passes(o, Shown(pc[o], j.kind), Shown(at, j.kind))
  BY <1>1, <1>2, <1>3, <1>4, <1>5 DEF Passes
<1>7. /\ Finds(at, j, existed[o], files[j.src], files[j.dst])
      /\ Stages(o, at, j, stage[o], files[j.src])
      /\ Blames(at, j, stage[o], backup[o], files[j.dst], faults')
  BY <1>1, <1>2 DEF Finds, Stages, Blames
<1> QED
  BY <1>1, <1>2, <1>5, <1>6, <1>7, WalksBy DEF disk

LEMMA AfterEraseIs ==
  ASSUME NEW o
  PROVE  /\ AfterErase(o) \in {"dropBackup", "ok"} /\ AfterErase(o) \in Working \cup Ended
         /\ AfterErase(o) = "dropBackup" => job[o].kind = "xmove"
BY DEF AfterErase, Working, Ended

LEMMA EraseAlone ==
  ASSUME NEW o, Ops = {o}, AInv, Erase(o) PROVE Steady(o)' /\ [Atomic!Next]_(Atomic!vars)
<1> DEFINE x == files[job[o].src]
           e == [x EXCEPT !.whole = FALSE]
<1>1. /\ pc[o] = "erase" /\ UNCHANGED <<stage, backup, job, existed>>
      /\ pc[o] # "idle" /\ x \in Slot
  BY Known DEF Erase
<1>2. CASE /\ Works(x # Absent) /\ x.dir
           /\ files' = [files EXCEPT ![job[o].src].whole = FALSE] /\ Goto(o, "erasing")
  <2>1. x # Absent /\ x \in Entry
    BY <1>1, <1>2 DEF Works, Slot
  <2>2. e \in Slot /\ e # Absent /\ e.dir /\ ~e.whole
    BY <1>2, <2>1, AbsentAssumption DEF Slot, Entry
  <2>3. files' = [files EXCEPT ![job[o].src] = e] /\ "erasing" \in Working \cup Ended
    BY <1>2 DEF Working
  <2>4. PICK f \in Slot : f = e
    BY <2>2
  <2> HIDE DEF e
  <2>5. /\ files' = [files EXCEPT ![job[o].src] = f] /\ f # Absent /\ f.dir /\ ~f.whole
        /\ f = [x EXCEPT !.whole = FALSE]
    BY <2>2, <2>3, <2>4 DEF e
  <2> QED
    BY <1>1, <1>2, <2>1, <2>3, <2>5, Removes
<1>3. CASE files' = [files EXCEPT ![job[o].src] = Absent] /\ Goto(o, AfterErase(o))
  BY <1>1, <1>3, AfterEraseIs, Removes DEF Slot
<1>4. CASE Goto(o, EraseError(o)) /\ UNCHANGED files
  BY <1>1, <1>4, NotErased
<1> QED
  BY <1>2, <1>3, <1>4 DEF Erase

LEMMA ErasingAlone ==
  ASSUME NEW o, Ops = {o}, AInv, Erasing(o) PROVE Steady(o)' /\ [Atomic!Next]_(Atomic!vars)
<1>1. pc[o] = "erasing" /\ UNCHANGED <<stage, backup, job, existed>>
  BY DEF Erasing
<1>2. CASE files' = [files EXCEPT ![job[o].src] = Absent] /\ Goto(o, AfterErase(o))
  BY <1>1, <1>2, AfterEraseIs, Removes DEF Slot
<1>3. CASE Goto(o, EraseError(o)) /\ UNCHANGED files
  BY <1>1, <1>3, NotErased
<1> QED
  BY <1>2, <1>3 DEF Erasing

LEMMA BeginAlone ==
  ASSUME NEW o, Ops = {o}, AInv, Begin(o) PROVE Steady(o)' /\ [Atomic!Next]_(Atomic!vars)
<1>1. PICK j \in Jobs : job' = [job EXCEPT ![o] = j] /\ Goto(o, FirstStep(j.kind))
  BY DEF Begin
<1> DEFINE at == FirstStep(j.kind)
<1>2. /\ o \in Ops /\ IInv /\ pc[o] = "idle" /\ UNCHANGED <<files, stage, backup, existed, faults>>
  BY DEF Begin, AInv, disk
<1>3. /\ j \in Job /\ j.kind \in Kinds /\ j # Absent /\ j.src \in Paths /\ j.dst \in Paths
      /\ j.kind \in {"upload", "remove", "mkdir"} => j.src = j.dst
      /\ j.kind = "copy" => j.src # j.dst
  BY JobsAssumption, AbsentAssumption DEF Job
<1>4. /\ at \in {"probeSrc", "check", "erase", "mkdir"} /\ (at = "erase" => j.kind = "remove")
      /\ j.kind # "xmove"
  BY <1>3 DEF FirstStep, Kinds
<1>5. stage[o] = Absent /\ backup[o] = Absent /\ existed[o] = FALSE
  BY <1>2 DEF IInv, OpFits, AsideOK, Early
<1>6. files[j.src] # Absent => files[j.src].whole
  BY <1>2, <1>3 DEF AInv, Start
<1>7. Becomes(o, at, j, existed[o], stage[o], backup[o])
  BY <1>1, <1>2 DEF Becomes, Goto, IInv, TypeOK
<1> HIDE DEF at
<1>8. /\ Asks(j) /\ Finds(at, j, existed[o], files[j.src], files[j.dst])
      /\ Stages(o, at, j, stage[o], files[j.src])
      /\ Blames(at, j, stage[o], backup[o], files[j.dst], faults')
  BY <1>3, <1>4, <1>5, <1>6 DEF Asks, Finds, Stages, Blames
<1>9. at \in Working \cup Ended /\ Shown(at, j.kind) = "running" /\ Shown("idle", job[o].kind) = "idle"
  BY <1>4 DEF Shown, Ended, Working
<1>10. stage[o] \in Slot /\ backup[o] \in Slot /\ existed[o] \in BOOLEAN
  BY <1>5 DEF Slot
<1>11. Steady(o)'
  BY <1>2, <1>3, <1>7, <1>8, <1>9, <1>10, StaysSteady
<1>12. StateOf(o) = "idle" /\ StateOf(o)' = "running"
  BY <1>2, <1>3, <1>7, <1>9, <1>10, States
<1>13. job'[o] = j /\ backup'[o] = Absent
  BY <1>1, <1>2, <1>5 DEF IInv, TypeOK
<1>14. Asked(o)' = j
  BY <1>4, <1>13 DEF Asked
<1>15. [r \in Ops |-> Asked(r)]' = [[r \in Ops |-> Asked(r)] EXCEPT ![o] = j]
  BY <1>14
<1>16. \A p \in Paths : See(o, p)' = See(o, p)
  BY <1>2, <1>5, <1>13 DEF See
<1>17. LogicalTree' = LogicalTree
  BY <1>16, TreeStays
<1>18. Atomic!To(o, "running")
  BY <1>12, ToState
<1>19. [r \in Ops |-> StateOf(r)][o] = "idle"
  BY <1>2, <1>12
<1>20. Atomic!Begin(o)
  BY <1>15, <1>17, <1>18, <1>19 DEF Atomic!Begin
<1> QED
  BY <1>2, <1>11, <1>20 DEF Atomic!Next

\* Every step of a request is towards its end.
LEMMA LeavesIdle ==
  ASSUME NEW o, Step(o)
  PROVE  \E at \in Working \cup Ended : Goto(o, at)
<1> USE DEF Goto, Working, Ended
<1>1. CASE Begin(o) \/ Cancel(o) \/ ProbeSrc(o) \/ XProbe(o) \/ Rename(o)
  <2>1. \A j \in Jobs : FirstStep(j.kind) \in {"probeSrc", "check", "erase", "mkdir"}
    BY JobsAssumption DEF FirstStep, Kinds
  <2> QED
    BY <1>1, <2>1 DEF Begin, Cancel, ProbeSrc, XProbe, Rename
<1>2. CASE ProbeDst(o)
  <2>1. \A present \in BOOLEAN : AfterProbe(o, present) \in {"fill", "rename", "caseOut", "backup"}
    BY DEF AfterProbe
  <2> QED
    BY <1>2, <2>1 DEF ProbeDst
<1>3. CASE CaseOut(o) \/ CaseIn(o) \/ CaseUndo(o)
  BY <1>3 DEF CaseOut, CaseIn, CaseUndo
<1>4. CASE Backup(o) \/ MoveIn(o) \/ Unbackup(o) \/ Restore(o) \/ DropBackup(o)
  BY <1>4 DEF Backup, MoveIn, Unbackup, Restore, DropBackup, PutBack, AfterBackup, AfterBackupError
<1>5. CASE Fill(o) \/ Filling(o) \/ Promote(o) \/ Discard(o)
  BY <1>5 DEF Fill, Filling, Promote, Discard, AfterFillError, AfterPromoteError
<1>6. CASE Erase(o) \/ Erasing(o)
  BY <1>6 DEF Erase, Erasing, AfterErase, EraseError
<1>7. CASE Check(o) \/ Create(o) \/ Receive(o) \/ Link(o) \/ Unlink(o) \/ Mkdir(o)
  BY <1>7 DEF Check, Create, Receive, Link, Unlink, Mkdir, AfterFillError
<1> QED
  BY <1>1, <1>2, <1>3, <1>4, <1>5, <1>6, <1>7 DEF Step

\* Each step is one of the abstract operation, or is not seen.
LEMMA NextAlone ==
  ASSUME NEW o, Ops = {o}
  PROVE  AInv /\ [Next]_vars => AInv' /\ [Atomic!Next]_(Atomic!vars)
<1> SUFFICES ASSUME AInv, [Next]_vars PROVE AInv' /\ [Atomic!Next]_(Atomic!vars)
  OBVIOUS
<1>1. IInv'
  BY NextInv DEF AInv
<1>2. CASE UNCHANGED vars
  <2>1. /\ files' = files /\ stage' = stage /\ backup' = backup /\ job' = job /\ pc' = pc
        /\ existed' = existed /\ faults' = faults
    BY <1>2 DEF vars
  <2>2. Start' /\ Steady(o)'
    BY <2>1 DEF AInv, Start, Steady, Asks, Finds, Stages, Blames
  <2>3. Asked(o)' = Asked(o) /\ StateOf(o)' = StateOf(o) /\ \A p \in Paths : See(o, p)' = See(o, p)
    BY <2>1 DEF Asked, StateOf, See
  <2>4. /\ LogicalTree' = LogicalTree /\ [r \in Ops |-> Asked(r)]' = [r \in Ops |-> Asked(r)]
        /\ [r \in Ops |-> StateOf(r)]' = [r \in Ops |-> StateOf(r)]
    BY <2>3, TreeStays
  <2> QED
    BY <1>1, <2>2, <2>4 DEF AInv, Atomic!vars
<1>3. CASE Step(o)
  <2>1. Steady(o)' /\ [Atomic!Next]_(Atomic!vars)
    <3>1. CASE Begin(o) \/ Cancel(o) \/ ProbeSrc(o) \/ ProbeDst(o) \/ XProbe(o) \/ Rename(o)
      BY <3>1, BeginAlone, CancelAlone, ProbeSrcAlone, ProbeDstAlone, XProbeAlone, RenameAlone
    <3>2. CASE CaseOut(o) \/ CaseIn(o) \/ CaseUndo(o)
      BY <3>2, CaseOutAlone, CaseInAlone, CaseUndoAlone
    <3>3. CASE Backup(o) \/ MoveIn(o) \/ Unbackup(o) \/ Restore(o) \/ DropBackup(o)
      BY <3>3, BackupAlone, MoveInAlone, UnbackupAlone, RestoreAlone, DropBackupAlone
    <3>4. CASE Fill(o) \/ Filling(o) \/ Promote(o) \/ Discard(o)
      BY <3>4, FillAlone, FillingAlone, PromoteAlone, DiscardAlone
    <3>5. CASE Erase(o) \/ Erasing(o)
      BY <3>5, EraseAlone, ErasingAlone
    <3>6. CASE Check(o) \/ Create(o) \/ Receive(o) \/ Link(o) \/ Unlink(o) \/ Mkdir(o)
      BY <3>6, CheckAlone, CreateAlone, ReceiveAlone, LinkAlone, UnlinkAlone, MkdirAlone
    <3> QED
      BY <1>3, <3>1, <3>2, <3>3, <3>4, <3>5, <3>6 DEF Step
  <2>2. pc'[o] # "idle"
    <3>1. pc \in [Ops -> Places] /\ o \in Ops
      BY DEF AInv, IInv, TypeOK, Places
    <3>2. \E at \in Working \cup Ended : Goto(o, at)
      BY <1>3, LeavesIdle
    <3> QED
      BY <3>1, <3>2 DEF Goto, Working, Ended
  <2>3. Start'
    BY <2>2 DEF Start
  <2> QED
    BY <1>1, <2>1, <2>3 DEF AInv
<1> QED
  BY <1>2, <1>3 DEF Next

LEMMA InitAlone ==
  ASSUME NEW o, Ops = {o}
  PROVE  Init => AInv /\ Atomic!Init
<1> SUFFICES ASSUME Init PROVE AInv /\ Atomic!Init
  OBVIOUS
<1>1. IInv
  BY InitInv
<1>2. pc[o] = "idle" /\ job[o] = Absent /\ backup[o] = Absent
  BY DEF Init
<1>3. \A p \in Paths : files[p] \in {Absent} \cup [data : Paths, dir : BOOLEAN, whole : {TRUE}]
  BY DEF Init
<1>4. Start
  BY <1>3 DEF Start
<1>5. Steady(o)
  BY <1>2 DEF Steady
<1>6. LogicalTree = [p \in Paths |-> files[p]]
  BY <1>2, Tree DEF See
<1>7. StateOf(o) = "idle" /\ Asked(o) = Absent
  BY <1>2, StateIs DEF Asked
<1>8. Atomic!Init
  BY <1>3, <1>6, <1>7 DEF Atomic!Init
<1> QED
  BY <1>1, <1>4, <1>5, <1>8 DEF AInv

\* A request that nothing interferes with is all or nothing: every system call
\* it makes, whichever fail and wherever it is cut off, is a step of
\* AtomicTransfer or cannot be told from none.
THEOREM AloneIsAtomic ==
  ASSUME NEW o, Ops = {o}
  PROVE  Spec => AllOrNothing
<1>1. Init => AInv /\ Atomic!Init
  BY InitAlone
<1>2. AInv /\ [Next]_vars => AInv' /\ [Atomic!Next]_(Atomic!vars)
  BY NextAlone
<1> QED
  BY <1>1, <1>2, PTL DEF Spec, AllOrNothing, Atomic!Spec

\* An error with a single cause leaves no hidden entry behind.
THEOREM AloneIsTidy ==
  ASSUME NEW o, Ops = {o}
  PROVE  Spec => []CleanFailure
<1>1. Init => AInv
  BY InitAlone
<1>2. AInv /\ [Next]_vars => AInv'
  BY NextAlone
<1>3. AInv => CleanFailure
  <2> SUFFICES ASSUME AInv, pc[o] = "failed", backup[o] # Absent \/ stage[o] # Absent
               PROVE  ~(faults <= IF HasOneUnforcedFailure(o) THEN 0 ELSE 1)
    BY DEF CleanFailure
  <2>1. faults \in Nat /\ Blames("failed", job[o], stage[o], backup[o], files[job[o].dst], faults)
    BY Known
  <2> QED
    BY <2>1 DEF Blames, HasOneUnforcedFailure, SameDevice, IsDir
<1> QED
  BY <1>1, <1>2, <1>3, PTL DEF Spec
=============================================================================
