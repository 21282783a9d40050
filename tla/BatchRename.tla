---------------------------- MODULE BatchRename -----------------------------
(***************************************************************************)
(* LocalFs::batch_rename: several entries of one directory get new names,  *)
(* among them the old names of each other.  Every entry is first renamed   *)
(* to a hidden .rulist-rename-stage name, then to its final one; an error  *)
(* undoes what has been done, in the opposite order.  Requests run at the  *)
(* same time, one system call after the other, and take no lock.           *)
(*                                                                         *)
(* An entry is named by the name it had at the start.                      *)
(***************************************************************************)
EXTENDS Naturals, Sequences

CONSTANTS
  Names,      \* the names in the directory
  Batches,    \* the requests
  Pairs,      \* the lists of pairs a request may send
  MaxFaults,  \* bound: how many system calls may fail for outside reasons
  Absent      \* nothing has this name

ASSUME PairsAssumption  == Pairs \subseteq Seq([src : Names, dst : Names])
ASSUME FaultsAssumption == MaxFaults \in Nat
ASSUME AbsentAssumption == Absent \notin Names

VARIABLES
  files,   \* the entry under each name
  temps,   \* per request: the entries under its stage names, by index
  pairs,   \* per request: the pairs it works on
  pc,      \* per request: the loop it is in, or how it ended
  at,      \* per request: the index in that loop
  faults,  \* how many calls failed for outside reasons
  before   \* history: the directory at the start

vars == <<files, temps, pairs, pc, at, faults, before>>

Loops == {"probeSrc", "probeDst", "stage", "final", "unfinal", "unstage"}
Ended == {"ok", "failed", "cancelled"}

\* Every entry is in exactly one place.
PlacesOf(e) ==
  {<<n>> : n \in {m \in Names : files[m] = e}} \cup
  UNION {{<<b, i>> : i \in {j \in DOMAIN temps[b] : temps[b][j] = e}} : b \in Batches}

TypeOK ==
  /\ files  \in [Names -> Names \cup {Absent}]
  /\ pairs  \in [Batches -> Seq([src : Names, dst : Names])]
  /\ \A b \in Batches : temps[b] \in [1 .. Len(pairs[b]) -> Names \cup {Absent}]
  /\ pc     \in [Batches -> {"idle"} \cup Loops \cup Ended]
  /\ \A b \in Batches : pc[b] \in Loops => at[b] \in 1 .. Len(pairs[b])
  /\ faults \in 0 .. MaxFaults
  /\ before \in [Names -> Names \cup {Absent}]

-----------------------------------------------------------------------------
\* rename_no_replace, which an outside reason may make fail.
Works(possible) == possible /\ UNCHANGED faults
Errs(possible)  == \/ ~possible /\ UNCHANGED faults
                   \/ faults < MaxFaults /\ faults' = faults + 1

Goto(b, label, i) ==
  /\ pc' = [pc EXCEPT ![b] = label]
  /\ at' = [at EXCEPT ![b] = i]

\* The loop's next round, or what follows the loop.
Up(b, next) == IF at[b] < Len(pairs[b]) THEN Goto(b, pc[b], at[b] + 1) ELSE Goto(b, next, 1)

\* Mutant: the loop backwards stops before the first entry.
DownToSecond(b, label, i, next, j) == IF i > 1 THEN Goto(b, label, i) ELSE Goto(b, next, j)

\* Backwards from i, through a loop that may have no round left.
Down(b, label, i, next, j) == IF i > 0 THEN Goto(b, label, i) ELSE Goto(b, next, j)

Pair(b) == pairs[b][at[b]]

Sources(b) == {pairs[b][i].src : i \in DOMAIN pairs[b]}

Distinct(ps) == \A i, j \in DOMAIN ps :
                  i # j => ps[i].src # ps[j].src /\ ps[i].dst # ps[j].dst

-----------------------------------------------------------------------------
Begin(b) ==
  /\ pc[b] = "idle"
  /\ \E ps \in Pairs :
       /\ pairs' = [pairs EXCEPT ![b] = ps]
       /\ temps' = [temps EXCEPT ![b] = [i \in 1 .. Len(ps) |-> Absent]]
       /\ Goto(b, CASE ps = <<>>      -> "ok"
                    [] ~Distinct(ps)  -> "failed"
                    [] OTHER          -> "probeSrc", 1)
  /\ UNCHANGED <<files, faults, before>>

ProbeSrc(b) ==
  LET there == files[Pair(b).src] # Absent IN
  /\ pc[b] = "probeSrc"
  /\ \/ Works(there) /\ Up(b, "probeDst")
     \/ Errs(there)  /\ Goto(b, "failed", 1)
  /\ UNCHANGED <<files, temps, pairs, before>>

\* Pairs that change nothing are dropped after the last probe: ix is where the
\* others stood, in their order.
Changing(b, ix) ==
  /\ {ix[k] : k \in DOMAIN ix} = {i \in DOMAIN pairs[b] : pairs[b][i].src # pairs[b][i].dst}
  /\ \A k, l \in DOMAIN ix : k < l => ix[k] < ix[l]

Active(b, ix) == [k \in DOMAIN ix |-> pairs[b][ix[k]]]

\* A destination must be free, or a source that will be.
FreeOrOwn(b, n) == files[n] = Absent \/ n \in Sources(b)

ProbeDst(b) ==
  LET good == FreeOrOwn(b, Pair(b).dst) IN
  /\ pc[b] = "probeDst"
  /\ \/ /\ Works(good) /\ at[b] < Len(pairs[b])
        /\ Goto(b, "probeDst", at[b] + 1)
        /\ UNCHANGED <<temps, pairs>>
     \/ /\ Works(good) /\ at[b] = Len(pairs[b])
        /\ \E n \in 0 .. Len(pairs[b]) : \E ix \in [1 .. n -> DOMAIN pairs[b]] :
             /\ Changing(b, ix)
             /\ pairs' = [pairs EXCEPT ![b] = Active(b, ix)]
             /\ temps' = [temps EXCEPT ![b] = [i \in 1 .. n |-> Absent]]
             /\ Goto(b, IF n = 0 THEN "ok" ELSE "stage", 1)
     \/ /\ Errs(good)
        /\ Goto(b, "failed", 1)
        /\ UNCHANGED <<temps, pairs>>
  /\ UNCHANGED <<files, before>>

\* rename_no_replace between the visible name n and the stage name at[b].
ToStage(b, n) ==
  /\ temps' = [temps EXCEPT ![b][at[b]] = files[n]]
  /\ files' = [files EXCEPT ![n] = Absent]

FromStage(b, n) ==
  /\ files' = [files EXCEPT ![n] = temps[b][at[b]]]
  /\ temps' = [temps EXCEPT ![b][at[b]] = Absent]

Stage(b) ==
  LET can == files[Pair(b).src] # Absent IN
  /\ pc[b] = "stage"
  /\ \/ /\ Works(can)
        /\ ToStage(b, Pair(b).src)
        /\ Up(b, "final")
     \/ /\ Errs(can)
        /\ Down(b, "unstage", at[b] - 1, "failed", 1)
        /\ UNCHANGED <<files, temps>>
  /\ UNCHANGED <<pairs, before>>

\* Mutant: rename(2), which replaces what another request put there.
MayLandAlways(b, n) == temps[b][at[b]] # Absent

MayLand(b, n) == temps[b][at[b]] # Absent /\ files[n] = Absent

\* Mutant: the entries that have their final name keep it.
UndoFinalSkipped(b) == Goto(b, "unstage", Len(pairs[b]))

UndoFinal(b) == Down(b, "unfinal", at[b] - 1, "unstage", Len(pairs[b]))

Final(b) ==
  LET can == MayLand(b, Pair(b).dst) IN
  /\ pc[b] = "final"
  /\ \/ /\ Works(can)
        /\ FromStage(b, Pair(b).dst)
        /\ Up(b, "ok")
     \/ /\ Errs(can)
        /\ UndoFinal(b)
        /\ UNCHANGED <<files, temps>>
  /\ UNCHANGED <<pairs, before>>

\* Errors of the rollback are ignored, or logged as CRITICAL.
Unfinal(b) ==
  LET can == files[Pair(b).dst] # Absent IN
  /\ pc[b] = "unfinal"
  /\ \/ Works(can) /\ ToStage(b, Pair(b).dst)
     \/ Errs(can)  /\ UNCHANGED <<files, temps>>
  /\ UndoFinal(b)
  /\ UNCHANGED <<pairs, before>>

Unstage(b) ==
  LET can == MayLand(b, Pair(b).src) IN
  /\ pc[b] = "unstage"
  /\ \/ Works(can) /\ FromStage(b, Pair(b).src)
     \/ Errs(can)  /\ UNCHANGED <<files, temps>>
  /\ Down(b, "unstage", at[b] - 1, "failed", 1)
  /\ UNCHANGED <<pairs, before>>

\* The client hangs up or the process dies: no further step of b runs.
Cancel(b) ==
  /\ pc[b] \in Loops
  /\ Goto(b, "cancelled", 1)
  /\ UNCHANGED <<files, temps, pairs, faults, before>>

Init ==
  /\ \E present \in SUBSET Names :
       files = [n \in Names |-> IF n \in present THEN n ELSE Absent]
  /\ temps  = [b \in Batches |-> <<>>]
  /\ pairs  = [b \in Batches |-> <<>>]
  /\ pc     = [b \in Batches |-> "idle"]
  /\ at     = [b \in Batches |-> 1]
  /\ faults = 0
  /\ before = files

Next == \E b \in Batches :
          \/ Begin(b) \/ ProbeSrc(b) \/ ProbeDst(b) \/ Stage(b) \/ Final(b)
          \/ Unfinal(b) \/ Unstage(b) \/ Cancel(b)

Spec == Init /\ [][Next]_vars

-----------------------------------------------------------------------------
(***************************************************************************)
(* Properties.                                                             *)
(***************************************************************************)

\* No entry is lost or doubled: whatever requests, failures and disconnects
\* do to each other, it is under one visible name or one stage name.
NothingLost == \A n \in Names : before[n] = n => \E p \in PlacesOf(n) : PlacesOf(n) = {p}

Touches(b) == UNION {{pairs[b][i].src, pairs[b][i].dst} : i \in DOMAIN pairs[b]}

\* A request that failed, though no call failed for an outside reason, has
\* left an entry under a stage name only where another request works on the
\* entry's old name: the rollback goes through the final names first, so that
\* it never stands in its own way.
StrandedByAnother ==
  faults = 0 =>
    \A b \in Batches : pc[b] = "failed" =>
      \A i \in DOMAIN temps[b] :
        temps[b][i] # Absent =>
          \E c \in Batches \ {b} : pairs[b][i].src \in Touches(c)

Renamed(dir, ps) ==
  [n \in Names |->
     IF \E i \in DOMAIN ps : ps[i].dst = n
       THEN dir[ps[CHOOSE i \in DOMAIN ps : ps[i].dst = n].src]
       ELSE IF \E i \in DOMAIN ps : ps[i].src = n THEN Absent ELSE dir[n]]

\* A request that nothing interferes with renames all or nothing: all pairs
\* at once when it succeeds, and when it fails for a single reason the
\* directory is as it was, with nothing under a stage name.
AllOrNothing ==
  \A b \in Batches : (\A c \in Batches \ {b} : pc[c] = "idle") =>
    /\ pc[b] = "ok" => files = Renamed(before, pairs[b])
    /\ pc[b] = "failed" /\ faults <= 1 =>
         files = before /\ \A i \in DOMAIN temps[b] : temps[b][i] = Absent
=============================================================================
