------------------------------ MODULE Transfer ------------------------------
(***************************************************************************)
(* The file operations of one Rulist server, one step per system call.     *)
(*                                                                         *)
(* Every request runs in its own task, so the steps of different requests  *)
(* interleave; nothing in src/src/filesystem takes a lock.  A request can  *)
(* stop for good between any two steps: axum drops the handler's future    *)
(* when the client disconnects, and the process can be killed.             *)
(*                                                                         *)
(* The name space is flat.  An entry is a file or a (non-empty) directory  *)
(* and is named by the data it holds: the data found at path p at the      *)
(* start is called p, the data that operation o uploads is called o.  The  *)
(* hidden names an operation makes up with rand_string (.rulist-...-stage, *)
(* .rulist-...-backup, .rulist-upload, .rulist-...-case) are fresh, so     *)
(* each operation has a slot of its own for them.                          *)
(***************************************************************************)
EXTENDS Naturals, FiniteSets

CONSTANTS
  Paths,      \* the names users see
  Ops,        \* the requests; each performs one operation
  Jobs,       \* what a request may ask for
  Device,     \* the device each path lives on; a hidden name lives beside dst
  MaxFaults,  \* bound: how many system calls may fail for outside reasons
  Absent      \* nothing has this name

Kinds == {"rename", "move", "copy", "upload", "remove", "mkdir"}

Job == [kind : Kinds \cup {"xmove"}, src : Paths, dst : Paths,
        overwrite : BOOLEAN]

\* The requests are those that have come so far.
ASSUME PathsAssumption == Paths \cap Ops = {} /\ IsFiniteSet(Paths) /\ IsFiniteSet(Ops)
ASSUME JobsAssumption ==
  Jobs \subseteq {j \in Job : /\ j.kind \in Kinds
                              /\ j.kind \in {"upload", "remove", "mkdir"} => j.src = j.dst
                              /\ j.kind = "copy" => j.src # j.dst
                              /\ j.kind = "rename" => Device[j.src] = Device[j.dst]}
ASSUME FaultsAssumption == MaxFaults \in Nat

Contents == Paths \cup Ops
Entry    == [data : Contents, dir : BOOLEAN, whole : BOOLEAN]

ASSUME AbsentAssumption == Absent \notin Entry \cup Job \cup Contents

VARIABLES
  files,    \* what is stored under each visible name
  stage,    \* per operation: its .rulist-...-stage or .rulist-upload entry
  backup,   \* per operation: its .rulist-...-backup or -case entry
  job,      \* per operation: what it was asked to do
  pc,       \* per operation: the next system call, or how it ended
  existed,  \* per operation: dst_exists / had_destination, read once
  faults,   \* how many calls failed so far
  known,    \* history: data that has been stored, whole, under a visible name
  copied,   \* history: per operation, the data its stage held last, if all of it
  claims,   \* history: per operation, the data it was entitled to destroy
  taken     \* history: the operations whose place another took (Occupied)

disk  == <<files, stage, backup>>
vars  == <<files, stage, backup, job, pc, existed, faults, known, copied, claims, taken>>

Ended   == {"ok", "failed", "copied", "cancelled"}
Working == {"probeSrc", "probeDst", "rename", "caseOut", "caseIn", "caseUndo", "backup",
            "moveIn", "unbackup", "restore", "xprobe", "fill", "filling",
            "promote", "dropBackup", "discard", "check", "create", "receive",
            "link", "unlink", "erase", "erasing", "mkdir"}
Running(o) == pc[o] \in Working

\* A step that works on a hidden entry has one.
SlotsOK ==
  \A o \in Ops :
    /\ pc[o] \in {"caseIn", "caseUndo", "moveIn", "unbackup", "restore", "dropBackup"}
         => backup[o] # Absent
    /\ pc[o] \in {"filling", "promote", "receive", "link", "unlink"} => stage[o] # Absent
    /\ pc[o] = "promote" /\ existed[o] => backup[o] # Absent

TypeOK ==
  /\ files   \in [Paths -> Entry \cup {Absent}]
  /\ stage   \in [Ops -> Entry \cup {Absent}]
  /\ backup  \in [Ops -> Entry \cup {Absent}]
  /\ job     \in [Ops -> Job \cup {Absent}]
  /\ \A o \in Ops : job[o] = Absent <=> pc[o] = "idle"
  /\ pc      \in [Ops -> {"idle"} \cup Working \cup Ended]
  /\ existed \in [Ops -> BOOLEAN]
  /\ faults  \in Nat
  /\ known   \in SUBSET Contents
  /\ copied  \in [Ops -> Contents \cup {Absent}]
  /\ claims  \in [Ops -> SUBSET Contents]
  /\ taken   \in SUBSET Ops
  /\ SlotsOK

-----------------------------------------------------------------------------
(***************************************************************************)
(* The system calls.                                                       *)
(***************************************************************************)

Goto(o, label) == pc' = [pc EXCEPT ![o] = label]

\* A call that is possible succeeds; one that is not returns an error, and
\* any call may return an error for an outside reason (EIO, ENOSPC, EACCES).
Works(possible) == possible /\ UNCHANGED faults
Errs(possible)  == \/ ~possible /\ UNCHANGED faults
                   \/ faults < MaxFaults /\ faults' = faults + 1

\* A directory that mkdir made, or a copy of one: nothing is put into it.
Empty(entry) == entry.dir /\ entry.data \in Ops

\* rename(2) replaces a file by a file and an empty directory by a directory.
MayReplace(entry, p) ==
  files[p] # Absent => IF entry.dir THEN Empty(files[p]) ELSE ~files[p].dir

\* Mutant: plain rename(2) whether or not the request said overwrite.
MayLandAlways(o, entry, p) == entry # Absent /\ MayReplace(entry, p)

\* tokio::fs::rename when overwriting, rename_no_replace otherwise.
MayLand(o, entry, p) ==
  entry # Absent /\ IF job[o].overwrite THEN MayReplace(entry, p)
                                        ELSE files[p] = Absent

SameDevice(o) == Device[job[o].src] = Device[job[o].dst]

-----------------------------------------------------------------------------
(***************************************************************************)
(* Starting an operation, and losing it.                                   *)
(***************************************************************************)

FirstStep(kind) ==
  CASE kind \in {"rename", "move", "copy"} -> "probeSrc"
    [] kind = "upload"                     -> "check"
    [] kind = "remove"                     -> "erase"
    [] kind = "mkdir"                      -> "mkdir"

Begin(o) ==
  /\ pc[o] = "idle"
  /\ \E j \in Jobs : /\ job' = [job EXCEPT ![o] = j]
                     /\ Goto(o, FirstStep(j.kind))
  /\ UNCHANGED <<disk, existed, faults>>

\* The client hangs up or the process dies: no further step of o runs.
Cancel(o) ==
  /\ Running(o)
  /\ Goto(o, "cancelled")
  /\ UNCHANGED <<disk, job, existed, faults>>

-----------------------------------------------------------------------------
(***************************************************************************)
(* Probing source and destination.  dst_exists is remembered and decides   *)
(* the course of the operation however the disk changes afterwards.        *)
(***************************************************************************)

\* Another spelling of the same entry, on a case-insensitive file system.
SameEntry(o) == job[o].src = job[o].dst

Conflict(o, present) ==
  /\ present
  /\ ~job[o].overwrite
  /\ ~(job[o].kind = "rename" /\ SameEntry(o))

AfterProbe(o, present) ==
  IF job[o].kind = "copy" THEN "fill"
  ELSE CASE ~present                  -> "rename"
         [] present /\ SameEntry(o)  -> "caseOut"
         [] present /\ ~SameEntry(o) -> "backup"

ProbeSrc(o) ==
  LET there == files[job[o].src] # Absent IN
  /\ pc[o] = "probeSrc"
  /\ \/ Works(there) /\ Goto(o, "probeDst")
     \/ Errs(there)  /\ Goto(o, "failed")
  /\ UNCHANGED <<disk, job, existed>>

ProbeDst(o) ==
  LET present == files[job[o].dst] # Absent
      goOn    == ~Conflict(o, present)
  IN
  /\ pc[o] = "probeDst"
  /\ \/ /\ Works(goOn)
        /\ existed' = [existed EXCEPT ![o] = present]
        /\ Goto(o, AfterProbe(o, present))
     \/ /\ Errs(goOn)
        /\ Goto(o, "failed")
        /\ UNCHANGED existed
  /\ UNCHANGED <<disk, job>>

\* move_cross_device_safe looks at the destination once more.
XProbe(o) ==
  LET present == files[job[o].dst] # Absent
      goOn    == ~(present /\ ~job[o].overwrite)
  IN
  /\ pc[o] = "xprobe"
  /\ \/ /\ Works(goOn)
        /\ existed' = [existed EXCEPT ![o] = present]
        /\ job' = [job EXCEPT ![o].kind = "xmove"]
        /\ Goto(o, "fill")
     \/ /\ Errs(goOn)
        /\ Goto(o, "failed")
        /\ UNCHANGED <<existed, job>>
  /\ UNCHANGED disk

-----------------------------------------------------------------------------
(***************************************************************************)
(* Renaming over a destination that was absent when probed.                *)
(***************************************************************************)

Rename(o) ==
  LET s == job[o].src
      d == job[o].dst
      can == SameDevice(o) /\ s # d /\ MayLand(o, files[s], d)
  IN
  /\ pc[o] = "rename"
  /\ \/ /\ Works(can)
        /\ files' = [files EXCEPT ![d] = files[s], ![s] = Absent]
        /\ Goto(o, "ok")
     \/ /\ ~SameDevice(o)
        /\ Goto(o, "xprobe")
        /\ UNCHANGED <<files, faults>>
     \/ /\ SameDevice(o) /\ Errs(can)
        /\ Goto(o, "failed")
        /\ UNCHANGED files
  /\ UNCHANGED <<stage, backup, job, existed>>

\* Case-only rename: out to a hidden name, back under the new spelling.
CaseOut(o) ==
  LET s == job[o].src IN
  /\ pc[o] = "caseOut"
  /\ \/ /\ Works(files[s] # Absent)
        /\ backup' = [backup EXCEPT ![o] = files[s]]
        /\ files'  = [files EXCEPT ![s] = Absent]
        /\ Goto(o, "caseIn")
     \/ /\ Errs(files[s] # Absent)
        /\ Goto(o, "failed")
        /\ UNCHANGED <<files, backup>>
  /\ UNCHANGED <<stage, job, existed>>

CaseIn(o) ==
  LET d == job[o].dst IN
  /\ pc[o] = "caseIn"
  /\ \/ /\ Works(MayLand(o, backup[o], d))
        /\ files'  = [files EXCEPT ![d] = backup[o]]
        /\ backup' = [backup EXCEPT ![o] = Absent]
        /\ Goto(o, "ok")
     \/ /\ Errs(MayLand(o, backup[o], d))
        /\ Goto(o, "caseUndo")
        /\ UNCHANGED <<files, backup>>
  /\ UNCHANGED <<stage, job, existed>>

\* move undoes with fs::rename, rename_safe with rename_no_replace; move gets
\* here only when overwriting.
CaseUndo(o) ==
  LET s == job[o].src
      can == IF job[o].kind = "move" THEN MayReplace(backup[o], s)
                                     ELSE files[s] = Absent
  IN
  /\ pc[o] = "caseUndo"
  /\ \/ /\ Works(can)
        /\ files'  = [files EXCEPT ![s] = backup[o]]
        /\ backup' = [backup EXCEPT ![o] = Absent]
     \/ /\ Errs(can)
        /\ UNCHANGED <<files, backup>>
  /\ Goto(o, "failed")
  /\ UNCHANGED <<stage, job, existed>>

-----------------------------------------------------------------------------
(***************************************************************************)
(* Setting the destination aside and putting it back.                      *)
(***************************************************************************)

Copies(o) == job[o].kind \in {"copy", "xmove"}

\* Mutant: a backup that failed is taken for done.
AfterBackupErrorGoOn(o) == IF Copies(o) THEN "promote" ELSE "moveIn"

AfterBackup(o)      == IF Copies(o) THEN "promote" ELSE "moveIn"
AfterBackupError(o) == IF Copies(o) THEN "discard" ELSE "failed"

Backup(o) ==
  LET d == job[o].dst IN
  /\ pc[o] = "backup"
  /\ \/ /\ Works(files[d] # Absent)
        /\ backup' = [backup EXCEPT ![o] = files[d]]
        /\ files'  = [files EXCEPT ![d] = Absent]
        /\ Goto(o, AfterBackup(o))
     \/ /\ Errs(files[d] # Absent)
        /\ Goto(o, AfterBackupError(o))
        /\ UNCHANGED <<files, backup>>
  /\ UNCHANGED <<stage, job, existed>>

MoveIn(o) ==
  LET s == job[o].src
      d == job[o].dst
      can == SameDevice(o) /\ MayLand(o, files[s], d)
  IN
  /\ pc[o] = "moveIn"
  /\ \/ /\ Works(can)
        /\ files' = [files EXCEPT ![d] = files[s], ![s] = Absent]
        /\ Goto(o, "dropBackup")
     \/ /\ ~SameDevice(o)
        /\ Goto(o, "unbackup")
        /\ UNCHANGED <<files, faults>>
     \/ /\ SameDevice(o) /\ Errs(can)
        /\ Goto(o, "restore")
        /\ UNCHANGED files
  /\ UNCHANGED <<stage, backup, job, existed>>

\* Mutant: the backup is not put back.
PutBackForgotten(o, done, refused) ==
  Goto(o, done) /\ UNCHANGED <<disk, faults, job, existed>>

\* rename_no_replace(&backup, dst); a failure is only logged in Restore, and
\* ends the move in Unbackup.
PutBack(o, done, refused) ==
  LET d == job[o].dst IN
  /\ \/ /\ Works(files[d] = Absent)
        /\ files'  = [files EXCEPT ![d] = backup[o]]
        /\ backup' = [backup EXCEPT ![o] = Absent]
        /\ Goto(o, done)
     \/ /\ Errs(files[d] = Absent)
        /\ Goto(o, refused)
        /\ UNCHANGED <<files, backup>>
  /\ UNCHANGED <<stage, job, existed>>

Unbackup(o) == pc[o] = "unbackup" /\ PutBack(o, "xprobe", "failed")

Restore(o) ==
  pc[o] = "restore" /\ PutBack(o, AfterBackupError(o), AfterBackupError(o))

\* remove_path_recursive(&backup).  A directory may be left half removed.
DropBackup(o) ==
  /\ pc[o] = "dropBackup"
  /\ \/ /\ Works(TRUE)
        /\ backup' = [backup EXCEPT ![o] = Absent]
     \/ /\ Errs(TRUE)
        /\ \/ UNCHANGED backup
           \/ backup[o].dir /\ backup' = [backup EXCEPT ![o].whole = FALSE]
  /\ Goto(o, "ok")
  /\ UNCHANGED <<files, stage, job, existed>>

-----------------------------------------------------------------------------
(***************************************************************************)
(* Copying through a staging entry (copy, and move across devices).        *)
(***************************************************************************)

\* Mutants: what was copied or received before the error is published; the
\* backup is not put back; the source goes although the promotion failed.
AfterFillErrorPublish(o)    == IF existed[o] THEN "backup" ELSE "promote"
AfterPromoteErrorForget(o)  == "discard"
AfterPromoteErrorGoOn(o)    == IF job[o].kind = "xmove" THEN "erase" ELSE "discard"

\* A copy or upload that failed is discarded, and the error returned.
AfterFillError(o)    == "discard"
AfterPromoteError(o) == IF existed[o] THEN "restore" ELSE "discard"

\* The copy of the source begins: the stage exists but is not complete.
Fill(o) ==
  LET e == files[job[o].src] IN
  /\ pc[o] = "fill"
  /\ \/ /\ Works(e # Absent)
        /\ stage' = [stage EXCEPT ![o] = [e EXCEPT !.whole = FALSE]]
        /\ Goto(o, "filling")
     \/ /\ Errs(e # Absent)
        /\ Goto(o, "discard")
        /\ UNCHANGED stage
  /\ UNCHANGED <<files, backup, job, existed>>

\* It ends.  A file is read through one descriptor.  A directory is read name
\* by name, so one that another request replaced or is erasing yields an
\* error or an incomplete copy.
Filling(o) ==
  LET e     == files[job[o].src]
      whole == ~stage[o].dir \/ (e # Absent /\ e.data = stage[o].data /\ e.whole)
  IN
  /\ pc[o] = "filling"
  /\ \/ /\ Works(whole \/ e # Absent)
        /\ stage' = [stage EXCEPT ![o].whole = whole]
        /\ Goto(o, IF existed[o] THEN "backup" ELSE "promote")
     \/ /\ Errs(whole)
        /\ Goto(o, AfterFillError(o))
        /\ UNCHANGED stage
  /\ UNCHANGED <<files, backup, job, existed>>

Promote(o) ==
  LET d == job[o].dst
      can == MayLand(o, stage[o], d)
  IN
  /\ pc[o] = "promote"
  /\ \/ /\ Works(can)
        /\ files' = [files EXCEPT ![d] = stage[o]]
        /\ stage' = [stage EXCEPT ![o] = Absent]
        /\ Goto(o, IF job[o].kind = "xmove" THEN "erase"
                   ELSE IF existed[o] THEN "dropBackup" ELSE "ok")
     \/ /\ Errs(can)
        /\ Goto(o, AfterPromoteError(o))
        /\ UNCHANGED <<files, stage>>
  /\ UNCHANGED <<backup, job, existed>>

\* let _ = remove_path_recursive(&stage), then the error is returned.
Discard(o) ==
  /\ pc[o] = "discard"
  /\ \/ /\ Works(TRUE)
        /\ stage' = [stage EXCEPT ![o] = Absent]
     \/ /\ Errs(TRUE)
        /\ UNCHANGED stage
  /\ Goto(o, "failed")
  /\ UNCHANGED <<files, backup, job, existed>>

-----------------------------------------------------------------------------
(***************************************************************************)
(* remove_path_recursive on a visible path: a file goes in one call; a     *)
(* directory is emptied and then unlinked.                                 *)
(***************************************************************************)

AfterErase(o) ==
  IF job[o].kind = "xmove" /\ existed[o] THEN "dropBackup" ELSE "ok"

\* "destination was copied successfully but source cleanup failed"
EraseError(o) == IF job[o].kind = "xmove" THEN "copied" ELSE "failed"

Erase(o) ==
  LET s == job[o].src IN
  /\ pc[o] = "erase"
  /\ \/ /\ Works(files[s] # Absent)
        /\ IF files[s].dir
             THEN /\ files' = [files EXCEPT ![s].whole = FALSE]
                  /\ Goto(o, "erasing")
             ELSE /\ files' = [files EXCEPT ![s] = Absent]
                  /\ Goto(o, AfterErase(o))
     \/ /\ Errs(files[s] # Absent)
        /\ Goto(o, EraseError(o))
        /\ UNCHANGED files
  /\ UNCHANGED <<stage, backup, job, existed>>

Erasing(o) ==
  LET s == job[o].src
      emptied == files[s] # Absent /\ files[s].dir /\ ~files[s].whole
  IN
  /\ pc[o] = "erasing"
  /\ \/ /\ Works(emptied)
        /\ files' = [files EXCEPT ![s] = Absent]
        /\ Goto(o, AfterErase(o))
     \/ /\ Errs(emptied)
        /\ Goto(o, EraseError(o))
        /\ UNCHANGED files
  /\ UNCHANGED <<stage, backup, job, existed>>

-----------------------------------------------------------------------------
(***************************************************************************)
(* upload_handler and mkdir_handler.                                       *)
(***************************************************************************)

Check(o) ==
  LET can == job[o].overwrite \/ files[job[o].dst] = Absent IN
  /\ pc[o] = "check"
  /\ \/ Works(can) /\ Goto(o, "create")
     \/ Errs(can)  /\ Goto(o, "failed")
  /\ UNCHANGED <<disk, job, existed>>

Create(o) ==
  /\ pc[o] = "create"
  /\ \/ /\ Works(TRUE)
        /\ stage' = [stage EXCEPT ![o] = [data |-> o, dir |-> FALSE, whole |-> FALSE]]
        /\ Goto(o, "receive")
     \/ /\ Errs(TRUE)
        /\ Goto(o, "failed")
        /\ UNCHANGED stage
  /\ UNCHANGED <<files, backup, job, existed>>

\* The body has been streamed and flushed, or a frame failed.
Receive(o) ==
  /\ pc[o] = "receive"
  /\ \/ /\ Works(TRUE)
        /\ stage' = [stage EXCEPT ![o].whole = TRUE]
        /\ Goto(o, IF job[o].overwrite THEN "promote" ELSE "link")
     \/ /\ Errs(TRUE)
        /\ Goto(o, AfterFillError(o))
        /\ UNCHANGED stage
  /\ UNCHANGED <<files, backup, job, existed>>

\* entry_exists, then hard_link(&temp, &target), which never replaces.
Link(o) ==
  LET d == job[o].dst IN
  /\ pc[o] = "link"
  /\ \/ /\ Works(files[d] = Absent)
        /\ files' = [files EXCEPT ![d] = stage[o]]
        /\ Goto(o, "unlink")
     \/ /\ Errs(files[d] = Absent)
        /\ Goto(o, "discard")
        /\ UNCHANGED files
  /\ UNCHANGED <<stage, backup, job, existed>>

Unlink(o) ==
  /\ pc[o] = "unlink"
  /\ \/ /\ Works(TRUE)
        /\ stage' = [stage EXCEPT ![o] = Absent]
     \/ /\ Errs(TRUE)
        /\ UNCHANGED stage
  /\ Goto(o, "ok")
  /\ UNCHANGED <<files, backup, job, existed>>

\* create_dir_all: an existing directory will do, an existing file will not.
Mkdir(o) ==
  LET d == job[o].dst
      can == files[d] # Absent => files[d].dir
  IN
  /\ pc[o] = "mkdir"
  /\ \/ /\ Works(can)
        /\ files' = IF files[d] # Absent THEN files
                    ELSE [files EXCEPT ![d] = [data |-> o, dir |-> TRUE, whole |-> TRUE]]
        /\ Goto(o, "ok")
     \/ /\ Errs(can)
        /\ Goto(o, "failed")
        /\ UNCHANGED files
  /\ UNCHANGED <<stage, backup, job, existed>>

-----------------------------------------------------------------------------
(***************************************************************************)
(* The history variables.  An operation may destroy what stands at its     *)
(* destination while it runs, if it was asked to overwrite; a remove, what *)
(* stands at its target.  A move across devices removes what it finds at   *)
(* its source at the end: it may be something put there since, or a        *)
(* directory that changed while it was copied, but never what it copied.   *)
(***************************************************************************)

DataAt(f, p) == IF f[p] = Absent THEN {} ELSE {f[p].data}

WholeData(f) == {f[p].data : p \in {q \in DOMAIN f : f[q] # Absent /\ f[q].whole}}

Entitled(j, at, f, copy) ==
  (IF j.overwrite        THEN DataAt(f, j.dst) ELSE {}) \cup
  (IF j.kind = "remove"  THEN DataAt(f, j.src) ELSE {}) \cup
  (IF j.kind = "xmove" /\ at \in {"erase", "erasing"} THEN DataAt(f, j.src) \ {copy} ELSE {})

\* The operation has set an entry aside, and something stands in its place.
Occupied(j, at, f, aside) ==
  /\ at \in {"moveIn", "promote", "unbackup", "restore", "caseIn", "caseUndo"}
  /\ aside # Absent /\ f[j.dst] # Absent

Record ==
  /\ known'  = known \cup WholeData(files')
  /\ copied' = [o \in Ops |-> CASE stage'[o] = Absent -> copied[o]
                               [] stage'[o] # Absent /\ stage'[o].whole  -> stage'[o].data
                               [] stage'[o] # Absent /\ ~stage'[o].whole -> Absent]
  /\ claims' = [o \in Ops |->
                 claims[o] \cup (IF pc'[o] \in Working
                                 THEN Entitled(job'[o], pc'[o], files', copied'[o]) ELSE {})]
  /\ taken'  = taken \cup {o \in Ops : Occupied(job'[o], pc'[o], files', backup'[o])}

Step(o) ==
  \/ Begin(o)
  \/ ProbeSrc(o) \/ ProbeDst(o) \/ XProbe(o) \/ Rename(o)
  \/ CaseOut(o) \/ CaseIn(o) \/ CaseUndo(o)
  \/ Backup(o) \/ MoveIn(o) \/ Unbackup(o) \/ Restore(o) \/ DropBackup(o)
  \/ Fill(o) \/ Filling(o) \/ Promote(o) \/ Discard(o)
  \/ Erase(o) \/ Erasing(o)
  \/ Check(o) \/ Create(o) \/ Receive(o) \/ Link(o) \/ Unlink(o)
  \/ Mkdir(o)
  \/ Cancel(o)

Init ==
  /\ \E shape \in [Paths -> {"file", "dir", "none"}] :
       files = [p \in Paths |->
                 IF shape[p] = "none" THEN Absent
                 ELSE [data |-> p, dir |-> shape[p] = "dir", whole |-> TRUE]]
  /\ stage   = [o \in Ops |-> Absent]
  /\ backup  = [o \in Ops |-> Absent]
  /\ job     = [o \in Ops |-> Absent]
  /\ pc      = [o \in Ops |-> "idle"]
  /\ existed = [o \in Ops |-> FALSE]
  /\ faults  = 0
  /\ known   = WholeData(files)
  /\ copied  = [o \in Ops |-> Absent]
  /\ claims  = [o \in Ops |-> {}]
  /\ taken   = {}

Next == \E o \in Ops : Step(o) /\ Record

Spec == Init /\ [][Next]_vars

-----------------------------------------------------------------------------
(***************************************************************************)
(* Properties.                                                             *)
(***************************************************************************)

Stored == WholeData(files) \cup WholeData(backup)

\* Data once visible and complete stays on disk, under a visible name or in a
\* backup, until an operation that was asked to replace or remove it takes
\* it.  An operation that reports an error has taken nothing, two kinds
\* excepted: a remove may have emptied part of a directory, and the case-only
\* move undoes itself with a plain rename.  This is what the RENAME_NOREPLACE
\* / backup / restore sequences of ops.rs, rename_safe and upload_handler are
\* for, whatever other requests do meanwhile.
MayFailDestroying(j) == j.kind = "remove" \/ (j.kind = "move" /\ j.src = j.dst)

NoLoss ==
  \A c \in known :
    \/ c \in Stored
    \/ \E o \in Ops : /\ c \in claims[o]
                      /\ pc[o] = "failed" => MayFailDestroying(job[o])

\* A file that is visible is complete: uploads and copies are published only
\* by a rename or link of a finished stage, whichever step a crash cuts off.
VisibleFilesWhole ==
  \A p \in Paths : files[p] # Absent /\ ~files[p].dir => files[p].whole

\* A failed operation gives back what it set aside, also when it failed because
\* another request took its source away.  It is left under the hidden name only
\* when a call failed for an outside reason, or when another request had put
\* something else in its place in the meantime.
DestinationGivenBack ==
  \A o \in Ops :
    pc[o] = "failed" /\ backup[o] # Absent => faults > 0 \/ o \in taken
=============================================================================
