---------------------------- MODULE UploadQueue ----------------------------
(***************************************************************************)
(* Uploads in the web client: files dropped on the page or picked in the   *)
(* upload dialog, the files that wait for a dialog that is being loaded,   *)
(* the pool of a few uploads at a time, retries, and a dialog that can be  *)
(* closed while its uploads go on.  The server's part is in Transfer.      *)
(*                                                                         *)
(* A batch is one call of handleAddFiles.  Between two events of the       *)
(* browser its pool is as full as it can be: asyncPool starts uploads      *)
(* without an await until it has PoolLimit of them or no more files.       *)
(***************************************************************************)
EXTENDS Integers, FiniteSets, SequencesExt

CONSTANTS
  MaxFiles,    \* bound: files the user chooses
  Dirs,        \* directories
  StartDir,    \* bound: the one the page is opened on; all are alike
  PoolLimit,   \* poolLimit: uploads of one batch at a time
  MaxMoves,    \* bound: navigations
  MaxRetries   \* bound: retries of a file

ASSUME QueueAssumption ==
  /\ PoolLimit \in Nat \ {0} /\ StartDir \in Dirs
  /\ MaxFiles \in Nat /\ MaxMoves \in Nat /\ MaxRetries \in Nat

VARIABLES
  pathname,   \* the directory the address bar shows
  dialog,     \* "closed", "loading" (its code is being fetched) or "open"
  uploading,  \* the dialog shows its uploads, not its inputs
  listed,     \* the files in the open dialog's list; fileMap still has them
  extracting, \* the drops whose directories are being read: their files, whether
              \* they were dropped in the dialog, and where that was closed since
  waiting,    \* pendingFiles
  batches,    \* the calls of handleAddFiles
  status,     \* status[f] of the upload
  dir,        \* dir[f]: the directory f was last sent to
  pool,       \* pool[f]: f is sent by its batch, not by a retry
  moves,      \* how many navigations there have been
  retries,    \* retries[f] of f
  chosen,     \* how many files the user has chosen
  sent        \* history: sent[f], how often f has been sent

queueVars == <<pathname, dialog, uploading, listed, extracting, waiting, batches,
               status, dir, pool, moves, retries, chosen, sent>>

\* A file is called by when it was chosen.
Files == 1 .. MaxFiles

None == "none"
Ended(f)    == status[f] \in {"success", "error"}
InFlight(f) == status[f] = "uploading"
Active      == dialog = "open"   \* uploadListenerActive

\* A batch: its files, how many have been started, its refresh, and where its
\* dialog was closed, from when on its pathname() keeps that value.
Batch(files, n) == [files |-> files, started |-> n, closedAt |-> None, refreshed |-> FALSE]

Base(b)     == IF b.closedAt = None THEN pathname ELSE b.closedAt

Started(b)  == {b.files[i] : i \in 1 .. b.started}
Running(b, st) == {f \in Started(b) : pool[f] /\ st[f] = "uploading"}
Fewest(m, n) == IF m < n THEN m ELSE n

\* Mutants: > for >=, and a loop that ends with its dialog.
RoomForOneMore(b, st) ==
  Fewest(PoolLimit + 1 - Cardinality(Running(b, st)), Len(b.files) - b.started)
RoomWhileOpen(b, st) ==
  IF b.closedAt # None THEN 0
  ELSE Fewest(PoolLimit - Cardinality(Running(b, st)), Len(b.files) - b.started)

\* How many uploads the batch starts before it next awaits one.
Room(b, st) == Fewest(PoolLimit - Cardinality(Running(b, st)), Len(b.files) - b.started)

-----------------------------------------------------------------------------
(***************************************************************************)
(* handleFile, begun for the files fs below the directory base.            *)
(***************************************************************************)
Send(fs, base, st, inPool) ==
  /\ status' = [f \in Files |-> IF f \in fs THEN "uploading" ELSE st[f]]
  /\ dir'    = [f \in Files |-> IF f \in fs THEN base ELSE dir[f]]
  /\ sent'   = [f \in Files |-> IF f \in fs THEN sent[f] + 1 ELSE sent[f]]
  /\ pool'   = [f \in Files |-> IF f \in fs THEN inPool ELSE pool[f]]

\* handleAddFiles up to its first await, in the open dialog or in one that was
\* closed at the directory closedAt; st are the files' states.
AddFiles(files, closedAt, st) ==
  LET b == [Batch(files, 0) EXCEPT !.closedAt = closedAt]
      n == Room(b, st)
  IN  /\ IF closedAt = None
         THEN uploading' = TRUE /\ listed' = listed \cup Range(files)
         ELSE UNCHANGED <<uploading, listed>>
      /\ batches' = Append(batches, [b EXCEPT !.started = n])
      /\ Send({files[i] : i \in 1 .. n}, Base(b),
              [f \in Files |-> IF f \in Range(files) THEN "pending" ELSE st[f]], TRUE)

\* enqueueFilesForUpload: to the open dialog, or to the one that will open.
EnqueueFiles(files, st) ==
  IF Active
  THEN /\ AddFiles(files, None, st)
       /\ UNCHANGED <<waiting, dialog>>
  ELSE /\ waiting' = waiting \o files
       /\ dialog' = "loading"
       /\ status' = st
       /\ UNCHANGED <<uploading, listed, batches, dir, pool, sent>>

\* Files and directories that are dropped have to be read first.
DropFiles(files, inDialog) ==
  /\ extracting' = extracting \cup
                     {[files |-> files, inDialog |-> inDialog, closedAt |-> None]}
  /\ chosen' = chosen + Len(files)
  /\ UNCHANGED <<pathname, dialog, uploading, listed, waiting, batches, status,
                 dir, pool, moves, retries, sent>>

\* The page takes a drop if no dialog covers it; the upload dialog has a field
\* for it beside its inputs.
DropOnPage(files) == dialog = "closed" /\ DropFiles(files, FALSE)

DropInDialog(files) == dialog = "open" /\ ~uploading /\ DropFiles(files, TRUE)

\* traverseFileTree fails for directories that cannot be read themselves, whose
\* files extractFilesFromDataTransfer leaves out: what may be read of a
\* drop, in its order.
InOrder(files) ==
  {s \in UNION {[1 .. n -> Range(files)] : n \in 0 .. Len(files)} :
     \A i, j \in DOMAIN s : i < j => s[i] < s[j]}

\* A drop has been read, but for the files left out; drops are read side by side.
Extracted(drop, files) ==
  LET left == Range(drop.files) \ Range(files)
      st   == [f \in Files |-> IF f \in left THEN "unread" ELSE status[f]]
  IN  /\ extracting' = extracting \ {drop}
      /\ \/ /\ files = <<>> /\ status' = st
            /\ UNCHANGED <<dialog, waiting, uploading, listed, batches, dir, pool, sent>>
         \/ /\ files # <<>> /\ drop.inDialog
            /\ AddFiles(files, drop.closedAt, st) /\ UNCHANGED <<dialog, waiting>>
         \/ /\ files # <<>> /\ ~drop.inDialog
            /\ EnqueueFiles(files, st)
      /\ UNCHANGED <<pathname, moves, retries, chosen>>

\* Files from the header's menu, which are enqueued, or from the dialog's.
PickInMenu(files) ==
  /\ dialog = "closed"
  /\ EnqueueFiles(files, status)
  /\ chosen' = chosen + Len(files)
  /\ UNCHANGED <<pathname, extracting, moves, retries>>

Pick(files) ==
  /\ dialog = "open" /\ ~uploading
  /\ AddFiles(files, None, status)
  /\ chosen' = chosen + Len(files)
  /\ UNCHANGED <<pathname, dialog, extracting, waiting, moves, retries>>

Open ==
  /\ dialog = "closed"
  /\ dialog' = "loading"
  /\ UNCHANGED <<pathname, uploading, listed, extracting, waiting, batches,
                 status, dir, pool, moves, retries, chosen, sent>>

\* takePendingFiles: what is left of the files that wait.  Mutant: all of them.
KeepPending(w) == w

TakePending(w) == <<>>

\* onMount: the dialog listens, and takes the files that wait.
Mount ==
  /\ dialog = "loading"
  /\ dialog' = "open"
  /\ waiting' = TakePending(waiting)
  /\ IF waiting # <<>> THEN AddFiles(waiting, None, status)
                       ELSE UNCHANGED <<uploading, listed, batches, status, dir, pool, sent>>
  /\ UNCHANGED <<pathname, extracting, moves, retries, chosen>>

\* What is left of the dialog when it is closed keeps its directory.
LeftAt(x) == IF x.closedAt = None THEN [x EXCEPT !.closedAt = pathname] ELSE x

\* The dialog is closed: its list goes, its uploads go on.
Close ==
  /\ dialog # "closed"
  /\ dialog' = "closed" /\ uploading' = FALSE /\ listed' = {}
  /\ batches' = [i \in DOMAIN batches |-> LeftAt(batches[i])]
  /\ extracting' = {IF d.inDialog THEN LeftAt(d) ELSE d : d \in extracting}
  /\ UNCHANGED <<pathname, waiting, status, dir, pool, moves,
                 retries, chosen, sent>>

Navigate(p) ==
  /\ p # pathname /\ moves < MaxMoves
  /\ pathname' = p /\ moves' = moves + 1
  /\ UNCHANGED <<dialog, uploading, listed, extracting, waiting, batches,
                 status, dir, pool, retries, chosen, sent>>

ClearCompleted ==
  /\ dialog = "open" /\ uploading
  /\ listed' = {f \in listed : ~Ended(f)}
  /\ listed' # listed
  /\ UNCHANGED <<pathname, dialog, uploading, extracting, waiting, batches,
                 status, dir, pool, moves, retries, chosen, sent>>

BackToUpload ==
  /\ dialog = "open" /\ uploading
  /\ \A f \in listed : Ended(f)
  /\ uploading' = FALSE
  /\ UNCHANGED <<pathname, dialog, listed, extracting, waiting, batches,
                 status, dir, pool, moves, retries, chosen, sent>>

\* retryFile: beside the pool, and below the directory shown now.
Retry(f) ==
  /\ dialog = "open" /\ uploading
  /\ f \in listed /\ status[f] = "error"
  /\ retries[f] < MaxRetries
  /\ retries' = [retries EXCEPT ![f] = @ + 1]
  /\ Send({f}, pathname, status, FALSE)
  /\ UNCHANGED <<pathname, dialog, uploading, listed, extracting, waiting,
                 batches, moves, chosen>>

-----------------------------------------------------------------------------
(***************************************************************************)
(* What the browser and the server report.                                 *)
(***************************************************************************)

\* The batch's loop after a race: it starts what there is room for, and when
\* all has ended it refreshes the listing.
Resume(b, st) ==
  [b EXCEPT !.started   = @ + Room(b, st),
            !.refreshed = (b.started = Len(b.files) /\ Running(b, st) = {})]

Following(b, st) == {b.files[i] : i \in b.started + 1 .. b.started + Room(b, st)}

Finish(f, outcome) ==
  LET st == [status EXCEPT ![f] = outcome] IN
  /\ InFlight(f)
  /\ IF pool[f]
     THEN \E i \in DOMAIN batches :
            /\ f \in Started(batches[i])
            /\ batches' = [batches EXCEPT ![i] = Resume(@, st)]
            /\ Send(Following(batches[i], st), Base(batches[i]), st, TRUE)
     ELSE /\ status' = st
          /\ UNCHANGED <<batches, dir, pool, sent>>
  /\ UNCHANGED <<pathname, dialog, uploading, listed, extracting, waiting,
                 moves, retries, chosen>>

QueueInit ==
  /\ pathname = StartDir
  /\ dialog = "closed" /\ uploading = FALSE /\ listed = {}
  /\ extracting = {} /\ waiting = <<>> /\ batches = <<>>
  /\ status = [f \in Files |-> None] /\ dir = [f \in Files |-> None]
  /\ pool = [f \in Files |-> FALSE]
  /\ moves = 0 /\ retries = [f \in Files |-> 0]
  /\ chosen = 0 /\ sent = [f \in Files |-> 0]

\* What the user may choose next.
Lists == {[i \in 1 .. n |-> chosen + i] : n \in 1 .. MaxFiles - chosen}

User == \/ \E files \in Lists :
             DropOnPage(files) \/ DropInDialog(files) \/ PickInMenu(files) \/ Pick(files)
        \/ Open \/ Close \/ ClearCompleted \/ BackToUpload
        \/ \E p \in Dirs : Navigate(p)
        \/ \E f \in Files : Retry(f)

QueueNext ==
  \/ User
  \/ \E drop \in extracting : \E files \in InOrder(drop.files) : Extracted(drop, files)
  \/ Mount
  \/ \E f \in Files : Finish(f, "success") \/ Finish(f, "error")

\* Every request ends, well or badly, and the dialog's code loads.  A drop may
\* never be read: traverseFileTree waits for ever for a directory with an entry
\* that fails to be read.
Fairness ==
  /\ WF_queueVars(Mount)
  /\ \A f \in Files : WF_queueVars(Finish(f, "success") \/ Finish(f, "error"))

QueueSpec == QueueInit /\ [][QueueNext]_queueVars /\ Fairness

-----------------------------------------------------------------------------
(***************************************************************************)
(* Properties.                                                             *)
(***************************************************************************)

(***************************************************************************)
(* The types of the variables.                                             *)
(***************************************************************************)
QueueTypeOK ==
  /\ pathname \in Dirs
  /\ dialog \in {"closed", "loading", "open"} /\ uploading \in BOOLEAN
  /\ listed \subseteq Files
  /\ \A d \in extracting : d.files \in Seq(Files)
  /\ waiting \in Seq(Files)
  /\ \A i \in DOMAIN batches :
       LET b == batches[i] IN
       /\ b.files \in Seq(Files) /\ b.started \in 0 .. Len(b.files)
       /\ b.closedAt \in Dirs \cup {None} /\ b.refreshed \in BOOLEAN
  /\ status \in [Files -> {None, "unread", "pending", "uploading", "success", "error"}]
  /\ dir \in [Files -> Dirs \cup {None}] /\ chosen \in 0 .. MaxFiles
  /\ \A f \in Files : dir[f] = None <=> sent[f] = 0
  /\ pool \in [Files -> BOOLEAN]
  /\ moves \in 0 .. MaxMoves /\ retries \in [Files -> 0 .. MaxRetries]
  /\ sent \in [Files -> 0 .. 1 + MaxRetries]

Places(f) ==
  {<<"extracting", d>> : d \in {x \in extracting : f \in Range(x.files)}}
    \cup {<<"waiting", i>> : i \in {x \in DOMAIN waiting : waiting[x] = f}}
    \cup {<<"batches", i>> :
            i \in {x \in DOMAIN batches : f \in Range(batches[x].files)}}

(***************************************************************************)
(* A file the user chose is in one place - being read, waiting for the     *)
(* dialog, or in one batch - whatever the dialog does meanwhile: unless it *)
(* could not be read it is neither forgotten nor uploaded twice.  Only a   *)
(* retry sends it again.                                                   *)
(***************************************************************************)
InOnePlace ==
  \A f \in 1 .. chosen :
    /\ IF status[f] = "unread" THEN Places(f) = {}
                               ELSE \E p \in Places(f) : Places(f) = {p}
    /\ sent[f] \in {0, 1 + retries[f]}

(***************************************************************************)
(* The pool: a batch never has more than PoolLimit uploads under way, does *)
(* not idle while it has files that have not been started, and refreshes   *)
(* the listing when the last has ended and not before, be its dialog open  *)
(* or closed.  Retries run beside it, take no room of it, and are followed *)
(* by no refresh.                                                          *)
(***************************************************************************)
PoolIsFull ==
  \A i \in DOMAIN batches :
    LET b == batches[i]  running == Cardinality(Running(b, status)) IN
    /\ running <= PoolLimit
    /\ b.started < Len(b.files) => running = PoolLimit
    /\ b.refreshed <=> running = 0

(***************************************************************************)
(* Every file of a batch is brought to its end, though the user closes the *)
(* dialog, navigates, retries and drops more files.                        *)
(***************************************************************************)
EveryFileEnds == \A f \in Files : (status[f] = "pending") ~> Ended(f)
=============================================================================
