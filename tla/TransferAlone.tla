--------------------------- MODULE TransferAlone ----------------------------
(***************************************************************************)
(* One request at a time: a Transfer with a single operation implements    *)
(* AtomicTransfer.  Data that is set aside counts as still in its place.   *)
(***************************************************************************)
EXTENDS Transfer

SetAside(p) == {o \in Ops : backup[o] # Absent /\ job[o].dst = p}

LogicalTree ==
  [p \in Paths |-> IF files[p] = Absent /\ SetAside(p) # {}
                     THEN backup[CHOOSE o \in SetAside(p) : TRUE]
                     ELSE files[p]]

Asked(o) == IF job[o] # Absent /\ job[o].kind = "xmove"
              THEN [job[o] EXCEPT !.kind = "move"] ELSE job[o]

StateOf(o) ==
  CASE pc[o] \in {"idle"} \cup Ended             -> pc[o]
    [] pc[o] \in {"dropBackup", "unlink"}        -> "applied"
    [] pc[o] = "erase" /\ job[o].kind = "xmove"  -> "applied"
    [] pc[o] = "erasing"                         -> "emptying"
    [] OTHER                                     -> "running"

Atomic == INSTANCE AtomicTransfer
            WITH tree  <- LogicalTree,
                 job   <- [o \in Ops |-> Asked(o)],
                 state <- [o \in Ops |-> StateOf(o)]

\* An operation that nothing interferes with is all or nothing, whichever
\* system calls fail and wherever the request is dropped: the staging,
\* backup and restore steps of copy_path_safe, move_path_safe,
\* move_cross_device_safe, rename_safe and upload_handler add up to one step.
AllOrNothing == Atomic!Spec

\* The operation fails without any call failing for an outside reason: an
\* upload finds a directory in its place.  The move that finds out late that
\* it crosses devices takes its backup back although nothing failed.
HasOneUnforcedFailure(o) ==
  \/ job[o].kind = "upload" /\ files[job[o].dst] # Absent /\ files[job[o].dst].dir
  \/ job[o].kind = "move" /\ ~SameDevice(o)

\* After an error with a single cause nothing is left over: the destination
\* is visible again and the staging entry is gone.  It takes a second failure,
\* of the cleanup itself, to leave a hidden .rulist-* entry behind.
CleanFailure ==
  \A o \in Ops :
    /\ pc[o] = "failed"
    /\ faults <= IF HasOneUnforcedFailure(o) THEN 0 ELSE 1
    => backup[o] = Absent /\ stage[o] = Absent
=============================================================================
