--------------------------- MODULE AtomicTransfer ---------------------------
(***************************************************************************)
(* What a file operation promises: wherever it ends - with success, with   *)
(* an error, or because its request was dropped or the process died - it   *)
(* has had its whole effect on the name space or none.  Two operations     *)
(* promise less.  A move across devices takes effect in two steps, the     *)
(* copy and then the removal of the source; and the removal of a directory *)
(* may stop when part of it is gone.                                       *)
(***************************************************************************)
CONSTANTS Paths, Ops, Jobs, Device, Absent

VARIABLES
  tree,   \* what each name holds, counting what is set aside as still there
  job,    \* per operation: what it was asked to do
  state   \* per operation: idle, running, applied, emptying, or how it ended

vars == <<tree, job, state>>

Init ==
  /\ tree  \in [Paths -> {Absent} \cup
                  [data : Paths, dir : BOOLEAN, whole : {TRUE}]]
  /\ job   = [o \in Ops |-> Absent]
  /\ state = [o \in Ops |-> "idle"]

To(o, label) == state' = [state EXCEPT ![o] = label]

Begin(o) ==
  /\ state[o] = "idle"
  /\ \E j \in Jobs : job' = [job EXCEPT ![o] = j]
  /\ To(o, "running")
  /\ UNCHANGED tree

Vacant(j) == tree[j.dst] = Absent \/ j.overwrite

\* The possible outcomes of a successful operation.
Moved(j) ==
  /\ j.kind \in {"rename", "move"}
  /\ tree[j.src] # Absent
  /\ \/ /\ j.src = j.dst
        /\ UNCHANGED tree
     \/ /\ j.src # j.dst /\ Vacant(j)
        /\ Device[j.src] = Device[j.dst]
        /\ tree' = [tree EXCEPT ![j.dst] = tree[j.src], ![j.src] = Absent]

Copied(j) ==
  /\ \/ j.kind = "copy"
     \/ j.kind = "move" /\ Device[j.src] # Device[j.dst]
  /\ tree[j.src] # Absent /\ Vacant(j)
  /\ tree' = [tree EXCEPT ![j.dst] = tree[j.src]]

Stored(o, j) ==
  /\ j.kind = "upload" /\ Vacant(j)
  /\ tree' = [tree EXCEPT ![j.dst] = [data |-> o, dir |-> FALSE, whole |-> TRUE]]

Made(o, j) ==
  /\ j.kind = "mkdir"
  /\ IF tree[j.dst] = Absent
       THEN tree' = [tree EXCEPT ![j.dst] = [data |-> o, dir |-> TRUE, whole |-> TRUE]]
       ELSE tree[j.dst].dir /\ UNCHANGED tree

Crosses(j) == j.kind = "move" /\ Device[j.src] # Device[j.dst]

Apply(o) ==
  /\ state[o] = "running"
  /\ Moved(job[o]) \/ Copied(job[o]) \/ Stored(o, job[o]) \/ Made(o, job[o])
  /\ \E next \in {"applied"} \cup (IF Crosses(job[o]) THEN {} ELSE {"ok"}) : To(o, next)
  /\ UNCHANGED job

\* A remove from the start, a move across devices after its copy is in place.
MayErase(o) ==
  \/ job[o].kind = "remove" /\ state[o] = "running"
  \/ Crosses(job[o]) /\ state[o] = "applied"

Empty(o) ==
  /\ MayErase(o)
  /\ tree[job[o].src] # Absent /\ tree[job[o].src].dir
  /\ tree' = [tree EXCEPT ![job[o].src].whole = FALSE]
  /\ To(o, "emptying")
  /\ UNCHANGED job

Erase(o) ==
  /\ MayErase(o) \/ state[o] = "emptying"
  /\ tree' = [tree EXCEPT ![job[o].src] = Absent]
  /\ \E next \in {"ok", "applied"} : To(o, next)
  /\ UNCHANGED job

Return(o) == state[o] = "applied" /\ To(o, "ok") /\ UNCHANGED <<tree, job>>

Fail(o) ==
  /\ \/ state[o] = "running"                             /\ To(o, "failed")
     \/ state[o] = "emptying" /\ job[o].kind = "remove"  /\ To(o, "failed")
     \/ state[o] \in {"applied", "emptying"} /\ Crosses(job[o]) /\ To(o, "copied")
  /\ UNCHANGED <<tree, job>>

Cancel(o) ==
  /\ state[o] \in {"running", "applied", "emptying"}
  /\ To(o, "cancelled")
  /\ UNCHANGED <<tree, job>>

Next == \E o \in Ops : \/ Begin(o) \/ Apply(o) \/ Empty(o) \/ Erase(o)
                       \/ Return(o) \/ Fail(o) \/ Cancel(o)

Spec == Init /\ [][Next]_vars
=============================================================================
