-------------------------- MODULE MCTransferAlone ---------------------------
EXTENDS TransferAlone

MCAllJobs ==
  {j \in Job :
     /\ j.kind \in Kinds
     /\ j.kind \in {"upload", "remove", "mkdir"} => j.src = j.dst
     /\ j.kind = "copy" => j.src # j.dst
     /\ j.kind \in {"remove", "mkdir"} => ~j.overwrite
     /\ j.kind = "rename" => Device[j.src] = Device[j.dst]}

\* Two names on one device and one on another.
MCDevices == [p \in Paths |-> p = CHOOSE q \in Paths : TRUE]
=============================================================================
