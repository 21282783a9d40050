----------------------------- MODULE MCTransfer -----------------------------
EXTENDS Transfer, TLC

MCAllJobs ==
  {j \in Job :
     /\ j.kind \in Kinds
     /\ j.kind \in {"upload", "remove", "mkdir"} => j.src = j.dst
     /\ j.kind = "copy" => j.src # j.dst
     /\ j.kind \in {"remove", "mkdir"} => ~j.overwrite}

MCCrossJobs == {j \in MCAllJobs : j.kind = "rename" => Device[j.src] = Device[j.dst]}

MCTwoDevices == [p \in Paths |-> p = CHOOSE q \in Paths : TRUE]
MCSymmetry == Permutations(Ops)
=============================================================================
