---------------------------- MODULE MCWorkerLoop ----------------------------
(* Instances of WorkerLoop for TLC. *)
EXTENDS WorkerLoop, TLC

CONSTANTS j1, j2, j3, t1, t2, c1, c2

OneType    == [j \in Jobs |-> t1]
TwoTypes   == [j \in Jobs |-> IF j = j1 THEN t1 ELSE t2]
OneTenant  == [j \in Jobs |-> c1]
PodSymmetry == Permutations(Pods)
=============================================================================
