---------------------------- MODULE MCTaskEngine ----------------------------
(* Instances of TaskEngine for TLC: the client nodes are interchangeable.  *)
EXTENDS TaskEngine, TLC

TaskSymmetry == Permutations(Tasks)
=============================================================================
