--------------------------- MODULE MCGroupCommit ---------------------------
(* GroupCommit for TLC: the threads are interchangeable. *)
EXTENDS GroupCommit, TLC

ThreadSymmetry == Permutations(Txn)
=============================================================================
