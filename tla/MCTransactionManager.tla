------------------------ MODULE MCTransactionManager ------------------------
(* TransactionManager for TLC.  Transactions and rows are numbers, in the     *)
(* order they begin and are inserted; columns are strings.                   *)
EXTENDS TransactionManager

OneColumn == {"a"}
TwoColumns == {"a", "b"}
ReadCommittedOnly == {"ReadCommitted"}
SnapshotOnly == {"Snapshot"}
Updates == {"Update"}
UpdatesAndDeletes == {"Update", "Delete"}
AllKinds == {"Update", "Delete", "Insert"}
OneEach == [t \in Txns |-> 1]
TwoThenOne == [t \in Txns |-> IF t = 1 THEN 2 ELSE 1]
=============================================================================
