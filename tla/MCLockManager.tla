----------------------------- MODULE MCLockManager -----------------------------
(***************************************************************************)
(* Instances of the lock manager for TLC.                                  *)
(***************************************************************************)
EXTENDS LockManager, TLC

ResourceSymmetry == Permutations(Resource)

\* The modes of one table: two that do not compare, so that a conversion joins
\* on X, and the one that protects its definition.
TableModes == {"S", "IX", "SchM"}

\* A priority below the least one kept.
LowPriority == {-20}
================================================================================
