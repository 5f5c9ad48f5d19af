------------------------------- MODULE LockModes -------------------------------
(***************************************************************************)
(* The seven lock modes of the transaction layer and the relations the     *)
(* lock manager decides with: the strength order inside a family, the      *)
(* weakest mode that covers two others, and the compatibility matrix.      *)
(***************************************************************************)

\* The modes that protect rows and the data of a table, and the modes that
\* protect its definition.  The two families never convert into each other.
DataMode   == {"IS", "S", "U", "IX", "X"}
SchemaMode == {"SchS", "SchM"}
LockMode   == DataMode \cup SchemaMode

IsData(m) == m \in DataMode

SameFamily(m, n) == IsData(m) <=> IsData(n)

\* A mode covers the modes it is at least as strong as, itself included.
Covers(m, n) ==
  \/ m = "IS"   /\ n = "IS"
  \/ m = "S"    /\ n \in {"IS", "S"}
  \/ m = "U"    /\ n \in {"IS", "S", "U"}
  \/ m = "IX"   /\ n \in {"IS", "IX"}
  \/ m = "X"    /\ n \in DataMode
  \/ m = "SchS" /\ n = "SchS"
  \/ m = "SchM" /\ n \in SchemaMode

\* The weakest mode of the family that covers both.  The last branch is the
\* code's own fallback for a pair of two families, which no caller joins.
JoinSIX(m, n) ==  \* variant: a join on a mode the matrix does not have
  IF Covers(m, n) THEN m
  ELSE IF Covers(n, m) THEN n
  ELSE IF IsData(m) /\ IsData(n) THEN "SIX" ELSE "SchM"

Join(m, n) ==
  IF Covers(m, n) THEN m
  ELSE IF Covers(n, m) THEN n
  ELSE IF IsData(m) /\ IsData(n) THEN "X" ELSE "SchM"

\* The pairs of modes two different transactions may hold together.  Sch-M
\* stands alone, Sch-S refuses nothing else, X refuses the data modes, and
\* IX refuses S and U.
CompatiblePairs ==
  LET oneWay == { <<"IS", "IS">>, <<"IS", "S">>, <<"IS", "U">>, <<"IS", "IX">>,
                  <<"S", "S">>, <<"S", "U">>, <<"IX", "IX">> }
                  \cup ({"SchS"} \X (LockMode \ {"SchM"}))
  IN  oneWay \cup { <<p[2], p[1]>> : p \in oneWay }

Compatible(m, n) == <<m, n>> \in CompatiblePairs
================================================================================
