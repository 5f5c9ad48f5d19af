------------------------------ MODULE WaitForGraph -----------------------------
(***************************************************************************)
(* The cycle search of the deadlock monitor: the depth-first walk over the *)
(* wait-for graph and the choice of the transaction that gives way.        *)
(*                                                                         *)
(* A graph is a function from transactions to the set of transactions each *)
(* one waits for.  Transactions are numbers: the walk takes successors in  *)
(* increasing order, and the youngest transaction is the largest number.   *)
(***************************************************************************)
EXTENDS Naturals, Integers, Sequences, FiniteSets, LockModes

CONSTANT Txn           \* transaction identifiers

ASSUME TxnAssumption == Txn \subseteq Nat

\* The successors of a transaction, sorted, without duplicates.
Sorted(S) ==
  [ i \in 1..Cardinality(S) |->
      CHOOSE x \in S : Cardinality({ y \in S : y < x }) = i - 1 ]

\* The state of the walk: the path it is on, how many successors of each node
\* of the path it has looked at, and the nodes it has left for good.
Walks == [path : Seq(Txn), next : Seq(Nat), closed : SUBSET Txn]

Position(path, t) == CHOOSE i \in DOMAIN path : path[i] = t

\* The walk from one of its states to its end: the cycle it closes, or the
\* empty sequence when the path runs empty.
CycleOfWalk(graph) ==
  LET walk[w \in Walks] ==
        IF w.path = <<>> THEN <<>>
        ELSE LET depth == Len(w.path)
                 node  == w.path[depth]
                 index == w.next[depth]
                 successors == Sorted(graph[node])
             IN  IF index < Len(successors)
                 THEN LET s == successors[index + 1]
                          looked == [w.next EXCEPT ![depth] = @ + 1]
                      IN  IF \E i \in 1..depth : w.path[i] = s
                          THEN SubSeq(w.path, Position(w.path, s), depth)
                          ELSE IF s \in w.closed
                          THEN walk[[w EXCEPT !.next = looked]]
                          ELSE walk[[path |-> Append(w.path, s),
                                     next |-> Append(looked, 0),
                                     closed |-> w.closed]]
                 ELSE walk[[path |-> SubSeq(w.path, 1, depth - 1),
                            next |-> SubSeq(w.next, 1, depth - 1),
                            closed |-> w.closed \cup {node}]]
  IN  walk

CycleFrom(graph, start) ==
  CycleOfWalk(graph)[[path |-> <<start>>, next |-> <<0>>, closed |-> {}]]

\* The order the members of a cycle are ranked in: the lowest priority, then
\* the fewest write locks, then the youngest.
GivesWayBefore(priority, writes, t, u) ==
  \/ priority[t] < priority[u]
  \/ /\ priority[t] = priority[u]
     /\ \/ writes[t] < writes[u]
        \/ writes[t] = writes[u] /\ t > u

\* The member of a cycle that gives way.
VictimYoungest(cycle, priority, writes) ==  \* variant: the priorities are ignored
  CHOOSE t \in { cycle[i] : i \in DOMAIN cycle } :
    \A u \in { cycle[i] : i \in DOMAIN cycle } : t >= u

Victim(cycle, priority, writes) ==
  CHOOSE t \in { cycle[i] : i \in DOMAIN cycle } :
    \A u \in { cycle[i] : i \in DOMAIN cycle } :
      u = t \/ GivesWayBefore(priority, writes, t, u)

\* Whether the thread of t is told to give way: only the victim of the cycle
\* its own walk meets is.
DetectTied(graph, priority, writes, t) ==  \* variant: the age does not part equal members
  LET cycle == CycleFrom(graph, t)
  IN  /\ \E i \in DOMAIN cycle : cycle[i] = t
      /\ \A i \in DOMAIN cycle : \/ priority[t] < priority[cycle[i]]
                                \/ /\ priority[t] = priority[cycle[i]]
                                   /\ writes[t] <= writes[cycle[i]]

Detect(graph, priority, writes, t) ==
  LET cycle == CycleFrom(graph, t)
  IN  /\ cycle # <<>>
      /\ Victim(cycle, priority, writes) = t
================================================================================
