--------------------------- MODULE LockPassProofs ---------------------------
(***************************************************************************)
(* The grant pass of the lock manager over one resource: the candidates it *)
(* honours, the locks they leave held, and the queue that remains.  Then   *)
(* the stages of an operation that a pass has no part in: a lock taken or  *)
(* given back.  Each of them keeps the table coherent.                     *)
(***************************************************************************)
EXTENDS LockManager, WellFoundedInduction, TLAPS

\* The facts about sequences that the proofs rest on: the empty one,
LEMMA EmptyIsSeq ==
  ASSUME NEW S
  PROVE  /\ << >> \in Seq(S)
         /\ Len(<< >>) = 0
         /\ \A seq \in Seq(S) : (seq # << >>) => (Len(seq) \in Nat \ {0})
OBVIOUS

\* the positions of one,
LEMMA SeqIsFunction ==
  ASSUME NEW S, NEW seq \in Seq(S)
  PROVE  /\ Len(seq) \in Nat
         /\ seq \in [1..Len(seq) -> S]
         /\ DOMAIN seq = 1 .. Len(seq)
OBVIOUS

\* its elements,
LEMMA SeqElement ==
  ASSUME NEW S, NEW seq \in Seq(S), NEW n \in 1..Len(seq)
  PROVE  seq[n] \in S
OBVIOUS

\* one element more (VecDeque::push_back),
LEMMA SeqAppended ==
  ASSUME NEW S, NEW seq \in Seq(S), NEW elt \in S
  PROVE  /\ Append(seq, elt) \in Seq(S)
         /\ Append(seq, elt) # << >>
         /\ Len(Append(seq, elt)) = Len(seq)+1
         /\ \A i \in 1.. Len(seq) : Append(seq, elt)[i] = seq[i]
         /\ Append(seq, elt)[Len(seq)+1] = elt
         /\ Append(seq, elt) = seq \o <<elt>>
OBVIOUS

\* two in a row,
LEMMA SeqConcatenated ==
  ASSUME NEW S, NEW s1 \in Seq(S), NEW s2 \in Seq(S)
  PROVE  /\ s1 \o s2 \in Seq(S)
         /\ Len(s1 \o s2) = Len(s1) + Len(s2)
         /\ \A i \in 1 .. Len(s1) + Len(s2) : (s1 \o s2)[i] =
                     IF i <= Len(s1) THEN s1[i] ELSE s2[i - Len(s1)]
OBVIOUS

\* a part of one (VecDeque::drain),
LEMMA SubSeqIs ==
  ASSUME NEW S, NEW s, NEW m \in Int, NEW n \in Int,
         \A i \in m .. n : s[i] \in S
  PROVE  /\ SubSeq(s, m, n) \in Seq(S)
         /\ Len(SubSeq(s, m, n)) = IF m <= n THEN n - m + 1 ELSE 0
         /\ \A i \in 1 .. n - m + 1 : SubSeq(s, m, n)[i] = s[m + i - 1]
OBVIOUS

\* and the part that is all of it.
LEMMA SubSeqWhole ==
  ASSUME NEW S, NEW seq \in Seq(S)
  PROVE  SubSeq(seq, 1, Len(seq)) = seq
OBVIOUS

\* A set of natural numbers that is not empty has a least element.
LEMMA LeastNat ==
  ASSUME NEW S, S \subseteq Nat, S # {}
  PROVE  \E x \in S : \A y \in S : x <= y
<1> DEFINE R == OpToRel(<, Nat)
<1>1. IsWellFoundedOn(R, Nat)
  BY NatLessThanWellFounded, Zenon
<1>2. \A x, y \in Nat : ~(<<y, x>> \in R) => x <= y
  BY DEF OpToRel
<1> HIDE DEF R
<1>3. PICK x \in S : \A y \in S : ~(<<y, x>> \in R)
  BY <1>1, WFMin, Zenon
<1> QED BY <1>2, <1>3, Zenon

--------------------------------------------------------------------------------
(***************************************************************************)
(* The modes.                                                              *)
(***************************************************************************)

\* The compatibility matrix is symmetric.
LEMMA CompatibleSymmetric ==
  ASSUME NEW m \in LockMode, NEW n \in LockMode
  PROVE  Compatible(m, n) <=> Compatible(n, m)
BY DEF Compatible, CompatiblePairs

\* Covering is reflexive, transitive, and stays inside a family.
LEMMA CoversReflexive ==
  ASSUME NEW m \in LockMode
  PROVE  Covers(m, m)
BY DEF Covers, LockMode, DataMode, SchemaMode

LEMMA CoversTransitive ==
  ASSUME NEW m \in LockMode, NEW n \in LockMode, NEW p \in LockMode,
         Covers(m, n), Covers(n, p)
  PROVE  Covers(m, p)
BY DEF Covers, LockMode, DataMode, SchemaMode

LEMMA CoversSameFamily ==
  ASSUME NEW m \in LockMode, NEW n \in LockMode, Covers(m, n)
  PROVE  SameFamily(m, n)
BY DEF Covers, LockMode, DataMode, SchemaMode, SameFamily, IsData

\* Inside a family the join is a mode of that family that covers both.
LEMMA JoinCovers ==
  ASSUME NEW m \in LockMode, NEW n \in LockMode, SameFamily(m, n)
  PROVE  /\ Join(m, n) \in LockMode
         /\ Covers(Join(m, n), m)
         /\ Covers(Join(m, n), n)
         /\ SameFamily(Join(m, n), n)
BY DEF Join, Covers, LockMode, DataMode, SchemaMode, SameFamily, IsData

--------------------------------------------------------------------------------
(***************************************************************************)
(* The grant pass.                                                         *)
(***************************************************************************)

\* The pass has a well-defined length: it stops there and nowhere before.
LEMMA GrantCountProperties ==
  ASSUME NEW H, NEW q \in Seq(Waiter)
  PROVE  /\ GrantCount(H, q) \in 0..Len(q)
         /\ StopsAfter(H, q, GrantCount(H, q))
         /\ \A k \in 0..(GrantCount(H, q) - 1) : ~StopsAfter(H, q, k)
<1> DEFINE stops == { n \in 0..Len(q) : StopsAfter(H, q, n) }
<1>1. Len(q) \in Nat
  BY SeqIsFunction
<1>2. Len(q) \in stops
  BY <1>1 DEF StopsAfter
<1>3. PICK n \in stops : \A k \in stops : n <= k
  <2>1. stops \subseteq Nat /\ stops # {}
    BY <1>1, <1>2
  <2> HIDE DEF stops
  <2> QED BY <2>1, LeastNat, Zenon
<1>4. /\ n \in 0..Len(q)
      /\ StopsAfter(H, q, n)
      /\ \A k \in 0..(n - 1) : ~StopsAfter(H, q, k)
  BY <1>1, <1>3
<1> QED BY <1>4 DEF GrantCount

\* A candidate that leaves the queue in the pass was allowed by the holders as
\* they stood then.
LEMMA GrantedWereAllowed ==
  ASSUME NEW H, NEW q \in Seq(Waiter), NEW i \in 1..GrantCount(H, q)
  PROVE  /\ i \in 1..Len(q)
         /\ HoldersAllow(HoldersAfter(H, q, i - 1), q[i].txn, q[i].mode)
<1>1. Len(q) \in Nat /\ GrantCount(H, q) \in 0..Len(q)
  BY SeqIsFunction, GrantCountProperties
<1>2. i - 1 \in 0..(GrantCount(H, q) - 1)
  BY <1>1
<1>3. ~StopsAfter(H, q, i - 1)
  BY <1>2, GrantCountProperties
<1>4. (i - 1) + 1 = i
  BY <1>1
<1> QED BY <1>1, <1>3, <1>4 DEF StopsAfter

\* Every lock after n grants was held before and not replaced, or is the last
\* grant of its transaction and family.
LEMMA HoldersAfterMember ==
  ASSUME NEW H, NEW q, NEW n, NEW h
  PROVE  h \in HoldersAfter(H, q, n) <=>
           \/ /\ h \in H
              /\ \A j \in 1..n : ~(q[j].txn = h.txn /\ SameFamily(q[j].mode, h.mode))
           \/ \E i \in 1..n :
                /\ h = [txn |-> q[i].txn, mode |-> q[i].mode]
                /\ \A j \in (i + 1)..n :
                     ~(q[j].txn = q[i].txn /\ SameFamily(q[j].mode, q[i].mode))
BY DEF HoldersAfter

LEMMA HoldersAfterType ==
  ASSUME NEW H \in SUBSET Holder, NEW q \in Seq(Waiter), NEW n \in 0..Len(q)
  PROVE  HoldersAfter(H, q, n) \in SUBSET Holder
<1>1. Len(q) \in Nat /\ \A i \in 1..Len(q) : q[i] \in Waiter
  BY SeqIsFunction, SeqElement
<1> SUFFICES ASSUME NEW h \in HoldersAfter(H, q, n)
             PROVE  h \in Holder
  OBVIOUS
<1>2. h \in H \/ \E i \in 1..n : h = [txn |-> q[i].txn, mode |-> q[i].mode]
  BY HoldersAfterMember, SMTT(30)
<1> QED BY <1>1, <1>2 DEF Waiter, Holder

\* Grants of a pass over compatible holders leave compatible holders.
LEMMA GrantPassCompatible ==
  ASSUME NEW H \in SUBSET Holder, NEW q \in Seq(Waiter), NEW n \in 0..GrantCount(H, q),
         \A g, h \in H : g.txn # h.txn => Compatible(g.mode, h.mode)
  PROVE  \A g, h \in HoldersAfter(H, q, n) : g.txn # h.txn => Compatible(g.mode, h.mode)
<1>0. /\ Len(q) \in Nat /\ n \in 0..Len(q)
      /\ \A i \in 1..Len(q) : q[i] \in Waiter
  BY SeqIsFunction, SeqElement, GrantCountProperties
<1>1. ASSUME NEW i \in 1..n, NEW h \in HoldersAfter(H, q, i - 1), h.txn # q[i].txn
      PROVE  Compatible(q[i].mode, h.mode)
  <2>1. i \in 1..GrantCount(H, q)
    BY SeqIsFunction, GrantCountProperties
  <2> QED BY <1>1, <2>1, GrantedWereAllowed DEF HoldersAllow
\* A lock that survives the whole pass was there before any later grant.
<1>2. ASSUME NEW h \in H, NEW i \in 1..n,
             \A j \in 1..n : ~(q[j].txn = h.txn /\ SameFamily(q[j].mode, h.mode))
      PROVE  h \in HoldersAfter(H, q, i - 1)
  BY <1>0, <1>2, HoldersAfterMember
<1>3. ASSUME NEW k \in 1..n, NEW i \in (k + 1)..n,
             \A j \in (k + 1)..n : ~(q[j].txn = q[k].txn /\ SameFamily(q[j].mode, q[k].mode))
      PROVE  [txn |-> q[k].txn, mode |-> q[k].mode] \in HoldersAfter(H, q, i - 1)
  <2>1. k \in 1..(i - 1) /\ \A j \in (k + 1)..(i - 1) : j \in (k + 1)..n
    BY <1>0
  <2> QED BY <1>3, <2>1, HoldersAfterMember
<1> SUFFICES ASSUME NEW g \in HoldersAfter(H, q, n), NEW h \in HoldersAfter(H, q, n),
                    g.txn # h.txn
             PROVE  Compatible(g.mode, h.mode)
  OBVIOUS
<1>4. g \in Holder /\ h \in Holder
  BY <1>0, HoldersAfterType
<1>5. g.mode \in LockMode /\ h.mode \in LockMode
  BY <1>4 DEF Holder
<1> DEFINE old(x) == /\ x \in H
                     /\ \A j \in 1..n : ~(q[j].txn = x.txn /\ SameFamily(q[j].mode, x.mode))
           new(x, i) == /\ x = [txn |-> q[i].txn, mode |-> q[i].mode]
                        /\ \A j \in (i + 1)..n :
                             ~(q[j].txn = q[i].txn /\ SameFamily(q[j].mode, q[i].mode))
<1>6. /\ old(g) \/ \E i \in 1..n : new(g, i)
      /\ old(h) \/ \E i \in 1..n : new(h, i)
  BY HoldersAfterMember
<1>7. CASE old(g) /\ old(h)
  BY <1>7
<1>8. ASSUME old(g), NEW i \in 1..n, new(h, i)
      PROVE  Compatible(g.mode, h.mode)
  <2>1. Compatible(h.mode, g.mode)
    BY <1>1, <1>2, <1>8
  <2> QED BY <2>1, <1>5, CompatibleSymmetric
<1>9. ASSUME old(h), NEW i \in 1..n, new(g, i)
      PROVE  Compatible(g.mode, h.mode)
  BY <1>1, <1>2, <1>9
<1>10. ASSUME NEW i \in 1..n, new(g, i), NEW k \in 1..n, new(h, k), k < i
       PROVE  Compatible(g.mode, h.mode)
  <2>1. i \in (k + 1)..n
    BY <1>0, <1>10
  <2> QED BY <1>1, <1>3, <1>10, <2>1
<1>11. ASSUME NEW i \in 1..n, new(g, i), NEW k \in 1..n, new(h, k), i < k
       PROVE  Compatible(g.mode, h.mode)
  <2>1. k \in (i + 1)..n
    BY <1>0, <1>11
  <2>2. Compatible(h.mode, g.mode)
    BY <1>1, <1>3, <1>11, <2>1
  <2> QED BY <2>2, <1>5, CompatibleSymmetric
<1>12. ASSUME NEW i \in 1..n, new(g, i), new(h, i)
       PROVE  FALSE
  BY <1>12
<1> QED BY <1>0, <1>6, <1>7, <1>8, <1>9, <1>10, <1>11, <1>12

\* Grants of a pass keep one mode per transaction and family.
LEMMA GrantPassOneMode ==
  ASSUME NEW H \in SUBSET Holder, NEW q \in Seq(Waiter), NEW n \in 0..Len(q),
         \A g, h \in H : g.txn = h.txn /\ SameFamily(g.mode, h.mode) => g = h
  PROVE  \A g, h \in HoldersAfter(H, q, n) :
           g.txn = h.txn /\ SameFamily(g.mode, h.mode) => g = h
<1>0. Len(q) \in Nat
  BY SeqIsFunction
<1> SUFFICES ASSUME NEW g \in HoldersAfter(H, q, n), NEW h \in HoldersAfter(H, q, n),
                    g.txn = h.txn, SameFamily(g.mode, h.mode)
             PROVE  g = h
  OBVIOUS
<1>1. SameFamily(h.mode, g.mode)
  BY DEF SameFamily
<1> DEFINE old(x) == /\ x \in H
                     /\ \A j \in 1..n : ~(q[j].txn = x.txn /\ SameFamily(q[j].mode, x.mode))
           new(x, i) == /\ x = [txn |-> q[i].txn, mode |-> q[i].mode]
                        /\ \A j \in (i + 1)..n :
                             ~(q[j].txn = q[i].txn /\ SameFamily(q[j].mode, q[i].mode))
<1>2. /\ old(g) \/ \E i \in 1..n : new(g, i)
      /\ old(h) \/ \E i \in 1..n : new(h, i)
  BY HoldersAfterMember
<1>3. ASSUME NEW i \in 1..n, new(g, i), NEW k \in 1..n, new(h, k)
      PROVE  ~(i < k) /\ ~(k < i)
  BY <1>0, <1>1, <1>3
<1>4. CASE old(g) /\ old(h)
  BY <1>4
<1>5. ASSUME old(g), NEW k \in 1..n, new(h, k)
      PROVE  FALSE
  BY <1>1, <1>5
<1>6. ASSUME old(h), NEW k \in 1..n, new(g, k)
      PROVE  FALSE
  BY <1>6
<1>7. ASSUME NEW i \in 1..n, new(g, i), NEW k \in 1..n, new(h, k)
      PROVE  g = h
  <2>1. i = k
    BY <1>0, <1>3, <1>7, SMTT(30)
  <2> QED BY <1>7, <2>1, SMTT(30)
<1> QED BY <1>2, <1>4, <1>5, <1>6, <1>7

\* The queue that is left once n candidates are honoured.
LEMMA QueueAfterGrants ==
  ASSUME NEW q \in Seq(Waiter), NEW n \in 0..Len(q),
         NEW q2, q2 = SubSeq(q, n + 1, Len(q))
  PROVE  /\ q2 \in Seq(Waiter)
         /\ Len(q2) = Len(q) - n
         /\ \A i \in 1..Len(q2) : n + i \in 1..Len(q) /\ q2[i] = q[n + i]
<1>1. Len(q) \in Nat /\ \A i \in 1..Len(q) : q[i] \in Waiter
  BY SeqIsFunction, SeqElement
<1>2. n + 1 \in Int /\ Len(q) \in Int /\ \A i \in (n + 1)..Len(q) : q[i] \in Waiter
  BY <1>1
<1>3. /\ q2 \in Seq(Waiter)
      /\ Len(q2) = IF n + 1 <= Len(q) THEN Len(q) - (n + 1) + 1 ELSE 0
      /\ \A i \in 1..(Len(q) - (n + 1) + 1) : q2[i] = q[(n + 1) + i - 1]
  BY <1>2, SubSeqIs
<1>4. Len(q2) = Len(q) - n
  BY <1>1, <1>3
<1>5. ASSUME NEW i \in 1..Len(q2)
      PROVE  n + i \in 1..Len(q) /\ q2[i] = q[n + i]
  <2>1. i \in 1..(Len(q) - (n + 1) + 1) /\ (n + 1) + i - 1 = n + i
    BY <1>1, <1>4
  <2> QED BY <1>1, <1>3, <1>4, <2>1
<1> QED BY <1>3, <1>4, <1>5

\* Nobody is honoured: nothing changes.
LEMMA NoGrants ==
  ASSUME NEW H \in SUBSET Holder, NEW q \in Seq(Waiter)
  PROVE  /\ HoldersAfter(H, q, 0) = H
         /\ SubSeq(q, 0 + 1, Len(q)) = q
<1>1. \A h : h \in HoldersAfter(H, q, 0) <=> h \in H
  BY HoldersAfterMember
<1>2. SubSeq(q, 0 + 1, Len(q)) = q
  BY SubSeqWhole
<1> QED BY <1>1, <1>2, Zenon

\* A pass leaves the front of the queue refused.
LEMMA PassRefusesFront ==
  ASSUME NEW H \in SUBSET Holder, NEW q \in Seq(Waiter)
  PROVE  FrontRefused(GrantPass(H, q).holders, GrantPass(H, q).queue)
<1> DEFINE n == GrantCount(H, q)
           H2 == HoldersAfter(H, q, n)
           q2 == SubSeq(q, n + 1, Len(q))
<1>1. GrantPass(H, q).holders = H2 /\ GrantPass(H, q).queue = q2
  BY Zenon DEF GrantPass
<1>2. Len(q) \in Nat /\ n \in 0..Len(q) /\ StopsAfter(H, q, n)
  BY SeqIsFunction, GrantCountProperties
<1> HIDE DEF n
<1>3. /\ q2 \in Seq(Waiter)
      /\ Len(q2) = Len(q) - n
      /\ \A i \in 1..Len(q2) : n + i \in 1..Len(q) /\ q2[i] = q[n + i]
  BY ONLY <1>2, QueueAfterGrants
<1>4. ASSUME q2 # <<>>
      PROVE  ~HoldersAllow(H2, q2[1].txn, q2[1].mode)
  <2>1. Len(q2) \in Nat /\ Len(q2) # 0
    <3> HIDE DEF q2
    <3> QED BY ONLY <1>3, <1>4, SeqIsFunction, EmptyIsSeq
  <2>2. 1 \in 1..Len(q2) /\ n # Len(q)
    BY ONLY <1>2, <1>3, <2>1
  <2>3. q2[1] = q[n + 1]
    BY ONLY <1>3, <2>2
  <2> QED BY ONLY <1>2, <2>2, <2>3 DEF StopsAfter
<1> QED BY ONLY <1>1, <1>4, Zenon DEF FrontRefused

--------------------------------------------------------------------------------
(***************************************************************************)
(* Taking a lock and giving it back.                                       *)
(***************************************************************************)

\* A call that finds its mode covered promises what is already held.
LEMMA ReentrantKeepsCoherence ==
  ASSUME NEW H, NEW Q, NEW G, NEW P, NEW N, NEW PR,
         TableCoherent(H, Q, G, P, N, PR),
         NEW t \in Txn, NEW r \in Resource, NEW m \in LockMode,
         \E h \in H[r] : h.txn = t /\ Covers(h.mode, m)
  PROVE  TableCoherent(H, Q, G, P, N + 1, [PR EXCEPT ![t] = @ \cup {<<r, m>>}])
<1> DEFINE PR2 == [PR EXCEPT ![t] = @ \cup {<<r, m>>}]
<1>1. /\ TableTyped(H, Q, G, P, N, PR) /\ LocksCoherent(H) /\ TicketsCoherent(Q, G, P, N)
      /\ GrantsCoherent(H, Q, G, P) /\ PromisesCoherent(H, G, P, PR)
  BY DEF TableCoherent
<1>2. PR \in [Txn -> SUBSET (Resource \X LockMode)] /\ N \in Nat
  BY ONLY <1>1 DEF TableTyped
<1>3. TableTyped(H, Q, G, P, N + 1, PR2)
  BY ONLY <1>1, <1>2 DEF TableTyped
<1>4. TicketsCoherent(Q, G, P, N + 1)
  <2>1. \A c \in P : c.ticket \in Nat
    BY ONLY <1>1, SMTT(60) DEF TableTyped, Call
  <2>2. \A c \in P : c.ticket < N + 1
    BY ONLY <1>1, <1>2, <2>1 DEF TicketsCoherent
  <2> QED BY ONLY <1>1, <2>2, Zenon DEF TicketsCoherent
<1>5. \A u \in Txn : \A p \in PR2[u] : p \in PR[u] \/ (u = t /\ p = <<r, m>>)
  BY ONLY <1>2
<1>6. \A u \in Txn : PR[u] \subseteq PR2[u]
  BY ONLY <1>2, SMTT(60)
<1>7. PromisesCoherent(H, G, P, PR2)
  <2> HIDE DEF PR2
  <2>1. ASSUME NEW u \in Txn, NEW p \in PR2[u]
        PROVE  \E h \in H[p[1]] : h.txn = u /\ Covers(h.mode, p[2])
    <3>1. CASE p \in PR[u]
      BY ONLY <1>1, <3>1 DEF PromisesCoherent
    <3>2. CASE u = t /\ p = <<r, m>>
      <4>1. p[1] = r /\ p[2] = m
        BY ONLY <3>2, SMTT(60)
      <4>2. \E h \in H[r] : h.txn = t /\ Covers(h.mode, m)
        OBVIOUS
      <4> QED BY ONLY <3>2, <4>1, <4>2
    <3> QED BY ONLY <1>5, <3>1, <3>2, SMTT(60)
  <2>2. \A s \in Resource : \A h \in H[s] : h.txn \in Txn
    BY ONLY <1>1 DEF TableTyped, Holder
  <2> QED BY ONLY <1>1, <1>6, <2>1, <2>2, SMTT(60) DEF PromisesCoherent
<1> QED BY ONLY <1>1, <1>3, <1>4, <1>7, SMTT(60) DEF TableCoherent

\* A call that reads its honoured ticket back turns the grant into a promise.
LEMMA TakeKeepsCoherence ==
  ASSUME NEW H, NEW Q, NEW G, NEW P, NEW N, NEW PR,
         TableCoherent(H, Q, G, P, N, PR),
         NEW c \in P, c.ticket \in G
  PROVE  TableCoherent(H, Q, G \ {c.ticket}, P \ {c}, N,
                       [PR EXCEPT ![c.txn] = @ \cup {<<c.resource, c.mode>>}])
<1> DEFINE PR2 == [PR EXCEPT ![c.txn] = @ \cup {<<c.resource, c.mode>>}]
           G2 == G \ {c.ticket}
           P2 == P \ {c}
<1>1. /\ TableTyped(H, Q, G, P, N, PR) /\ LocksCoherent(H) /\ TicketsCoherent(Q, G, P, N)
      /\ GrantsCoherent(H, Q, G, P) /\ PromisesCoherent(H, G, P, PR)
  BY DEF TableCoherent
<1>2. /\ PR \in [Txn -> SUBSET (Resource \X LockMode)]
      /\ c \in Call /\ c.txn \in Txn /\ c.resource \in Resource /\ c.mode \in LockMode
  BY ONLY <1>1 DEF TableTyped, Call
<1>3. TableTyped(H, Q, G2, P2, N, PR2)
  <2>1. PR2 \in [Txn -> SUBSET (Resource \X LockMode)]
    BY ONLY <1>2
  <2> HIDE DEF PR2
  <2> QED BY ONLY <1>1, <2>1, Zenon DEF TableTyped
<1>4. \A u \in Txn : \A p \in PR2[u] : p \in PR[u] \/ (u = c.txn /\ p = <<c.resource, c.mode>>)
  BY ONLY <1>2
<1>5. \A u \in Txn : PR[u] \subseteq PR2[u]
  BY ONLY <1>2
<1>6. <<c.resource, c.mode>> \in PR2[c.txn]
  BY ONLY <1>2, SMTT(60)
<1>7. \A d \in P : d # c => d.ticket # c.ticket
  BY ONLY <1>1 DEF TicketsCoherent
<1>8. TicketsCoherent(Q, G2, P2, N)
  <2>1. \A r \in Resource : \A i \in 1..Len(Q[r]) : \E d \in P2 : CallOf(d, r, Q[r][i])
    <3> SUFFICES ASSUME NEW r \in Resource, NEW i \in 1..Len(Q[r])
                 PROVE  \E d \in P2 : CallOf(d, r, Q[r][i])
      BY SMTT(60)
    <3>1. PICK d \in P : CallOf(d, r, Q[r][i])
      BY ONLY <1>1, SMTT(60) DEF TicketsCoherent
    <3>2. d.ticket \notin G
      BY ONLY <1>1, <3>1 DEF TicketsCoherent, CallOf
    <3> QED BY <3>1, <3>2
  <2>2. \A d \in P2 : (\E i \in 1..Len(Q[d.resource]) : Q[d.resource][i].ticket = d.ticket)
                       <=> d.ticket \notin G2
    BY ONLY <1>1, <1>7, Zenon DEF TicketsCoherent
  <2>3. \A k \in G2 : \E d \in P2 : d.ticket = k
    BY ONLY <1>1, ZenonT(60) DEF TicketsCoherent
  <2> QED BY ONLY <1>1, <2>1, <2>2, <2>3, Zenon DEF TicketsCoherent
<1>9. GrantsCoherent(H, Q, G2, P2)
  BY ONLY <1>1, SMTT(60) DEF GrantsCoherent
<1>10. PromisesCoherent(H, G2, P2, PR2)
  <2> HIDE DEF PR2
  <2>0. \E h \in H[c.resource] : h.txn = c.txn /\ Covers(h.mode, c.mode)
    BY <1>1, SMTT(60) DEF GrantsCoherent
  <2>1. \A u \in Txn : \A p \in PR2[u] :
          \E h \in H[p[1]] : h.txn = u /\ Covers(h.mode, p[2])
    BY ONLY <1>1, <1>4, <2>0 DEF PromisesCoherent
  <2>2. \A s \in Resource : \A h \in H[s] : h.txn \in Txn
    BY ONLY <1>1 DEF TableTyped, Holder
  <2>3. ASSUME NEW r \in Resource, NEW h \in H[r]
        PROVE  \/ \E p \in PR2[h.txn] : p[1] = r /\ SameFamily(p[2], h.mode)
               \/ \E d \in P2 : /\ d.txn = h.txn /\ d.resource = r
                                 /\ SameFamily(d.mode, h.mode) /\ d.ticket \in G2
    <3>1. CASE \E p \in PR[h.txn] : p[1] = r /\ SameFamily(p[2], h.mode)
      BY ONLY <1>5, <2>2, <3>1, SMTT(60)
    <3>2. ASSUME NEW d \in P, d.txn = h.txn, d.resource = r,
                 SameFamily(d.mode, h.mode), d.ticket \in G
          PROVE  \/ \E p \in PR2[h.txn] : p[1] = r /\ SameFamily(p[2], h.mode)
                 \/ \E e \in P2 : /\ e.txn = h.txn /\ e.resource = r
                                   /\ SameFamily(e.mode, h.mode) /\ e.ticket \in G2
      <4>1. CASE d = c
        <5>1. <<c.resource, c.mode>>[1] = r /\ SameFamily(<<c.resource, c.mode>>[2], h.mode)
          BY ONLY <3>2, <4>1
        <5> QED BY ONLY <1>6, <3>2, <4>1, <5>1
      <4>2. CASE d # c
        BY ONLY <1>7, <3>2, <4>2
      <4> QED BY ONLY <4>1, <4>2
    <3> QED BY ONLY <1>1, <3>1, <3>2, ZenonT(60) DEF PromisesCoherent
  <2> QED BY ONLY <2>1, <2>3, SMTT(60) DEF PromisesCoherent
<1> QED BY ONLY <1>1, <1>3, <1>8, <1>9, <1>10 DEF TableCoherent

\* A transaction with no parked call gives back what it holds on the resources R.
RemoveStage(H, P, PR, t, R, H2, PR2) ==
  /\ t \in Txn
  /\ \A c \in P : c.txn # t
  /\ R \in SUBSET Resource
  /\ H2 = [r \in Resource |-> IF r \in R THEN { h \in H[r] : h.txn # t } ELSE H[r]]
  /\ PR2 = [PR EXCEPT ![t] = { p \in @ : p[1] \notin R }]

\* Giving back locks keeps the table coherent.
LEMMA RemoveKeepsCoherence ==
  ASSUME NEW H, NEW Q, NEW G, NEW P, NEW N, NEW PR,
         TableCoherent(H, Q, G, P, N, PR),
         NEW t, NEW R, NEW H2, NEW PR2, RemoveStage(H, P, PR, t, R, H2, PR2)
  PROVE  TableCoherent(H2, Q, G, P, N, PR2)
<1> USE DEF RemoveStage
<1>1. /\ TableTyped(H, Q, G, P, N, PR) /\ LocksCoherent(H) /\ TicketsCoherent(Q, G, P, N)
      /\ GrantsCoherent(H, Q, G, P) /\ PromisesCoherent(H, G, P, PR)
  BY DEF TableCoherent
<1>2. H \in [Resource -> SUBSET Holder] /\ PR \in [Txn -> SUBSET (Resource \X LockMode)]
  BY ONLY <1>1 DEF TableTyped
<1>3. \A r \in Resource : /\ H2[r] \subseteq H[r]
                          /\ \A h \in H[r] : h.txn # t \/ r \notin R => h \in H2[r]
                          /\ \A h \in H2[r] : h.txn # t \/ r \notin R
  OBVIOUS
<1>4. \A u \in Txn : \A p : p \in PR2[u] <=> p \in PR[u] /\ (u # t \/ p[1] \notin R)
  BY <1>2
<1>5. TableTyped(H2, Q, G, P, N, PR2)
  <2>1. H2 \in [Resource -> SUBSET Holder]
    BY <1>2
  <2>2. PR2 \in [Txn -> SUBSET (Resource \X LockMode)]
    BY <1>2, SMTT(60)
  <2> QED BY ONLY <1>1, <2>1, <2>2, SMTT(30) DEF TableTyped
<1>6. LocksCoherent(H2)
  BY ONLY <1>1, <1>3, SMTT(60) DEF LocksCoherent
<1>7. GrantsCoherent(H2, Q, G, P)
  <2>1. \A c \in P : c.resource \in Resource
    BY ONLY <1>1, SMTT(60) DEF TableTyped, Call
  <2>2. \A c \in P : c.txn # t
    BY SMTT(60)
  <2> QED BY ONLY <1>1, <1>3, <2>1, <2>2 DEF GrantsCoherent
<1>8. PromisesCoherent(H2, G, P, PR2)
  <2>1. \A s \in Resource : \A h \in H[s] : h.txn \in Txn
    BY ONLY <1>1 DEF TableTyped, Holder
  <2>2. \A u \in Txn : \A p \in PR2[u] : p[1] \in Resource
    BY ONLY <1>2, <1>4, SMTT(60)
  <2>3. \A u \in Txn : \A p \in PR2[u] :
          \E h \in H2[p[1]] : h.txn = u /\ Covers(h.mode, p[2])
    BY ONLY <1>1, <1>3, <1>4, <2>2, SMTT(30) DEF PromisesCoherent
  <2>4. ASSUME NEW r \in Resource, NEW h \in H2[r]
        PROVE  \/ \E p \in PR2[h.txn] : p[1] = r /\ SameFamily(p[2], h.mode)
               \/ \E d \in P : /\ d.txn = h.txn /\ d.resource = r
                                /\ SameFamily(d.mode, h.mode) /\ d.ticket \in G
    <3>1. h \in H[r] /\ h.txn \in Txn /\ (h.txn # t \/ r \notin R)
      BY ONLY <1>3, <2>1
    <3>2. \A p \in PR[h.txn] : p[1] = r => p \in PR2[h.txn]
      BY ONLY <1>4, <3>1, SMTT(30)
    <3>3. \/ \E p \in PR[h.txn] : p[1] = r /\ SameFamily(p[2], h.mode)
          \/ \E d \in P : /\ d.txn = h.txn /\ d.resource = r
                           /\ SameFamily(d.mode, h.mode) /\ d.ticket \in G
      BY ONLY <1>1, <3>1 DEF PromisesCoherent
    <3> QED BY ONLY <3>2, <3>3
  <2> QED BY ONLY <2>3, <2>4 DEF PromisesCoherent
<1> QED BY ONLY <1>1, <1>5, <1>6, <1>7, <1>8, SMTT(60) DEF TableCoherent
================================================================================
