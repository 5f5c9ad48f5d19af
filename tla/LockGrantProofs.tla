--------------------------- MODULE LockGrantProofs ---------------------------
(***************************************************************************)
(* The last stage of every operation of the lock manager, a grant pass     *)
(* over the resources it touched, keeps the table coherent.                *)
(***************************************************************************)
EXTENDS LockPassProofs

\* In a coherent table a transaction waits in one place at most.
LEMMA OneWaitPerTxn ==
  ASSUME NEW Q, NEW G, NEW P, NEW N, TicketsCoherent(Q, G, P, N),
         NEW r \in Resource, NEW s \in Resource,
         NEW i \in 1..Len(Q[r]), NEW j \in 1..Len(Q[s]),
         Q[r][i].txn = Q[s][j].txn
  PROVE  r = s /\ i = j
BY SMTT(30) DEF TicketsCoherent, CallOf

\* Honouring n[r] candidates of each resource r, no more than a pass over r would.
GrantStage(H, Q, G, n, H2, Q2, G2) ==
  /\ n \in [Resource -> Nat]
  /\ \A r \in Resource : n[r] \in 0..GrantCount(H[r], Q[r])
  /\ H2 = [r \in Resource |-> HoldersAfter(H[r], Q[r], n[r])]
  /\ Q2 = [r \in Resource |-> SubSeq(Q[r], n[r] + 1, Len(Q[r]))]
  /\ \A k : k \in G2 <=>
              k \in G \/ \E r \in Resource : \E i \in 1..n[r] : k = Q[r][i].ticket

\* Honouring candidates that the pass would honour keeps the table coherent.
LEMMA GrantsKeepCoherence ==
  ASSUME NEW H, NEW Q, NEW G, NEW P, NEW N, NEW PR,
         TableCoherent(H, Q, G, P, N, PR),
         NEW n, NEW H2, NEW Q2, NEW G2, GrantStage(H, Q, G, n, H2, Q2, G2)
  PROVE  TableCoherent(H2, Q2, G2, P, N, PR)
<1> USE DEF TableCoherent, GrantStage
<1>1. /\ H \in [Resource -> SUBSET Holder]
      /\ Q \in [Resource -> Seq(Waiter)]
      /\ G \subseteq Nat
      /\ P \subseteq Call
  BY SMTT(60) DEF TableTyped
<1>2. ASSUME NEW r \in Resource
      PROVE  /\ Len(Q[r]) \in Nat /\ n[r] \in 0..Len(Q[r])
             /\ \A i \in 1..Len(Q[r]) : Q[r][i] \in Waiter
  BY <1>1, SeqIsFunction, SeqElement, GrantCountProperties
<1>3. ASSUME NEW r \in Resource
      PROVE  /\ Q2[r] \in Seq(Waiter)
             /\ Len(Q2[r]) = Len(Q[r]) - n[r]
             /\ \A i \in 1..Len(Q2[r]) : /\ n[r] + i \in 1..Len(Q[r])
                                         /\ Q2[r][i] = Q[r][n[r] + i]
  <2>1. Q[r] \in Seq(Waiter) /\ n[r] \in 0..Len(Q[r]) /\ Q2[r] = SubSeq(Q[r], n[r] + 1, Len(Q[r]))
    BY <1>1, <1>2, SMTT(30)
  <2> QED BY ONLY <2>1, QueueAfterGrants, Zenon
<1>20. \A r \in Resource : H2[r] = HoldersAfter(H[r], Q[r], n[r])
  OBVIOUS
<1>21. \A k : k \in G2 <=> k \in G \/ \E r \in Resource : \E i \in 1..n[r] : k = Q[r][i].ticket
  OBVIOUS
\* A grant that stands at the end of the pass: the only one of its transaction.
<1>4. ASSUME NEW r \in Resource, NEW i \in 1..n[r]
      PROVE  [txn |-> Q[r][i].txn, mode |-> Q[r][i].mode] \in H2[r]
  <2>1. ASSUME NEW j \in (i + 1)..n[r], Q[r][j].txn = Q[r][i].txn
        PROVE  FALSE
    <3>1. Len(Q[r]) \in Nat /\ n[r] \in 0..Len(Q[r])
      BY ONLY <1>2
    <3>2. i \in 1..Len(Q[r]) /\ j \in 1..Len(Q[r]) /\ i # j
      BY ONLY <3>1
    <3>3. TicketsCoherent(Q, G, P, N)
      OBVIOUS
    <3> QED BY ONLY <2>1, <3>2, <3>3, OneWaitPerTxn
  <2>2. [txn |-> Q[r][i].txn, mode |-> Q[r][i].mode] \in HoldersAfter(H[r], Q[r], n[r])
    BY ONLY <2>1, HoldersAfterMember
  <2> QED BY <1>20, <2>2
<1>5. ASSUME NEW r \in Resource, NEW h \in H[r],
             \A j \in 1..n[r] : ~(Q[r][j].txn = h.txn /\ SameFamily(Q[r][j].mode, h.mode))
      PROVE  h \in H2[r]
  BY <1>5, <1>20, HoldersAfterMember, Zenon
<1>6. ASSUME NEW r \in Resource, NEW h \in H2[r]
      PROVE  h \in H[r] \/ \E i \in 1..n[r] : h = [txn |-> Q[r][i].txn, mode |-> Q[r][i].mode]
  <2>1. h \in HoldersAfter(H[r], Q[r], n[r])
    BY <1>20, SMTT(60)
  <2> QED BY ONLY <2>1, HoldersAfterMember
\* A lock that was held is still held, or is replaced by a grant that covers it.
<1>7. ASSUME NEW r \in Resource, NEW h \in H[r]
      PROVE  \E g \in H2[r] : g.txn = h.txn /\ Covers(g.mode, h.mode)
  <2>1. h \in Holder /\ h.txn \in Txn /\ h.mode \in LockMode
    BY <1>1, SMTT(60) DEF Holder
  <2>2. CASE \A j \in 1..n[r] : ~(Q[r][j].txn = h.txn /\ SameFamily(Q[r][j].mode, h.mode))
    BY <1>5, <2>1, <2>2, CoversReflexive
  <2>3. ASSUME NEW j \in 1..n[r], Q[r][j].txn = h.txn, SameFamily(Q[r][j].mode, h.mode)
        PROVE  \E g \in H2[r] : g.txn = h.txn /\ Covers(g.mode, h.mode)
    <3>1. j \in 1..Len(Q[r])
      BY <1>2
    <3>2. SameFamily(h.mode, Q[r][j].mode)
      BY <2>3 DEF SameFamily
    <3>3. Covers(Q[r][j].mode, h.mode)
      BY <2>3, <3>1, <3>2 DEF GrantsCoherent
    <3> QED BY <1>4, <2>3, <3>3, ZenonT(60)
  <2> QED BY <2>2, <2>3
<1>8. TableTyped(H2, Q2, G2, P, N, PR)
  <2>1. \A r \in Resource : HoldersAfter(H[r], Q[r], n[r]) \in SUBSET Holder
    BY <1>1, <1>2, HoldersAfterType
  <2>2. H2 \in [Resource -> SUBSET Holder]
    BY <2>1
  <2>3. Q2 \in [Resource -> Seq(Waiter)]
    BY <1>3
  <2>4. \A r \in Resource : \A i \in 1..n[r] : Q[r][i].ticket \in Nat
    BY <1>2 DEF Waiter
  <2>5. G2 \subseteq Nat
    <3> SUFFICES ASSUME NEW k \in G2 PROVE k \in Nat
      OBVIOUS
    <3>1. k \in G \/ \E r \in Resource : \E i \in 1..n[r] : k = Q[r][i].ticket
      BY ONLY <1>21, SMTT(60)
    <3> QED BY ONLY <1>1, <2>4, <3>1, Zenon
  <2> QED BY <2>2, <2>3, <2>5 DEF TableTyped
<1>9. LocksCoherent(H2)
  <2>1. ASSUME NEW r \in Resource
        PROVE  /\ \A g, h \in H2[r] : g.txn # h.txn => Compatible(g.mode, h.mode)
               /\ \A g, h \in H2[r] : g.txn = h.txn /\ SameFamily(g.mode, h.mode) => g = h
    <3>1. /\ H[r] \in SUBSET Holder /\ Q[r] \in Seq(Waiter)
          /\ n[r] \in 0..GrantCount(H[r], Q[r]) /\ n[r] \in 0..Len(Q[r])
          /\ \A g, h \in H[r] : g.txn # h.txn => Compatible(g.mode, h.mode)
          /\ \A g, h \in H[r] : g.txn = h.txn /\ SameFamily(g.mode, h.mode) => g = h
      BY <1>1, <1>2, SMTT(30) DEF LocksCoherent
    <3>2. /\ \A g, h \in HoldersAfter(H[r], Q[r], n[r]) : g.txn # h.txn => Compatible(g.mode, h.mode)
          /\ \A g, h \in HoldersAfter(H[r], Q[r], n[r]) :
               g.txn = h.txn /\ SameFamily(g.mode, h.mode) => g = h
      BY ONLY <3>1, GrantPassCompatible, GrantPassOneMode, SMTT(60)
    <3> QED BY <1>20, <3>2, SMTT(60)
  <2> QED BY <2>1, SMTT(60) DEF LocksCoherent
<1>10. TicketsCoherent(Q2, G2, P, N)
  <2>0. TicketsCoherent(Q, G, P, N)
    OBVIOUS
  <2>1. \A r, s \in Resource : \A i \in 1..Len(Q2[r]), j \in 1..Len(Q2[s]) :
          Q2[r][i].ticket = Q2[s][j].ticket => r = s /\ i = j
    <3> SUFFICES ASSUME NEW r \in Resource, NEW s \in Resource,
                        NEW i \in 1..Len(Q2[r]), NEW j \in 1..Len(Q2[s]),
                        Q2[r][i].ticket = Q2[s][j].ticket
                 PROVE  r = s /\ i = j
      BY Zenon
    <3>1. PICK x \in 1..Len(Q[r]) : x = n[r] + i /\ Q2[r][i] = Q[r][x]
      BY ONLY <1>3, Zenon
    <3>2. PICK y \in 1..Len(Q[s]) : y = n[s] + j /\ Q2[s][j] = Q[s][y]
      BY ONLY <1>3, Zenon
    <3>3. Q[r][x].ticket = Q[s][y].ticket
      BY <3>1, <3>2, Zenon
    <3>4. r = s /\ x = y
      BY ONLY <2>0, <3>3, SMTT(60) DEF TicketsCoherent
    <3>5. n[r] \in Nat /\ i \in Int /\ j \in Int
      BY <1>2, <1>3, SMTT(60)
    <3> QED BY ONLY <3>1, <3>2, <3>4, <3>5
  <2>2. \A r \in Resource : \A i \in 1..Len(Q2[r]) : \E c \in P : CallOf(c, r, Q2[r][i])
    BY ONLY <2>0, <1>3 DEF TicketsCoherent
  <2>3. ASSUME NEW c \in P
        PROVE  (\E i \in 1..Len(Q2[c.resource]) : Q2[c.resource][i].ticket = c.ticket)
                 <=> c.ticket \notin G2
    <3> DEFINE s == c.resource
    <3>0. s \in Resource
      BY <1>1 DEF Call
    <3>1. (\E i \in 1..Len(Q[s]) : Q[s][i].ticket = c.ticket) <=> c.ticket \notin G
      BY ONLY <2>0, <2>3 DEF TicketsCoherent
    <3>2. ASSUME NEW i \in 1..Len(Q2[s]), Q2[s][i].ticket = c.ticket
          PROVE  c.ticket \notin G2
      <4>1. n[s] + i \in 1..Len(Q[s]) /\ Q[s][n[s] + i].ticket = c.ticket
        BY ONLY <3>0, <3>2, <1>3
      <4>2. ASSUME NEW r \in Resource, NEW j \in 1..n[r], c.ticket = Q[r][j].ticket
            PROVE  FALSE
        <5>1. j \in 1..Len(Q[r])
          BY ONLY <1>2
        <5>2. r = s /\ j = n[s] + i
          BY ONLY <2>0, <3>0, <4>1, <4>2, <5>1, SMTT(30) DEF TicketsCoherent
        <5>3. Len(Q[s]) \in Nat /\ n[s] \in 0..Len(Q[s]) /\ Len(Q2[s]) = Len(Q[s]) - n[s]
          BY ONLY <3>0, <1>2, <1>3
        <5> QED BY ONLY <5>2, <5>3
      <4> QED BY ONLY <3>1, <4>1, <4>2, <1>21, SMTT(30)
    <3>3. ASSUME c.ticket \notin G2
          PROVE  \E i \in 1..Len(Q2[s]) : Q2[s][i].ticket = c.ticket
      <4>1. PICK i \in 1..Len(Q[s]) : Q[s][i].ticket = c.ticket
        BY ONLY <3>1, <3>3, <1>21
      <4>2. ~(i \in 1..n[s])
        BY ONLY <3>0, <3>3, <4>1, <1>21
      <4>3. Len(Q[s]) \in Nat /\ n[s] \in 0..Len(Q[s]) /\ Len(Q2[s]) = Len(Q[s]) - n[s]
        BY ONLY <3>0, <1>2, <1>3
      <4>4. (i - n[s]) \in 1..Len(Q2[s]) /\ n[s] + (i - n[s]) = i
        BY ONLY <4>2, <4>3
      <4>5. Q2[s][i - n[s]] = Q[s][i]
        BY ONLY <3>0, <4>4, <1>3
      <4> QED BY ONLY <4>1, <4>4, <4>5
    <3> QED BY ONLY <3>2, <3>3, SMTT(60)
  <2>4. \A k \in G2 : \E c \in P : c.ticket = k
    <3>1. \A r \in Resource : \A i \in 1..n[r] : i \in 1..Len(Q[r])
      BY ONLY <1>2, SMTT(60)
    <3> QED BY ONLY <2>0, <3>1, <1>21 DEF TicketsCoherent, CallOf
  <2> QED BY ONLY <2>0, <2>1, <2>2, <2>3, <2>4, SMTT(60) DEF TicketsCoherent
<1>11. GrantsCoherent(H2, Q2, G2, P)
  <2>0. TicketsCoherent(Q, G, P, N) /\ GrantsCoherent(H, Q, G, P)
    OBVIOUS
  <2>1. ASSUME NEW r \in Resource, NEW i \in 1..Len(Q2[r]), NEW h \in H2[r],
               h.txn = Q2[r][i].txn, SameFamily(h.mode, Q2[r][i].mode)
        PROVE  Covers(Q2[r][i].mode, h.mode)
    <3>1. n[r] + i \in 1..Len(Q[r]) /\ Q2[r][i] = Q[r][n[r] + i]
      BY ONLY <1>3
    <3>2. CASE h \in H[r]
      BY ONLY <2>0, <2>1, <3>1, <3>2 DEF GrantsCoherent
    <3>3. ASSUME NEW j \in 1..n[r], h = [txn |-> Q[r][j].txn, mode |-> Q[r][j].mode]
          PROVE  FALSE
      <4>1. j \in 1..Len(Q[r]) /\ Q[r][j].txn = Q[r][n[r] + i].txn
        BY ONLY <2>1, <3>1, <3>3, <1>2, SMTT(60)
      <4>2. j = n[r] + i
        BY ONLY <2>0, <3>1, <4>1, OneWaitPerTxn, SMTT(60)
      <4>3. n[r] \in Nat /\ i \in Int /\ i >= 1
        BY <1>2, <1>3
      <4> QED BY ONLY <4>2, <4>3, SMTT(30)
    <3> QED BY ONLY <1>6, <3>2, <3>3
  <2>2. ASSUME NEW c \in P, c.ticket \in G2
        PROVE  \E h \in H2[c.resource] : h.txn = c.txn /\ Covers(h.mode, c.mode)
    <3>0. c.resource \in Resource /\ c.mode \in LockMode
      BY <1>1 DEF Call
    <3>1. CASE c.ticket \in G
      <4>1. PICK h \in H[c.resource] : h.txn = c.txn /\ Covers(h.mode, c.mode)
        BY ONLY <2>0, <3>1 DEF GrantsCoherent
      <4>2. PICK g \in H2[c.resource] : g.txn = h.txn /\ Covers(g.mode, h.mode)
        BY ONLY <3>0, <1>7
      <4>3. h \in Holder /\ g \in Holder
        BY ONLY <1>1, <1>8, <3>0 DEF TableTyped
      <4>4. h.mode \in LockMode /\ g.mode \in LockMode
        BY ONLY <4>3 DEF Holder
      <4> QED BY ONLY <3>0, <4>1, <4>2, <4>4, CoversTransitive, SMTT(30)
    <3>2. ASSUME NEW r \in Resource, NEW i \in 1..n[r], c.ticket = Q[r][i].ticket
          PROVE  \E h \in H2[c.resource] : h.txn = c.txn /\ Covers(h.mode, c.mode)
      <4>1. i \in 1..Len(Q[r])
        BY ONLY <1>2
      <4>2. PICK d \in P : CallOf(d, r, Q[r][i])
        BY ONLY <2>0, <4>1, SMTT(60) DEF TicketsCoherent
      <4>3. c = d
        BY ONLY <2>0, <3>2, <4>2, SMTT(60) DEF TicketsCoherent, CallOf
      <4> QED BY ONLY <1>4, <4>2, <4>3, Zenon DEF CallOf
    <3> QED BY ONLY <2>2, <3>1, <3>2, <1>21, SMTT(60)
  <2> QED BY ONLY <2>1, <2>2, SMTT(60) DEF GrantsCoherent
<1>12. PromisesCoherent(H2, G2, P, PR)
  <2>0. TicketsCoherent(Q, G, P, N) /\ PromisesCoherent(H, G, P, PR)
    BY SMTT(60)
  <2>1. ASSUME NEW t \in Txn, NEW p \in PR[t]
        PROVE  \E h \in H2[p[1]] : h.txn = t /\ Covers(h.mode, p[2])
    <3>0. p[1] \in Resource /\ p[2] \in LockMode
      BY SMTT(60) DEF TableTyped
    <3>1. PICK h \in H[p[1]] : h.txn = t /\ Covers(h.mode, p[2])
      BY ONLY <2>0 DEF PromisesCoherent
    <3>2. PICK g \in H2[p[1]] : g.txn = h.txn /\ Covers(g.mode, h.mode)
      BY ONLY <3>0, <1>7
    <3>3. h \in Holder /\ g \in Holder
      BY ONLY <1>1, <1>8, <3>0 DEF TableTyped
    <3>4. h.mode \in LockMode /\ g.mode \in LockMode
      BY ONLY <3>3 DEF Holder
    <3> QED BY ONLY <3>0, <3>1, <3>2, <3>4, CoversTransitive, SMTT(60)
  <2>2. ASSUME NEW r \in Resource, NEW h \in H2[r]
        PROVE  \/ \E p \in PR[h.txn] : p[1] = r /\ SameFamily(p[2], h.mode)
               \/ \E c \in P : /\ c.txn = h.txn /\ c.resource = r
                                /\ SameFamily(c.mode, h.mode) /\ c.ticket \in G2
    <3>1. CASE h \in H[r]
      BY ONLY <2>0, <3>1, <1>21, SMTT(60) DEF PromisesCoherent
    <3>2. ASSUME NEW i \in 1..n[r], h = [txn |-> Q[r][i].txn, mode |-> Q[r][i].mode]
          PROVE  \E c \in P : /\ c.txn = h.txn /\ c.resource = r
                              /\ SameFamily(c.mode, h.mode) /\ c.ticket \in G2
      <4>1. i \in 1..Len(Q[r]) /\ Q[r][i] \in Waiter
        BY ONLY <1>2
      <4>2. PICK c \in P : CallOf(c, r, Q[r][i])
        BY ONLY <2>0, <4>1 DEF TicketsCoherent
      <4>3. c.mode \in LockMode /\ Q[r][i].mode \in LockMode
        BY ONLY <1>1, <4>1, SMTT(60) DEF Call, Waiter
      <4>4. SameFamily(Q[r][i].mode, c.mode)
        BY ONLY <4>2, <4>3, CoversSameFamily, SMTT(30) DEF CallOf
      <4> QED BY ONLY <3>2, <4>2, <4>4, <1>21 DEF CallOf, SameFamily
    <3> QED BY ONLY <1>6, <3>1, <3>2, SMTT(60)
  <2> QED BY ONLY <2>1, <2>2, SMTT(60) DEF PromisesCoherent
<1> QED BY <1>8, <1>9, <1>10, <1>11, <1>12

\* The last stage of every operation: a grant pass over the resources R it touched.
PassStage(H, Q, G, R, H2, Q2, G2) ==
  /\ R \in SUBSET Resource
  /\ H2 = [r \in Resource |-> IF r \in R THEN GrantPass(H[r], Q[r]).holders ELSE H[r]]
  /\ Q2 = [r \in Resource |-> IF r \in R THEN GrantPass(H[r], Q[r]).queue ELSE Q[r]]
  /\ \A k : k \in G2 <=> k \in G \/ \E r \in R : k \in GrantPass(H[r], Q[r]).tickets
  /\ \A r \in Resource \ R : FrontRefused(H[r], Q[r])

\* A pass keeps the table coherent and leaves the front of every queue refused.
LEMMA PassKeepsCoherence ==
  ASSUME NEW H, NEW Q, NEW G, NEW P, NEW N, NEW PR,
         TableCoherent(H, Q, G, P, N, PR),
         NEW R, NEW H2, NEW Q2, NEW G2, PassStage(H, Q, G, R, H2, Q2, G2)
  PROVE  /\ TableCoherent(H2, Q2, G2, P, N, PR)
         /\ \A r \in Resource : FrontRefused(H2[r], Q2[r])
<1> USE DEF PassStage
<1>1. H \in [Resource -> SUBSET Holder] /\ Q \in [Resource -> Seq(Waiter)]
  BY DEF TableCoherent, TableTyped
<1>2. \A r \in Resource : H[r] \in SUBSET Holder /\ Q[r] \in Seq(Waiter)
  BY ONLY <1>1
<1> DEFINE n == [r \in Resource |-> IF r \in R THEN GrantCount(H[r], Q[r]) ELSE 0]
<1>3. ASSUME NEW r \in Resource
      PROVE  GrantCount(H[r], Q[r]) \in Nat /\ Len(Q[r]) \in Nat
  <2>1. GrantCount(H[r], Q[r]) \in 0..Len(Q[r]) /\ Len(Q[r]) \in Nat
    BY ONLY <1>2, GrantCountProperties, SeqIsFunction
  <2> QED BY ONLY <2>1
<1>4. n \in [Resource -> Nat] /\ \A r \in Resource : n[r] \in 0..GrantCount(H[r], Q[r])
  BY ONLY <1>3, SMTT(60)
<1>5. \A r \in Resource : n[r] = IF r \in R THEN GrantCount(H[r], Q[r]) ELSE 0
  OBVIOUS
<1> HIDE DEF n
<1>6. ASSUME NEW r \in Resource
      PROVE  /\ H2[r] = HoldersAfter(H[r], Q[r], n[r])
             /\ Q2[r] = SubSeq(Q[r], n[r] + 1, Len(Q[r]))
             /\ FrontRefused(H2[r], Q2[r])
  <2>1. CASE r \in R
    <3>1. H2[r] = GrantPass(H[r], Q[r]).holders /\ Q2[r] = GrantPass(H[r], Q[r]).queue
      BY <2>1
    <3>2. n[r] = GrantCount(H[r], Q[r])
      BY ONLY <1>5, <2>1
    <3> QED BY ONLY <1>2, <3>1, <3>2, PassRefusesFront, ZenonT(60) DEF GrantPass
  <2>2. CASE r \notin R
    <3>1. H2[r] = H[r] /\ Q2[r] = Q[r] /\ FrontRefused(H[r], Q[r])
      BY <2>2
    <3>2. n[r] = 0
      BY ONLY <1>5, <2>2, SMTT(60)
    <3> QED BY ONLY <1>2, <3>1, <3>2, NoGrants, SMTT(60)
  <2> QED BY ONLY <2>1, <2>2
<1>7. /\ H2 = [r \in Resource |-> HoldersAfter(H[r], Q[r], n[r])]
      /\ Q2 = [r \in Resource |-> SubSeq(Q[r], n[r] + 1, Len(Q[r]))]
  BY <1>6, SMTT(60)
<1>8. ASSUME NEW k
      PROVE  k \in G2 <=> k \in G \/ \E r \in Resource : \E i \in 1..n[r] : k = Q[r][i].ticket
  <2>1. ASSUME NEW r \in R
        PROVE  k \in GrantPass(H[r], Q[r]).tickets <=> \E i \in 1..n[r] : k = Q[r][i].ticket
    <3>1. r \in Resource
      BY <2>1
    <3> QED BY ONLY <1>5, <2>1, <3>1, SMTT(60) DEF GrantPass
  <2>2. \A r \in Resource : r \notin R => n[r] = 0
    BY ONLY <1>5
  <2>3. \A r \in Resource : r \notin R => 1..n[r] = {}
    BY ONLY <2>2, SMTT(60)
  <2>4. k \in G2 <=> k \in G \/ \E r \in R : k \in GrantPass(H[r], Q[r]).tickets
    BY SMTT(60)
  <2>5. R \in SUBSET Resource
    BY SMTT(60)
  <2> QED BY ONLY <2>1, <2>3, <2>4, <2>5
<1>9. TableCoherent(H, Q, G, P, N, PR)
  OBVIOUS
<1>10. TableCoherent(H2, Q2, G2, P, N, PR)
  <2>1. GrantStage(H, Q, G, n, H2, Q2, G2)
    BY ONLY <1>4, <1>7, <1>8 DEF GrantStage
  <2> QED BY ONLY <1>9, <2>1, GrantsKeepCoherence, SMTT(60)
<1> QED BY ONLY <1>6, <1>10, SMTT(60)
================================================================================
