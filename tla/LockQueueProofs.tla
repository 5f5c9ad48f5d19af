--------------------------- MODULE LockQueueProofs ---------------------------
(***************************************************************************)
(* The stages of an operation of the lock manager that change a queue: a   *)
(* request leaves it, or joins it.  Each of them keeps the table coherent. *)
(***************************************************************************)
EXTENDS LockGrantProofs

\* The candidate at pos leaves: those behind it move up by one.
LEMMA CutProperties ==
  ASSUME NEW q \in Seq(Waiter), NEW pos \in 1..Len(q),
         NEW q2, q2 = SubSeq(q, 1, pos - 1) \o SubSeq(q, pos + 1, Len(q))
  PROVE  /\ q2 \in Seq(Waiter)
         /\ Len(q2) = Len(q) - 1
         /\ \A i \in 1..(Len(q) - 1) : q2[i] = IF i < pos THEN q[i] ELSE q[i + 1]
<1> DEFINE a == SubSeq(q, 1, pos - 1)
           b == SubSeq(q, pos + 1, Len(q))
<1>1. Len(q) \in Nat /\ \A i \in 1..Len(q) : q[i] \in Waiter
  BY SeqIsFunction, SeqElement
<1>2. /\ 1 \in Int /\ pos - 1 \in Int /\ \A i \in 1..(pos - 1) : q[i] \in Waiter
      /\ pos + 1 \in Int /\ Len(q) \in Int /\ \A i \in (pos + 1)..Len(q) : q[i] \in Waiter
  BY ONLY <1>1, pos \in 1..Len(q)
<1>3. /\ a \in Seq(Waiter)
      /\ Len(a) = IF 1 <= pos - 1 THEN (pos - 1) - 1 + 1 ELSE 0
      /\ \A i \in 1..((pos - 1) - 1 + 1) : a[i] = q[1 + i - 1]
  BY ONLY <1>2, SubSeqIs
<1>4. /\ b \in Seq(Waiter)
      /\ Len(b) = IF pos + 1 <= Len(q) THEN Len(q) - (pos + 1) + 1 ELSE 0
      /\ \A i \in 1..(Len(q) - (pos + 1) + 1) : b[i] = q[(pos + 1) + i - 1]
  BY ONLY <1>2, SubSeqIs
<1>5. q2 = a \o b
  OBVIOUS
<1> HIDE DEF a, b
<1>6. /\ q2 \in Seq(Waiter)
      /\ Len(q2) = Len(a) + Len(b)
      /\ \A i \in 1..Len(a) + Len(b) : q2[i] = IF i <= Len(a) THEN a[i] ELSE b[i - Len(a)]
  BY ONLY <1>3, <1>4, <1>5, SeqConcatenated, Zenon
<1>7. Len(a) = pos - 1 /\ Len(b) = Len(q) - pos
  BY ONLY <1>1, <1>3, <1>4, pos \in 1..Len(q)
<1>8. ASSUME NEW i \in 1..(Len(q) - 1)
      PROVE  q2[i] = IF i < pos THEN q[i] ELSE q[i + 1]
  <2>1. q2[i] = IF i <= pos - 1 THEN a[i] ELSE b[i - (pos - 1)]
    BY ONLY <1>1, <1>6, <1>7, pos \in 1..Len(q)
  <2>2. CASE i < pos
    <3>1. i \in 1..((pos - 1) - 1 + 1) /\ 1 + i - 1 = i /\ i <= pos - 1
      BY ONLY <1>1, <2>2, pos \in 1..Len(q)
    <3>2. a[i] = q[i]
      BY ONLY <1>3, <3>1
    <3> QED BY ONLY <2>1, <2>2, <3>1, <3>2
  <2>3. CASE ~(i < pos)
    <3> DEFINE k == i - (pos - 1)
    <3>1. k \in 1..(Len(q) - (pos + 1) + 1) /\ (pos + 1) + k - 1 = i + 1 /\ ~(i <= pos - 1)
      BY ONLY <1>1, <2>3, pos \in 1..Len(q)
    <3>2. b[k] = q[i + 1]
      BY ONLY <1>4, <3>1
    <3> QED BY ONLY <2>1, <2>3, <3>1, <3>2
  <2> QED BY ONLY <2>2, <2>3
<1>9. Len(q2) = Len(q) - 1
  BY ONLY <1>1, <1>6, <1>7, pos \in 1..Len(q)
<1> QED BY ONLY <1>6, <1>8, <1>9

\* A call whose ticket is still queued leaves: its candidate goes with it.
LEMMA DropKeepsCoherence ==
  ASSUME NEW H, NEW Q, NEW G, NEW P, NEW N, NEW PR,
         TableCoherent(H, Q, G, P, N, PR),
         NEW c \in P, c.ticket \notin G,
         NEW Q2, Q2 = [Q EXCEPT ![c.resource] = WithoutTicket(@, c.ticket)]
  PROVE  TableCoherent(H, Q2, G, P \ {c}, N, PR)
<1> DEFINE P2 == P \ {c}
           s == c.resource
<1>1. /\ TableTyped(H, Q, G, P, N, PR) /\ LocksCoherent(H) /\ TicketsCoherent(Q, G, P, N)
      /\ GrantsCoherent(H, Q, G, P) /\ PromisesCoherent(H, G, P, PR)
  BY DEF TableCoherent
<1>2. Q \in [Resource -> Seq(Waiter)] /\ s \in Resource /\ Q[s] \in Seq(Waiter)
  BY ONLY <1>1 DEF TableTyped, Call
<1>3. PICK pos \in 1..Len(Q[s]) :
        /\ Q[s][pos].ticket = c.ticket
        /\ WithoutTicket(Q[s], c.ticket)
             = SubSeq(Q[s], 1, pos - 1) \o SubSeq(Q[s], pos + 1, Len(Q[s]))
  <2>1. \E i \in 1..Len(Q[s]) : Q[s][i].ticket = c.ticket
    BY <1>1 DEF TicketsCoherent
  <2>2. DOMAIN Q[s] = 1..Len(Q[s])
    BY ONLY <1>2, SeqIsFunction
  <2> QED BY ONLY <2>1, <2>2, Zenon DEF WithoutTicket
<1>4. Q2[s] = WithoutTicket(Q[s], c.ticket) /\ \A r \in Resource : r # s => Q2[r] = Q[r]
  BY <1>2
<1>5. /\ Q2[s] \in Seq(Waiter)
      /\ Len(Q2[s]) = Len(Q[s]) - 1
      /\ \A i \in 1..(Len(Q[s]) - 1) : Q2[s][i] = IF i < pos THEN Q[s][i] ELSE Q[s][i + 1]
  <2>1. Q2[s] = SubSeq(Q[s], 1, pos - 1) \o SubSeq(Q[s], pos + 1, Len(Q[s]))
    BY ONLY <1>3, <1>4
  <2> HIDE DEF s
  <2> QED BY ONLY <1>2, <2>1, CutProperties, ZenonT(60)
<1>6. Q2 \in [Resource -> Seq(Waiter)]
  <2>1. Q2 = [Q EXCEPT ![s] = Q2[s]]
    BY <1>2, <1>4, Zenon
  <2> QED BY ONLY <1>2, <1>5, <2>1
<1>7. \A r \in Resource : Len(Q[r]) \in Nat
  BY ONLY <1>2, SeqIsFunction
\* Where a candidate of the new queue stood in the old one, and where an old one went.
<1> DEFINE old(r, i) == IF r # s \/ i < pos THEN i ELSE i + 1
<1>8. ASSUME NEW r \in Resource, NEW i \in 1..Len(Q2[r])
      PROVE  /\ old(r, i) \in 1..Len(Q[r])
             /\ Q2[r][i] = Q[r][old(r, i)]
             /\ ~(r = s /\ old(r, i) = pos)
  <2>1. CASE r # s
    BY ONLY <1>4, <2>1
  <2>2. CASE r = s
    <3>1. Len(Q[s]) \in Nat /\ i \in 1..(Len(Q[s]) - 1)
      BY ONLY <1>2, <1>5, <1>7, <2>2
    <3>2. Q2[s][i] = IF i < pos THEN Q[s][i] ELSE Q[s][i + 1]
      BY ONLY <1>5, <3>1, Zenon
    <3> QED BY ONLY <2>2, <3>1, <3>2
  <2> QED BY ONLY <2>1, <2>2
<1>9. ASSUME NEW r \in Resource, NEW j \in 1..Len(Q[r]), ~(r = s /\ j = pos)
      PROVE  \E i \in 1..Len(Q2[r]) : Q2[r][i] = Q[r][j]
  <2>1. CASE r # s
    BY ONLY <1>4, <2>1
  <2>2. CASE r = s /\ j < pos
    <3>1. j \in 1..(Len(Q[s]) - 1)
      BY ONLY <1>2, <1>7, <2>2
    <3> QED BY ONLY <1>5, <2>2, <3>1, SMTT(30)
  <2>3. CASE r = s /\ pos < j
    <3>1. j - 1 \in 1..(Len(Q[s]) - 1) /\ ~(j - 1 < pos) /\ (j - 1) + 1 = j
      BY ONLY <1>2, <1>7, <2>3
    <3> QED BY ONLY <1>5, <2>3, <3>1, Zenon
  <2> QED BY ONLY <1>2, <1>7, <1>9, <2>1, <2>2, <2>3, SMTT(30)
<1>10. ASSUME NEW r \in Resource, NEW i \in 1..Len(Q2[r]), NEW j \in 1..Len(Q2[r]),
              old(r, i) = old(r, j)
       PROVE  i = j
  BY ONLY <1>2, <1>7, <1>10
<1> HIDE DEF old
<1>11. TicketsCoherent(Q2, G, P2, N)
  <2>1. ASSUME NEW r \in Resource, NEW u \in Resource,
               NEW i \in 1..Len(Q2[r]), NEW j \in 1..Len(Q2[u]),
               Q2[r][i].ticket = Q2[u][j].ticket
        PROVE  r = u /\ i = j
    <3>1. PICK x \in 1..Len(Q[r]) : x = old(r, i) /\ Q2[r][i] = Q[r][x]
      BY ONLY <1>8, SMTT(30)
    <3>2. PICK y \in 1..Len(Q[u]) : y = old(u, j) /\ Q2[u][j] = Q[u][y]
      BY ONLY <1>8, Zenon
    <3>3. Q[r][x].ticket = Q[u][y].ticket
      BY ONLY <2>1, <3>1, <3>2
    <3>4. \A k \in 1..Len(Q[r]), l \in 1..Len(Q[u]) :
            Q[r][k].ticket = Q[u][l].ticket => r = u /\ k = l
      BY ONLY <1>1, Zenon DEF TicketsCoherent
    <3>5. r = u /\ x = y
      BY ONLY <3>3, <3>4
    <3> QED BY ONLY <1>10, <3>1, <3>2, <3>5, Zenon
  <2>2. ASSUME NEW r \in Resource, NEW i \in 1..Len(Q2[r])
        PROVE  \E d \in P2 : CallOf(d, r, Q2[r][i])
    <3>1. PICK x \in 1..Len(Q[r]) : ~(r = s /\ x = pos) /\ Q2[r][i] = Q[r][x]
      BY ONLY <1>8, SMTT(60)
    <3>2. PICK d \in P : CallOf(d, r, Q[r][x])
      BY ONLY <1>1 DEF TicketsCoherent
    <3>3. d # c
      <4> SUFFICES ASSUME d = c PROVE FALSE
        BY SMTT(60)
      <4>1. Q[r][x].ticket = Q[s][pos].ticket
        BY ONLY <3>2, <1>3, d = c DEF CallOf
      <4>2. \A k \in 1..Len(Q[r]), l \in 1..Len(Q[s]) :
              Q[r][k].ticket = Q[s][l].ticket => r = s /\ k = l
        BY ONLY <1>1, <1>2, Zenon DEF TicketsCoherent
      <4>3. pos \in 1..Len(Q[s])
        BY ONLY <1>2
      <4>4. r = s /\ x = pos
        BY ONLY <4>1, <4>2, <4>3
      <4> QED BY ONLY <3>1, <4>4
    <3> QED BY ONLY <3>1, <3>2, <3>3
  <2>3. ASSUME NEW d \in P2
        PROVE  (\E i \in 1..Len(Q2[d.resource]) : Q2[d.resource][i].ticket = d.ticket)
                 <=> d.ticket \notin G
    <3>0. d.resource \in Resource /\ d \in P /\ d.ticket # c.ticket
      BY <1>1, Zenon DEF TableTyped, Call, TicketsCoherent
    <3>1. (\E i \in 1..Len(Q[d.resource]) : Q[d.resource][i].ticket = d.ticket)
            <=> d.ticket \notin G
      BY ONLY <1>1, <3>0, ZenonT(60) DEF TicketsCoherent
    <3>2. ASSUME NEW i \in 1..Len(Q2[d.resource]), Q2[d.resource][i].ticket = d.ticket
          PROVE  \E j \in 1..Len(Q[d.resource]) : Q[d.resource][j].ticket = d.ticket
      BY ONLY <1>8, <3>0, <3>2, SMTT(30)
    <3>3. ASSUME NEW j \in 1..Len(Q[d.resource]), Q[d.resource][j].ticket = d.ticket
          PROVE  \E i \in 1..Len(Q2[d.resource]) : Q2[d.resource][i].ticket = d.ticket
      <4>1. ~(d.resource = s /\ j = pos)
        BY ONLY <1>3, <3>0, <3>3
      <4>2. PICK i \in 1..Len(Q2[d.resource]) : Q2[d.resource][i] = Q[d.resource][j]
        BY ONLY <1>9, <3>0, <4>1
      <4> QED BY ONLY <3>3, <4>2
    <3> QED BY ONLY <3>1, <3>2, <3>3
  <2>4. \A k \in G : \E d \in P2 : d.ticket = k
    BY <1>1, ZenonT(60) DEF TicketsCoherent
  <2> QED BY ONLY <1>1, <2>1, <2>2, <2>3, <2>4, ZenonT(60) DEF TicketsCoherent
<1>12. GrantsCoherent(H, Q2, G, P2)
  <2>1. ASSUME NEW r \in Resource, NEW i \in 1..Len(Q2[r]), NEW h \in H[r],
               h.txn = Q2[r][i].txn /\ SameFamily(h.mode, Q2[r][i].mode)
        PROVE  Covers(Q2[r][i].mode, h.mode)
    <3>1. PICK x \in 1..Len(Q[r]) : Q2[r][i] = Q[r][x]
      BY ONLY <1>8
    <3> QED BY ONLY <1>1, <2>1, <3>1, Zenon DEF GrantsCoherent
  <2> QED BY ONLY <1>1, <2>1 DEF GrantsCoherent
<1>13. PromisesCoherent(H, G, P2, PR)
  BY <1>1 DEF PromisesCoherent
<1>14. TableTyped(H, Q2, G, P2, N, PR)
  BY ONLY <1>1, <1>6 DEF TableTyped
<1> QED BY ONLY <1>1, <1>11, <1>12, <1>13, <1>14 DEF TableCoherent

\* A candidate joins at one place: those behind it move down by one.
InsertedAt(q, w, q2, at) ==
  /\ at \in 1..(Len(q) + 1)
  /\ q2[at] = w
  /\ \A i \in 1..(Len(q) + 1) : i < at => q2[i] = q[i]
  /\ \A i \in 1..(Len(q) + 1) : i > at => q2[i] = q[i - 1]

LEMMA InsertProperties ==
  ASSUME NEW q \in Seq(Waiter), NEW w \in Waiter
  PROVE  /\ Insert(q, w) \in Seq(Waiter)
         /\ Len(Insert(q, w)) = Len(q) + 1
         /\ \E at : InsertedAt(q, w, Insert(q, w), at)
<1> USE DEF InsertedAt
<1>1. Len(q) \in Nat /\ \A i \in 1..Len(q) : q[i] \in Waiter
  BY SeqIsFunction, SeqElement
<1>2. CASE ~w.conversion
  <2>1. Insert(q, w) = Append(q, w)
    BY <1>2 DEF Insert
  <2>2. /\ Append(q, w) \in Seq(Waiter)
        /\ Len(Append(q, w)) = Len(q) + 1
        /\ \A i \in 1..Len(q) : Append(q, w)[i] = q[i]
        /\ Append(q, w)[Len(q) + 1] = w
    BY SeqAppended
  <2>3. Len(q) + 1 \in 1..(Len(q) + 1)
    BY ONLY <1>1
  <2>4. \A i \in 1..(Len(q) + 1) : /\ i < Len(q) + 1 => Append(q, w)[i] = q[i]
                                   /\ ~(i > Len(q) + 1)
    BY ONLY <1>1, <2>2
  <2> QED BY ONLY <2>1, <2>2, <2>3, <2>4
<1>3. CASE w.conversion
  <2> DEFINE n == LeadingConversions(q)
             a == SubSeq(q, 1, n)
             b == SubSeq(q, n + 1, Len(q))
             aw == Append(a, w)
             q2 == aw \o b
  <2>1. n \in 0..Len(q)
    <3> DEFINE S == { k \in 0..Len(q) : k = Len(q) \/ ~q[k + 1].conversion }
    <3>1. S \subseteq Nat /\ S # {}
      BY <1>1
    <3>2. PICK k \in S : \A j \in S : k <= j
      <4> HIDE DEF S
      <4> QED BY ONLY <3>1, LeastNat, Zenon
    <3>3. \A i \in 1..k : q[i].conversion
      <4> SUFFICES ASSUME NEW i \in 1..k, ~q[i].conversion
                   PROVE  FALSE
        OBVIOUS
      <4>1. i - 1 \in 0..Len(q) /\ (i - 1) + 1 = i /\ ~(k <= i - 1)
        BY <1>1
      <4> QED BY <3>2, <4>1, Zenon
    <3>4. k \in 0..Len(q) /\ (k = Len(q) \/ ~q[k + 1].conversion)
      OBVIOUS
    <3> QED BY ONLY <3>3, <3>4 DEF LeadingConversions
  <2> HIDE DEF n
  <2>2. /\ 1 \in Int /\ n \in Int /\ \A i \in 1..n : q[i] \in Waiter
        /\ n + 1 \in Int /\ Len(q) \in Int /\ \A i \in (n + 1)..Len(q) : q[i] \in Waiter
    BY ONLY <1>1, <2>1
  <2>3. /\ a \in Seq(Waiter)
        /\ Len(a) = IF 1 <= n THEN n - 1 + 1 ELSE 0
        /\ \A i \in 1..(n - 1 + 1) : a[i] = q[1 + i - 1]
    BY ONLY <2>2, SubSeqIs
  <2>4. /\ b \in Seq(Waiter)
        /\ Len(b) = IF n + 1 <= Len(q) THEN Len(q) - (n + 1) + 1 ELSE 0
        /\ \A i \in 1..(Len(q) - (n + 1) + 1) : b[i] = q[(n + 1) + i - 1]
    BY ONLY <2>2, SubSeqIs
  <2>5. Insert(q, w) = (a \o <<w>>) \o b
    BY <1>3, Zenon DEF Insert, n
  <2>6. a \o <<w>> = aw
    <3> HIDE DEF a
    <3> QED BY <2>3, SeqAppended
  <2>7. /\ aw \in Seq(Waiter) /\ Len(aw) = Len(a) + 1
        /\ \A i \in 1..Len(a) : aw[i] = a[i]
        /\ aw[Len(a) + 1] = w
    <3> HIDE DEF a
    <3> QED BY <2>3, SeqAppended
  <2> HIDE DEF a, b, aw
  <2>8. /\ q2 \in Seq(Waiter)
        /\ Len(q2) = Len(aw) + Len(b)
        /\ \A i \in 1..Len(aw) + Len(b) : q2[i] = IF i <= Len(aw) THEN aw[i] ELSE b[i - Len(aw)]
    BY ONLY <2>4, <2>7, SeqConcatenated, Zenon
  <2>9. Len(a) = n /\ Len(aw) = n + 1 /\ Len(b) = Len(q) - n
    BY ONLY <1>1, <2>1, <2>3, <2>4, <2>7
  <2>10. Insert(q, w) = q2
    BY ONLY <2>5, <2>6, Zenon
  <2> HIDE DEF q2
  <2>11. Len(q2) = Len(q) + 1 /\ n + 1 \in 1..(Len(q) + 1)
    BY ONLY <1>1, <2>1, <2>8, <2>9
  <2>12. q2[n + 1] = w
    <3>1. n + 1 \in 1..Len(aw) + Len(b) /\ n + 1 <= Len(aw)
      BY ONLY <1>1, <2>1, <2>9, SMTT(30)
    <3>2. q2[n + 1] = aw[n + 1]
      BY ONLY <2>8, <3>1
    <3> QED BY ONLY <2>7, <2>9, <3>2
  <2>13. ASSUME NEW i \in 1..(Len(q) + 1), i < n + 1
         PROVE  q2[i] = q[i]
    <3>1. i \in 1..Len(aw) + Len(b) /\ i <= Len(aw)
      BY ONLY <1>1, <2>1, <2>9, <2>13
    <3>2. q2[i] = aw[i]
      BY ONLY <2>8, <3>1
    <3>3. i \in 1..Len(a) /\ i \in 1..(n - 1 + 1) /\ 1 + i - 1 = i
      BY ONLY <1>1, <2>1, <2>9, <2>13
    <3> QED BY ONLY <2>3, <2>7, <3>2, <3>3
  <2>14. ASSUME NEW i \in 1..(Len(q) + 1), i > n + 1
         PROVE  q2[i] = q[i - 1]
    <3> DEFINE k == i - Len(aw)
    <3>1. i \in 1..Len(aw) + Len(b) /\ ~(i <= Len(aw))
      BY ONLY <1>1, <2>1, <2>9, <2>14, SMTT(30)
    <3>2. q2[i] = b[k]
      BY ONLY <2>8, <3>1
    <3>3. k \in 1..(Len(q) - (n + 1) + 1) /\ (n + 1) + k - 1 = i - 1
      BY ONLY <1>1, <2>1, <2>9, <2>14
    <3> QED BY ONLY <2>4, <3>2, <3>3
  <2> QED BY ONLY <2>8, <2>10, <2>11, <2>12, <2>13, <2>14, Zenon
<1> QED BY ONLY <1>2, <1>3, SMTT(30)

\* The candidate of a call asks for the mode asked for and for what is held.
CandidateOf(w, H, t, m, N) ==
  /\ w \in Waiter
  /\ w.ticket = N
  /\ w.txn = t
  /\ Covers(w.mode, m)
  /\ \A h \in H : h.txn = t /\ SameFamily(h.mode, w.mode) => Covers(w.mode, h.mode)

LEMMA CandidateProperties ==
  ASSUME holders \in [Resource -> SUBSET Holder], LocksCoherent(holders), next_ticket \in Nat,
         NEW t \in Txn, NEW r \in Resource, NEW m \in LockMode
  PROVE  CandidateOf(Candidate(t, r, m), holders[r], t, m, next_ticket)
<1> DEFINE held == HoldersOf(holders[r], t, m)
           h0 == CHOOSE h \in held : TRUE
           w == Candidate(t, r, m)
<1>1. \A h \in holders[r] : h.txn \in Txn /\ h.mode \in LockMode
  BY SMTT(60) DEF Holder
<1>2. w = [ticket |-> next_ticket, txn |-> t,
           mode |-> IF held = {} THEN m ELSE Join(h0.mode, m), conversion |-> held # {}]
  BY SMTT(60) DEF Candidate
<1>3. CASE held = {}
  <2>1. w.mode = m /\ w.ticket = next_ticket /\ w.txn = t /\ w \in Waiter
    BY <1>2, <1>3 DEF Waiter
  <2>2. \A h \in holders[r] : ~(h.txn = t /\ SameFamily(h.mode, m))
    BY <1>3 DEF HoldersOf
  <2> HIDE DEF w
  <2>3. Covers(m, m)
    BY ONLY CoversReflexive, m \in LockMode
  <2> QED BY ONLY <2>1, <2>2, <2>3, SMTT(60) DEF CandidateOf, w
<1>4. CASE held # {}
  <2>1. h0 \in held
    BY <1>4
  <2>2. h0 \in holders[r] /\ h0.txn = t /\ SameFamily(h0.mode, m)
    BY <2>1 DEF HoldersOf
  <2> HIDE DEF h0
  <2>3. /\ Join(h0.mode, m) \in LockMode
        /\ Covers(Join(h0.mode, m), h0.mode)
        /\ Covers(Join(h0.mode, m), m)
        /\ SameFamily(Join(h0.mode, m), m)
    BY <1>1, <2>2, JoinCovers
  <2>4. w.mode = Join(h0.mode, m) /\ w.ticket = next_ticket /\ w.txn = t /\ w \in Waiter
    <3>1. w = [ticket |-> next_ticket, txn |-> t, mode |-> Join(h0.mode, m), conversion |-> TRUE]
      BY ONLY <1>2, <1>4, Zenon
    <3>2. [ticket |-> next_ticket, txn |-> t, mode |-> Join(h0.mode, m), conversion |-> TRUE]
            \in Waiter
      BY ONLY <2>3, next_ticket \in Nat, t \in Txn DEF Waiter
    <3> HIDE DEF w
    <3> QED BY ONLY <3>1, <3>2
  <2>5. ASSUME NEW h \in holders[r], h.txn = t, SameFamily(h.mode, w.mode)
        PROVE  h = h0
    <3>1. SameFamily(h.mode, h0.mode)
      BY <2>2, <2>3, <2>4, <2>5 DEF SameFamily
    <3> QED BY <2>2, <2>5, <3>1, SMTT(60) DEF LocksCoherent
  <2> HIDE DEF w
  <2>6. CandidateOf(w, holders[r], t, m, next_ticket)
    BY ONLY <2>3, <2>4, <2>5 DEF CandidateOf
  <2> QED BY <2>6 DEF w
<1> QED BY <1>3, <1>4

\* A call of a transaction with no other call joins the queue of r.
JoinStage(H, Q, P, N, t, r, m, w, c, Q2, P2) ==
  /\ t \in Txn /\ r \in Resource /\ m \in LockMode
  /\ \A d \in P : d.txn # t
  /\ CandidateOf(w, H[r], t, m, N)
  /\ c \in Call /\ c.txn = t /\ c.resource = r /\ c.mode = m /\ c.ticket = N
  /\ Q2 = [Q EXCEPT ![r] = Insert(@, w)]
  /\ P2 = P \cup {c}

\* Joining a queue keeps the table coherent.
LEMMA JoinKeepsCoherence ==
  ASSUME NEW H, NEW Q, NEW G, NEW P, NEW N, NEW PR,
         TableCoherent(H, Q, G, P, N, PR),
         NEW t, NEW s, NEW m, NEW w, NEW c, NEW Q2, NEW P2,
         JoinStage(H, Q, P, N, t, s, m, w, c, Q2, P2)
  PROVE  TableCoherent(H, Q2, G, P2, N + 1, PR)
<1>1. /\ TableTyped(H, Q, G, P, N, PR) /\ LocksCoherent(H) /\ TicketsCoherent(Q, G, P, N)
      /\ GrantsCoherent(H, Q, G, P) /\ PromisesCoherent(H, G, P, PR)
  BY DEF TableCoherent
<1>2. /\ t \in Txn /\ s \in Resource /\ m \in LockMode
      /\ \A d \in P : d.txn # t
      /\ c \in Call /\ c.txn = t /\ c.resource = s /\ c.mode = m /\ c.ticket = N
      /\ P2 = P \cup {c}
      /\ w \in Waiter /\ w.ticket = N /\ w.txn = t /\ Covers(w.mode, m)
      /\ \A h \in H[s] : h.txn = t /\ SameFamily(h.mode, w.mode) => Covers(w.mode, h.mode)
  BY Zenon DEF JoinStage, CandidateOf
<1>3. Q \in [Resource -> Seq(Waiter)] /\ N \in Nat /\ Q[s] \in Seq(Waiter)
  BY ONLY <1>1, <1>2, Zenon DEF TableTyped
<1>4. Q2[s] = Insert(Q[s], w) /\ \A r \in Resource : r # s => Q2[r] = Q[r]
  BY ONLY <1>2, <1>3, JoinStage(H, Q, P, N, t, s, m, w, c, Q2, P2), Zenon DEF JoinStage
<1>5. /\ Q2[s] \in Seq(Waiter)
      /\ Len(Q2[s]) = Len(Q[s]) + 1
      /\ \E at : InsertedAt(Q[s], w, Q2[s], at)
  <2>1. w \in Waiter /\ Q[s] \in Seq(Waiter) /\ Q2[s] = Insert(Q[s], w)
    BY ONLY <1>2, <1>3, <1>4
  <2> QED BY ONLY <2>1, InsertProperties, Zenon
<1>6. PICK at \in 1..(Len(Q[s]) + 1) :
           /\ Q2[s][at] = w
           /\ \A i \in 1..(Len(Q[s]) + 1) : i < at => Q2[s][i] = Q[s][i]
           /\ \A i \in 1..(Len(Q[s]) + 1) : i > at => Q2[s][i] = Q[s][i - 1]
  BY ONLY <1>5 DEF InsertedAt
<1>7. Q2 \in [Resource -> Seq(Waiter)]
  <2>1. Q2 = [Q EXCEPT ![s] = Q2[s]]
    BY ONLY <1>2, <1>3, <1>4, JoinStage(H, Q, P, N, t, s, m, w, c, Q2, P2), Zenon DEF JoinStage
  <2> QED BY ONLY <1>3, <1>5, <2>1
<1>8. \A r \in Resource : Len(Q[r]) \in Nat
  BY ONLY <1>3, SeqIsFunction
\* A candidate of the new queue is the new one or stood at old(r, i).
<1> DEFINE old(r, i) == IF r # s \/ i < at THEN i ELSE i - 1
           new(r, i) == r = s /\ i = at
<1>9. ASSUME NEW r \in Resource, NEW i \in 1..Len(Q2[r]), ~new(r, i)
      PROVE  old(r, i) \in 1..Len(Q[r]) /\ Q2[r][i] = Q[r][old(r, i)]
  <2>1. CASE r # s
    BY ONLY <1>4, <2>1
  <2>2. CASE r = s
    <3>1. Len(Q[s]) \in Nat /\ i \in 1..(Len(Q[s]) + 1) /\ i # at
      BY ONLY <1>2, <1>5, <1>8, <1>9, <2>2, SMTT(30)
    <3>2. /\ i < at => Q2[s][i] = Q[s][i]
          /\ i > at => Q2[s][i] = Q[s][i - 1]
      BY ONLY <1>6, <3>1
    <3> QED BY ONLY <2>2, <3>1, <3>2
  <2> QED BY ONLY <2>1, <2>2
<1>10. ASSUME NEW r \in Resource, NEW j \in 1..Len(Q[r])
       PROVE  \E i \in 1..Len(Q2[r]) : Q2[r][i] = Q[r][j]
  <2>1. CASE r # s
    BY ONLY <1>4, <2>1
  <2>2. CASE r = s /\ j < at
    <3>1. j \in 1..(Len(Q[s]) + 1)
      BY ONLY <1>2, <1>8, <2>2, SMTT(60)
    <3> QED BY ONLY <1>5, <1>6, <2>2, <3>1
  <2>3. CASE r = s /\ ~(j < at)
    <3>1. j + 1 \in 1..(Len(Q[s]) + 1) /\ j + 1 > at /\ (j + 1) - 1 = j
      BY ONLY <1>2, <1>8, <2>3
    <3> QED BY ONLY <1>5, <1>6, <2>3, <3>1, SMTT(60)
  <2> QED BY ONLY <2>1, <2>2, <2>3
<1>11. ASSUME NEW r \in Resource, NEW i \in 1..Len(Q2[r]), NEW j \in 1..Len(Q2[r]),
              ~new(r, i), ~new(r, j), old(r, i) = old(r, j)
       PROVE  i = j
  <2>1. CASE r # s
    BY ONLY <1>11, <2>1
  <2>2. CASE r = s
    <3>1. Len(Q[s]) \in Nat /\ i \in 1..(Len(Q[s]) + 1) /\ j \in 1..(Len(Q[s]) + 1)
      BY ONLY <1>2, <1>5, <1>8, <2>2
    <3> QED BY ONLY <1>11, <2>2, <3>1, SMTT(30)
  <2> QED BY ONLY <2>1, <2>2
<1>12. \A r \in Resource : \A i \in 1..Len(Q2[r]) : new(r, i) => Q2[r][i] = w
  BY ONLY <1>6
<1>13. at \in 1..Len(Q2[s]) /\ Q2[s][at] = w
  BY ONLY <1>5, <1>6
<1> HIDE DEF old
\* Every ticket in use is older than N.
<1>14. \A d \in P : d.ticket \in Nat /\ d.ticket < N /\ d.ticket # N
  <2>1. \A d \in P : d.ticket \in Nat /\ d.ticket < N
    BY ONLY <1>1 DEF TableTyped, Call, TicketsCoherent
  <2> QED BY ONLY <1>3, <2>1, SMTT(60)
<1>15. ASSUME NEW r \in Resource, NEW i \in 1..Len(Q[r])
       PROVE  Q[r][i].ticket # N
  <2>1. PICK d \in P : CallOf(d, r, Q[r][i])
    BY ONLY <1>1, Zenon DEF TicketsCoherent
  <2>2. d.ticket = Q[r][i].ticket
    BY ONLY <2>1 DEF CallOf
  <2> QED BY ONLY <1>14, <2>2
<1>16. N \notin G
  <2>1. \A k \in G : \E d \in P : d.ticket = k
    BY ONLY <1>1, Zenon DEF TicketsCoherent
  <2> QED BY ONLY <1>14, <2>1
<1>17. TicketsCoherent(Q2, G, P2, N + 1)
  <2>1. \A d \in P2 : d.ticket < N + 1
    <3>1. \A d \in P2 : d \in P \/ d = c
      BY ONLY <1>2
    <3>2. c.ticket = N /\ N \in Nat
      BY ONLY <1>2, <1>3
    <3> QED BY ONLY <1>14, <3>1, <3>2, SMTT(60)
  <2>2. \A d, e \in P2 : d.ticket = e.ticket \/ d.txn = e.txn => d = e
    <3>1. \A d, e \in P : d.ticket = e.ticket \/ d.txn = e.txn => d = e
      BY ONLY <1>1 DEF TicketsCoherent
    <3>2. \A d \in P : d.ticket # c.ticket /\ d.txn # c.txn
      BY ONLY <1>2, <1>14
    <3>3. \A d \in P2 : d \in P \/ d = c
      BY ONLY <1>2
    <3> QED BY ONLY <3>1, <3>2, <3>3, SMTT(30)
  <2>3. ASSUME NEW r \in Resource, NEW u \in Resource,
               NEW i \in 1..Len(Q2[r]), NEW j \in 1..Len(Q2[u]),
               Q2[r][i].ticket = Q2[u][j].ticket
        PROVE  r = u /\ i = j
    <3>1. CASE new(r, i) /\ new(u, j)
      BY ONLY <3>1
    <3>2. CASE new(r, i) /\ ~new(u, j)
      <4>1. Q2[r][i].ticket = N
        BY ONLY <1>2, <1>12, <3>2
      <4>2. PICK y \in 1..Len(Q[u]) : Q2[u][j] = Q[u][y]
        BY ONLY <1>9, <3>2
      <4> QED BY ONLY <1>15, <2>3, <4>1, <4>2, Zenon
    <3>3. CASE ~new(r, i) /\ new(u, j)
      <4>1. Q2[u][j].ticket = N
        BY ONLY <1>2, <1>12, <3>3, SMTT(60)
      <4>2. PICK x \in 1..Len(Q[r]) : Q2[r][i] = Q[r][x]
        BY ONLY <1>9, <3>3
      <4> QED BY ONLY <1>15, <2>3, <4>1, <4>2, SMTT(30)
    <3>4. CASE ~new(r, i) /\ ~new(u, j)
      <4>1. PICK x \in 1..Len(Q[r]) : x = old(r, i) /\ Q2[r][i] = Q[r][x]
        BY ONLY <1>9, <3>4, Zenon
      <4>2. PICK y \in 1..Len(Q[u]) : y = old(u, j) /\ Q2[u][j] = Q[u][y]
        BY ONLY <1>9, <3>4, Zenon
      <4>3. Q[r][x].ticket = Q[u][y].ticket
        BY ONLY <2>3, <4>1, <4>2, SMTT(30)
      <4>4. \A k \in 1..Len(Q[r]), l \in 1..Len(Q[u]) :
              Q[r][k].ticket = Q[u][l].ticket => r = u /\ k = l
        BY ONLY <1>1 DEF TicketsCoherent
      <4>5. r = u /\ x = y
        BY ONLY <4>3, <4>4
      <4> QED BY ONLY <1>11, <3>4, <4>1, <4>2, <4>5, Zenon
    <3> QED BY ONLY <3>1, <3>2, <3>3, <3>4
  <2>4. ASSUME NEW r \in Resource, NEW i \in 1..Len(Q2[r])
        PROVE  \E d \in P2 : CallOf(d, r, Q2[r][i])
    <3>1. CASE new(r, i)
      <4>1. CallOf(c, r, Q2[r][i])
        BY ONLY <1>2, <1>12, <3>1, SMTT(60) DEF CallOf
      <4> QED BY ONLY <1>2, <4>1, SMTT(30)
    <3>2. CASE ~new(r, i)
      <4>1. PICK x \in 1..Len(Q[r]) : Q2[r][i] = Q[r][x]
        BY ONLY <1>9, <3>2, SMTT(30)
      <4>2. PICK d \in P : CallOf(d, r, Q[r][x])
        BY ONLY <1>1, Zenon DEF TicketsCoherent
      <4> QED BY ONLY <1>2, <4>1, <4>2
    <3> QED BY ONLY <3>1, <3>2, SMTT(30)
  <2>5. ASSUME NEW d \in P2
        PROVE  (\E i \in 1..Len(Q2[d.resource]) : Q2[d.resource][i].ticket = d.ticket)
                 <=> d.ticket \notin G
    <3>1. CASE d = c
      BY ONLY <1>2, <1>13, <1>16, <3>1, ZenonT(60)
    <3>2. CASE d \in P
      <4>0. d.resource \in Resource /\ d.ticket # N
        BY ONLY <1>1, <1>14, <3>2 DEF TableTyped, Call
      <4>1. (\E i \in 1..Len(Q[d.resource]) : Q[d.resource][i].ticket = d.ticket)
              <=> d.ticket \notin G
        BY ONLY <1>1, <3>2, Zenon DEF TicketsCoherent
      <4>2. ASSUME NEW i \in 1..Len(Q2[d.resource]), Q2[d.resource][i].ticket = d.ticket
            PROVE  \E j \in 1..Len(Q[d.resource]) : Q[d.resource][j].ticket = d.ticket
        <5>1. ~new(d.resource, i)
          BY ONLY <1>2, <1>12, <4>0, <4>2, SMTT(30)
        <5> QED BY ONLY <1>9, <4>0, <4>2, <5>1, SMTT(30)
      <4>3. ASSUME NEW j \in 1..Len(Q[d.resource]), Q[d.resource][j].ticket = d.ticket
            PROVE  \E i \in 1..Len(Q2[d.resource]) : Q2[d.resource][i].ticket = d.ticket
        <5>1. PICK i \in 1..Len(Q2[d.resource]) : Q2[d.resource][i] = Q[d.resource][j]
          BY ONLY <1>10, <4>0
        <5> QED BY ONLY <4>3, <5>1
      <4> QED BY ONLY <4>1, <4>2, <4>3
    <3> QED BY ONLY <1>2, <3>1, <3>2, Zenon
  <2>6. \A k \in G : \E d \in P2 : d.ticket = k
    BY ONLY <1>1, <1>2, Zenon DEF TicketsCoherent
  <2> QED BY ONLY <2>1, <2>2, <2>3, <2>4, <2>5, <2>6, SMTT(30) DEF TicketsCoherent
<1>18. GrantsCoherent(H, Q2, G, P2)
  <2>1. ASSUME NEW r \in Resource, NEW i \in 1..Len(Q2[r]), NEW h \in H[r],
               h.txn = Q2[r][i].txn /\ SameFamily(h.mode, Q2[r][i].mode)
        PROVE  Covers(Q2[r][i].mode, h.mode)
    <3>1. CASE new(r, i)
      BY ONLY <1>2, <1>12, <2>1, <3>1
    <3>2. CASE ~new(r, i)
      <4>1. PICK x \in 1..Len(Q[r]) : Q2[r][i] = Q[r][x]
        BY ONLY <1>9, <3>2
      <4> QED BY ONLY <1>1, <2>1, <4>1, Zenon DEF GrantsCoherent
    <3> QED BY ONLY <3>1, <3>2
  <2>2. \A d \in P2 : d.ticket \in G =>
          \E h \in H[d.resource] : h.txn = d.txn /\ Covers(h.mode, d.mode)
    BY ONLY <1>1, <1>2, <1>16, Zenon DEF GrantsCoherent
  <2> QED BY ONLY <2>1, <2>2, Zenon DEF GrantsCoherent
<1>19. PromisesCoherent(H, G, P2, PR)
  BY ONLY <1>1, <1>2 DEF PromisesCoherent
<1>20. TableTyped(H, Q2, G, P2, N + 1, PR)
  <2>1. P2 \subseteq Call
    BY ONLY <1>1, <1>2, Zenon DEF TableTyped
  <2>2. N + 1 \in Nat
    BY ONLY <1>1 DEF TableTyped
  <2> QED BY ONLY <1>1, <1>7, <2>1, <2>2 DEF TableTyped
<1> QED BY ONLY <1>1, <1>17, <1>18, <1>19, <1>20, SMTT(30) DEF TableCoherent
================================================================================
