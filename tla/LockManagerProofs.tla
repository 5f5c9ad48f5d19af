-------------------------- MODULE LockManagerProofs --------------------------
(***************************************************************************)
(* Theorems about the lock manager, for every set of transactions and      *)
(* resources: every operation is a sequence of stages that ends with a grant *)
(* pass, so the invariants of the whole table follow from what its stages  *)
(* keep.                                                                   *)
(***************************************************************************)
EXTENDS LockQueueProofs

(***************************************************************************)
(* The operations.                                                         *)
(***************************************************************************)

\* What an operation owes: a coherent table whose fronts are refused.
Settled(H, Q, G, P, N, PR) ==
  /\ TableCoherent(H, Q, G, P, N, PR)
  /\ \A r \in Resource : FrontRefused(H[r], Q[r])

\* A pass over the one resource an operation changed settles the table.
LEMMA OnePassSettles ==
  ASSUME NEW H \in [Resource -> SUBSET Holder], NEW Q \in [Resource -> Seq(Waiter)],
         \A s \in Resource : FrontRefused(H[s], Q[s]),
         NEW r \in Resource, NEW h1, NEW q1, NEW G, NEW P, NEW N, NEW PR,
         TableCoherent([H EXCEPT ![r] = h1], [Q EXCEPT ![r] = q1], G, P, N, PR)
  PROVE  Settled([H EXCEPT ![r] = GrantPass(h1, q1).holders],
                 [Q EXCEPT ![r] = GrantPass(h1, q1).queue],
                 G \cup GrantPass(h1, q1).tickets, P, N, PR)
<1> DEFINE H1 == [H EXCEPT ![r] = h1]
           Q1 == [Q EXCEPT ![r] = q1]
           H2 == [H EXCEPT ![r] = GrantPass(h1, q1).holders]
           Q2 == [Q EXCEPT ![r] = GrantPass(h1, q1).queue]
           G2 == G \cup GrantPass(h1, q1).tickets
<1>1. /\ H1[r] = h1 /\ Q1[r] = q1
      /\ \A s \in Resource : s # r => H1[s] = H[s] /\ Q1[s] = Q[s]
  OBVIOUS
<1>2. H2 = [s \in Resource |-> IF s \in {r} THEN GrantPass(H1[s], Q1[s]).holders ELSE H1[s]]
  BY Zenon
<1>3. Q2 = [s \in Resource |-> IF s \in {r} THEN GrantPass(H1[s], Q1[s]).queue ELSE Q1[s]]
  BY Zenon
<1>4. TableCoherent(H1, Q1, G, P, N, PR)
  OBVIOUS
<1>5. {r} \in SUBSET Resource
  OBVIOUS
<1>6. \A s \in Resource \ {r} : FrontRefused(H1[s], Q1[s])
  BY <1>1
<1> HIDE DEF H1, Q1, H2, Q2
<1>7. \A k : k \in G2 <=> k \in G \/ \E s \in {r} : k \in GrantPass(H1[s], Q1[s]).tickets
  BY ONLY <1>1
<1> HIDE DEF G2
<1>8. PassStage(H1, Q1, G, {r}, H2, Q2, G2)
  BY ONLY <1>2, <1>3, <1>5, <1>6, <1>7, Zenon DEF PassStage
<1>9. /\ TableCoherent(H2, Q2, G2, P, N, PR)
      /\ \A s \in Resource : FrontRefused(H2[s], Q2[s])
  BY ONLY <1>4, <1>8, PassKeepsCoherence, ZenonT(60)
<1>10. Settled(H2, Q2, G2, P, N, PR)
  BY ONLY <1>9, SMTT(60) DEF Settled
<1> QED BY ONLY <1>10 DEF H2, Q2, G2

\* The table after a request has joined the queue and the pass has run.
LEMMA EnqueueSettles ==
  ASSUME TableInvariant, NEW t \in Txn, NEW r \in Resource, NEW m \in LockMode,
         Idle(t), NEW c \in Call,
         c.txn = t, c.resource = r, c.mode = m, c.ticket = next_ticket
  PROVE  Settled([holders EXCEPT ![r] = AfterEnqueue(t, r, m).holders],
                 [queue EXCEPT ![r] = AfterEnqueue(t, r, m).queue],
                 granted \cup AfterEnqueue(t, r, m).tickets,
                 parked \cup {c}, next_ticket + 1, promised)
<1> DEFINE w == Candidate(t, r, m)
           Q1 == [queue EXCEPT ![r] = Insert(queue[r], w)]
           P1 == parked \cup {c}
<1>1. /\ TableCoherent(holders, queue, granted, parked, next_ticket, promised)
      /\ \A s \in Resource : FrontRefused(holders[s], queue[s])
  BY DEF TableInvariant, FrontIsRefused
<1>2. /\ holders \in [Resource -> SUBSET Holder] /\ queue \in [Resource -> Seq(Waiter)]
      /\ LocksCoherent(holders) /\ next_ticket \in Nat
  BY ONLY <1>1 DEF TableCoherent, TableTyped
<1>3. CandidateOf(w, holders[r], t, m, next_ticket)
  BY <1>2, CandidateProperties
<1> HIDE DEF w
<1>4. JoinStage(holders, queue, parked, next_ticket, t, r, m, w, c, Q1, P1)
  BY <1>3 DEF JoinStage, Idle
<1>5. TableCoherent(holders, Q1, granted, P1, next_ticket + 1, promised)
  <2> HIDE DEF Q1, P1
  <2> QED BY ONLY <1>1, <1>4, JoinKeepsCoherence, Zenon
<1>6. holders = [holders EXCEPT ![r] = holders[r]]
  BY <1>2
<1>7. TableCoherent([holders EXCEPT ![r] = holders[r]], [queue EXCEPT ![r] = Insert(queue[r], w)],
                    granted, P1, next_ticket + 1, promised)
  BY ONLY <1>5, <1>6
<1> DEFINE q1 == Insert(queue[r], w)
           pass == GrantPass(holders[r], q1)
<1>8. Settled([holders EXCEPT ![r] = pass.holders], [queue EXCEPT ![r] = pass.queue],
              granted \cup pass.tickets, P1, next_ticket + 1, promised)
  <2> HIDE DEF P1
  <2> QED BY <1>1, <1>2, <1>7, OnePassSettles, Zenon
<1>9. pass = AfterEnqueue(t, r, m)
  BY SMTT(60) DEF AfterEnqueue, w
<1> HIDE DEF pass
<1> QED BY ONLY <1>8, <1>9, SMTT(60)

\* The table after a call whose ticket is queued has left and the pass has run.
LEMMA GiveUpSettles ==
  ASSUME NEW H, NEW Q, NEW G, NEW P, NEW N, NEW PR,
         Settled(H, Q, G, P, N, PR), NEW c \in P, c.ticket \notin G
  PROVE  Settled([H EXCEPT ![c.resource]
                    = AfterGiveUp(H[c.resource], Q[c.resource], c.ticket).holders],
                 [Q EXCEPT ![c.resource]
                    = AfterGiveUp(H[c.resource], Q[c.resource], c.ticket).queue],
                 G \cup AfterGiveUp(H[c.resource], Q[c.resource], c.ticket).tickets,
                 P \ {c}, N, PR)
<1> DEFINE r == c.resource
           q1 == WithoutTicket(Q[r], c.ticket)
           Q1 == [Q EXCEPT ![r] = q1]
           P1 == P \ {c}
           pass == GrantPass(H[r], q1)
<1>1. TableCoherent(H, Q, G, P, N, PR) /\ \A s \in Resource : FrontRefused(H[s], Q[s])
  BY Zenon DEF Settled
<1>2. /\ H \in [Resource -> SUBSET Holder] /\ Q \in [Resource -> Seq(Waiter)]
      /\ r \in Resource
  BY ONLY <1>1 DEF TableCoherent, TableTyped, Call
<1>3. TableCoherent(H, Q1, G, P1, N, PR)
  BY <1>1, DropKeepsCoherence, Zenon
<1>4. H = [H EXCEPT ![r] = H[r]]
  BY <1>2
<1>5. TableCoherent([H EXCEPT ![r] = H[r]], [Q EXCEPT ![r] = q1], G, P1, N, PR)
  BY ONLY <1>3, <1>4
<1>6. pass = AfterGiveUp(H[r], Q[r], c.ticket)
  BY DEF AfterGiveUp
<1>7. Settled([H EXCEPT ![r] = pass.holders], [Q EXCEPT ![r] = pass.queue],
              G \cup pass.tickets, P1, N, PR)
  <2> HIDE DEF q1, P1, r
  <2> QED BY ONLY <1>1, <1>2, <1>5, OnePassSettles, Zenon
<1> HIDE DEF pass
<1> QED BY ONLY <1>6, <1>7

LEMMA InitEstablishes == Init => TableInvariant
<1> SUFFICES ASSUME Init PROVE TableInvariant
  OBVIOUS
<1> USE DEF Init
<1>1. TableTyped(holders, queue, granted, parked, next_ticket, promised)
  BY EmptyIsSeq DEF TableTyped
<1>2. \A r \in Resource : Len(queue[r]) = 0 /\ queue[r] = <<>> /\ holders[r] = {}
  BY EmptyIsSeq
<1>3. \A t \in Txn : promised[t] = {}
  OBVIOUS
<1>4. \A r \in Resource : 1..Len(queue[r]) = {}
  BY <1>2
<1>5. LocksCoherent(holders)
  BY <1>2 DEF LocksCoherent
<1>6. TicketsCoherent(queue, granted, parked, next_ticket)
  BY <1>4, SMTT(60) DEF TicketsCoherent
<1>7. GrantsCoherent(holders, queue, granted, parked)
  BY <1>2, <1>4 DEF GrantsCoherent
<1>8. PromisesCoherent(holders, granted, parked, promised)
  BY <1>2, <1>3 DEF PromisesCoherent
<1>9. FrontIsRefused
  BY <1>2 DEF FrontIsRefused, FrontRefused
<1>10. cancelled \in [Txn -> BOOLEAN] /\ priority \in [Txn -> Int]
  OBVIOUS
<1> QED BY <1>1, <1>5, <1>6, <1>7, <1>8, <1>9, <1>10, SMTT(30) DEF TableInvariant, TableCoherent

\* A transaction with no parked call has no candidate in any queue.
LEMMA IdleIsUnqueued ==
  ASSUME TableInvariant, NEW t \in Txn, Idle(t), NEW r \in Resource
  PROVE  /\ \A i \in DOMAIN queue[r] : queue[r][i].txn # t
         /\ WithoutTxn(queue[r], t) = queue[r]
<1>1. TicketsCoherent(queue, granted, parked, next_ticket) /\ queue[r] \in Seq(Waiter)
  BY SMTT(60) DEF TableInvariant, TableCoherent, TableTyped
<1>2. DOMAIN queue[r] = 1..Len(queue[r])
  BY ONLY <1>1, SeqIsFunction, SMTT(60)
<1>3. \A i \in 1..Len(queue[r]) : queue[r][i].txn # t
  BY ONLY <1>1, Idle(t) DEF TicketsCoherent, CallOf, Idle
<1> QED BY ONLY <1>2, <1>3 DEF WithoutTxn

\* The table once a transaction has given back its locks on R and a pass has run there.
GiveBackStage(t, R, H2, Q2, G2, PR2) ==
  LET pass(r) == GrantPass({ h \in holders[r] : h.txn # t }, queue[r])
  IN  /\ R \in SUBSET Resource
      /\ H2 = [r \in Resource |-> IF r \in R THEN pass(r).holders ELSE holders[r]]
      /\ Q2 = [r \in Resource |-> IF r \in R THEN pass(r).queue ELSE queue[r]]
      /\ \A k : k \in G2 <=> k \in granted \/ \E r \in R : k \in pass(r).tickets
      /\ PR2 = [promised EXCEPT ![t] = { p \in @ : p[1] \notin R }]

\* Such a table is settled.
LEMMA RemoveSettles ==
  ASSUME TableInvariant, NEW t \in Txn, Idle(t), NEW R,
         NEW H2, NEW Q2, NEW G2, NEW PR2, GiveBackStage(t, R, H2, Q2, G2, PR2)
  PROVE  Settled(H2, Q2, G2, parked, next_ticket, PR2)
<1> USE DEF GiveBackStage
<1> DEFINE H1 == [r \in Resource |->
                   IF r \in R THEN { h \in holders[r] : h.txn # t } ELSE holders[r]]
<1>1. TableCoherent(holders, queue, granted, parked, next_ticket, promised)
  BY ZenonT(60) DEF TableInvariant
<1>2. \A c \in parked : c.txn # t
  BY DEF Idle
<1>3. TableCoherent(H1, queue, granted, parked, next_ticket, PR2)
  <2>1. RemoveStage(holders, parked, promised, t, R, H1, PR2)
    BY <1>2, Zenon DEF RemoveStage
  <2> HIDE DEF H1
  <2> QED BY ONLY <1>1, <2>1, RemoveKeepsCoherence
<1>4. \A r \in Resource :
        H1[r] = IF r \in R THEN { h \in holders[r] : h.txn # t } ELSE holders[r]
  BY Zenon
<1>5. \A r \in Resource \ R : FrontRefused(H1[r], queue[r])
  BY <1>4, Zenon DEF TableInvariant, FrontIsRefused
<1>6. \A r \in R : H1[r] = { h \in holders[r] : h.txn # t }
  BY <1>4, Zenon
<1>7. \A r \in Resource : r \notin R => H1[r] = holders[r]
  BY <1>4, Zenon
<1> HIDE DEF H1
<1>8. H2 = [r \in Resource |-> IF r \in R THEN GrantPass(H1[r], queue[r]).holders ELSE H1[r]]
  BY <1>6, <1>7, Zenon
<1>9. Q2 = [r \in Resource |-> IF r \in R THEN GrantPass(H1[r], queue[r]).queue ELSE queue[r]]
  BY <1>6, <1>7, Zenon
<1>10. \A k : k \in G2 <=> k \in granted \/ \E r \in R : k \in GrantPass(H1[r], queue[r]).tickets
  BY <1>6, ZenonT(60)
<1>11. R \in SUBSET Resource
  BY SMTT(60)
<1>12. PassStage(H1, queue, granted, R, H2, Q2, G2)
  BY ONLY <1>5, <1>8, <1>9, <1>10, <1>11 DEF PassStage
<1>13. /\ TableCoherent(H2, Q2, G2, parked, next_ticket, PR2)
       /\ \A r \in Resource : FrontRefused(H2[r], Q2[r])
  BY ONLY <1>3, <1>12, PassKeepsCoherence, Zenon
<1> QED BY ONLY <1>13, Zenon DEF Settled

\* Every operation of the lock manager settles the table.
LEMMA StepSettles ==
  ASSUME TableInvariant, Next
  PROVE  Settled(holders', queue', granted', parked', next_ticket', promised')
<1> DEFINE Goal == Settled(holders', queue', granted', parked', next_ticket', promised')
<1>1. Settled(holders, queue, granted, parked, next_ticket, promised)
  BY DEF TableInvariant, FrontIsRefused, Settled
<1>2. TableTyped(holders, queue, granted, parked, next_ticket, promised)
  BY DEF TableInvariant, TableCoherent
<1>3. /\ holders \in [Resource -> SUBSET Holder] /\ queue \in [Resource -> Seq(Waiter)]
      /\ next_ticket \in Nat /\ granted \subseteq Nat /\ parked \subseteq Call
      /\ promised \in [Txn -> SUBSET (Resource \X LockMode)]
  BY ONLY <1>2 DEF TableTyped
<1>4. \A c \in parked : c.ticket # next_ticket
  <2>1. \A c \in parked : c.ticket \in Nat /\ c.ticket < next_ticket
    BY <1>3, Zenon DEF TableInvariant, TableCoherent, TicketsCoherent, Call
  <2> QED BY ONLY <1>3, <2>1
<1>5. next_ticket \notin granted
  BY <1>4, Zenon DEF TableInvariant, TableCoherent, TicketsCoherent
\* The call a request stands for while it is in the table.
<1> DEFINE call(t, r, m, timeout) ==
             [txn |-> t, resource |-> r, mode |-> m, ticket |-> next_ticket, timeout |-> timeout]
<1>6. ASSUME NEW t \in Txn, NEW r \in Resource, NEW m \in AskedModes,
             NEW timeout \in {"Millis", "Infinite"}, Idle(t)
      PROVE  /\ call(t, r, m, timeout) \in Call
             /\ call(t, r, m, timeout).txn = t /\ call(t, r, m, timeout).resource = r
             /\ call(t, r, m, timeout).mode = m /\ call(t, r, m, timeout).ticket = next_ticket
             /\ Settled([holders EXCEPT ![r] = AfterEnqueue(t, r, m).holders],
                        [queue EXCEPT ![r] = AfterEnqueue(t, r, m).queue],
                        granted \cup AfterEnqueue(t, r, m).tickets,
                        parked \cup {call(t, r, m, timeout)}, next_ticket + 1, promised)
  <2>1. m \in LockMode
    BY AskedModesAssumption
  <2>2. /\ call(t, r, m, timeout) \in Call
        /\ call(t, r, m, timeout).txn = t /\ call(t, r, m, timeout).resource = r
        /\ call(t, r, m, timeout).mode = m /\ call(t, r, m, timeout).ticket = next_ticket
    BY <1>3, <2>1 DEF Call
  <2> HIDE DEF call
  <2> QED BY <1>6, <2>1, <2>2, EnqueueSettles, Zenon
<1>7. ASSUME NEW t \in Txn, NEW r \in Resource, NEW m \in AskedModes, LockReentrant(t, r, m)
      PROVE  Goal
  <2>1. m \in LockMode
    BY AskedModesAssumption, SMTT(60)
  <2>2. \E h \in holders[r] : h.txn = t /\ Covers(h.mode, m)
    BY <1>7 DEF LockReentrant, Reentrant, HoldersOf
  <2>3. TableCoherent(holders, queue, granted, parked, next_ticket + 1,
                      [promised EXCEPT ![t] = @ \cup {<<r, m>>}])
    BY <2>1, <2>2, ReentrantKeepsCoherence, Zenon DEF TableInvariant
  <2>4. Settled(holders, queue, granted, parked, next_ticket + 1,
                [promised EXCEPT ![t] = @ \cup {<<r, m>>}])
    BY ONLY <1>1, <2>3 DEF Settled
  <2> QED BY ONLY <1>7, <2>4 DEF LockReentrant, TakeTicket, Promise
<1>8. ASSUME NEW t \in Txn, NEW r \in Resource, NEW m \in AskedModes, LockAtOnce(t, r, m)
      PROVE  Goal
  <2> DEFINE c == call(t, r, m, "Infinite")
             pass == AfterEnqueue(t, r, m)
             H2 == [holders EXCEPT ![r] = pass.holders]
             Q2 == [queue EXCEPT ![r] = pass.queue]
             G2 == granted \cup pass.tickets
             P2 == parked \cup {c}
  <2>1. Idle(t) /\ next_ticket \in pass.tickets
    BY ONLY <1>8, Zenon DEF LockAtOnce
  <2>2. /\ c.txn = t /\ c.resource = r /\ c.mode = m /\ c.ticket = next_ticket
        /\ Settled(H2, Q2, G2, P2, next_ticket + 1, promised)
    BY ONLY <1>6, <2>1, Zenon
  <2>3. c \in P2 /\ c.ticket \in G2
    BY ONLY <2>1, <2>2, Zenon
  <2>4. c \notin parked
    BY ONLY <1>4, <2>2, Zenon
  <2>5. /\ holders' = H2 /\ queue' = Q2 /\ next_ticket' = next_ticket + 1
        /\ granted' = granted \cup (pass.tickets \ {next_ticket})
        /\ parked' = parked
        /\ promised' = [promised EXCEPT ![t] = @ \cup {<<r, m>>}]
    BY ONLY <1>8, Zenon DEF LockAtOnce, SetResource, TakeTicket, Promise
  <2>6. granted' = G2 \ {c.ticket}
    BY ONLY <1>5, <2>2, <2>5, ZenonT(60)
  <2>7. parked' = P2 \ {c}
    BY ONLY <2>4, <2>5
  <2>8. promised' = [promised EXCEPT ![c.txn] = @ \cup {<<c.resource, c.mode>>}]
    BY ONLY <2>2, <2>5, Zenon
  <2> HIDE DEF H2, Q2, G2, P2, pass, call
  <2>9. TableCoherent(H2, Q2, G2 \ {c.ticket}, P2 \ {c}, next_ticket + 1,
                      [promised EXCEPT ![c.txn] = @ \cup {<<c.resource, c.mode>>}])
    BY ONLY <2>2, <2>3, TakeKeepsCoherence, Zenon DEF Settled
  <2>10. Settled(H2, Q2, G2 \ {c.ticket}, P2 \ {c}, next_ticket + 1,
                 [promised EXCEPT ![c.txn] = @ \cup {<<c.resource, c.mode>>}])
    BY ONLY <2>2, <2>9, Zenon DEF Settled
  <2> QED BY ONLY <2>5, <2>6, <2>7, <2>8, <2>10, Zenon
<1>9. ASSUME NEW t \in Txn, NEW r \in Resource, NEW m \in AskedModes, NEW timeout \in Timeouts,
             LockRefused(t, r, m, timeout)
      PROVE  Goal
  <2> DEFINE c == call(t, r, m, "Infinite")
             pass == AfterEnqueue(t, r, m)
             H2 == [holders EXCEPT ![r] = pass.holders]
             Q2 == [queue EXCEPT ![r] = pass.queue]
             G2 == granted \cup pass.tickets
             P2 == parked \cup {c}
             left == AfterGiveUp(pass.holders, pass.queue, next_ticket)
  <2>1. Idle(t) /\ next_ticket \notin pass.tickets
    BY ONLY <1>9, Zenon DEF LockRefused
  <2>2. /\ c.txn = t /\ c.resource = r /\ c.mode = m /\ c.ticket = next_ticket
        /\ Settled(H2, Q2, G2, P2, next_ticket + 1, promised)
    BY ONLY <1>6, <2>1, Zenon
  <2>3. c \in P2 /\ c.ticket \notin G2
    BY ONLY <1>5, <2>1, <2>2, Zenon
  <2>4. parked = P2 \ {c}
    BY ONLY <1>4, <2>2
  <2>5. /\ holders' = [holders EXCEPT ![r] = left.holders]
        /\ queue' = [queue EXCEPT ![r] = left.queue]
        /\ next_ticket' = next_ticket + 1
        /\ granted' = G2 \cup left.tickets
        /\ parked' = parked /\ promised' = promised
    BY ONLY <1>9, Zenon DEF LockRefused, SetResource, TakeTicket
  <2>6. H2[r] = pass.holders /\ Q2[r] = pass.queue
    BY ONLY <1>3, Zenon
  <2>7. holders' = [H2 EXCEPT ![r] = left.holders] /\ queue' = [Q2 EXCEPT ![r] = left.queue]
    BY ONLY <1>3, <2>5, Zenon
  <2>8. left = AfterGiveUp(H2[c.resource], Q2[c.resource], c.ticket)
    BY ONLY <2>2, <2>6, Zenon
  <2> HIDE DEF H2, Q2, G2, P2, pass, call, left
  <2>9. Settled([H2 EXCEPT ![c.resource] = left.holders], [Q2 EXCEPT ![c.resource] = left.queue],
                G2 \cup left.tickets, P2 \ {c}, next_ticket + 1, promised)
    BY ONLY <2>2, <2>3, <2>8, GiveUpSettles, Zenon
  <2> QED BY ONLY <2>2, <2>4, <2>5, <2>7, <2>9, Zenon
<1>10. ASSUME NEW t \in Txn, NEW r \in Resource, NEW m \in AskedModes, NEW timeout \in Timeouts,
              LockParks(t, r, m, timeout)
       PROVE  Goal
  <2>1. timeout \in {"Millis", "Infinite"} /\ Idle(t)
    BY <1>10, TimeoutsAssumption, Zenon DEF LockParks
  <2>2. Settled([holders EXCEPT ![r] = AfterEnqueue(t, r, m).holders],
                [queue EXCEPT ![r] = AfterEnqueue(t, r, m).queue],
                granted \cup AfterEnqueue(t, r, m).tickets,
                parked \cup {call(t, r, m, timeout)}, next_ticket + 1, promised)
    BY ONLY <1>6, <2>1, Zenon
  <2> QED BY ONLY <1>10, <2>2, Zenon DEF LockParks, SetResource, TakeTicket
<1>11. ASSUME NEW c \in parked, WakeGranted(c)
       PROVE  Goal
  <2>1. c.ticket \in granted
    BY ONLY <1>11 DEF WakeGranted
  <2>2. TableCoherent(holders, queue, granted \ {c.ticket}, parked \ {c}, next_ticket,
                      [promised EXCEPT ![c.txn] = @ \cup {<<c.resource, c.mode>>}])
    BY ONLY <1>1, <2>1, TakeKeepsCoherence, ZenonT(60) DEF Settled
  <2>3. Settled(holders, queue, granted \ {c.ticket}, parked \ {c}, next_ticket,
                [promised EXCEPT ![c.txn] = @ \cup {<<c.resource, c.mode>>}])
    BY ONLY <1>1, <2>2 DEF Settled
  <2> QED BY ONLY <1>11, <2>3 DEF WakeGranted, Promise
<1>12. ASSUME NEW c \in parked, WakeGivesUp(c)
       PROVE  Goal
  <2> DEFINE left == AfterGiveUp(holders[c.resource], queue[c.resource], c.ticket)
  <2>1. c.ticket \notin granted
    BY ONLY <1>12 DEF WakeGivesUp
  <2>2. Settled([holders EXCEPT ![c.resource] = left.holders],
                [queue EXCEPT ![c.resource] = left.queue],
                granted \cup left.tickets, parked \ {c}, next_ticket, promised)
    BY ONLY <1>1, <2>1, GiveUpSettles, ZenonT(60)
  <2> QED BY ONLY <1>12, <2>2, Zenon DEF WakeGivesUp, SetResource
<1>13. ASSUME NEW t \in Txn, NEW r \in Resource, Unlock(t, r)
       PROVE  Goal
  <2> DEFINE pass(s) == GrantPass({ h \in holders[s] : h.txn # t }, queue[s])
  <2>1. Idle(t)
    BY ONLY <1>13, Zenon DEF Unlock
  <2>2. WithoutTxn(queue[r], t) = queue[r]
    BY <2>1, IdleIsUnqueued
  <2>3. /\ holders' = [holders EXCEPT ![r] = pass(r).holders]
        /\ queue' = [queue EXCEPT ![r] = pass(r).queue]
        /\ granted' = granted \cup pass(r).tickets
        /\ promised' = [promised EXCEPT ![t] = { p \in @ : p[1] # r }]
        /\ parked' = parked /\ next_ticket' = next_ticket
    BY ONLY <1>13, <2>2, Zenon DEF Unlock, SetResource
  <2> HIDE DEF pass
  <2>4. holders' = [s \in Resource |-> IF s \in {r} THEN pass(s).holders ELSE holders[s]]
    BY ONLY <1>3, <2>3, Zenon
  <2>5. queue' = [s \in Resource |-> IF s \in {r} THEN pass(s).queue ELSE queue[s]]
    BY ONLY <1>3, <2>3, Zenon
  <2>6. \A k : k \in granted' <=> k \in granted \/ \E s \in {r} : k \in pass(s).tickets
    BY ONLY <2>3
  <2>7. promised' = [promised EXCEPT ![t] = { p \in @ : p[1] \notin {r} }]
    BY ONLY <2>3
  <2>8. {r} \in SUBSET Resource
    OBVIOUS
  <2>9. GiveBackStage(t, {r}, holders', queue', granted', promised')
    BY ONLY <2>4, <2>5, <2>6, <2>7, <2>8, Zenon DEF GiveBackStage, pass
  <2>10. Settled(holders', queue', granted', parked, next_ticket, promised')
    BY <2>1, <2>9, RemoveSettles, SMTT(60)
  <2> QED BY ONLY <2>3, <2>10
<1>14. ASSUME NEW t \in Txn, ReleaseAll(t)
       PROVE  Goal
  <2> DEFINE pass(s) == GrantPass({ h \in holders[s] : h.txn # t }, queue[s])
             R == { r \in Resource : \E h \in holders[r] : h.txn = t }
  <2>1. Idle(t)
    BY ONLY <1>14, Zenon DEF ReleaseAll
  <2>2. \A r \in Resource : /\ WithoutTxn(queue[r], t) = queue[r]
                            /\ ~\E i \in DOMAIN queue[r] : queue[r][i].txn = t
    BY <2>1, IdleIsUnqueued
  <2> DEFINE T == { r \in Resource : \/ \E h \in holders[r] : h.txn = t
                                    \/ \E i \in DOMAIN queue[r] : queue[r][i].txn = t }
             wide(r) == GrantPass({ h \in holders[r] : h.txn # t }, WithoutTxn(queue[r], t))
  <2>3. T = R
    BY ONLY <2>2
  <2>4. \A r \in Resource : wide(r) = pass(r)
    BY ONLY <2>2
  <2>5. /\ holders' = [r \in Resource |-> IF r \in T THEN wide(r).holders ELSE holders[r]]
        /\ queue' = [r \in Resource |-> IF r \in T THEN wide(r).queue ELSE queue[r]]
        /\ granted' = granted \cup UNION { wide(r).tickets : r \in T }
        /\ promised' = [promised EXCEPT ![t] = {}]
        /\ parked' = parked /\ next_ticket' = next_ticket
    BY ONLY <1>14, Zenon DEF ReleaseAll
  <2>6. \A p \in promised[t] : p[1] \in R
    <3>1. /\ PromisesCoherent(holders, granted, parked, promised)
          /\ promised \in [Txn -> SUBSET (Resource \X LockMode)]
      BY ONLY <1>3, TableInvariant DEF TableInvariant, TableCoherent
    <3>2. \A p \in promised[t] : p[1] \in Resource
      BY ONLY <3>1, t \in Txn
    <3>3. \A p \in promised[t] : \E h \in holders[p[1]] : h.txn = t
      BY ONLY <3>1, t \in Txn DEF PromisesCoherent
    <3> QED BY ONLY <3>2, <3>3
  <2> HIDE DEF T, wide, pass, R
  <2>7. holders' = [s \in Resource |-> IF s \in R THEN pass(s).holders ELSE holders[s]]
    BY ONLY <2>3, <2>4, <2>5
  <2>8. queue' = [s \in Resource |-> IF s \in R THEN pass(s).queue ELSE queue[s]]
    BY ONLY <2>3, <2>4, <2>5
  <2>9. R \in SUBSET Resource
    BY DEF R
  <2>10. \A k : k \in granted' <=> k \in granted \/ \E s \in R : k \in pass(s).tickets
    BY ONLY <2>3, <2>4, <2>5, <2>9
  <2>11. promised' = [promised EXCEPT ![t] = { p \in @ : p[1] \notin R }]
    <3>1. { p \in promised[t] : p[1] \notin R } = {}
      BY ONLY <2>6
    <3> QED BY ONLY <2>5, <3>1, Zenon
  <2>12. GiveBackStage(t, R, holders', queue', granted', promised')
    BY ONLY <2>7, <2>8, <2>9, <2>10, <2>11, Zenon DEF GiveBackStage, pass
  <2>13. Settled(holders', queue', granted', parked, next_ticket, promised')
    BY <2>1, <2>12, RemoveSettles
  <2> QED BY ONLY <2>5, <2>13
<1>15. ASSUME NEW t \in Txn,
              Cancel(t) \/ ResetCancel(t) \/ \E p \in Priorities : SetPriority(t, p)
       PROVE  Goal
  BY ONLY <1>1, <1>15 DEF Cancel, ResetCancel, SetPriority
<1> QED
  BY <1>7, <1>8, <1>9, <1>10, <1>11, <1>12, <1>13, <1>14, <1>15, SMTT(30) DEF Next, Wake

\* No step of any call breaks the invariant of the table.
LEMMA StepPreserves == TableInvariant /\ [Next]_vars => TableInvariant'
<1> SUFFICES ASSUME TableInvariant, [Next]_vars PROVE TableInvariant'
  OBVIOUS
<1>1. Settled(holders', queue', granted', parked', next_ticket', promised')
  <2>1. CASE Next
    BY <2>1, StepSettles
  <2>2. CASE UNCHANGED vars
    <3>1. Settled(holders, queue, granted, parked, next_ticket, promised)
      BY DEF TableInvariant, FrontIsRefused, Settled
    <3> QED BY ONLY <2>2, <3>1 DEF vars
  <2> QED BY <2>1, <2>2
<1>2. \/ cancelled' = cancelled /\ priority' = priority
      \/ \E t \in Txn : /\ cancelled' \in { [cancelled EXCEPT ![t] = b] : b \in BOOLEAN }
                       /\ priority' = priority
      \/ \E t \in Txn, p \in Priorities : /\ priority' = [priority EXCEPT ![t] = Clamp(p)]
                                          /\ cancelled' = cancelled
  <2> SUFFICES ASSUME NEW t \in Txn,
                      \/ \E r \in Resource, m \in AskedModes :
                           \/ LockReentrant(t, r, m)
                           \/ LockAtOnce(t, r, m)
                           \/ \E timeout \in Timeouts :
                                LockRefused(t, r, m, timeout) \/ LockParks(t, r, m, timeout)
                      \/ Wake(t)
                      \/ \E r \in Resource : Unlock(t, r)
                      \/ ReleaseAll(t)
                      \/ Cancel(t)
                      \/ ResetCancel(t)
                      \/ \E p \in Priorities : SetPriority(t, p)
               PROVE  \/ cancelled' = cancelled /\ priority' = priority
                      \/ \E b \in BOOLEAN : /\ cancelled' = [cancelled EXCEPT ![t] = b]
                                            /\ priority' = priority
                      \/ \E p \in Priorities : /\ priority' = [priority EXCEPT ![t] = Clamp(p)]
                                               /\ cancelled' = cancelled
    BY DEF Next, vars
  <2>1. CASE \E r \in Resource, m \in AskedModes :
               LockReentrant(t, r, m) \/ LockAtOnce(t, r, m)
    BY ONLY <2>1, Zenon DEF LockReentrant, LockAtOnce
  <2>2. CASE \E r \in Resource, m \in AskedModes, timeout \in Timeouts :
               LockRefused(t, r, m, timeout) \/ LockParks(t, r, m, timeout)
    <3>1. ASSUME NEW r \in Resource, NEW m \in AskedModes, NEW timeout \in Timeouts,
                 LockRefused(t, r, m, timeout)
          PROVE  cancelled' = cancelled /\ priority' = priority
      BY ONLY <3>1, Zenon DEF LockRefused
    <3>2. ASSUME NEW r \in Resource, NEW m \in AskedModes, NEW timeout \in Timeouts,
                 LockParks(t, r, m, timeout)
          PROVE  cancelled' = cancelled /\ priority' = priority
      BY ONLY <3>2, Zenon DEF LockParks
    <3> QED BY ONLY <2>2, <3>1, <3>2, Zenon
  <2>3. CASE Wake(t)
    BY ONLY <2>3, Zenon DEF Wake, WakeGranted, WakeGivesUp
  <2>4. CASE (\E r \in Resource : Unlock(t, r)) \/ ReleaseAll(t)
    BY ONLY <2>4, Zenon DEF Unlock, ReleaseAll
  <2>5. CASE Cancel(t) \/ ResetCancel(t)
    BY ONLY <2>5, Zenon DEF Cancel, ResetCancel
  <2>6. CASE \E p \in Priorities : SetPriority(t, p)
    BY ONLY <2>6, Zenon DEF SetPriority
  <2> QED BY <2>1, <2>2, <2>3, <2>4, <2>5, <2>6, SMTT(30)
<1>3. \A p \in Priorities : Clamp(p) \in Int
  BY PrioritiesAssumption DEF Clamp
<1>4. cancelled \in [Txn -> BOOLEAN] /\ priority \in [Txn -> Int]
  BY DEF TableInvariant
<1>5. cancelled' \in [Txn -> BOOLEAN] /\ priority' \in [Txn -> Int]
  BY ONLY <1>2, <1>3, <1>4
<1> QED BY <1>1, <1>5, Zenon DEF TableInvariant, Settled, FrontIsRefused

\* The parts of the lock table fit together after every step of every call, for
\* every set of transactions and resources.
THEOREM TableCorrect == Spec => []TableInvariant
<1>1. Init => TableInvariant
  BY InitEstablishes
<1>2. TableInvariant /\ [Next]_vars => TableInvariant'
  BY StepPreserves
<1> QED BY <1>1, <1>2, PTL DEF Spec

\* What the callers of the lock manager rely on follows from the invariant.
LEMMA InvariantImplies ==
  TableInvariant => /\ TypeOK
                    /\ HoldersCompatible
                    /\ OneModePerFamily
                    /\ PromisesKept
                    /\ NoLockLeaked
                    /\ FrontIsRefused
                    /\ TicketsAccounted
<1> SUFFICES ASSUME TableInvariant
             PROVE  /\ TypeOK /\ HoldersCompatible /\ OneModePerFamily /\ PromisesKept
                    /\ NoLockLeaked /\ FrontIsRefused /\ TicketsAccounted
  OBVIOUS
<1> USE DEF TableInvariant, TableCoherent
<1>1. TypeOK
  BY DEF TypeOK, TableTyped
<1>2. HoldersCompatible /\ OneModePerFamily
  BY Zenon DEF LocksCoherent, HoldersCompatible, OneModePerFamily
<1>3. PromisesKept /\ NoLockLeaked
  BY ZenonT(60) DEF PromisesCoherent, PromisesKept, NoLockLeaked
<1>4. TicketsAccounted
  <2>1. \A r \in Resource : DOMAIN queue[r] = 1..Len(queue[r])
    BY SeqIsFunction DEF TableTyped
  <2>2. \A c \in parked : c.resource \in Resource
    BY DEF TableTyped, Call
  <2>3. TicketsCoherent(queue, granted, parked, next_ticket)
    OBVIOUS
  <2>4. \A c \in parked : Queued(c) <=> c.ticket \notin granted
    BY ONLY <2>1, <2>2, <2>3, SMTT(30) DEF TicketsCoherent, Queued
  <2>5. \A r \in Resource : \A i \in DOMAIN queue[r] :
          \E c \in parked : CallOf(c, r, queue[r][i])
    BY ONLY <2>1, <2>3, SMTT(30) DEF TicketsCoherent
  <2>6. \A k \in granted : \E c \in parked : c.ticket = k
    BY ONLY <2>3 DEF TicketsCoherent
  <2> QED BY ONLY <2>4, <2>5, <2>6 DEF TicketsAccounted, CallOf
<1> QED BY <1>1, <1>2, <1>3, <1>4

\* The variables of the lock table keep their types.
THEOREM TypeCorrect == Spec => []TypeOK
BY TableCorrect, InvariantImplies, PTL

\* compatible_with is respected for ever: no two transactions hold modes that
\* refuse each other, and grant_to never stacks two modes of one family.
THEOREM LocksExclude == Spec => [](HoldersCompatible /\ OneModePerFamily)
BY TableCorrect, InvariantImplies, PTL

\* A lock reported Granted is held, at least as strongly as asked for, until its
\* transaction gives it back.
THEOREM GrantsAreKept == Spec => []PromisesKept
BY TableCorrect, InvariantImplies, PTL

\* A call that timed out, was cancelled or gave way leaves no lock behind.
THEOREM GiveUpsLeaveNothing == Spec => []NoLockLeaked
BY TableCorrect, InvariantImplies, PTL

\* No grant is forgotten: nobody sleeps at the front of a queue with a mode the
\* holders allow.
THEOREM NoGrantForgotten == Spec => []FrontIsRefused
BY TableCorrect, InvariantImplies, PTL

\* Every sleeping call has its ticket queued or honoured, never lost.
THEOREM NoTicketLost == Spec => []TicketsAccounted
BY TableCorrect, InvariantImplies, PTL
================================================================================
