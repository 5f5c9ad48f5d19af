------------------------------ MODULE LockManager ------------------------------
(***************************************************************************)
(* The lock manager of the transaction layer: one table of resources, each *)
(* with its holders and its fair queue, the tickets a grant pass has       *)
(* honoured, and the calls parked on the condition variable.               *)
(*                                                                         *)
(* Every method runs under the one mutex of the table, so a call is one    *)
(* step up to the point where it parks, and each wake of a parked call is  *)
(* one more step.  A session runs one statement of a transaction at a      *)
(* time, so a transaction has at most one parked call.                     *)
(***************************************************************************)
EXTENDS WaitForGraph

CONSTANTS
  Resource,     \* rows and tables: unrelated resources for the lock manager
  Timeouts,     \* the kinds of wait callers ask for
  Priorities,   \* the values SET DEADLOCK_PRIORITY is called with (i16 in the code)
  Cancellable,  \* the transactions whose waits watch a cancellation flag
  AskedModes,   \* the modes callers ask for
  MaxTicket     \* bound on the tickets handed out (u64 in the code)

ASSUME TimeoutsAssumption == Timeouts \subseteq {"NoWait", "Millis", "Infinite"}
ASSUME PrioritiesAssumption == Priorities \subseteq Int
ASSUME CancellableAssumption == Cancellable \subseteq Txn
ASSUME AskedModesAssumption == AskedModes \subseteq LockMode
ASSUME MaxTicketAssumption == MaxTicket \in Nat

VARIABLES
  holders,      \* per resource, the locks held: records of a transaction and a mode
  queue,        \* per resource, the candidates in the order they may be granted
  next_ticket,  \* ticket of the next candidate
  granted,      \* tickets honoured and not yet read by their thread
  parked,       \* the try_acquire calls asleep on the condition variable
  cancelled,    \* per transaction, the cancellation flag its waits watch
  priority,     \* per transaction, its DEADLOCK_PRIORITY
  promised      \* history: per transaction, the locks its calls returned Granted for
                \* and that it has not given back

vars == <<holders, queue, next_ticket, granted, parked, cancelled, priority, promised>>

Holder == [txn : Txn, mode : LockMode]
Waiter == [ticket : Nat, txn : Txn, mode : LockMode, conversion : BOOLEAN]
Call   == [txn : Txn, resource : Resource, mode : LockMode, ticket : Nat,
           timeout : {"Millis", "Infinite"}]

TypeOK ==
  /\ holders \in [Resource -> SUBSET Holder]
  /\ queue \in [Resource -> Seq(Waiter)]
  /\ next_ticket \in Nat
  /\ granted \subseteq Nat
  /\ parked \subseteq Call
  /\ cancelled \in [Txn -> BOOLEAN]
  /\ priority \in [Txn -> Int]
  /\ promised \in [Txn -> SUBSET (Resource \X LockMode)]

Init ==
  /\ holders = [r \in Resource |-> {}]
  /\ queue = [r \in Resource |-> <<>>]
  /\ next_ticket = 0
  /\ granted = {}
  /\ parked = {}
  /\ cancelled = [t \in Txn |-> FALSE]
  /\ priority = [t \in Txn |-> 0]
  /\ promised = [t \in Txn |-> {}]

--------------------------------------------------------------------------------
(***************************************************************************)
(* One resource: its holders H and its queue q.                            *)
(***************************************************************************)

\* The locks of the transaction in the family of the mode: at most one.
HoldersOf(H, t, m) == { h \in H : h.txn = t /\ SameFamily(h.mode, m) }

\* No other transaction holds a mode that refuses this one.
HoldersAllowConversions(H, t, m) ==  \* variant: a conversion skips the check
  (\E h \in H : h.txn = t) \/ \A h \in H : Compatible(m, h.mode)

HoldersAllow(H, t, m) == \A h \in H : h.txn = t \/ Compatible(m, h.mode)

\* The holders once the first n candidates are granted, each replacing the
\* weaker mode of its own family.
HoldersAfterStacks(H, q, n) ==  \* variant: the weaker mode stays
  H \cup { [txn |-> q[i].txn, mode |-> q[i].mode] : i \in 1..n }

HoldersAfter(H, q, n) ==
  LET replaced(t, m, from) ==
        \E j \in from..n : q[j].txn = t /\ SameFamily(q[j].mode, m)
  IN  { h \in H : ~replaced(h.txn, h.mode, 1) }
      \cup { [txn |-> q[i].txn, mode |-> q[i].mode] :
               i \in { k \in 1..n : ~replaced(q[k].txn, q[k].mode, k + 1) } }

\* After n grants the pass stops: the queue is empty or its front is refused.
StopsAfter(H, q, n) ==
  n = Len(q) \/ ~HoldersAllow(HoldersAfter(H, q, n), q[n + 1].txn, q[n + 1].mode)

\* How many candidates one grant pass honours: it stops at the first refusal.
GrantCount(H, q) ==
  CHOOSE n \in 0..Len(q) :
    /\ StopsAfter(H, q, n)
    /\ \A k \in 0..(n - 1) : ~StopsAfter(H, q, k)

\* What a grant pass leaves behind: holders, queue and the tickets honoured.
GrantPassOneTicket(H, q) ==  \* variant: only the first grant is told
  LET n == GrantCount(H, q)
  IN  [holders |-> HoldersAfter(H, q, n),
       queue   |-> SubSeq(q, n + 1, Len(q)),
       tickets |-> { q[i].ticket : i \in {1} \cap (1..n) }]

GrantPassSkipsFront(H, q) ==  \* variant: a refused front lets the next one through
  LET skip == GrantCount(H, q) = 0 /\ Len(q) > 1
      p == IF skip THEN <<q[2], q[1]>> \o SubSeq(q, 3, Len(q)) ELSE q
      n == GrantCount(H, p)
  IN  [holders |-> HoldersAfter(H, p, n),
       queue   |-> SubSeq(p, n + 1, Len(p)),
       tickets |-> { p[i].ticket : i \in 1..n }]

GrantPass(H, q) ==
  LET n == GrantCount(H, q)
  IN  [holders |-> HoldersAfter(H, q, n),
       queue   |-> SubSeq(q, n + 1, Len(q)),
       tickets |-> { q[i].ticket : i \in 1..n }]

\* A pass over this resource would honour nobody.
FrontRefused(H, q) == q # <<>> => ~HoldersAllow(H, q[1].txn, q[1].mode)

\* The queue with a candidate added: a conversion behind the conversions that
\* lead the queue, any other at the back.
LeadingConversions(q) ==
  CHOOSE n \in 0..Len(q) :
    /\ \A i \in 1..n : q[i].conversion
    /\ n = Len(q) \/ ~q[n + 1].conversion

InsertAtBack(q, w) == Append(q, w)  \* variant: conversions take no precedence

Insert(q, w) ==
  IF w.conversion
  THEN LET at == LeadingConversions(q)
       IN  SubSeq(q, 1, at) \o <<w>> \o SubSeq(q, at + 1, Len(q))
  ELSE Append(q, w)

\* The queue without the candidates of a transaction.
WithoutTxn(q, t) ==
  IF \E i \in DOMAIN q : q[i].txn = t THEN SelectSeq(q, LAMBDA w : w.txn # t) ELSE q

\* The queue without the candidate that has this ticket, if there is one.
WithTicketKept(q, ticket) == q  \* variant: a call that gives up stays queued

WithoutTicket(q, ticket) ==
  IF \E i \in DOMAIN q : q[i].ticket = ticket
  THEN LET pos == CHOOSE i \in DOMAIN q : q[i].ticket = ticket
       IN  SubSeq(q, 1, pos - 1) \o SubSeq(q, pos + 1, Len(q))
  ELSE q

--------------------------------------------------------------------------------
(***************************************************************************)
(* The wait-for graph over the whole table.                                *)
(***************************************************************************)

\* An edge to every holder that refuses the mode asked for, and to every
\* candidate of another transaction ahead in the same queue.
WaitsForHolders(H, Q) ==  \* variant: no edge to the candidates ahead
  [ t \in Txn |->
      { u \in Txn \ {t} :
          \E r \in Resource : \E i \in DOMAIN Q[r] :
            /\ Q[r][i].txn = t
            /\ \E h \in H[r] : h.txn = u /\ ~Compatible(Q[r][i].mode, h.mode) } ]

WaitsFor(H, Q) ==
  [ t \in Txn |->
      { u \in Txn \ {t} :
          \E r \in Resource : \E i \in DOMAIN Q[r] :
            /\ Q[r][i].txn = t
            /\ \/ \E h \in H[r] : h.txn = u /\ ~Compatible(Q[r][i].mode, h.mode)
               \/ \E j \in 1..(i - 1) : Q[r][j].txn = u } ]

\* How many write locks each transaction holds, what its rollback costs.
WritesHeld(H) ==
  [ t \in Txn |->
      Cardinality({ p \in Resource \X {"X", "U", "IX"} :
                      [txn |-> t, mode |-> p[2]] \in H[p[1]] }) ]

\* The thread of t is told it is the victim of a cycle.
IsVictim(H, Q, t) == Detect(WaitsFor(H, Q), priority, WritesHeld(H), t)

--------------------------------------------------------------------------------
(***************************************************************************)
(* The operations.                                                         *)
(***************************************************************************)

\* No call of the transaction is parked: its session may make the next one.
Idle(t) == \A c \in parked : c.txn # t

\* The mode held covers the one asked for: the request touches no queue.
Reentrant(t, r, m) == \E h \in HoldersOf(holders[r], t, m) : Covers(h.mode, m)

\* The candidate a request puts in the queue: a conversion asks for the join of
\* the mode held in the family and the mode asked for.
CandidateAsAsked(t, r, m) ==  \* variant: a conversion forgets what is held
  [ticket     |-> next_ticket,
   txn        |-> t,
   mode       |-> m,
   conversion |-> HoldersOf(holders[r], t, m) # {}]

Candidate(t, r, m) ==
  LET held == HoldersOf(holders[r], t, m)
  IN  [ticket     |-> next_ticket,
       txn        |-> t,
       mode       |-> IF held = {} THEN m ELSE Join((CHOOSE h \in held : TRUE).mode, m),
       conversion |-> held # {}]

\* The resource once the request has joined the queue and a grant pass has run.
AfterEnqueue(t, r, m) == GrantPass(holders[r], Insert(queue[r], Candidate(t, r, m)))

\* The resource once the candidate has left its queue and a pass has run.
AfterGiveUpNoPass(H, q, ticket) ==  \* variant: nobody behind takes its turn
  [holders |-> H, queue |-> WithoutTicket(q, ticket), tickets |-> {}]

AfterGiveUp(H, q, ticket) == GrantPass(H, WithoutTicket(q, ticket))

TakeTicket == next_ticket < MaxTicket /\ next_ticket' = next_ticket + 1

SetResource(r, pass) ==
  /\ holders' = [holders EXCEPT ![r] = pass.holders]
  /\ queue' = [queue EXCEPT ![r] = pass.queue]

Promise(t, r, m) == promised' = [promised EXCEPT ![t] = @ \cup {<<r, m>>}]

\* try_acquire of a mode the transaction already covers here.
LockReentrant(t, r, m) ==
  /\ Idle(t)
  /\ Reentrant(t, r, m)
  /\ TakeTicket
  /\ Promise(t, r, m)
  /\ UNCHANGED <<holders, queue, granted, parked, cancelled, priority>>

\* try_acquire whose own grant pass honours it: the ticket is read back at once.
LockAtOnce(t, r, m) ==
  LET pass == AfterEnqueue(t, r, m)
  IN  /\ Idle(t)
      /\ ~Reentrant(t, r, m)
      /\ next_ticket \in pass.tickets
      /\ TakeTicket
      /\ SetResource(r, pass)
      /\ granted' = granted \cup (pass.tickets \ {next_ticket})
      /\ Promise(t, r, m)
      /\ UNCHANGED <<parked, cancelled, priority>>

\* Why a call that was not granted leaves the queue before it sleeps: it does
\* not wait, its flag is up, it is the victim of a cycle, its deadline is past.
LeavesBeforeSleep(t, timeout, H, Q) ==
  timeout = "NoWait" \/ cancelled[t] \/ IsVictim(H, Q, t) \/ timeout = "Millis"

\* try_acquire that is not granted and returns TimedOut, Cancelled or Deadlock
\* without sleeping.
LockRefused(t, r, m, timeout) ==
  LET pass == AfterEnqueue(t, r, m)
      left == AfterGiveUp(pass.holders, pass.queue, next_ticket)
  IN  /\ Idle(t)
      /\ ~Reentrant(t, r, m)
      /\ next_ticket \notin pass.tickets
      /\ LeavesBeforeSleep(t, timeout, [holders EXCEPT ![r] = pass.holders],
                                       [queue EXCEPT ![r] = pass.queue])
      /\ TakeTicket
      /\ SetResource(r, left)
      /\ granted' = granted \cup pass.tickets \cup left.tickets
      /\ UNCHANGED <<parked, cancelled, priority, promised>>

\* try_acquire that is not granted and goes to sleep.
LockParks(t, r, m, timeout) ==
  LET pass == AfterEnqueue(t, r, m)
  IN  /\ Idle(t)
      /\ ~Reentrant(t, r, m)
      /\ next_ticket \notin pass.tickets
      /\ timeout # "NoWait"
      /\ ~cancelled[t]
      /\ ~IsVictim([holders EXCEPT ![r] = pass.holders],
                   [queue EXCEPT ![r] = pass.queue], t)
      /\ TakeTicket
      /\ SetResource(r, pass)
      /\ granted' = granted \cup pass.tickets
      /\ parked' = parked \cup {[txn |-> t, resource |-> r, mode |-> m,
                                 ticket |-> next_ticket, timeout |-> timeout]}
      /\ UNCHANGED <<cancelled, priority, promised>>

\* A parked call wakes and finds its ticket honoured.
WakeGranted(c) ==
  /\ c.ticket \in granted
  /\ granted' = granted \ {c.ticket}
  /\ parked' = parked \ {c}
  /\ Promise(c.txn, c.resource, c.mode)
  /\ UNCHANGED <<holders, queue, next_ticket, cancelled, priority>>

\* A parked call wakes with its ticket still queued and leaves: cancelled, a
\* victim, or past its deadline.  A call with no such reason sleeps again.
WakeGivesUpFirst(c) ==  \* variant: the deadline is read before the ticket
  LET left == AfterGiveUp(holders[c.resource], queue[c.resource], c.ticket)
  IN  /\ cancelled[c.txn] \/ IsVictim(holders, queue, c.txn) \/ c.timeout = "Millis"
      /\ SetResource(c.resource, left)
      /\ granted' = (granted \cup left.tickets) \ {c.ticket}
      /\ parked' = parked \ {c}
      /\ UNCHANGED <<next_ticket, cancelled, priority, promised>>

WakeGivesUpUnmonitored(c) ==  \* variant: no cycle search while asleep
  LET left == AfterGiveUp(holders[c.resource], queue[c.resource], c.ticket)
  IN  /\ c.ticket \notin granted
      /\ cancelled[c.txn] \/ c.timeout = "Millis"
      /\ SetResource(c.resource, left)
      /\ granted' = granted \cup left.tickets
      /\ parked' = parked \ {c}
      /\ UNCHANGED <<next_ticket, cancelled, priority, promised>>

WakeGivesUpDeaf(c) ==  \* variant: the cancellation flag is not polled
  LET left == AfterGiveUp(holders[c.resource], queue[c.resource], c.ticket)
  IN  /\ c.ticket \notin granted
      /\ IsVictim(holders, queue, c.txn) \/ c.timeout = "Millis"
      /\ SetResource(c.resource, left)
      /\ granted' = granted \cup left.tickets
      /\ parked' = parked \ {c}
      /\ UNCHANGED <<next_ticket, cancelled, priority, promised>>

WakeGivesUp(c) ==
  LET left == AfterGiveUp(holders[c.resource], queue[c.resource], c.ticket)
  IN  /\ c.ticket \notin granted
      /\ cancelled[c.txn] \/ IsVictim(holders, queue, c.txn) \/ c.timeout = "Millis"
      /\ SetResource(c.resource, left)
      /\ granted' = granted \cup left.tickets
      /\ parked' = parked \ {c}
      /\ UNCHANGED <<next_ticket, cancelled, priority, promised>>

\* unlock: both families of the transaction go, and the candidates behind it
\* take their turn.  A transaction that holds nothing here gets an error.
Unlock(t, r) ==
  LET kept == { h \in holders[r] : h.txn # t }
      pass == GrantPass(kept, WithoutTxn(queue[r], t))
  IN  /\ Idle(t)
      /\ kept # holders[r]
      /\ SetResource(r, pass)
      /\ granted' = granted \cup pass.tickets
      /\ promised' = [promised EXCEPT ![t] = { p \in @ : p[1] # r }]
      /\ UNCHANGED <<next_ticket, parked, cancelled, priority>>

\* release_all, at commit and rollback: every resource the transaction holds or
\* waits on loses it, and gets a grant pass.
ReleaseAll(t) ==
  LET touched == { r \in Resource : \/ \E h \in holders[r] : h.txn = t
                                    \/ \E i \in DOMAIN queue[r] : queue[r][i].txn = t }
      pass(r) == GrantPass({ h \in holders[r] : h.txn # t }, WithoutTxn(queue[r], t))
  IN  /\ Idle(t)
      /\ holders' = [ r \in Resource |->
                        IF r \in touched THEN pass(r).holders ELSE holders[r] ]
      /\ queue' = [ r \in Resource |->
                      IF r \in touched THEN pass(r).queue ELSE queue[r] ]
      /\ granted' = granted \cup UNION { pass(r).tickets : r \in touched }
      /\ promised' = [promised EXCEPT ![t] = {}]
      /\ UNCHANGED <<next_ticket, parked, cancelled, priority>>

\* The session raises the cancellation flag on an ATTENTION, and lowers it
\* before its next request.
Cancel(t) ==
  /\ t \in Cancellable
  /\ ~cancelled[t]
  /\ cancelled' = [cancelled EXCEPT ![t] = TRUE]
  /\ UNCHANGED <<holders, queue, next_ticket, granted, parked, priority, promised>>

ResetCancel(t) ==
  /\ Idle(t)
  /\ cancelled[t]
  /\ cancelled' = [cancelled EXCEPT ![t] = FALSE]
  /\ UNCHANGED <<holders, queue, next_ticket, granted, parked, priority, promised>>

\* SET DEADLOCK_PRIORITY, kept inside -10..10.
Clamp(p) == IF p < -10 THEN -10 ELSE IF p > 10 THEN 10 ELSE p

SetPriority(t, p) ==
  /\ Idle(t)
  /\ priority' = [priority EXCEPT ![t] = Clamp(p)]
  /\ UNCHANGED <<holders, queue, next_ticket, granted, parked, cancelled, promised>>

--------------------------------------------------------------------------------
Wake(t) == \E c \in parked : c.txn = t /\ (WakeGranted(c) \/ WakeGivesUp(c))

Next ==
  \E t \in Txn :
    \/ \E r \in Resource, m \in AskedModes :
         \/ LockReentrant(t, r, m)
         \/ LockAtOnce(t, r, m)
         \/ \E timeout \in Timeouts :
              LockRefused(t, r, m, timeout) \/ LockParks(t, r, m, timeout)
    \/ Wake(t)
    \/ \E r \in Resource : Unlock(t, r)
    \/ ReleaseAll(t)
    \/ Cancel(t)
    \/ ResetCancel(t)
    \/ \E p \in Priorities : SetPriority(t, p)

Spec == Init /\ [][Next]_vars

\* A parked thread wakes at least every 50 ms (POLL_SLICE), so a wake that would
\* make its call return is taken.  Nothing is assumed of the sessions.
Fairness == \A t \in Txn : WF_vars(Wake(t))

FairSpec == Spec /\ Fairness

--------------------------------------------------------------------------------
(***************************************************************************)
(* Safety.                                                                 *)
(***************************************************************************)

\* Two transactions never hold modes that refuse each other on one resource,
\* whatever grant passes, conversions and give-ups ran (compatible_with).
HoldersCompatible ==
  \A r \in Resource : \A g, h \in holders[r] :
    g.txn # h.txn => Compatible(g.mode, h.mode)

\* A transaction holds at most one mode of each family on a resource: grant_to
\* replaces, it never stacks.
OneModePerFamily ==
  \A r \in Resource : \A g, h \in holders[r] :
    g.txn = h.txn /\ SameFamily(g.mode, h.mode) => g = h

\* A call that returned Granted stays true until its transaction gives the lock
\* back: no conversion, timeout, cancellation or step of another transaction
\* takes away or weakens what was granted.
PromisesKept ==
  \A t \in Txn : \A p \in promised[t] :
    \E h \in holders[p[1]] : h.txn = t /\ Covers(h.mode, p[2])

\* A call that returned without the lock leaves no lock behind: whatever is held
\* was granted to a call, or to a parked call that has not woken yet.
NoLockLeaked ==
  \A r \in Resource : \A h \in holders[r] :
    \/ \E p \in promised[h.txn] : p[1] = r /\ SameFamily(p[2], h.mode)
    \/ \E c \in parked : /\ c.txn = h.txn /\ c.resource = r
                         /\ SameFamily(c.mode, h.mode) /\ c.ticket \in granted

\* No grant is forgotten: the front of a queue is refused by a holder of another
\* transaction, so nobody sleeps on a lock it could have.
FrontIsRefused == \A r \in Resource : FrontRefused(holders[r], queue[r])

\* The queue is fair: conversions lead it, and plain candidates stand in the
\* order they arrived.
QueueIsFair ==
  \A r \in Resource : \A i, j \in DOMAIN queue[r] :
    i < j => \/ queue[r][i].conversion
             \/ ~queue[r][j].conversion /\ queue[r][i].ticket < queue[r][j].ticket

\* The tickets a thread may still be waiting for are exactly those of the parked
\* calls, each in one place: queued on the resource its call names, or honoured.
\* So no thread sleeps on a ticket nobody will ever honour.
Queued(c) == \E i \in DOMAIN queue[c.resource] :
               queue[c.resource][i].ticket = c.ticket

TicketsAccounted ==
  /\ \A c \in parked : Queued(c) <=> c.ticket \notin granted
  /\ \A k \in granted : \E c \in parked : c.ticket = k
  /\ \A r \in Resource : \A i \in DOMAIN queue[r] :
       \E c \in parked : /\ c.txn = queue[r][i].txn
                        /\ c.resource = r
                        /\ c.ticket = queue[r][i].ticket

\* A set of waiting transactions none of which is ever granted, whatever the
\* others do: were the others gone, the front of each queue is still refused.
Deadlocked(S) ==
  /\ S # {}
  /\ \A t \in S : \E r \in Resource : \E i \in DOMAIN queue[r] : queue[r][i].txn = t
  /\ \A r \in Resource :
       FrontRefused({ h \in holders[r] : h.txn \in S },
                    SelectSeq(queue[r], LAMBDA w : w.txn \in S))

SomeDeadlock == \E S \in SUBSET Txn : Deadlocked(S)

\* Whenever transactions wait on each other, the walk of some parked thread
\* finds that thread to be the victim: no deadlock escapes the monitor because
\* each thread leaves it to another.
DeadlockHasVictim ==
  SomeDeadlock => \E c \in parked : IsVictim(holders, queue, c.txn)

\* One victim per deadlock: two threads told to give way wait in two different
\* deadlocks.
OneVictimPerDeadlock ==
  \A c, d \in parked :
    /\ c # d
    /\ IsVictim(holders, queue, c.txn)
    /\ IsVictim(holders, queue, d.txn)
    => \E S \in SUBSET (Txn \ {d.txn}) : c.txn \in S /\ Deadlocked(S)

\* The thread told to give way is in a deadlock, and every other member of it has
\* a higher priority, or holds more write locks, or is older.
VictimIsCheapest ==
  \A c \in parked :
    IsVictim(holders, queue, c.txn) =>
      \E S \in SUBSET Txn :
        /\ c.txn \in S
        /\ Deadlocked(S)
        /\ \A u \in S \ {c.txn} : GivesWayBefore(priority, WritesHeld(holders), c.txn, u)

\* A plain candidate is granted before an older one of the same queue only if
\* the older one left the queue in the same step.
NoOvertaking ==
  [][ \A r \in Resource : \A i, j \in DOMAIN queue[r] :
        /\ i < j
        /\ ~queue[r][j].conversion
        /\ queue[r][j].ticket \in granted'
        => \A k \in DOMAIN queue'[r] : queue'[r][k].ticket # queue[r][i].ticket ]_vars

(***************************************************************************)
(* Liveness.                                                               *)
(***************************************************************************)

\* Every deadlock is broken by the threads in it, without help from a session:
\* the polls of the parked threads bring the table back to a state without one.
DeadlocksBroken == SomeDeadlock ~> ~SomeDeadlock

\* A parked call returns once its ticket is honoured or its flag stays up, and
\* a wait with a deadline always ends.
WaitsEnd ==
  \A t \in Txn :
    (\E c \in parked : c.txn = t /\ (c.ticket \in granted \/ c.timeout = "Millis" \/ cancelled[t]))
      ~> Idle(t)

--------------------------------------------------------------------------------
(***************************************************************************)
(* The invariant the safety properties follow from.  It is stated of the   *)
(* parts of a table, so that it can be followed through the stages of one  *)
(* operation: join the queue, grant pass, leave the queue, grant pass.     *)
(***************************************************************************)

TableTyped(H, Q, G, P, N, PR) ==
  /\ H \in [Resource -> SUBSET Holder]
  /\ Q \in [Resource -> Seq(Waiter)]
  /\ N \in Nat
  /\ G \subseteq Nat
  /\ P \subseteq Call
  /\ PR \in [Txn -> SUBSET (Resource \X LockMode)]

\* The locks of one resource: compatible, and one mode per family.
LocksCoherent(H) ==
  /\ \A r \in Resource : \A g, h \in H[r] : g.txn # h.txn => Compatible(g.mode, h.mode)
  /\ \A r \in Resource : \A g, h \in H[r] :
       g.txn = h.txn /\ SameFamily(g.mode, h.mode) => g = h

\* The candidate w of resource r is the one the parked call c waits for.
CallOf(c, r, w) ==
  c.txn = w.txn /\ c.resource = r /\ c.ticket = w.ticket /\ Covers(w.mode, c.mode)

\* A ticket belongs to one call and one transaction, and is in one place.
TicketsCoherent(Q, G, P, N) ==
  /\ \A c \in P : c.ticket < N
  /\ \A c, d \in P : c.ticket = d.ticket \/ c.txn = d.txn => c = d
  /\ \A r, s \in Resource : \A i \in 1..Len(Q[r]), j \in 1..Len(Q[s]) :
       Q[r][i].ticket = Q[s][j].ticket => r = s /\ i = j
  /\ \A r \in Resource : \A i \in 1..Len(Q[r]) : \E c \in P : CallOf(c, r, Q[r][i])
  /\ \A c \in P : (\E i \in 1..Len(Q[c.resource]) : Q[c.resource][i].ticket = c.ticket)
                   <=> c.ticket \notin G
  /\ \A k \in G : \E c \in P : c.ticket = k

\* A candidate asks for at least what its transaction holds, and a ticket
\* honoured means the mode its call asked for is held.
GrantsCoherent(H, Q, G, P) ==
  /\ \A r \in Resource : \A i \in 1..Len(Q[r]) : \A h \in H[r] :
       h.txn = Q[r][i].txn /\ SameFamily(h.mode, Q[r][i].mode)
         => Covers(Q[r][i].mode, h.mode)
  /\ \A c \in P : c.ticket \in G =>
       \E h \in H[c.resource] : h.txn = c.txn /\ Covers(h.mode, c.mode)

\* What was promised is held, and what is held was promised or is about to be.
PromisesCoherent(H, G, P, PR) ==
  /\ \A t \in Txn : \A p \in PR[t] :
       \E h \in H[p[1]] : h.txn = t /\ Covers(h.mode, p[2])
  /\ \A r \in Resource : \A h \in H[r] :
       \/ \E p \in PR[h.txn] : p[1] = r /\ SameFamily(p[2], h.mode)
       \/ \E c \in P : /\ c.txn = h.txn /\ c.resource = r
                        /\ SameFamily(c.mode, h.mode) /\ c.ticket \in G

TableCoherent(H, Q, G, P, N, PR) ==
  /\ TableTyped(H, Q, G, P, N, PR)
  /\ LocksCoherent(H)
  /\ TicketsCoherent(Q, G, P, N)
  /\ GrantsCoherent(H, Q, G, P)
  /\ PromisesCoherent(H, G, P, PR)

\* The inductive invariant: the parts of the table fit together after every step,
\* and every operation leaves the front of each queue refused.
TableInvariant ==
  /\ TableCoherent(holders, queue, granted, parked, next_ticket, promised)
  /\ cancelled \in [Txn -> BOOLEAN]
  /\ priority \in [Txn -> Int]
  /\ FrontIsRefused
================================================================================
