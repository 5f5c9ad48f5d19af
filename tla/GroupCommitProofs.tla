------------------------- MODULE GroupCommitProofs -------------------------
(***************************************************************************)
(* The group commit is correct for every set of transactions and every     *)
(* length of the journal: GroupInvariant of GroupCommit.tla is inductive,  *)
(* and the properties its runs check follow from it.                       *)
(***************************************************************************)
EXTENDS GroupCommit, TLAPS

\* An empty journal and idle threads satisfy the invariant.
LEMMA InitEstablishes == Init => GroupInvariant
<1> SUFFICES ASSUME Init PROVE GroupInvariant
  OBVIOUS
<1> USE ConstantsAssumption
<1>1. NoEnd \in [lsn : {0}, kind : Outcome, ok : {FALSE}]
  BY DEF NoEnd
<1>2. TypeOK
  <2>1. NoEnd \in [lsn : 0..last_lsn, kind : Outcome, ok : BOOLEAN]
    <3>1. 0 \in 0..last_lsn
      BY DEF Init
    <3> QED BY <1>1, <3>1, Zenon
  <2>2. ending \in [Txn -> [lsn : 0..last_lsn, kind : Outcome, ok : BOOLEAN]]
    BY ONLY <2>1, Init DEF Init
  <2>3. pc \in [Txn -> Place] /\ status \in [Txn -> Outcome \cup {"in_progress"}]
    BY DEF Init, Place
  <2>4. last_lsn \in Nat /\ durable_lsn \in 0..last_lsn
    BY ONLY Init DEF Init
  <2>8. syncing \in BOOLEAN
    BY ONLY Init, Zenon DEF Init
  <2>5. /\ failed \subseteq Nat \X Nat /\ logged \in [Txn -> SUBSET (1..last_lsn)]
        /\ disk \subseteq 1..last_lsn /\ dropped \subseteq 1..last_lsn
    BY DEF Init
  <2>6. <<0, 0>> \in Nat \X Nat
    OBVIOUS
  <2>7. range \in [Txn -> Nat \X Nat] /\ begun \in [Txn -> Nat]
    BY <2>6 DEF Init
  <2> QED BY ONLY <2>2, <2>3, <2>4, <2>5, <2>7, <2>8 DEF TypeOK
<1>3. OneLeader
  BY DEF Init, OneLeader, Leading
<1>4. EndedIsDurable
  BY DEF Init, EndedIsDurable
<1>5. LeaderCoherent
  BY DEF Init, LeaderCoherent
<1>6. EndsCoherent
  BY <1>1 DEF Init, EndsCoherent, Leading
<1>7. WaitsCoherent
  BY DEF Init, WaitsCoherent, Uncovered
<1>8. FailedSyncFailsEach
  BY <1>1, Zenon DEF Init, FailedSyncFailsEach
<1>9. dropped = {} /\ DurableIsOnDisk
  BY DEF Init, DurableIsOnDisk
<1> QED BY <1>2, <1>3, <1>4, <1>5, <1>6, <1>7, <1>8, <1>9 DEF GroupInvariant

\* What WaitsCoherent says of a waiting thread whose record is not settled.
BegunOrCovered(t) ==
  \/ begun[t] = 0
  \/ /\ begun[t] = 1
     /\ \E u \in Txn : /\ pc[u] \in {"syncing", "synced", "refused"}
                      /\ range[u][1] <= ending[t].lsn /\ ending[t].lsn <= range[u][2]

\* Every step of a thread, and every flush, keeps the invariant.
LEMMA StepPreserves == GroupInvariant /\ [Next]_vars => GroupInvariant'
<1> SUFFICES ASSUME GroupInvariant, [Next]_vars PROVE GroupInvariant'
  OBVIOUS
<1> USE ConstantsAssumption
<1>a. TypeOK
  BY DEF GroupInvariant
<1>b. OneLeader
  BY DEF GroupInvariant
<1>c. EndedIsDurable
  BY DEF GroupInvariant
<1>d. LeaderCoherent
  BY DEF GroupInvariant
<1>e. EndsCoherent
  BY DEF GroupInvariant
<1>w. WaitsCoherent
  BY DEF GroupInvariant
<1>x. ~OthersFlush => FailedSyncFailsEach
  BY DEF GroupInvariant
<1>y. ~SyncMayFail => dropped = {} /\ DurableIsOnDisk
  BY DEF GroupInvariant
<1>1. ASSUME NEW t \in Txn, Log(t) PROVE GroupInvariant'
  <2>1. TypeOK'
    BY <1>1, <1>a DEF Log, journal, group, register, file, Goto, TypeOK, Place, Leading
  <2>2. OneLeader'
    BY <1>1, <1>a, <1>b DEF Log, journal, group, register, file, Goto, TypeOK, OneLeader, Leading
  <2>3. EndedIsDurable'
    BY <1>1, <1>a, <1>c, <1>e DEF Log, journal, group, register, file, Goto, TypeOK, EndedIsDurable,
         EndsCoherent
  <2>4. LeaderCoherent'
    BY <1>1, <1>a, <1>b, <1>d, <1>e DEF Log, journal, group, register, file, Goto, TypeOK, OneLeader, Leading,
         LeaderCoherent, EndsCoherent
  <2>5. EndsCoherent'
    BY <1>1, <1>a, <1>b, <1>d, <1>e, <1>w DEF Log, journal, group, register, file, Goto, TypeOK, OneLeader, Leading,
         LeaderCoherent, EndsCoherent, WaitsCoherent, FailedOn
  <2>6. WaitsCoherent'
    <3>1. \A f \in failed' : f[2] <= last_lsn'
      BY <1>1, <1>a, <1>w DEF Log, journal, group, register, file, Goto, TypeOK, WaitsCoherent
    <3>2. \A u \in Txn : pc'[u] \in {"idle", "elected"} => begun'[u] = 0
      BY <1>1, <1>a, <1>b, <1>e, <1>w DEF Log, journal, group, register, file, Goto, TypeOK, EndsCoherent, OneLeader, WaitsCoherent, Uncovered
    <3>3. ASSUME NEW u \in Txn, Uncovered(u)'
          PROVE  BegunOrCovered(u)'
      <4>1. Uncovered(u) /\ begun'[u] = begun[u] /\ ending'[u].lsn = ending[u].lsn
        BY <1>1, <3>3, <1>a DEF Log, journal, group, register, file, Goto, TypeOK, Uncovered, FailedOn
      <4>2. BegunOrCovered(u)
        BY ONLY <4>1, <1>w DEF WaitsCoherent, BegunOrCovered
      <4>3. \A v \in Txn : pc[v] \in {"syncing", "synced", "refused"} =>
              pc'[v] = pc[v] /\ range'[v] = range[v]
        BY <1>1, <1>a DEF Log, journal, group, register, file, Goto, TypeOK
      <4> QED BY ONLY <4>1, <4>2, <4>3 DEF BegunOrCovered
    <3> QED BY ONLY <3>1, <3>2, <3>3 DEF WaitsCoherent, BegunOrCovered
  <2>7. (~OthersFlush => FailedSyncFailsEach)'
    BY <1>1, <1>a, <1>b, <1>d, <1>e, <1>x DEF Log, journal, group, register, file, Goto, TypeOK, OneLeader, Leading,
         LeaderCoherent, EndsCoherent, FailedSyncFailsEach, FailedOn
  <2>8. (~SyncMayFail => dropped = {} /\ DurableIsOnDisk)'
    BY <1>1, <1>a, <1>d, <1>y DEF Log, journal, group, register, file, Goto, TypeOK, LeaderCoherent,
         DurableIsOnDisk
  <2> QED BY ONLY <2>1, <2>2, <2>3, <2>4, <2>5, <2>6, <2>7, <2>8 DEF GroupInvariant
<1>2. ASSUME NEW t \in Txn, NEW kind \in Outcome, EndWithoutWrite(t, kind) PROVE GroupInvariant'
  <2>1. TypeOK'
    BY <1>2, <1>a DEF EndWithoutWrite, journal, group, register, file, Goto, TypeOK, Place,
         Leading
  <2>2. OneLeader'
    BY <1>2, <1>a, <1>b DEF EndWithoutWrite, journal, group, register, file, Goto, TypeOK, OneLeader,
         Leading
  <2>3. EndedIsDurable'
    BY <1>2, <1>a, <1>c, <1>e DEF EndWithoutWrite, journal, group, register, file, Goto, TypeOK,
         EndedIsDurable, EndsCoherent
  <2>4. LeaderCoherent'
    BY <1>2, <1>a, <1>b, <1>d, <1>e DEF EndWithoutWrite, journal, group, register, file, Goto, TypeOK, OneLeader,
         Leading, LeaderCoherent, EndsCoherent
  <2>5. EndsCoherent'
    BY <1>2, <1>a, <1>b, <1>d, <1>e, <1>w DEF EndWithoutWrite, journal, group, register, file, Goto, TypeOK, OneLeader,
         Leading, LeaderCoherent, EndsCoherent, WaitsCoherent, FailedOn
  <2>6. WaitsCoherent'
    BY <1>2, <1>a, <1>b, <1>d, <1>e, <1>w DEF EndWithoutWrite, journal, group, register, file, Goto, TypeOK, OneLeader,
         Leading, LeaderCoherent, EndsCoherent, WaitsCoherent, Uncovered, FailedOn
  <2>7. (~OthersFlush => FailedSyncFailsEach)'
    BY <1>2, <1>a, <1>b, <1>d, <1>e, <1>x DEF EndWithoutWrite, journal, group, register, file, Goto, TypeOK, OneLeader,
         Leading, LeaderCoherent, EndsCoherent, FailedSyncFailsEach, FailedOn
  <2>8. (~SyncMayFail => dropped = {} /\ DurableIsOnDisk)'
    BY <1>2, <1>a, <1>d, <1>y DEF EndWithoutWrite, journal, group, register, file, Goto, TypeOK,
         LeaderCoherent, DurableIsOnDisk
  <2> QED BY ONLY <2>1, <2>2, <2>3, <2>4, <2>5, <2>6, <2>7, <2>8 DEF GroupInvariant
<1>3. ASSUME NEW t \in Txn, NEW kind \in Outcome, AppendEnd(t, kind) PROVE GroupInvariant'
  <2>1. TypeOK'
    BY <1>3, <1>a DEF AppendEnd, journal, group, register, file, Goto, TypeOK, Place, Leading
  <2>2. OneLeader'
    BY <1>3, <1>a, <1>b DEF AppendEnd, journal, group, register, file, Goto, TypeOK, OneLeader,
         Leading
  <2>3. EndedIsDurable'
    BY <1>3, <1>a, <1>c, <1>e DEF AppendEnd, journal, group, register, file, Goto, TypeOK, EndedIsDurable,
         EndsCoherent
  <2>4. LeaderCoherent'
    BY <1>3, <1>a, <1>b, <1>d, <1>e DEF AppendEnd, journal, group, register, file, Goto, TypeOK, OneLeader,
         Leading, LeaderCoherent, EndsCoherent
  <2>5. EndsCoherent'
    BY <1>3, <1>a, <1>b, <1>d, <1>e, <1>w DEF AppendEnd, journal, group, register, file, Goto, TypeOK, OneLeader,
         Leading, LeaderCoherent, EndsCoherent, WaitsCoherent, FailedOn
  <2>6. WaitsCoherent'
    <3>1. \A f \in failed' : f[2] <= last_lsn'
      BY <1>3, <1>a, <1>w DEF AppendEnd, journal, group, register, file, Goto, TypeOK, WaitsCoherent
    <3>2. \A u \in Txn : pc'[u] \in {"idle", "elected"} => begun'[u] = 0
      BY <1>3, <1>a, <1>w DEF AppendEnd, journal, group, register, file, Goto, TypeOK, WaitsCoherent
    <3>3. ASSUME NEW u \in Txn, Uncovered(u)'
          PROVE  BegunOrCovered(u)'
      <4>1. CASE u = t
        BY <1>3, <4>1, <1>w DEF AppendEnd, BegunOrCovered, WaitsCoherent
      <4>2. CASE u # t
        <5>1. Uncovered(u) /\ begun'[u] = begun[u] /\ ending'[u].lsn = ending[u].lsn
          BY <1>3, <3>3, <4>2, <1>a DEF AppendEnd, journal, group, register, file, Goto, TypeOK, Uncovered, FailedOn
        <5>2. BegunOrCovered(u)
          BY ONLY <5>1, <1>w DEF WaitsCoherent, BegunOrCovered
        <5>3. \A v \in Txn : pc[v] \in {"syncing", "synced", "refused"} =>
                pc'[v] = pc[v] /\ range'[v] = range[v]
          BY <1>3, <1>a DEF AppendEnd, journal, group, register, file, Goto, TypeOK
        <5> QED BY ONLY <5>1, <5>2, <5>3 DEF BegunOrCovered
      <4> QED BY <4>1, <4>2
    <3> QED BY ONLY <3>1, <3>2, <3>3 DEF WaitsCoherent, BegunOrCovered
  <2>7. (~OthersFlush => FailedSyncFailsEach)'
    BY <1>3, <1>a, <1>b, <1>d, <1>e, <1>x DEF AppendEnd, journal, group, register, file, Goto, TypeOK, OneLeader,
         Leading, LeaderCoherent, EndsCoherent, FailedSyncFailsEach, FailedOn
  <2>8. (~SyncMayFail => dropped = {} /\ DurableIsOnDisk)'
    BY <1>3, <1>a, <1>d, <1>y DEF AppendEnd, journal, group, register, file, Goto, TypeOK, LeaderCoherent,
         DurableIsOnDisk
  <2> QED BY ONLY <2>1, <2>2, <2>3, <2>4, <2>5, <2>6, <2>7, <2>8 DEF GroupInvariant
<1>4. ASSUME NEW t \in Txn, Settle(t) PROVE GroupInvariant'
  <2>1. TypeOK'
    BY <1>4, <1>a DEF Settle, journal, group, register, file, Goto, TypeOK, Place, Leading
  <2>2. OneLeader'
    BY <1>4, <1>a, <1>b DEF Settle, journal, group, register, file, Goto, TypeOK, OneLeader, Leading
  <2>3. EndedIsDurable'
    BY <1>4, <1>a, <1>c, <1>e DEF Settle, journal, group, register, file, Goto, TypeOK, EndedIsDurable,
         EndsCoherent
  <2>4. LeaderCoherent'
    BY <1>4, <1>a, <1>b, <1>d, <1>e DEF Settle, journal, group, register, file, Goto, TypeOK, OneLeader, Leading,
         LeaderCoherent, EndsCoherent
  <2>5. EndsCoherent'
    BY <1>4, <1>a, <1>b, <1>d, <1>e, <1>w DEF Settle, journal, group, register, file, Goto, TypeOK, OneLeader, Leading,
         LeaderCoherent, EndsCoherent, WaitsCoherent, FailedOn
  <2>6. WaitsCoherent'
    <3>1. \A f \in failed' : f[2] <= last_lsn'
      BY <1>4, <1>a, <1>w DEF Settle, journal, group, register, file, Goto, TypeOK, WaitsCoherent
    <3>2. \A u \in Txn : pc'[u] \in {"idle", "elected"} => begun'[u] = 0
      BY <1>4, <1>a, <1>b, <1>e, <1>w DEF Settle, journal, group, register, file, Goto, TypeOK, EndsCoherent, OneLeader, WaitsCoherent, Uncovered
    <3>3. ASSUME NEW u \in Txn, Uncovered(u)'
          PROVE  BegunOrCovered(u)'
      <4>1. Uncovered(u) /\ begun'[u] = begun[u] /\ ending'[u].lsn = ending[u].lsn
        BY <1>4, <3>3, <1>a DEF Settle, journal, group, register, file, Goto, TypeOK, Uncovered, FailedOn
      <4>2. BegunOrCovered(u)
        BY ONLY <4>1, <1>w DEF WaitsCoherent, BegunOrCovered
      <4>3. \A v \in Txn : pc[v] \in {"syncing", "synced", "refused"} =>
              pc'[v] = pc[v] /\ range'[v] = range[v]
        BY <1>4, <1>a DEF Settle, journal, group, register, file, Goto, TypeOK
      <4> QED BY ONLY <4>1, <4>2, <4>3 DEF BegunOrCovered
    <3> QED BY ONLY <3>1, <3>2, <3>3 DEF WaitsCoherent, BegunOrCovered
  <2>7. (~OthersFlush => FailedSyncFailsEach)'
    BY <1>4, <1>a, <1>b, <1>d, <1>e, <1>x DEF Settle, journal, group, register, file, Goto, TypeOK, OneLeader, Leading,
         LeaderCoherent, EndsCoherent, FailedSyncFailsEach, FailedOn
  <2>8. (~SyncMayFail => dropped = {} /\ DurableIsOnDisk)'
    BY <1>4, <1>a, <1>d, <1>y DEF Settle, journal, group, register, file, Goto, TypeOK, LeaderCoherent,
         DurableIsOnDisk
  <2> QED BY ONLY <2>1, <2>2, <2>3, <2>4, <2>5, <2>6, <2>7, <2>8 DEF GroupInvariant
<1>5. ASSUME NEW t \in Txn, Answered(t) PROVE GroupInvariant'
  <2>1. TypeOK'
    <3>1. PICK b \in BOOLEAN : ending' = [ending EXCEPT ![t].ok = b]
      BY <1>5, Zenon DEF Answered
    <3>2. ending' \in [Txn -> [lsn : 0..last_lsn, kind : Outcome, ok : BOOLEAN]]
      BY ONLY <3>1, <1>a, SMTT(30) DEF TypeOK
    <3>3. pc' \in [Txn -> Place]
      BY <1>5, <1>a DEF Answered, Goto, TypeOK, Place
    <3>4. /\ last_lsn' = last_lsn /\ durable_lsn' = durable_lsn /\ syncing' = syncing
          /\ failed' = failed /\ status' = status /\ logged' = logged /\ range' = range
          /\ disk' = disk /\ dropped' = dropped /\ begun' = begun
      BY <1>5 DEF Answered, journal, group, register, file, Goto
    <3> QED BY ONLY <1>a, <3>2, <3>3, <3>4 DEF TypeOK
  <2>2. OneLeader'
    BY <1>5, <1>a, <1>b DEF Answered, journal, group, register, file, Goto, TypeOK, OneLeader, Leading
  <2>3. EndedIsDurable'
    BY <1>5, <1>a, <1>c, <1>e DEF Answered, journal, group, register, file, Goto, TypeOK, EndedIsDurable,
         EndsCoherent
  <2>4. LeaderCoherent'
    BY <1>5, <1>a, <1>b, <1>d, <1>e DEF Answered, journal, group, register, file, Goto, TypeOK, OneLeader,
         Leading, LeaderCoherent, EndsCoherent
  <2>5. EndsCoherent'
    BY <1>5, <1>a, <1>b, <1>d, <1>e, <1>w DEF Answered, journal, group, register, file, Goto, TypeOK, OneLeader,
         Leading, LeaderCoherent, EndsCoherent, WaitsCoherent, FailedOn
  <2>6. WaitsCoherent'
    <3>1. \A f \in failed' : f[2] <= last_lsn'
      BY <1>5, <1>a, <1>w DEF Answered, journal, group, register, file, Goto, TypeOK, WaitsCoherent
    <3>2. \A u \in Txn : pc'[u] \in {"idle", "elected"} => begun'[u] = 0
      BY <1>5, <1>a, <1>b, <1>e, <1>w DEF Answered, journal, group, register, file, Goto, TypeOK, EndsCoherent, OneLeader, WaitsCoherent, Uncovered
    <3>3. ASSUME NEW u \in Txn, Uncovered(u)'
          PROVE  BegunOrCovered(u)'
      <4>1. Uncovered(u) /\ begun'[u] = begun[u] /\ ending'[u].lsn = ending[u].lsn
        BY <1>5, <3>3, <1>a DEF Answered, journal, group, register, file, Goto, TypeOK, Uncovered, FailedOn
      <4>2. BegunOrCovered(u)
        BY ONLY <4>1, <1>w DEF WaitsCoherent, BegunOrCovered
      <4>3. \A v \in Txn : pc[v] \in {"syncing", "synced", "refused"} =>
              pc'[v] = pc[v] /\ range'[v] = range[v]
        BY <1>5, <1>a DEF Answered, journal, group, register, file, Goto, TypeOK
      <4> QED BY ONLY <4>1, <4>2, <4>3 DEF BegunOrCovered
    <3> QED BY ONLY <3>1, <3>2, <3>3 DEF WaitsCoherent, BegunOrCovered
  <2>7. (~OthersFlush => FailedSyncFailsEach)'
    <3> SUFFICES ASSUME ~OthersFlush, NEW u \in Txn, ending'[u].ok
                 PROVE  ~FailedOn(ending[u].lsn)
      BY <1>5, <1>a, <1>x, SMTT(30) DEF Answered, journal, group, TypeOK, FailedSyncFailsEach, FailedOn
    <3>1. PICK b \in BOOLEAN : b <=> ~FailedOn(ending[t].lsn)
      BY Zenon
    <3>2. ending' = [ending EXCEPT ![t].ok = b]
      BY <1>5, <3>1, Zenon DEF Answered
    <3>3. CASE u = t
      BY <3>1, <3>2, <3>3, <1>a DEF TypeOK
    <3>4. CASE u # t
      BY <3>2, <3>4, <1>a, <1>x DEF TypeOK, FailedSyncFailsEach
    <3> QED BY <3>3, <3>4
  <2>8. (~SyncMayFail => dropped = {} /\ DurableIsOnDisk)'
    BY <1>5, <1>a, <1>d, <1>y DEF Answered, journal, group, register, file, Goto, TypeOK, LeaderCoherent,
         DurableIsOnDisk
  <2> QED BY ONLY <2>1, <2>2, <2>3, <2>4, <2>5, <2>6, <2>7, <2>8 DEF GroupInvariant
<1>6. ASSUME NEW t \in Txn, LeadOrSleep(t) PROVE GroupInvariant'
  <2>1. TypeOK'
    BY <1>6, <1>a DEF LeadOrSleep, journal, group, register, file, Goto, TypeOK, Place, Leading
  <2>2. OneLeader'
    BY <1>6, <1>a, <1>b DEF LeadOrSleep, journal, group, register, file, Goto, TypeOK, OneLeader,
         Leading
  <2>3. EndedIsDurable'
    BY <1>6, <1>a, <1>c, <1>e DEF LeadOrSleep, journal, group, register, file, Goto, TypeOK, EndedIsDurable,
         EndsCoherent
  <2>4. LeaderCoherent'
    BY <1>6, <1>a, <1>b, <1>d, <1>e DEF LeadOrSleep, journal, group, register, file, Goto, TypeOK, OneLeader,
         Leading, LeaderCoherent, EndsCoherent
  <2>5. EndsCoherent'
    BY <1>6, <1>a, <1>b, <1>d, <1>e, <1>w DEF LeadOrSleep, journal, group, register, file, Goto, TypeOK, OneLeader,
         Leading, LeaderCoherent, EndsCoherent, WaitsCoherent, FailedOn
  <2>6. WaitsCoherent'
    <3>1. \A f \in failed' : f[2] <= last_lsn'
      BY <1>6, <1>a, <1>w DEF LeadOrSleep, journal, group, register, file, Goto, TypeOK, WaitsCoherent
    <3>2. \A u \in Txn : pc'[u] \in {"idle", "elected"} => begun'[u] = 0
      <4>1. ASSUME ~syncing PROVE begun[t] = 0
        <5>1. Uncovered(t)
          BY <1>6 DEF LeadOrSleep, Uncovered
        <5>2. \A u \in Txn : pc[u] \notin {"syncing", "synced", "refused"}
          BY <4>1, <1>b DEF OneLeader, Leading
        <5> QED BY ONLY <5>1, <5>2, <1>w, t \in Txn DEF WaitsCoherent
      <4> QED BY <1>6, <4>1, <1>a, <1>w DEF LeadOrSleep, Goto, TypeOK, WaitsCoherent
    <3>3. ASSUME NEW u \in Txn, Uncovered(u)'
          PROVE  BegunOrCovered(u)'
      <4>1. Uncovered(u) /\ begun'[u] = begun[u] /\ ending'[u].lsn = ending[u].lsn
        BY <1>6, <3>3, <1>a DEF LeadOrSleep, journal, group, register, file, Goto, TypeOK, Uncovered, FailedOn
      <4>2. BegunOrCovered(u)
        BY ONLY <4>1, <1>w DEF WaitsCoherent, BegunOrCovered
      <4>3. \A v \in Txn : pc[v] \in {"syncing", "synced", "refused"} =>
              pc'[v] = pc[v] /\ range'[v] = range[v]
        BY <1>6, <1>a DEF LeadOrSleep, journal, group, register, file, Goto, TypeOK
      <4> QED BY ONLY <4>1, <4>2, <4>3 DEF BegunOrCovered
    <3> QED BY ONLY <3>1, <3>2, <3>3 DEF WaitsCoherent, BegunOrCovered
  <2>7. (~OthersFlush => FailedSyncFailsEach)'
    BY <1>6, <1>a, <1>b, <1>d, <1>e, <1>x DEF LeadOrSleep, journal, group, register, file, Goto, TypeOK, OneLeader,
         Leading, LeaderCoherent, EndsCoherent, FailedSyncFailsEach, FailedOn
  <2>8. (~SyncMayFail => dropped = {} /\ DurableIsOnDisk)'
    BY <1>6, <1>a, <1>d, <1>y DEF LeadOrSleep, journal, group, register, file, Goto, TypeOK, LeaderCoherent,
         DurableIsOnDisk
  <2> QED BY ONLY <2>1, <2>2, <2>3, <2>4, <2>5, <2>6, <2>7, <2>8 DEF GroupInvariant
<1>7. ASSUME NEW t \in Txn, WakeUp(t) PROVE GroupInvariant'
  <2>1. TypeOK'
    BY <1>7, <1>a DEF WakeUp, journal, group, register, file, Goto, TypeOK, Place, Leading
  <2>2. OneLeader'
    BY <1>7, <1>a, <1>b DEF WakeUp, journal, group, register, file, Goto, TypeOK, OneLeader, Leading
  <2>3. EndedIsDurable'
    BY <1>7, <1>a, <1>c, <1>e DEF WakeUp, journal, group, register, file, Goto, TypeOK, EndedIsDurable,
         EndsCoherent
  <2>4. LeaderCoherent'
    BY <1>7, <1>a, <1>b, <1>d, <1>e DEF WakeUp, journal, group, register, file, Goto, TypeOK, OneLeader, Leading,
         LeaderCoherent, EndsCoherent
  <2>5. EndsCoherent'
    BY <1>7, <1>a, <1>b, <1>d, <1>e, <1>w DEF WakeUp, journal, group, register, file, Goto, TypeOK, OneLeader, Leading,
         LeaderCoherent, EndsCoherent, WaitsCoherent, FailedOn
  <2>6. WaitsCoherent'
    BY <1>7, <1>a, <1>b, <1>d, <1>e, <1>w DEF WakeUp, journal, group, register, file, Goto, TypeOK, OneLeader, Leading,
         LeaderCoherent, EndsCoherent, WaitsCoherent, Uncovered, FailedOn
  <2>7. (~OthersFlush => FailedSyncFailsEach)'
    BY <1>7, <1>a, <1>b, <1>d, <1>e, <1>x DEF WakeUp, journal, group, register, file, Goto, TypeOK, OneLeader, Leading,
         LeaderCoherent, EndsCoherent, FailedSyncFailsEach, FailedOn
  <2>8. (~SyncMayFail => dropped = {} /\ DurableIsOnDisk)'
    BY <1>7, <1>a, <1>d, <1>y DEF WakeUp, journal, group, register, file, Goto, TypeOK, LeaderCoherent,
         DurableIsOnDisk
  <2> QED BY ONLY <2>1, <2>2, <2>3, <2>4, <2>5, <2>6, <2>7, <2>8 DEF GroupInvariant
<1>8. ASSUME NEW t \in Txn, ReadTarget(t) PROVE GroupInvariant'
  <2>1. TypeOK'
    BY <1>8, <1>a DEF ReadTarget, journal, group, register, file, Goto, TypeOK, Place, Leading
  <2>2. OneLeader'
    BY <1>8, <1>a, <1>b DEF ReadTarget, journal, group, register, file, Goto, TypeOK, OneLeader,
         Leading
  <2>3. EndedIsDurable'
    BY <1>8, <1>a, <1>c, <1>e DEF ReadTarget, journal, group, register, file, Goto, TypeOK, EndedIsDurable,
         EndsCoherent
  <2>4. LeaderCoherent'
    BY <1>8, <1>a, <1>b, <1>d, <1>e DEF ReadTarget, journal, group, register, file, Goto, TypeOK, OneLeader,
         Leading, LeaderCoherent, EndsCoherent
  <2>5. EndsCoherent'
    BY <1>8, <1>a, <1>b, <1>d, <1>e, <1>w DEF ReadTarget, journal, group, register, file, Goto, TypeOK, OneLeader,
         Leading, LeaderCoherent, EndsCoherent, WaitsCoherent, FailedOn
  <2>6. WaitsCoherent'
    <3>1. \A f \in failed' : f[2] <= last_lsn'
      BY <1>8, <1>a, <1>w DEF ReadTarget, journal, group, register, file, Goto, TypeOK, WaitsCoherent
    <3>2. \A u \in Txn : pc'[u] \in {"idle", "elected"} => begun'[u] = 0
      BY <1>8, <1>a, <1>w DEF ReadTarget, journal, group, register, file, Goto, TypeOK, WaitsCoherent, Uncovered
    <3>3. ASSUME NEW u \in Txn, Uncovered(u)'
          PROVE  BegunOrCovered(u)'
      <4>1. Uncovered(u) /\ ending'[u].lsn = ending[u].lsn
        BY <1>8, <3>3, <1>a DEF ReadTarget, journal, group, register, file, Goto, TypeOK, Uncovered, FailedOn
      <4>2. BegunOrCovered(u)
        BY ONLY <4>1, <1>w DEF WaitsCoherent, BegunOrCovered
      <4>3. \A v \in Txn : pc[v] \in {"syncing", "synced", "refused"} => v = t
        BY <1>8, <1>b DEF ReadTarget, OneLeader, Leading
      <4>4. begun[u] = 0 /\ begun'[u] = 1
        BY <1>8, <4>1, <4>2, <4>3, <1>a DEF ReadTarget, TypeOK, BegunOrCovered
      <4>5. /\ pc'[t] = "syncing"
            /\ range'[t][1] <= ending'[u].lsn /\ ending'[u].lsn <= range'[t][2]
        BY <1>8, <4>1, <1>a DEF ReadTarget, Goto, TypeOK, Uncovered
      <4> QED BY ONLY <4>4, <4>5, t \in Txn DEF BegunOrCovered
    <3> QED BY ONLY <3>1, <3>2, <3>3 DEF WaitsCoherent, BegunOrCovered
  <2>7. (~OthersFlush => FailedSyncFailsEach)'
    BY <1>8, <1>a, <1>b, <1>d, <1>e, <1>x DEF ReadTarget, journal, group, register, file, Goto, TypeOK, OneLeader,
         Leading, LeaderCoherent, EndsCoherent, FailedSyncFailsEach, FailedOn
  <2>8. (~SyncMayFail => dropped = {} /\ DurableIsOnDisk)'
    BY <1>8, <1>a, <1>d, <1>y DEF ReadTarget, journal, group, register, file, Goto, TypeOK, LeaderCoherent,
         DurableIsOnDisk
  <2> QED BY ONLY <2>1, <2>2, <2>3, <2>4, <2>5, <2>6, <2>7, <2>8 DEF GroupInvariant
<1>9. ASSUME NEW t \in Txn, SyncAll(t) PROVE GroupInvariant'
  <2>1. TypeOK'
    <3>1. disk' \subseteq 1..last_lsn /\ dropped' \subseteq 1..last_lsn
      <4>1. range[t][2] \in Nat /\ range[t][2] <= last_lsn
        BY <1>9, <1>a, <1>d DEF SyncAll, TypeOK, LeaderCoherent
      <4>2. 1..range[t][2] \subseteq 1..last_lsn
        BY <4>1, <1>a DEF TypeOK
      <4>3. CASE SyncedAt(range[t][2])
        BY <4>2, <4>3, <1>a, Zenon DEF SyncedAt, TypeOK
      <4>4. CASE SyncFailsAt(last_lsn)
        BY <4>4, <1>a DEF SyncFailsAt, TypeOK
      <4> QED BY <1>9, <4>3, <4>4 DEF SyncAll
    <3>2. pc' \in [Txn -> Place]
      BY <1>9, <1>a, SMTT(30) DEF SyncAll, Goto, TypeOK, Place, Leading
    <3>3. /\ last_lsn' = last_lsn /\ durable_lsn' = durable_lsn /\ syncing' = syncing
          /\ failed' = failed /\ status' = status /\ logged' = logged /\ ending' = ending
          /\ range' = range /\ begun' = begun
      BY <1>9 DEF SyncAll, journal, group, register, file, Goto
    <3> QED BY ONLY <1>a, <3>1, <3>2, <3>3 DEF TypeOK
  <2>f. /\ pc[t] = "syncing" /\ pc'[t] \in {"synced", "refused"}
        /\ \A u \in Txn : u # t => pc'[u] = pc[u]
        /\ last_lsn' = last_lsn /\ durable_lsn' = durable_lsn
        /\ syncing' = syncing /\ failed' = failed /\ status' = status /\ logged' = logged /\ ending' = ending
        /\ range' = range /\ begun' = begun
    BY <1>9, <1>a DEF SyncAll, journal, group, register, Goto, TypeOK
  <2>g. pc'[t] = "synced" => SyncedAt(range[t][2])
    BY <1>9, <1>a DEF SyncAll, Goto, TypeOK
  <2>h. disk \subseteq disk' /\ (~SyncMayFail => dropped' = dropped)
    BY <1>9 DEF SyncAll, SyncedAt, SyncFailsAt
  <2>n. \A u \in Txn : FailedOn(ending[u].lsn)' = FailedOn(ending[u].lsn)
    BY ONLY <2>f DEF FailedOn
  <2>2. OneLeader'
    BY <2>f, <1>b DEF OneLeader, Leading
  <2>3. EndedIsDurable'
    BY ONLY <2>f, <1>c DEF EndedIsDurable
  <2>4. LeaderCoherent'
    <3>1. ASSUME NEW u \in Txn
          PROVE  /\ pc'[u] \in {"syncing", "synced", "refused"} <=> pc[u] \in {"syncing", "synced", "refused"}
                 /\ pc'[u] = "noted" <=> pc[u] = "noted"
                 /\ pc'[u] = "synced" => u = t \/ pc[u] = "synced"
      <4>1. CASE u = t
        BY ONLY <2>f, <4>1
      <4>2. CASE u # t
        BY ONLY <2>f, <4>2, u \in Txn
      <4> QED BY ONLY <4>1, <4>2
    <3>2. pc'[t] = "synced" /\ ~SyncMayFail => 1..range[t][2] \subseteq disk'
      BY <2>g, <1>y DEF SyncedAt
    <3> QED BY ONLY <2>f, <2>h, <3>1, <3>2, <1>d DEF LeaderCoherent
  <2>5. EndsCoherent'
    <3>1. \A u \in Txn : (pc'[u] = "idle" <=> pc[u] = "idle") /\ (pc'[u] \in Leading <=> pc[u] \in Leading)
                     /\ (pc'[u] \in {"check", "asleep"} <=> pc[u] \in {"check", "asleep"})
      BY ONLY <2>f, t \in Txn, SMTT(30) DEF Leading
    <3> QED BY ONLY <2>f, <2>n, <3>1, <1>e DEF EndsCoherent
  <2>6. WaitsCoherent'
    <3>1. \A u \in Txn : (pc'[u] \in {"idle", "elected"} <=> pc[u] \in {"idle", "elected"})
                     /\ (pc'[u] \in {"syncing", "synced", "refused"} <=> pc[u] \in {"syncing", "synced", "refused"})
      BY ONLY <2>f, t \in Txn
    <3>2. \A u \in Txn : Uncovered(u)' => Uncovered(u)
      BY ONLY <2>f, <2>n, t \in Txn DEF Uncovered
    <3> QED BY ONLY <2>f, <3>1, <3>2, <1>w DEF WaitsCoherent
  <2>7. (~OthersFlush => FailedSyncFailsEach)'
    BY ONLY <2>f, <2>n, <1>x DEF FailedSyncFailsEach
  <2>8. (~SyncMayFail => dropped = {} /\ DurableIsOnDisk)'
    BY ONLY <2>f, <2>h, <1>y DEF DurableIsOnDisk
  <2> QED BY ONLY <2>1, <2>2, <2>3, <2>4, <2>5, <2>6, <2>7, <2>8 DEF GroupInvariant
<1>10. ASSUME NEW t \in Txn, NoteSync(t) PROVE GroupInvariant'
  <2>1. TypeOK'
    <3>1. durable_lsn' \in 0..last_lsn
      BY <1>10, <1>a, <1>d DEF NoteSync, TypeOK, LeaderCoherent
    <3>2. pc' \in [Txn -> Place]
      BY <1>10, <1>a, SMTT(30) DEF NoteSync, Goto, TypeOK, Place, Leading
    <3>3. /\ last_lsn' = last_lsn /\ syncing' = syncing /\ failed' = failed
          /\ status' = status /\ logged' = logged /\ ending' = ending /\ range' = range
          /\ disk' = disk /\ dropped' = dropped /\ begun' = begun
      BY <1>10 DEF NoteSync, journal, group, register, file, Goto
    <3> QED BY ONLY <1>a, <3>1, <3>2, <3>3 DEF TypeOK
  <2>2. OneLeader'
    BY <1>10, <1>a, <1>b DEF NoteSync, journal, group, register, file, Goto, TypeOK, OneLeader,
         Leading
  <2>3. EndedIsDurable'
    BY <1>10, <1>a, <1>c, <1>e DEF NoteSync, journal, group, register, file, Goto, TypeOK, EndedIsDurable,
         EndsCoherent
  <2>4. LeaderCoherent'
    BY <1>10, <1>a, <1>b, <1>d, <1>e DEF NoteSync, journal, group, register, file, Goto, TypeOK, OneLeader,
         Leading, LeaderCoherent, EndsCoherent
  <2>5. EndsCoherent'
    BY <1>10, <1>a, <1>b, <1>d, <1>e, <1>w DEF NoteSync, journal, group, register, file, Goto, TypeOK, OneLeader,
         Leading, LeaderCoherent, EndsCoherent, WaitsCoherent, FailedOn
  <2>6. WaitsCoherent'
    <3>1. \A f \in failed' : f[2] <= last_lsn'
      BY <1>10, <1>a, <1>w DEF NoteSync, journal, group, register, file, Goto, TypeOK, WaitsCoherent
    <3>2. \A u \in Txn : pc'[u] \in {"idle", "elected"} => begun'[u] = 0
      BY <1>10, <1>a, <1>w DEF NoteSync, journal, group, register, file, Goto, TypeOK, WaitsCoherent
    <3>3. ASSUME NEW u \in Txn, Uncovered(u)'
          PROVE  BegunOrCovered(u)'
      <4>1. Uncovered(u) /\ ending'[u].lsn = ending[u].lsn
        BY <1>10, <3>3, <1>a, <1>d DEF NoteSync, journal, group, register, file, Goto, TypeOK, Uncovered, FailedOn, LeaderCoherent
      <4>2. BegunOrCovered(u)
        BY ONLY <4>1, <1>w DEF WaitsCoherent, BegunOrCovered
      <4>3. \A v \in Txn : pc[v] \in {"syncing", "synced", "refused"} => v = t
        BY <1>10, <1>b DEF NoteSync, OneLeader, Leading
      <4>4. range[t][2] < ending[u].lsn
        BY <1>10, <3>3, <4>1, <1>a DEF NoteSync, TypeOK, Uncovered
      <4>5. begun[u] = 0
        BY <4>2, <4>3, <4>4, <1>a DEF TypeOK, BegunOrCovered
      <4> QED BY <1>10, <4>5 DEF NoteSync, BegunOrCovered
    <3> QED BY ONLY <3>1, <3>2, <3>3 DEF WaitsCoherent, BegunOrCovered
  <2>7. (~OthersFlush => FailedSyncFailsEach)'
    BY <1>10, <1>a, <1>b, <1>d, <1>e, <1>x DEF NoteSync, journal, group, register, file, Goto, TypeOK, OneLeader,
         Leading, LeaderCoherent, EndsCoherent, FailedSyncFailsEach, FailedOn
  <2>8. (~SyncMayFail => dropped = {} /\ DurableIsOnDisk)'
    BY <1>10, <1>a, <1>d, <1>y DEF NoteSync, journal, group, register, file, Goto, TypeOK, LeaderCoherent,
         DurableIsOnDisk
  <2> QED BY ONLY <2>1, <2>2, <2>3, <2>4, <2>5, <2>6, <2>7, <2>8 DEF GroupInvariant
<1>11. ASSUME NEW t \in Txn, Leave(t) PROVE GroupInvariant'
  <2>1. TypeOK'
    <3>1. PICK b \in BOOLEAN : ending' = [ending EXCEPT ![t].ok = b]
      BY <1>11, Zenon DEF Leave
    <3>2. ending' \in [Txn -> [lsn : 0..last_lsn, kind : Outcome, ok : BOOLEAN]]
      BY ONLY <3>1, <1>a DEF TypeOK
    <3>3. pc' \in [Txn -> Place] /\ range' \in [Txn -> Nat \X Nat] /\ syncing' \in BOOLEAN
      BY <1>11, <1>a, Zenon DEF Leave, Goto, TypeOK, Place
    <3>4. failed' \subseteq Nat \X Nat
      BY <1>11, <1>a DEF Leave, TypeOK
    <3>5. /\ last_lsn' = last_lsn /\ durable_lsn' = durable_lsn /\ status' = status
          /\ logged' = logged /\ disk' = disk /\ dropped' = dropped /\ begun' = begun
      BY <1>11 DEF Leave, journal, group, register, file, Goto
    <3> QED BY ONLY <1>a, <3>2, <3>3, <3>4, <3>5 DEF TypeOK
  <2>2. OneLeader'
    BY <1>11, <1>a, <1>b DEF Leave, journal, group, register, file, Goto, TypeOK, OneLeader, Leading
  <2>3. EndedIsDurable'
    BY <1>11, <1>a, <1>c, <1>e DEF Leave, journal, group, register, file, Goto, TypeOK, EndedIsDurable,
         EndsCoherent
  <2>4. LeaderCoherent'
    BY <1>11, <1>a, <1>b, <1>d, <1>e DEF Leave, journal, group, register, file, Goto, TypeOK, OneLeader, Leading,
         LeaderCoherent, EndsCoherent
  <2>5. EndsCoherent'
    BY <1>11, <1>a, <1>b, <1>d, <1>e, <1>w DEF Leave, journal, group, register, file, Goto, TypeOK, OneLeader, Leading,
         LeaderCoherent, EndsCoherent, WaitsCoherent, FailedOn
  <2>6. WaitsCoherent'
    <3>1. \A f \in failed' : f[2] <= last_lsn'
      BY <1>11, <1>a, <1>d, <1>w DEF Leave, journal, group, register, file, Goto, TypeOK, WaitsCoherent, LeaderCoherent
    <3>2. \A u \in Txn : pc'[u] \in {"idle", "elected"} => begun'[u] = 0
      BY <1>11, <1>a, <1>w DEF Leave, journal, group, register, file, Goto, TypeOK, WaitsCoherent
    <3>3. ASSUME NEW u \in Txn, Uncovered(u)'
          PROVE  BegunOrCovered(u)'
      <4>1. Uncovered(u) /\ ending'[u].lsn = ending[u].lsn
        BY <1>11, <3>3, <1>a DEF Leave, journal, group, register, file, Goto, TypeOK, Uncovered, FailedOn
      <4>2. BegunOrCovered(u)
        BY ONLY <4>1, <1>w DEF WaitsCoherent, BegunOrCovered
      <4>3. \A v \in Txn : pc[v] \in {"syncing", "synced", "refused"} => v = t
        BY <1>11, <1>b DEF Leave, OneLeader, Leading
      <4>4. ASSUME pc[t] = "refused"
            PROVE  ~(range[t][1] <= ending[u].lsn /\ ending[u].lsn <= range[t][2])
        <5>1. range[t] \in failed'
          BY <1>11, <4>4 DEF Leave
        <5> QED BY <3>3, <4>1, <5>1 DEF Uncovered, FailedOn
      <4>5. begun[u] = 0
        BY <1>11, <4>2, <4>3, <4>4, <1>a DEF Leave, TypeOK, BegunOrCovered
      <4> QED BY <1>11, <4>5 DEF Leave, BegunOrCovered
    <3> QED BY ONLY <3>1, <3>2, <3>3 DEF WaitsCoherent, BegunOrCovered
  <2>7. (~OthersFlush => FailedSyncFailsEach)'
    BY <1>11, <1>a, <1>b, <1>d, <1>e, <1>x DEF Leave, journal, group, register, file, Goto, TypeOK, OneLeader, Leading,
         LeaderCoherent, EndsCoherent, FailedSyncFailsEach, FailedOn
  <2>8. (~SyncMayFail => dropped = {} /\ DurableIsOnDisk)'
    BY <1>11, <1>a, <1>d, <1>y DEF Leave, journal, group, register, file, Goto, TypeOK, LeaderCoherent,
         DurableIsOnDisk
  <2> QED BY ONLY <2>1, <2>2, <2>3, <2>4, <2>5, <2>6, <2>7, <2>8 DEF GroupInvariant
<1>12. ASSUME NEW t \in Txn, Notify(t) PROVE GroupInvariant'
  <2>1. TypeOK'
    BY <1>12, <1>a DEF Notify, journal, group, register, file, Goto, TypeOK, Place, Leading
  <2>2. OneLeader'
    BY <1>12, <1>a, <1>b, Zenon DEF Notify, journal, group, register, file, Goto, TypeOK, OneLeader, Leading
  <2>3. EndedIsDurable'
    BY <1>12, <1>a, <1>c, <1>e DEF Notify, journal, group, register, file, Goto, TypeOK, EndedIsDurable,
         EndsCoherent
  <2>4. LeaderCoherent'
    BY <1>12, <1>a, <1>b, <1>d, <1>e DEF Notify, journal, group, register, file, Goto, TypeOK, OneLeader, Leading,
         LeaderCoherent, EndsCoherent
  <2>5. EndsCoherent'
    BY <1>12, <1>a, <1>b, <1>d, <1>e, <1>w DEF Notify, journal, group, register, file, Goto, TypeOK, OneLeader, Leading,
         LeaderCoherent, EndsCoherent, WaitsCoherent, FailedOn
  <2>6. WaitsCoherent'
    BY <1>12, <1>a, <1>b, <1>d, <1>e, <1>w, SMTT(30) DEF Notify, journal, group, register, file, Goto, TypeOK, OneLeader, Leading,
         LeaderCoherent, EndsCoherent, WaitsCoherent, Uncovered, FailedOn
  <2>7. (~OthersFlush => FailedSyncFailsEach)'
    BY <1>12, <1>a, <1>b, <1>d, <1>e, <1>x DEF Notify, journal, group, register, file, Goto, TypeOK, OneLeader, Leading,
         LeaderCoherent, EndsCoherent, FailedSyncFailsEach, FailedOn
  <2>8. (~SyncMayFail => dropped = {} /\ DurableIsOnDisk)'
    BY <1>12, <1>a, <1>d, <1>y DEF Notify, journal, group, register, file, Goto, TypeOK, LeaderCoherent,
         DurableIsOnDisk
  <2> QED BY ONLY <2>1, <2>2, <2>3, <2>4, <2>5, <2>6, <2>7, <2>8 DEF GroupInvariant
<1>13. CASE Flush \/ AppendDurable
  <2>f. /\ OthersFlush
        /\ syncing' = syncing /\ failed' = failed /\ status' = status
        /\ logged' = logged /\ pc' = pc /\ ending' = ending /\ range' = range
        /\ begun' = begun
    BY <1>13 DEF Flush, AppendDurable, FlushAt, group, register
  <2>d. last_lsn \in Nat /\ durable_lsn \in Nat /\ durable_lsn <= last_lsn
    BY ONLY <1>a DEF TypeOK
  <2>l. /\ last_lsn' \in Nat /\ last_lsn <= last_lsn'
        /\ durable_lsn' \in 0..last_lsn' /\ durable_lsn <= durable_lsn'
    BY ONLY <1>13, <2>d DEF Flush, AppendDurable, FlushAt
  <2>s. SyncedAt(last_lsn') \/ (SyncFailsAt(last_lsn') /\ durable_lsn' = durable_lsn)
    BY ONLY <1>13 DEF Flush, AppendDurable, FlushAt
  <2>1. TypeOK'
    <3>1. 0..last_lsn \subseteq 0..last_lsn' /\ 1..last_lsn \subseteq 1..last_lsn'
      BY ONLY <2>l, <2>d
    <3>2. disk' \subseteq 1..last_lsn' /\ dropped' \subseteq 1..last_lsn'
      <4>1. CASE SyncedAt(last_lsn')
        BY <3>1, <4>1, <1>a, Zenon DEF SyncedAt, TypeOK
      <4>2. CASE SyncFailsAt(last_lsn')
        BY <3>1, <4>2, <1>a DEF SyncFailsAt, TypeOK
      <4> QED BY ONLY <2>s, <4>1, <4>2
    <3>3. logged \in [Txn -> SUBSET (1..last_lsn')]
      BY ONLY <3>1, <1>a DEF TypeOK
    <3>4. ending \in [Txn -> [lsn : 0..last_lsn', kind : Outcome, ok : BOOLEAN]]
      BY ONLY <3>1, <1>a DEF TypeOK
    <3> QED BY ONLY <1>a, <2>f, <2>l, <3>2, <3>3, <3>4 DEF TypeOK
  <2>e. \A u \in Txn : ending[u].lsn \in Nat /\ range[u][1] \in Nat /\ range[u][2] \in Nat
    BY ONLY <1>a DEF TypeOK
  <2>n. \A u \in Txn : FailedOn(ending[u].lsn)' = FailedOn(ending[u].lsn)
    BY ONLY <2>f DEF FailedOn
  <2>h. disk \subseteq disk' /\ (~SyncMayFail => dropped' = dropped)
    BY <2>s DEF SyncedAt, SyncFailsAt
  <2>2. OneLeader'
    BY ONLY <2>f, <1>b DEF OneLeader
  <2>3. EndedIsDurable'
    BY ONLY <2>f, <2>d, <2>l, <1>c DEF EndedIsDurable
  <2>4. LeaderCoherent'
    BY ONLY <2>f, <2>d, <2>l, <2>e, <2>h, <1>d, SMTT(30) DEF LeaderCoherent
  <2>5. EndsCoherent'
    BY ONLY <2>f, <2>d, <2>l, <2>e, <2>n, <1>e, SMTT(30) DEF EndsCoherent
  <2>6. WaitsCoherent'
    <3>1. \A g \in failed : g[2] \in Nat
      BY ONLY <1>a DEF TypeOK
    <3>2. \A u \in Txn : Uncovered(u)' => Uncovered(u)
      BY ONLY <2>f, <2>d, <2>l, <2>e, <2>n DEF Uncovered
    <3>3. \A g \in failed' : g[2] <= last_lsn'
      BY ONLY <2>f, <2>d, <2>l, <3>1, <1>w DEF WaitsCoherent
    <3>4. \A u \in Txn : Uncovered(u)' =>
            \/ begun'[u] = 0
            \/ /\ begun'[u] = 1
               /\ \E v \in Txn : /\ pc'[v] \in {"syncing", "synced", "refused"}
                                /\ range'[v][1] <= ending'[u].lsn
                                /\ ending'[u].lsn <= range'[v][2]
      BY ONLY <2>f, <3>2, <1>w DEF WaitsCoherent
    <3>5. \A u \in Txn : pc'[u] \in {"idle", "elected"} => begun'[u] = 0
      BY ONLY <2>f, <1>w DEF WaitsCoherent
    <3> QED BY ONLY <3>3, <3>4, <3>5 DEF WaitsCoherent
  <2>7. (~OthersFlush => FailedSyncFailsEach)'
    BY ONLY <2>f
  <2>8. (~SyncMayFail => dropped = {} /\ DurableIsOnDisk)'
    <3> SUFFICES ASSUME ~SyncMayFail PROVE dropped' = {} /\ DurableIsOnDisk'
      OBVIOUS
    <3>1. dropped = {} /\ SyncedAt(last_lsn')
      BY <2>s, <1>y DEF SyncFailsAt
    <3>2. 1..durable_lsn' \subseteq 1..last_lsn'
      BY ONLY <2>l
    <3> QED BY ONLY <3>1, <3>2 DEF SyncedAt, DurableIsOnDisk
  <2> QED BY ONLY <2>1, <2>2, <2>3, <2>4, <2>5, <2>6, <2>7, <2>8, SMTT(30) DEF GroupInvariant
<1>14. CASE UNCHANGED vars
  <2>1. TypeOK'
    BY ONLY <1>14, <1>a DEF vars, journal, group, register, file, TypeOK
  <2>2. OneLeader'
    BY ONLY <1>14, <1>b DEF vars, journal, group, register, file, OneLeader
  <2>3. EndedIsDurable'
    BY ONLY <1>14, <1>c DEF vars, journal, group, register, file, EndedIsDurable
  <2>4. LeaderCoherent'
    BY ONLY <1>14, <1>d, SMTT(30) DEF vars, journal, group, register, file, LeaderCoherent
  <2>5. EndsCoherent'
    BY ONLY <1>14, <1>e DEF vars, journal, group, register, file, EndsCoherent, FailedOn
  <2>6. WaitsCoherent'
    BY ONLY <1>14, <1>w DEF vars, journal, group, register, file, WaitsCoherent, Uncovered, FailedOn
  <2>7. (~OthersFlush => FailedSyncFailsEach)'
    BY ONLY <1>14, <1>x
       DEF vars, journal, group, register, file, FailedSyncFailsEach, FailedOn
  <2>8. (~SyncMayFail => dropped = {} /\ DurableIsOnDisk)'
    BY ONLY <1>14, <1>y
       DEF vars, journal, group, register, file, DurableIsOnDisk
  <2> QED BY ONLY <2>1, <2>2, <2>3, <2>4, <2>5, <2>6, <2>7, <2>8 DEF GroupInvariant
<1> QED BY <1>1, <1>2, <1>3, <1>4, <1>5, <1>6, <1>7, <1>8, <1>9, <1>10, <1>11, <1>12, <1>13, <1>14 DEF Next, Step

--------------------------------------------------------------------------------
(* The theorems. *)

\* The register, the journal, the group and the threads fit together after every step.
THEOREM GroupCorrect == Spec => []GroupInvariant
<1>1. Init => GroupInvariant
  BY InitEstablishes
<1>2. GroupInvariant /\ [Next]_vars => GroupInvariant'
  BY StepPreserves
<1> QED BY <1>1, <1>2, PTL DEF Spec

\* One leader at a time, and no transaction that wrote is ended by the register before its
\* end record is durable (storage_impl.rs, end_txn_grouped).
THEOREM EndsAreDurable == Spec => [](OneLeader /\ EndedIsDurable)
<1>1. GroupInvariant => OneLeader /\ EndedIsDurable
  BY DEF GroupInvariant
<1> QED BY <1>1, GroupCorrect, PTL

\* When the journal is synced through the group alone, a failed sync fails every caller
\* whose record it was to cover (wal.rs, wait_durable).
THEOREM FailuresReachEveryCaller == Spec => [](~OthersFlush => FailedSyncFailsEach)
<1>1. GroupInvariant => (~OthersFlush => FailedSyncFailsEach)
  BY DEF GroupInvariant
<1> QED BY <1>1, GroupCorrect, PTL

\* While no sync fails, the durable LSN never names a record that is not on disk, in
\* whatever order leaders and flushes note their syncs (wal.rs, note_sync).
THEOREM DurableLsnIsHonest == Spec => [](~SyncMayFail => DurableIsOnDisk)
<1>1. GroupInvariant => (~SyncMayFail => DurableIsOnDisk)
  BY DEF GroupInvariant
<1> QED BY <1>1, GroupCorrect, PTL

\* A waiting thread sees at most one sync begin before its record is settled
\* (wal.rs, sync_appended reads the last record of the journal as its target).
THEOREM OneSyncIsEnough == Spec => []OneSyncEach
<1>1. GroupInvariant => OneSyncEach
  BY DEF GroupInvariant, WaitsCoherent, OneSyncEach
<1> QED BY <1>1, GroupCorrect, PTL

\* The durable LSN never goes backwards (wal.rs, note_sync).
THEOREM DurableLsnGrows == Spec => DurableNeverRetreats
<1>1. GroupInvariant /\ [Next]_vars => durable_lsn' >= durable_lsn \/ UNCHANGED vars
  <2> SUFFICES ASSUME GroupInvariant, Next PROVE durable_lsn' >= durable_lsn
    OBVIOUS
  <2>1. durable_lsn \in Nat /\ last_lsn \in Nat
    BY DEF GroupInvariant, TypeOK
  <2>2. CASE Flush \/ AppendDurable
    BY <2>1, <2>2 DEF Flush, AppendDurable, FlushAt
  <2>3. ASSUME NEW t \in Txn, NoteSync(t) PROVE durable_lsn' >= durable_lsn
    <3>1. range[t][2] \in Nat
      BY DEF GroupInvariant, TypeOK
    <3> QED BY <2>1, <2>3, <3>1 DEF NoteSync
  <2>4. ASSUME ~Flush, ~AppendDurable, \A t \in Txn : ~NoteSync(t)
        PROVE  durable_lsn' = durable_lsn
    BY <2>4 DEF Next, Step, Log, EndWithoutWrite, AppendEnd, Settle, Answered, LeadOrSleep,
                WakeUp, ReadTarget, SyncAll, Leave, Notify, journal
  <2> QED BY <2>1, <2>2, <2>3, <2>4
<1> QED BY <1>1, GroupCorrect, PTL DEF Spec, DurableNeverRetreats
=============================================================================
