---------------------------- MODULE GroupCommit ----------------------------
(***************************************************************************)
(* How the end of a transaction becomes durable: the register of the       *)
(* transactions (disk/storage_impl.rs, end_txn_grouped), the journal       *)
(* (disk/wal.rs, Wal) and the group commit in front of it (WalHandle).     *)
(*                                                                         *)
(* Three locks guard the state: the register, the journal and the group.   *)
(* Every action below is one section under one of them; the loop of        *)
(* wait_durable reads the journal under the lock of the group, and so do   *)
(* Answered and LeadOrSleep.  The leader of a sync holds no lock while     *)
(* sync_all runs and drops the group before it wakes the others, so its    *)
(* walk is LeadOrSleep, ReadTarget, SyncAll, NoteSync, Leave, Notify.      *)
(*                                                                         *)
(* A record is its number; what it says is left out.  The file system is   *)
(* external.  A sync that succeeds puts on disk every record written       *)
(* before it, except those an earlier sync dropped; a sync that fails may  *)
(* drop any record that is not on disk yet: "a sync that succeeds after a  *)
(* failed one does not say the pages of the first are on disk"             *)
(* (wal.rs:1674-1676).                                                     *)
(***************************************************************************)
EXTENDS Naturals, FiniteSets

CONSTANTS Txn,             \* the transactions, each ended by a thread of its own
          Outcome,         \* the ends that happen, of "committed" and "aborted"
          MaxLsn,          \* bound: nothing is appended past this number
          MaxLogged,       \* bound: records a transaction logs before its end
          SyncMayFail,     \* whether sync_all may report an error
          FailedSyncDrops, \* whether a failed sync may give records up for good
          OthersFlush      \* whether calls outside the group sync the journal too

ASSUME ConstantsAssumption ==
  /\ MaxLsn \in Nat /\ MaxLogged \in Nat
  /\ Outcome \subseteq {"committed", "aborted"} /\ Outcome # {}
  /\ SyncMayFail \in BOOLEAN /\ FailedSyncDrops \in BOOLEAN /\ OthersFlush \in BOOLEAN

VARIABLES last_lsn,     \* Wal.last_lsn: number of the last record
          durable_lsn,  \* Wal.durable_lsn: last record a sync_all covered
          syncing,      \* GroupState.syncing
          failed,       \* GroupState.failed: ranges <<first, last>>
          status,       \* TxnRecord.status
          logged,       \* records of each transaction before its end (began: some)
          pc,           \* where the thread of each transaction stands
          ending,       \* the end it waits for: number, kind and answer so far
          range,        \* first and last record of the sync a leader runs
          disk,         \* external: the records certainly on disk
          dropped,      \* external: the records a failed sync gave up on
          begun         \* history: group syncs begun since the end was appended

vars == << last_lsn, durable_lsn, syncing, failed, status, logged, pc, ending, range,
           disk, dropped, begun >>
journal == << last_lsn, durable_lsn >>
group == << syncing, failed >>
register == << status, logged >>
file == << disk, dropped >>

NoEnd == [lsn |-> 0, kind |-> CHOOSE kind \in Outcome : TRUE, ok |-> FALSE]
Leading == {"elected", "syncing", "synced", "refused", "noted"}
Place == {"idle", "check", "asleep", "notify", "settle"} \cup Leading

Init ==
  /\ last_lsn = 0 /\ durable_lsn = 0
  /\ syncing = FALSE /\ failed = {}
  /\ status = [t \in Txn |-> "in_progress"]
  /\ logged = [t \in Txn |-> {}]
  /\ pc = [t \in Txn |-> "idle"]
  /\ ending = [t \in Txn |-> NoEnd]
  /\ range = [t \in Txn |-> <<0, 0>>]
  /\ disk = {} /\ dropped = {}
  /\ begun = [t \in Txn |-> 0]

Goto(t, place) == pc' = [pc EXCEPT ![t] = place]

\* What a sync that succeeds leaves on disk when the file holds `written` records.
SyncedAt(written) == disk' = disk \cup (1..written \ dropped) /\ UNCHANGED dropped

\* A sync that fails may drop some of the `written` records that are not on disk.
SyncFailsAt(written) ==
  /\ SyncMayFail
  /\ \E S \in SUBSET (1..written \ disk) :
       (FailedSyncDrops \/ S = {}) /\ dropped' = dropped \cup S
  /\ UNCHANGED disk

--------------------------------------------------------------------------------
(* The register and the appends. *)

\* A transaction in progress appends its Begin, then the records of its rows.
Log(t) ==
  /\ pc[t] = "idle" /\ status[t] = "in_progress"
  /\ last_lsn < MaxLsn /\ Cardinality(logged[t]) < MaxLogged
  /\ last_lsn' = last_lsn + 1
  /\ logged' = [logged EXCEPT ![t] = @ \cup {last_lsn'}]
  /\ UNCHANGED << durable_lsn, group, status, pc, ending, range, file, begun >>

\* end_txn_grouped of a transaction that wrote nothing: no record and no wait.
EndWithoutWrite(t, kind) ==
  /\ pc[t] = "idle" /\ status[t] = "in_progress" /\ logged[t] = {}
  /\ status' = [status EXCEPT ![t] = kind]
  /\ UNCHANGED << journal, group, logged, pc, ending, range, file, begun >>

\* end_txn_grouped appends the end record under the register, then waits.
AppendEnd(t, kind) ==
  /\ pc[t] = "idle" /\ status[t] = "in_progress" /\ logged[t] # {}
  /\ last_lsn < MaxLsn
  /\ last_lsn' = last_lsn + 1
  /\ ending' = [ending EXCEPT ![t] = [lsn |-> last_lsn', kind |-> kind, ok |-> FALSE]]
  /\ Goto(t, "check")
  /\ UNCHANGED << durable_lsn, group, register, range, file, begun >>

\* Variant: the register takes the status whatever the wait answered.
SettleUnasked(t) ==
  /\ pc[t] = "settle"
  /\ status' = [status EXCEPT ![t] = ending[t].kind]
  /\ begun' = [begun EXCEPT ![t] = 0]
  /\ Goto(t, "idle")
  /\ UNCHANGED << journal, group, logged, ending, range, file >>

\* The register takes the status after an Ok; after an error the transaction stays in
\* progress, and its rollback (or a second commit) may follow.
Settle(t) ==
  /\ pc[t] = "settle"
  /\ status' = [status EXCEPT ![t] = IF ending[t].ok THEN ending[t].kind ELSE @]
  /\ begun' = [begun EXCEPT ![t] = 0]
  /\ Goto(t, "idle")
  /\ UNCHANGED << journal, group, logged, ending, range, file >>

--------------------------------------------------------------------------------
(* wait_durable. *)

FailedOn(lsn) == \E f \in failed : f[1] <= lsn /\ lsn <= f[2]

\* A waiting thread whose record no sync has settled yet.
Uncovered(t) ==
  /\ pc[t] \in {"check", "asleep"}
  /\ ~FailedOn(ending[t].lsn) /\ durable_lsn < ending[t].lsn

\* Variant: the durable LSN is looked at before the failed syncs.
AnsweredByDurableLsn(t) ==
  /\ pc[t] = "check"
  /\ FailedOn(ending[t].lsn) \/ durable_lsn >= ending[t].lsn
  /\ ending' = [ending EXCEPT ![t].ok = durable_lsn >= ending[t].lsn]
  /\ Goto(t, "settle")
  /\ UNCHANGED << journal, group, register, range, file, begun >>

\* A turn of the loop that returns: an error for a record a failed sync was to cover,
\* Ok for a durable one.
Answered(t) ==
  /\ pc[t] = "check"
  /\ FailedOn(ending[t].lsn) \/ durable_lsn >= ending[t].lsn
  /\ ending' = [ending EXCEPT ![t].ok = ~FailedOn(ending[t].lsn)]
  /\ Goto(t, "settle")
  /\ UNCHANGED << journal, group, register, range, file, begun >>

\* Variant: a thread leads a sync of its own whether one runs or not.
LeadAlways(t) ==
  /\ pc[t] = "check"
  /\ ~FailedOn(ending[t].lsn) /\ durable_lsn < ending[t].lsn
  /\ syncing' = TRUE
  /\ Goto(t, "elected")
  /\ UNCHANGED << journal, failed, register, ending, range, file, begun >>

\* A turn of the loop that goes on: sleep while a leader syncs, lead when none does.
LeadOrSleep(t) ==
  /\ pc[t] = "check"
  /\ ~FailedOn(ending[t].lsn) /\ durable_lsn < ending[t].lsn
  /\ syncing' = TRUE
  /\ Goto(t, IF syncing THEN "asleep" ELSE "elected")
  /\ UNCHANGED << journal, failed, register, ending, range, file, begun >>

\* A condition variable may wake a thread that nobody notified.
WakeUp(t) ==
  /\ pc[t] = "asleep"
  /\ Goto(t, "check")
  /\ UNCHANGED << journal, group, register, ending, range, file, begun >>

\* Variant: the leader syncs for its own record only.
ReadTargetOwn(t) ==
  /\ pc[t] = "elected"
  /\ range' = [range EXCEPT ![t] = << durable_lsn + 1, ending[t].lsn >>]
  /\ begun' = [u \in Txn |-> IF Uncovered(u) THEN begun[u] + 1 ELSE begun[u]]
  /\ Goto(t, "syncing")
  /\ UNCHANGED << journal, group, register, ending, file >>

\* sync_appended reads the durable LSN and the last record under the journal.
ReadTarget(t) ==
  /\ pc[t] = "elected"
  /\ range' = [range EXCEPT ![t] = << durable_lsn + 1, last_lsn >>]
  /\ begun' = [u \in Txn |-> IF Uncovered(u) THEN begun[u] + 1 ELSE begun[u]]
  /\ Goto(t, "syncing")
  /\ UNCHANGED << journal, group, register, ending, file >>

\* sync_all through the second handle, without a lock: it vouches for the records written
\* when the leader read its target.  A failure may touch those appended since as well.
SyncAll(t) ==
  /\ pc[t] = "syncing"
  /\ \/ SyncedAt(range[t][2]) /\ Goto(t, "synced")
     \/ SyncFailsAt(last_lsn) /\ Goto(t, "refused")
  /\ UNCHANGED << journal, group, register, ending, range, begun >>

\* Variant: the durable LSN is set to the target, a later one or not.
NoteSyncBack(t) ==
  /\ pc[t] = "synced"
  /\ durable_lsn' = range[t][2]
  /\ Goto(t, "noted")
  /\ UNCHANGED << last_lsn, group, register, ending, range, file, begun >>

\* Variant: the last record is noted as durable instead of the target of the sync.
NoteSyncLast(t) ==
  /\ pc[t] = "synced"
  /\ durable_lsn' = last_lsn
  /\ Goto(t, "noted")
  /\ UNCHANGED << last_lsn, group, register, ending, range, file, begun >>

\* note_sync: the durable LSN does not go backwards.
NoteSync(t) ==
  /\ pc[t] = "synced"
  /\ durable_lsn' = IF range[t][2] > durable_lsn THEN range[t][2] ELSE durable_lsn
  /\ Goto(t, "noted")
  /\ UNCHANGED << last_lsn, group, register, ending, range, file, begun >>

\* The leader leaves under the lock of the group, recording the range it failed on.
Leave(t) ==
  /\ pc[t] \in {"noted", "refused"}
  /\ syncing' = FALSE
  /\ failed' = IF pc[t] = "refused" THEN failed \cup {range[t]} ELSE failed
  /\ ending' = [ending EXCEPT ![t].ok = pc[t] = "noted"]
  /\ range' = [range EXCEPT ![t] = <<0, 0>>]
  /\ Goto(t, "notify")
  /\ UNCHANGED << journal, register, file, begun >>

\* Variant: one sleeper is woken instead of all.
NotifyOne(t) ==
  /\ pc[t] = "notify"
  /\ LET asleep == { u \in Txn : pc[u] = "asleep" }
         woken == IF asleep = {} THEN {} ELSE { CHOOSE u \in asleep : TRUE }
     IN  pc' = [u \in Txn |-> IF u \in woken THEN "check" ELSE
                              IF u = t THEN "settle" ELSE pc[u]]
  /\ UNCHANGED << journal, group, register, ending, range, file, begun >>

\* notify_all, after the lock of the group is dropped.
Notify(t) ==
  /\ pc[t] = "notify"
  /\ pc' = [u \in Txn |-> IF u = t THEN "settle" ELSE
                          IF pc[u] = "asleep" THEN "check" ELSE pc[u]]
  /\ UNCHANGED << journal, group, register, ending, range, file, begun >>

--------------------------------------------------------------------------------
(* The calls that sync the journal under its lock, outside the group: flush        *)
(* (a rollback that freed room, a vacuum), append_durable (a change of structure)  *)
(* and append_checkpoint.                                                          *)

\* Variant: the record after the last one is noted as durable.
FlushAtNext(n) ==
  /\ last_lsn' = n
  /\ \/ SyncedAt(n) /\ durable_lsn' = n + 1
     \/ SyncFailsAt(n) /\ UNCHANGED durable_lsn
  /\ UNCHANGED << group, register, pc, ending, range, begun >>

\* The journal holds n records when sync_all is called; the durable LSN follows.
FlushAt(n) ==
  /\ last_lsn' = n
  /\ \/ SyncedAt(n) /\ durable_lsn' = IF n > durable_lsn THEN n ELSE durable_lsn
     \/ SyncFailsAt(n) /\ UNCHANGED durable_lsn
  /\ UNCHANGED << group, register, pc, ending, range, begun >>

Flush == OthersFlush /\ FlushAt(last_lsn)

AppendDurable == OthersFlush /\ last_lsn < MaxLsn /\ FlushAt(last_lsn + 1)

--------------------------------------------------------------------------------
\* What the thread of t does on its own once it ends the transaction.
Step(t) ==
  \/ Answered(t) \/ LeadOrSleep(t) \/ ReadTarget(t) \/ SyncAll(t) \/ NoteSync(t)
  \/ Leave(t) \/ Notify(t) \/ Settle(t)

Next ==
  \/ \E t \in Txn : \/ Log(t) \/ WakeUp(t) \/ Step(t)
                    \/ \E kind \in Outcome : EndWithoutWrite(t, kind) \/ AppendEnd(t, kind)
  \/ Flush \/ AppendDurable

Spec == Init /\ [][Next]_vars

\* Every thread goes on while it can: the scheduler runs it and sync_all returns.
\* A sleeping thread can go on only once Notify woke it.
FairSpec == Spec /\ \A t \in Txn : WF_vars(Step(t))

--------------------------------------------------------------------------------
(* Properties. *)

\* The variables keep their types, and the durable LSN names a record of the journal
\* (Wal.durable_lsn, wal.rs:1139).
TypeOK ==
  /\ last_lsn \in Nat /\ durable_lsn \in 0..last_lsn
  /\ syncing \in BOOLEAN /\ failed \subseteq Nat \X Nat
  /\ status \in [Txn -> Outcome \cup {"in_progress"}]
  /\ logged \in [Txn -> SUBSET (1..last_lsn)]
  /\ pc \in [Txn -> Place]
  /\ ending \in [Txn -> [lsn : 0..last_lsn, kind : Outcome, ok : BOOLEAN]]
  /\ range \in [Txn -> Nat \X Nat]
  /\ disk \subseteq 1..last_lsn /\ dropped \subseteq 1..last_lsn
  /\ begun \in [Txn -> Nat]

\* One thread at a time walks through sync_appended, and `syncing` says whether one does:
\* a leader that left the flag set would put every later commit to sleep (wal.rs:1696-1701).
OneLeader ==
  /\ syncing <=> \E t \in Txn : pc[t] \in Leading
  /\ \A t, u \in Txn : pc[t] \in Leading /\ pc[u] \in Leading => t = u

\* The register ends a transaction that wrote only once its end record is durable:
\* no commit returns before its record is synced (storage_impl.rs:30).
EndedIsDurable ==
  \A t \in Txn : status[t] # "in_progress" /\ logged[t] # {} =>
    ending[t].lsn \in 1..durable_lsn

\* No thread is told Ok for a record that a failed group sync was to cover (wal.rs:133-134):
\* neither the leader, nor a waiter that finds the durable LSN past its record later on.
FailedSyncFailsEach == \A t \in Txn : ending[t].ok => ~FailedOn(ending[t].lsn)

\* The durable LSN is one a sync vouches for: while no sync fails, the records up to it are
\* on disk, whichever of a leader and a flush moved it last (wal.rs:1406-1424).
DurableIsOnDisk == 1..durable_lsn \subseteq disk

\* A transaction the register calls committed has its records on disk, its end included
\* (storage_impl.rs:30).
CommittedIsOnDisk ==
  \A t \in Txn : status[t] = "committed" /\ logged[t] # {} =>
    logged[t] \cup {ending[t].lsn} \subseteq disk

\* The sync that begins after a record was appended is the last one its thread waits for
\* (wal.rs:128-133): the target is the last record of the journal, not the leader's own.
OneSyncEach == \A t \in Txn : Uncovered(t) => begun[t] <= 1

\* The durable LSN does not go backwards, whatever order a leader and a flush note their
\* syncs in (wal.rs:1412-1419).
DurableNeverRetreats == [][durable_lsn' >= durable_lsn]_vars

\* A thread that ends its transaction gets an answer: no wake-up is lost between a leader
\* that leaves and the threads that went to sleep behind it (wal.rs:1679-1711).
WaitersReturn == \A t \in Txn : pc[t] # "idle" ~> pc[t] = "idle"

--------------------------------------------------------------------------------
(* The inductive invariant. *)

\* Where the range a leader read stands: it begins after the durable LSN of that moment,
\* which is still the durable LSN when nobody else flushes, and ends at or after the
\* record of the leader.
LeaderCoherent ==
  \A t \in Txn :
    /\ pc[t] \in {"syncing", "synced", "refused", "noted"} =>
         ending[t].lsn <= range[t][2] /\ range[t][2] <= last_lsn
    /\ pc[t] \in {"syncing", "synced", "refused"} /\ ~OthersFlush =>
         range[t][1] = durable_lsn + 1
    /\ pc[t] \in {"syncing", "synced", "refused"} => range[t][1] <= durable_lsn + 1
    /\ pc[t] = "noted" => range[t][2] <= durable_lsn
    /\ pc[t] = "synced" /\ ~SyncMayFail => 1..range[t][2] \subseteq disk

\* What a thread waits for: a record of the journal that no failed sync covers as long
\* as it leads, and an answer that is Ok only for a durable record.
EndsCoherent ==
  \A t \in Txn :
    /\ pc[t] # "idle" => ending[t].lsn >= 1 /\ logged[t] # {}
    /\ pc[t] # "idle" => status[t] = "in_progress"
    /\ pc[t] \in Leading \cup {"check", "asleep"} => ~ending[t].ok
    /\ pc[t] \in Leading => ~FailedOn(ending[t].lsn)
    /\ ending[t].ok => ending[t].lsn <= durable_lsn

\* The failed ranges lie inside the journal, and a sync that began after the record of a
\* waiting thread was appended runs or has settled the record.
WaitsCoherent ==
  /\ \A f \in failed : f[2] <= last_lsn
  /\ \A t \in Txn : Uncovered(t) =>
       \/ begun[t] = 0
       \/ /\ begun[t] = 1
          /\ \E u \in Txn : /\ pc[u] \in {"syncing", "synced", "refused"}
                           /\ range[u][1] <= ending[t].lsn /\ ending[t].lsn <= range[u][2]
  /\ \A t \in Txn : pc[t] \in {"idle", "elected"} => begun[t] = 0

\* The inductive invariant of the group commit.
GroupInvariant ==
  /\ TypeOK /\ OneLeader /\ EndedIsDurable
  /\ LeaderCoherent /\ EndsCoherent /\ WaitsCoherent
  /\ ~OthersFlush => FailedSyncFailsEach
  /\ ~SyncMayFail => dropped = {} /\ DurableIsOnDisk
=============================================================================
