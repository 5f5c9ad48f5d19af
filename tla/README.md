# VaubanDB: a TLA+ verification project

VaubanDB is a relational database server in Rust that speaks the TDS protocol.
This directory holds TLA+ models of the parts of it that run concurrently, the
configurations that check them with TLC on small instances, and proofs that TLAPS
checks for every value of the constants. `PROJECT.json` maps each definition to the
source lines it stands for, and lists the runs, the theorems, the findings, the
hazards and the components.

Paths below are relative to `src/crates/`.

## The system

A connection is served by a thread of its own. The session (`vauban-session`) reads
requests, the parser, the binder and the planner turn the text into a plan, and the
executor (`vauban-executor`) runs the plan against the storage
(`vauban-storage`), under a transaction of the transaction manager (`vauban-txn`).
Everything up to the plan is a pure translation. What connections share is below it:

| part | state | operations | who calls it |
|---|---|---|---|
| Lock manager, `vauban-txn/src/lock.rs` | one table behind a mutex: holders and a queue per resource, tickets honoured, one condition variable | `lock`, `unlock`, `release_all` | isolation policy, schema locks, table locks, transaction manager |
| Deadlock detection, `vauban-txn/src/deadlock.rs` | a priority per transaction; the wait-for graph is computed from the lock table | the walk for a cycle, the choice of a victim | each waiting thread, every 50 ms |
| Transaction manager, `vauban-txn/src/manager.rs`, `actions.rs` | next identifier, open transactions with their mark, snapshots and action log, behind a mutex | `begin`, `commit`, `rollback`, `savepoint`, `rollback_to`, `statement_snapshot`, `check_write_conflict` | session, executor |
| Versioning modes and isolation policy, `snapshot_modes.rs`, `isolation.rs`, `schema_lock.rs`, `table_lock.rs` | options, shared locks that end early, escalation | which lock or snapshot serves a read or a write, and until when | executor |
| Storage in memory, `vauban-storage/src/memory` | a chain of versions per row, a registry with undo logs and savepoints, indexes | `insert`, `update`, `delete`, `get`, `commit`, `rollback`, `savepoint`, `vacuum` | transaction manager, executor |
| Storage on disk, `vauban-storage/src/disk` | the same over pages, with a buffer pool, a journal and a control file | the same, and recovery at opening | the same |
| Group commit, `disk/wal.rs` | last and durable record, a `syncing` flag, failed ranges | `append`, `wait_durable`, `flush`, `append_durable` | the end of a transaction on disk, DDL, vacuum |
| Session transaction, `txn_session.rs`, `txn_exec.rs`, `disconnect.rs` | the handle, the depth, the statement savepoint | `BEGIN`, `COMMIT`, `ROLLBACK`, `SAVE`, `XACT_ABORT`, disconnection | the connection |
| Requests and cancellation, `server.rs`, `cancel.rs` | a flag per connection | ATTENTION, shutdown | the connection |
| Catalogue and identity counters, `vauban-catalog` | metadata as versioned rows, a store behind a mutex | DDL, `next identity` | executor |

`PROJECT.json` lists every component, the sequential and the pure ones included, with
the reason when it is not modelled.

### What is hard in it

- A lock is granted by the thread that releases and read later by the thread that
  waited; in between, a deadline, a cancellation or a choice as a deadlock victim can
  end the wait.
- Every member of a deadlock searches for it alone, and the priorities and the locks
  it compares change between two searches.
- A commit is three critical sections: mark, store, close. Other transactions take
  snapshots between any two of them, and the second may be refused.
- A statement reads through one snapshot, waits for a lock, compares the row with the
  snapshot the manager kept, and may read the row again through a third one.
- One `sync_all` serves several commits and may fail; calls outside the group sync the
  same file at the same time.
- After a crash the journal decides which transactions took place (not modelled yet).

### What correct means

Locks exclude; a granted lock stays granted; nobody sleeps on a lock they could have;
a deadlock has one victim and ends. A commit returns only once its record is durable,
and every commit behind a failed sync hears of it. A snapshot shows the same rows for
its whole life; no update is lost; a rollback erases everything its transaction wrote.

## Modules

| module | models | lines it stands for |
|---|---|---|
| `LockModes` | the seven modes, `covers`, `join`, `compatible_with` | `lock.rs` 87-251 |
| `WaitForGraph` | the depth-first walk, the order in which members give way | `deadlock.rs` 120-269 |
| `LockManager` (extends both) | the lock table | `lock.rs` 256-667 |
| `LockPassProofs`, `LockGrantProofs`, `LockQueueProofs`, `LockManagerProofs` | lemmas and theorems about it, each extending the one before | |
| `GroupCommit` | the journal, the group and the register | `disk/wal.rs` 1128-1749, `disk/storage_impl.rs` 659-686 |
| `GroupCommitProofs` | theorems about it | |
| `RowVersions` | version chains, visibility, undo, savepoints, vacuum | `memory/mod.rs`, `table.rs`, `txn_log.rs`, `snapshot.rs` |
| `TransactionManager` (extends it) | the manager, and the statement that uses it | `manager.rs`, `snapshot_modes.rs`, `txn_session.rs`, `dml/update_delete.rs`, `dml/insert.rs` |
| `MC...` | instances for TLC | |

An operator whose comment begins with *variant* is a deliberately wrong form of the
definition that follows it. No specification uses one; `PROJECT.json` pairs each with
the property that breaks when it takes the place of the right form.

### LockManager

The variables are the fields of `LockTable` (`holders`, `queue`, `next_ticket`,
`granted`), the calls asleep in `try_acquire` (`parked`), the cancellation flags and
the priorities. `promised` is a history variable: the locks for which a call of the
transaction returned `Granted` and that it has not given back.

The table has one mutex, so a call is one step up to the point where it sleeps, and
each wake is another. `try_acquire` is five actions by how it returns:
`LockReentrant` (a mode held already covers it), `LockAtOnce` (the grant pass that
follows the insertion honours it), `LockRefused` (NOWAIT, a raised flag, or the victim
of a cycle before it sleeps), `LockParks`, and then `WakeGranted` or `WakeGivesUp`.
The insertion, the grant pass, the removal of a ticket and the second pass are inside
the action that performs them. `Unlock`, `ReleaseAll`, `Cancel`, `ResetCancel` and
`SetPriority` are the other entry points. A session runs one statement at a time, so a
transaction has at most one parked call.

A deadline is a possibility, not a clock: a call with `Millis` may give up at any
wake, which includes every real moment. The walk of `WaitForGraph` keeps the order of
the code's search, since the cycle it finds, and so the victim, depends on it.

### GroupCommit

Each action is one section under the lock of the register, of the journal or of the
group, or a call of `sync_all` under none. A leader goes through `LeadOrSleep`,
`ReadTarget`, `SyncAll`, `NoteSync`, `Leave`, `Notify`. `WakeUp` is a spurious wake of
the condition variable. `Flush` and `AppendDurable` are the callers that sync under
the lock of the journal, outside the group.

The file is external. A sync that succeeds puts on disk what was written before it,
except what an earlier failed sync gave up; a sync that fails may give up any record
that is not on disk (`FailedSyncDrops`). This is what `wal.rs:1674` assumes of it.

### RowVersions and TransactionManager

`RowVersions` has one operator per call of the storage, and the caller composes them:
the whole storage is behind one `RwLock`, so a call is one step. The content of a row
maps each column to the set of transactions whose change it holds. `SET c = c + 1` adds
its transaction to what it read, so an update lost is a set that shrank along the chain.
`undo_after` is a recursive function over the undo log.

`TransactionManager` has the manager's state (`next_id`, `open`), the holder of each
row's X lock (`locks`) and, per transaction, where its thread stands (`stmt`). The
commit is `CommitMarks`, `CommitStores`, then `CommitCloses` or `CommitReopens`. A
statement is `StartStatement` (snapshot), `BeginStatement` (the savepoint of the
statement; then the executor reads the catalogue through a snapshot of its own, which
the manager keeps in place of the first), `ReadTarget`, `LockTarget`, `WriteTarget`, or
`InsertRow` and `LockInserted`. `WriteTarget` holds the conflict check, the row read
again through `showing`, and the write. A request for a lock may be refused at any time,
the one after an INSERT has stored its row included: it asks for an intent lock on the
table first, which others may hold. That is `LockRefused`; it, a conflict, and a write
the storage refuses lead to `EndFailed`, which goes back to the savepoint of the
statement and keeps its locks, or to `Rollback`, as under `XACT_ABORT` and in a
transaction of the statement's own. `Save` and `RollbackToSaved` are the statements with
a name. The marks are numbered per transaction: the code counts over all, but compares
the marks of one transaction only.

`StartStatement` begins where the statement has its transaction and its Sch-S locks. The
hold on the schema before it, which may be refused or send the statement back to the
binder, changes nothing this module has.

The row lock here is what `LockManager` promises of an X held to the end: one holder.
That link is by argument, not by a refinement checked by a tool. A shared lock that
ends with the read begins and ends inside `ReadTarget`. At most one row is written per
statement. The two database options are constants, since
`set_versioning_options` has no caller outside the tests.

## Runs

Every run ends within five minutes on two workers. `violation` runs are the findings.

| run | instance | properties | shows |
|---|---|---|---|
| `lock_rows` | 3 transactions, 2 rows, S and X, 6 tickets | `TableInvariant` `HoldersCompatible` `FrontIsRefused` `QueueIsFair` `TicketsAccounted` `DeadlockHasVictim` `OneVictimPerDeadlock` `NoOvertaking` | the table is coherent, the queue is fair, a deadlock has one victim |
| `lock_modes` | 3 transactions, 1 table, S, IX and Sch-M, NOWAIT and deadlines, a flag, a lowered priority, 4 tickets | `TypeOK` `OneModePerFamily` `PromisesKept` `NoLockLeaked` `VictimIsCheapest` | a conversion through the join never weakens a lock; a call that fails leaves nothing behind; the victim is the cheapest member |
| `lock_live` | 3 transactions, 2 rows, X, deadlines and a flag, 4 tickets | `DeadlocksBroken` `WaitsEnd` | deadlocks end, waits that can end do |
| `group_commit` | 3 threads that commit, 6 records, syncs may fail | `OneLeader` `EndedIsDurable` `FailedSyncFailsEach` `OneSyncEach` `WaitersReturn` | no end before its record is durable, no Ok out of a failed sync, no wake-up lost |
| `group_flush` | 2 threads, 5 records, other callers flush | `TypeOK` `DurableIsOnDisk` `DurableNeverRetreats` | the durable number is honest and grows |
| `group_race` | violation | `FailedSyncFailsEach` | finding 1 |
| `group_dropped` | violation | `CommittedIsOnDisk` | finding 2 |
| `txn_snapshot` | 3 SNAPSHOT transactions, 1 row, vacuum, refused commits | `TypeOK` `NoLostUpdate` `WritesAreCurrent` `OneVisibleVersion` `SnapshotsAreStable` `CommitsEnd` | first updater wins, snapshots hold still, vacuum within its precondition moves none, a commit ends |
| `txn_locking` | 3 READ COMMITTED transactions, 1 row of 2 columns | `NoDirtyRead` `ProceedOverWhatWasRead` `AssignedOverLatest` | nothing uncommitted is read, the assigned column loses nothing |
| `txn_savepoints` | 2 READ COMMITTED transactions of 2 statements and of 1, 2 rows, 2 named savepoints, refused locks and commits | `WriterHoldsRow` `RollbackErases` `MarksAgree` | a statement that fails leaves no row behind unlocked, rollbacks erase, a refused commit is whole again |
| `txn_deleted` | violation | `WritesAreCurrent` | finding 3 |
| `txn_reread` | violation | `RereadIsLatest` | finding 4 |

### Bounds

- Three transactions are enough for a cycle of two with a third that waits behind it,
  for two cycles that share a member, and for a newcomer that could overtake. Two rows
  are the least that make a cycle without a conversion; one table makes the cycles of
  conversions.
- `MaxTicket` bounds the requests that enter a queue, not the releases: six lets each of
  three transactions ask twice. The modes are those
  that interact: S and X on rows; on a table S and IX, which do not compare, and Sch-M of
  the other family. The proofs cover all seven.
- Three threads in the group are a leader, a sleeper, and one that appends while the
  leader syncs. `MaxLsn` 6 leaves room
  for the ends of all three, and for a refused one tried again when another thread ends
  without a write. `group_flush` has the ends by rollback.
- Three transactions on one row are a reader with a snapshot and two writers after it,
  which is what finding 4 takes. Savepoints need two rows and two statements, so that an
  insert, an update of the inserted row and a partial rollback follow each other; the
  second transaction runs one statement against them. A savepoint with a name is one of
  the first `MaxSavepoints` marks of its transaction.
- Resources and threads are symmetric where a run has no liveness property; transactions
  of the lock manager are not, since the order of their identifiers picks the victim.
- Deadlock is checked in the lock runs. In the others a transaction that ended has
  nothing left to do once the identifiers, records or statements are used up, so
  `CHECK_DEADLOCK` is off.

### Fairness

- `LockManager`: weak fairness of `Wake(t)`. A parked thread wakes at least every
  `POLL_SLICE`, 50 ms, and looks at its ticket, its flag, its deadline and the graph.
  Nothing is assumed of sessions: a lock may be held for ever.
- `GroupCommit`: weak fairness of `Step(t)`, the moves of a thread inside
  `end_txn_grouped`. A runnable thread runs and `sync_all` returns. A sleeper moves
  only after `Notify`: the spurious `WakeUp` is not fair.
- `TransactionManager`: weak fairness of the commit's second and third step only.

## Proofs

`tlapm` on each of the four `Lock...Proofs` modules and on `GroupCommitProofs` checks every leaf. The
assumptions are those of the modules: the constants have their types. The sets of
transactions, resources and modes asked for, the time limits and the bounds are
arbitrary.

### LockPassProofs to LockManagerProofs

`TableCorrect` proves `Spec => []TableInvariant`, and the other theorems are read off
the invariant: `TypeCorrect`, `LocksExclude`, `GrantsAreKept`, `GiveUpsLeaveNothing`,
`NoGrantForgotten`, `NoTicketLost`.

None of the properties is inductive alone. `HoldersCompatible` survives a grant pass
only if a conversion replaces the mode it started from, so the candidate of a queue
must cover what its transaction holds (`GrantsCoherent`). That survives a release only
if a queued candidate belongs to one parked call (`TicketsCoherent`), and a give-up is
harmless only if a ticket is in one place. `PromisesKept` needs that an honoured ticket
is a lock that covers what its call asked for.

An operation goes through stages: join the queue, grant pass, leave the queue, grant
pass. `TableCoherent` is therefore stated of the parts of a table, not of the
variables, and one lemma follows it through each stage (`JoinKeepsCoherence`,
`PassKeepsCoherence`, `DropKeepsCoherence`, `RemoveKeepsCoherence`,
`TakeKeepsCoherence`, `ReentrantKeepsCoherence`). A grant pass honours a prefix of the
queue; `GrantCountProperties` characterises its length through the least natural number
with a property, and `GrantPassCompatible` and `GrantPassOneMode` say what the prefix
leaves held. `FrontIsRefused` follows because each operation ends with a pass.

The pass over one resource and the stages that take or give back a lock are in
`LockPassProofs`, a pass over the table in `LockGrantProofs`, leaving and joining a queue
in `LockQueueProofs`, the operations and the theorems in `LockManagerProofs`.

### GroupCommitProofs

`GroupCorrect` proves `Spec => []GroupInvariant`. From it follow `EndsAreDurable`,
`FailuresReachEveryCaller` (for journals only the group syncs: finding 1 is its
counterexample otherwise), `DurableLsnIsHonest` (while no sync fails), `OneSyncIsEnough`
and `DurableLsnGrows`. The strengthening says where the range of a leader stands
relative to the durable number (`LeaderCoherent`), what the thread of each transaction
waits for (`EndsCoherent`), and that a waiter whose record a running sync covers has
that sync (`WaitsCoherent`). `CommittedIsOnDisk` is not a theorem: finding 2 refutes it.

### Only model-checked

- Liveness: `DeadlocksBroken`, `WaitsEnd`, `WaitersReturn`, `CommitsEnd`. The proof
  system does not handle fairness here.
- The search for a cycle (`DeadlockHasVictim`, `OneVictimPerDeadlock`,
  `VictimIsCheapest`): a recursive function over paths, and induction over data is out
  of its reach. `QueueIsFair` and `NoOvertaking` are not proved yet.
- Everything in `RowVersions` and `TransactionManager`, so far.

## Findings

1. `group_race`, `wal.rs:1685`. `wal.rs:133` says a failed sync fails each caller it was
   to cover. A `flush` that succeeds after the group's sync failed and before its leader
   records the range moves the durable number past it, and a waiter returns Ok.
2. `group_dropped`, `wal.rs:1740`. The failed range ends at the target read before
   `sync_all`. A record appended in between can be given up by that sync, is outside the
   range, and commits with a later one. Whether pages are given up is a matter of the
   operating system; the comment at `wal.rs:1674` takes it to be possible.
3. `txn_deleted`, `update_delete.rs:299`. Reading the catalogue replaces the snapshot
   kept for the conflict check by a newer one than the statement reads through. A row
   deleted between the two is found by the scan, passes the check, and is refused by the
   storage as a broken caller, where `update_delete.rs:38` says it is left as it is. (With
   READ_COMMITTED_SNAPSHOT on, which only `set_versioning_options` does, the same window
   breaks `ProceedOverWhatWasRead`: a row changed in it is written over unread.)
4. `txn_reread`, `update_delete.rs:550`. When two transactions changed the row since the
   snapshot, showing the last one alone leaves the version before both visible, and the
   row read again misses the first change.

The runs of the same module that pass state what does hold: `txn_locking` checks
`ProceedOverWhatWasRead` under locks, and `AssignedOverLatest`, that the assigned column
is right even when the others are not.

## Not modelled, and the plan

The modules are built in order of what a mistake would cost.

1. Locks, deadlocks and group commit: modelled, checked, proved.
2. Transaction manager and row versions in memory: modelled and checked. Left: proofs of
   `TypeOK`, `WriterHoldsRow` and `MarksAgree`; the action log of DDL with its deferred
   drops and compensations; unique indexes; identity counters; statements of several rows.
3. Recovery and row versions on disk (`recover.rs`, `version.rs`, `storage_impl.rs`): a
   crash at any step, winners and losers, redo, the undo of losers and a crash during it.
   An abstract specification, committed transactions survive and others leave nothing,
   that the detailed one implements by a refinement mapping.
4. Isolation policy, schema locks, table locks: REPEATABLE READ and SERIALIZABLE shared
   locks, Sch-S and Sch-M, escalation. A module that composes them with `LockManager`, so
   that the row lock of `TransactionManager` is shown and not argued.
5. Buffer pool: pins, eviction, the no-steal rule.
6. Session transaction, disconnection and cancellation.

Also planned: a run of its own that compares the cycle search of `WaitForGraph` with the
definition of a cycle over every small graph.

Left out for good: parsing, binding, planning, expressions, types, conversions, built-in
functions and the encodings of TDS and of pages. They are pure functions over large
domains or layouts of bytes, sequential, and better served by tests. Left out of the
modelled parts: error texts, the wrap-around of 64-bit counters, and several threads in
one transaction, which the session does not allow.
