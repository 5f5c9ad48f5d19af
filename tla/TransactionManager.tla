------------------------- MODULE TransactionManager -------------------------
(* TransactionManager (vauban-txn/src/manager.rs) over RowVersions: the      *)
(* identifiers, the list of open transactions, the snapshots handed out, the *)
(* three steps of a commit, rollback and savepoints; and the statement that  *)
(* uses them, an UPDATE, a DELETE or an INSERT of one row as the session     *)
(* (txn_session.rs) and the executor (dml/update_delete.rs) run it, with the *)
(* savepoint that takes back a statement that failed (txn_exec.rs).          *)
(*                                                                           *)
(* A transaction runs one statement at a time, on one thread.  Every step    *)
(* below is one critical section: under the mutex of the manager, under the  *)
(* lock of the storage, or inside one call of the lock manager.  The row     *)
(* lock is what LockManager promises of an X kept to the end of the          *)
(* transaction, one holder per row; a shared lock that ends with the row     *)
(* read begins and ends inside the step that reads.  A request for either    *)
(* may fail although the row is free: it asks for an intent lock on the      *)
(* table first, and that table is not part of this module.                   *)
EXTENDS RowVersions

CONSTANTS
    Levels,                   \* the isolation levels transactions begin at
    ReadCommittedSnapshot,    \* the two options of the database (VersioningOptions)
    AllowSnapshotIsolation,
    Kinds,                    \* the kinds of statement that run
    MaxStatements,            \* statements each transaction runs
    MaxSavepoints,            \* SAVE TRANSACTION is one of the first savepoints of a transaction
    MayRefuse,                \* whether the storage may refuse a commit
    MayVacuum,                \* whether vacuum runs
    NoSnap                    \* the `None` of an Option<Snapshot>

ASSUME ManagerAssumption ==
    /\ Levels \subseteq {"ReadCommitted", "Snapshot"}
    /\ Kinds \subseteq {"Update", "Delete", "Insert"}
    /\ {ReadCommittedSnapshot, AllowSnapshotIsolation, MayRefuse, MayVacuum} \subseteq BOOLEAN
    /\ MaxStatements \in [Txns -> Nat] /\ MaxSavepoints \in Nat

VARIABLES
    next_id,    \* State::next_id
    open,       \* State::open, and the transactions not begun or closed
    locks,      \* the transaction that holds the X of each row
    stmt        \* what the thread of each transaction is doing

vars == <<storage, next_id, open, locks, stmt>>

Idle(n) == [pc |-> "idle", count |-> n, kind |-> "Update", row |-> 1,
            col |-> CHOOSE c \in Columns : TRUE, snap |-> NoSnap, seen |-> NoRow, log |-> <<>>]

at(t, pc) == stmt[t].pc = pc
target(t) == stmt[t].row

\* The thread goes back to waiting for a request; its statement is over.
ends(t) == stmt' = [stmt EXCEPT ![t] = Idle(@.count)]
goes(t, pc) == stmt' = [stmt EXCEPT ![t].pc = pc]

-----------------------------------------------------------------------------
(* State of the manager.                                                     *)

is_open(t) == t \in Txns /\ open[t].state = "open"
live(t) == is_open(t) /\ ~ open[t].ending

OpenTxns == {t \in Txns : is_open(t)}

oldest_open ==
    IF OpenTxns = {} THEN next_id ELSE CHOOSE t \in OpenTxns : \A u \in OpenTxns : t <= u

\* Variants: the transaction at hand counted in xmax; an ending one left out of active.
snapshot_past_next(t) ==
    [xmin |-> oldest_open, xmax |-> next_id + 1, active |-> OpenTxns \ {t}, own |-> t]

snapshot_without_ending(t) ==
    [xmin |-> oldest_open, xmax |-> next_id,
     active |-> {u \in OpenTxns : ~ open[u].ending} \ {t}, own |-> t]

snapshot_for(t) ==
    [xmin |-> oldest_open, xmax |-> next_id, active |-> OpenTxns \ {t}, own |-> t]

\* State::status does not tell a rolled-back transaction from a committed one.
manager_status(t) == IF is_open(t) THEN "InProgress" ELSE "Committed"

mode_for(level) ==
    IF level = "Snapshot" /\ AllowSnapshotIsolation THEN "TxnSnapshot"
    ELSE IF level = "ReadCommitted" /\ ReadCommittedSnapshot THEN "StatementSnapshot"
    ELSE "Locking"

mode(t) == mode_for(open[t].level)

\* statement_snapshot: what it hands out, and what it keeps of it.
statement_snapshot(t) == IF open[t].pinned # NoSnap THEN open[t].pinned ELSE snapshot_for(t)

\* Variant: only a pinned snapshot is kept.
keep_pinned_only(t) ==
    [open[t] EXCEPT !.pinned =
        IF @ = NoSnap /\ mode(t) = "TxnSnapshot" THEN snapshot_for(t) ELSE @]

keep_snapshot(t) ==
    IF open[t].pinned # NoSnap THEN open[t]
    ELSE IF mode(t) = "TxnSnapshot" THEN [open[t] EXCEPT !.pinned = snapshot_for(t)]
    ELSE [open[t] EXCEPT !.last = snapshot_for(t)]

\* Variants: the comparison reads the snapshot of the two other modes only; or looks
\* at a row that was deleted only.
check_last_only(t, r) ==
    LET snap == open[t].last
    IN  IF snap = NoSnap \/ rows[r] = <<>> THEN "Proceed"
        ELSE IF is_settled(snap, latest_writer(r), manager_status(latest_writer(r))) THEN "Proceed"
        ELSE "Reread"

check_deleter_only(t, r) ==
    LET snap == open[t].pinned
    IN  IF snap = NoSnap \/ rows[r] = <<>> \/ latest(r).xmax = NoTxn THEN "Proceed"
        ELSE IF is_settled(snap, latest(r).xmax, manager_status(latest(r).xmax)) THEN "Proceed"
        ELSE "Conflict"

check_write_conflict(t, r) ==
    LET snap   == IF open[t].pinned # NoSnap THEN open[t].pinned ELSE open[t].last
        writer == latest_writer(r)
    IN  IF snap = NoSnap \/ rows[r] = <<>> THEN "Proceed"
        ELSE IF writer = t \/ is_settled(snap, writer, manager_status(writer)) THEN "Proceed"
        ELSE IF mode(t) = "TxnSnapshot" THEN "Conflict"
        ELSE "Reread"

release_all(t) == locks' = [r \in Rows |-> IF locks[r] = t THEN NoTxn ELSE locks[r]]
close(t) == open' = [open EXCEPT ![t] = [@ EXCEPT !.state = "closed", !.ending = FALSE,
                                                  !.pinned = NoSnap, !.last = NoSnap, !.log = <<>>,
                                                  !.saved = {}]]

-----------------------------------------------------------------------------
(* Life of a transaction.                                                    *)

\* begin accepts SNAPSHOT where the option is off, and serves it by locks.
Begin(level) ==
    /\ next_id \in Txns
    /\ next_id' = next_id + 1
    /\ open' = [open EXCEPT ![next_id].state = "open", ![next_id].level = level]
    /\ UNCHANGED <<storage, locks, stmt>>

\* Variant: the locks are given back before the storage has taken the outcome.
CommitMarksAndReleases(t) ==
    /\ live(t) /\ at(t, "idle")
    /\ open' = [open EXCEPT ![t].ending = TRUE, ![t].log = <<>>]
    /\ stmt' = [stmt EXCEPT ![t].pc = "storing", ![t].log = open[t].log]
    /\ release_all(t)
    /\ UNCHANGED <<storage, next_id>>

\* Step 1 of finish_commit: under the mutex, the mark is set and the log taken out.
CommitMarks(t) ==
    /\ live(t) /\ at(t, "idle")
    /\ open' = [open EXCEPT ![t].ending = TRUE, ![t].log = <<>>]
    /\ stmt' = [stmt EXCEPT ![t].pc = "storing", ![t].log = open[t].log]
    /\ UNCHANGED <<storage, next_id, locks>>

\* Step 2: without the mutex, the storage accepts the commit or refuses it.
CommitStores(t) ==
    /\ at(t, "storing")
    /\ \/ storage_commit(t) /\ goes(t, "stored")
       \/ MayRefuse /\ goes(t, "refused") /\ UNCHANGED storage
    /\ UNCHANGED <<next_id, open, locks>>

\* Step 3: under the mutex, the transaction leaves the list, or is open again.
CommitCloses(t) ==
    /\ at(t, "stored")
    /\ release_all(t) /\ close(t) /\ ends(t)
    /\ UNCHANGED <<storage, next_id>>

\* Variants: a refused commit forgets the log; or stays marked as ending.
CommitReopensBare(t) ==
    /\ at(t, "refused")
    /\ open' = [open EXCEPT ![t].ending = FALSE]
    /\ ends(t)
    /\ UNCHANGED <<storage, next_id, locks>>

CommitStaysEnding(t) ==
    /\ at(t, "refused")
    /\ open' = [open EXCEPT ![t].log = stmt[t].log]
    /\ ends(t)
    /\ UNCHANGED <<storage, next_id, locks>>

CommitReopens(t) ==
    /\ at(t, "refused")
    /\ open' = [open EXCEPT ![t].ending = FALSE, ![t].log = stmt[t].log]
    /\ ends(t)
    /\ UNCHANGED <<storage, next_id, locks>>

\* One critical section from the storage to the locks; an undo that fails leaves
\* the transaction open with its locks.  ROLLBACK TRANSACTION calls it, and the end of a
\* statement that failed under XACT_ABORT or in a transaction of its own.
Rollback(t) ==
    /\ live(t) /\ (at(t, "idle") \/ at(t, "failed"))
    /\ ~ is_finished(t)
    /\ storage_rollback(t)
    /\ IF undo_after(t, 0).ok THEN release_all(t) /\ close(t) ELSE UNCHANGED <<locks, open>>
    /\ ends(t)
    /\ UNCHANGED next_id

\* savepoint: the mark of the storage goes to the end of the log of the manager, here
\* together with what else the caller changes of the transaction.
savepoint(t, txn) ==
    /\ live(t)
    /\ storage_savepoint(t)
    /\ open' = [open EXCEPT ![t] = [txn EXCEPT !.log = Append(@, next_savepoint[t])]]

\* rollback_to: the log of the manager is cut first; the storage may then refuse the savepoint.
rollback_to(t, i) ==
    /\ live(t)
    /\ open' = [open EXCEPT ![t].log = SubSeq(@, 1, i)]
    /\ IF txns[t].status = "InProgress" /\ savepoint_position(t, open[t].log[i]) # 0
       THEN storage_rollback_to(t, open[t].log[i])
       ELSE UNCHANGED storage

\* SAVE TRANSACTION keeps the mark under a name, and ROLLBACK TRANSACTION to a name finds
\* it.  The mark of these statements themselves, which nothing is written behind, is left
\* out.
Save(t) ==
    /\ at(t, "idle")
    /\ next_savepoint[t] <= MaxSavepoints
    /\ savepoint(t, [open[t] EXCEPT !.saved = @ \cup {next_savepoint[t]}])
    /\ UNCHANGED <<next_id, locks, stmt>>

RollbackToSaved(t) ==
    /\ at(t, "idle")
    /\ \E i \in DOMAIN open[t].log : open[t].log[i] \in open[t].saved /\ rollback_to(t, i)
    /\ UNCHANGED <<next_id, locks, stmt>>

-----------------------------------------------------------------------------
(* A statement.                                                              *)

\* execute_in_a_transaction takes the snapshot of the statement.
StartStatement(t, kind, r, c) ==
    /\ live(t) /\ at(t, "idle")
    /\ stmt[t].count < MaxStatements[t]
    /\ stmt' = [stmt EXCEPT ![t] = [Idle(@.count + 1) EXCEPT
                    !.pc = "bound", !.kind = kind,
                    !.row = IF kind = "Insert" THEN @ ELSE r,
                    !.col = IF kind = "Update" THEN c ELSE @,
                    !.snap = statement_snapshot(t)]]
    /\ open' = [open EXCEPT ![t] = keep_snapshot(t)]
    /\ UNCHANGED <<storage, next_id, locks>>

\* The executor reads the catalogue through a snapshot of its own, which the manager keeps.
catalog_snapshot(t) == keep_snapshot(t)

\* The frame of a statement: begin_statement marks where its writes begin, which no other
\* transaction can tell; the body then begins with the catalogue.
BeginStatement(t) ==
    /\ at(t, "bound")
    /\ savepoint(t, catalog_snapshot(t))
    /\ goes(t, "ready")
    /\ UNCHANGED <<next_id, locks>>

InsertRow(t) ==
    /\ at(t, "ready") /\ stmt[t].kind = "Insert"
    /\ insert(t, [c \in Columns |-> {t}])
    /\ stmt' = [stmt EXCEPT ![t].pc = "inserted", ![t].row = next_row_id]
    /\ UNCHANGED <<next_id, open, locks>>

free_for(t, r) == locks[r] \in {NoTxn, t}

\* The row an INSERT creates is locked once the storage has it.
LockInserted(t) ==
    /\ at(t, "inserted")
    /\ free_for(t, target(t))
    /\ locks' = [locks EXCEPT ![target(t)] = t]
    /\ ends(t)
    /\ UNCHANGED <<storage, next_id, open>>

\* What a read of r through snap hands over: the version the iteration produced,
\* or under a shared lock the latest one.
read_row(t, snap, r) ==
    IF get(snap, r) # NoRow /\ mode(t) = "Locking" THEN latest(r).data ELSE get(snap, r)

\* Variant: the read does not wait for the row.
ReadTargetDirty(t) ==
    /\ at(t, "ready") /\ stmt[t].kind # "Insert"
    /\ LET row == read_row(t, stmt[t].snap, target(t))
       IN  IF row = NoRow THEN ends(t)
           ELSE stmt' = [stmt EXCEPT ![t].pc = "read", ![t].seen = row]
    /\ UNCHANGED <<storage, next_id, open, locks>>

ReadTarget(t) ==
    /\ at(t, "ready") /\ stmt[t].kind # "Insert"
    /\ LET row == read_row(t, stmt[t].snap, target(t))
       IN  \/ row = NoRow /\ ends(t)
           \/ /\ row # NoRow
              /\ mode(t) = "Locking" => free_for(t, target(t))
              /\ stmt' = [stmt EXCEPT ![t].pc = "read", ![t].seen = row]
    /\ UNCHANGED <<storage, next_id, open, locks>>

LockTarget(t) ==
    /\ at(t, "read")
    /\ free_for(t, target(t))
    /\ locks' = [locks EXCEPT ![target(t)] = t]
    /\ goes(t, "locked")
    /\ UNCHANGED <<storage, next_id, open>>

\* A request for a lock, shared or exclusive, that ends without it: 1222, 1205, or a
\* request cancelled.  The row of an INSERT is in the storage by then.
LockRefused(t) ==
    /\ \/ at(t, "read") \/ at(t, "inserted")
       \/ at(t, "ready") /\ stmt[t].kind # "Insert" /\ mode(t) = "Locking"
    /\ goes(t, "failed")
    /\ UNCHANGED <<storage, next_id, open, locks>>

\* showing: the base snapshot with the change of one writer shown.
showing(base, w) ==
    [base EXCEPT !.active = (@ \cup (base.xmax .. w - 1)) \ {w},
                 !.xmax = IF w >= base.xmax THEN w + 1 ELSE @]

reread_snapshot(t) == showing(stmt[t].snap, latest_writer(target(t)))

\* Variant: the values are not computed again over the row read again.
to_write_stale(t) ==
    IF check_write_conflict(t, target(t)) = "Conflict" \/ rows[target(t)] = <<>> THEN NoRow
    ELSE [old |-> latest(target(t)).data, input |-> stmt[t].seen]

\* The stored row to change and the input row its new values come from;
\* NoRow when there is nothing to write.
to_write(t) ==
    LET r == target(t)
    IN  CASE check_write_conflict(t, r) = "Proceed" ->
                 IF rows[r] = <<>> THEN NoRow
                 ELSE [old |-> latest(r).data, input |-> stmt[t].seen]
          [] check_write_conflict(t, r) = "Reread" ->
                 IF get(reread_snapshot(t), r) = NoRow THEN NoRow
                 ELSE [old |-> get(reread_snapshot(t), r),
                       input |-> read_row(t, reread_snapshot(t), r)]
          [] OTHER -> NoRow

\* write_row after the lock: a conflict, a row that is not to be written any more, a
\* refusal of the storage, or the write.
WriteTarget(t) ==
    /\ at(t, "locked")
    /\ LET r == target(t)
           c == stmt[t].col
           w == to_write(t)
           conflict == check_write_conflict(t, r) = "Conflict"
       IN  \/ /\ conflict \/ (w # NoRow /\ ~ check_current(t, r))
              /\ goes(t, "failed") /\ UNCHANGED storage
           \/ ~ conflict /\ w = NoRow /\ ends(t) /\ UNCHANGED storage
           \/ /\ w # NoRow /\ stmt[t].kind = "Update"
              /\ update(t, r, [w.old EXCEPT ![c] = w.input[c] \cup {t}])
              /\ ends(t)
           \/ w # NoRow /\ stmt[t].kind = "Delete" /\ delete(t, r) /\ ends(t)
    /\ UNCHANGED <<next_id, open, locks>>

\* Variant: the rows a failed statement wrote stay.
EndFailedBare(t) ==
    /\ at(t, "failed")
    /\ ends(t)
    /\ UNCHANGED <<storage, next_id, open, locks>>

\* end_statement after an error without XACT_ABORT: back to the last mark, which is that
\* of the statement.  Its locks stay.
EndFailed(t) ==
    /\ at(t, "failed")
    /\ rollback_to(t, Len(open[t].log))
    /\ ends(t)
    /\ UNCHANGED <<next_id, locks>>

\* Storage::vacuum under its precondition.
Snapshots == ({open[t].pinned : t \in Txns} \cup {stmt[t].snap : t \in Txns}) \ {NoSnap}

Vacuum(horizon) ==
    /\ MayVacuum
    /\ \A s \in Snapshots : horizon <= s.xmin
    /\ \A t \in OpenTxns : horizon <= t
    /\ vacuum(horizon)
    /\ UNCHANGED <<next_id, open, locks, stmt>>

-----------------------------------------------------------------------------

Init ==
    /\ StorageInit
    /\ next_id = 1
    /\ open = [t \in Txns |-> [state |-> "new", level |-> "ReadCommitted", ending |-> FALSE,
                               pinned |-> NoSnap, last |-> NoSnap, log |-> <<>>,
                               saved |-> {}]]
    /\ locks = [r \in Rows |-> NoTxn]
    /\ stmt = [t \in Txns |-> Idle(0)]

Step(t) ==
    \/ CommitMarks(t) \/ CommitStores(t) \/ CommitCloses(t) \/ CommitReopens(t)
    \/ Rollback(t) \/ Save(t) \/ RollbackToSaved(t)
    \/ \E kind \in Kinds, r \in Rows, c \in Columns : StartStatement(t, kind, r, c)
    \/ BeginStatement(t) \/ InsertRow(t) \/ LockInserted(t) \/ ReadTarget(t) \/ LockTarget(t)
    \/ LockRefused(t) \/ WriteTarget(t) \/ EndFailed(t)

Next ==
    \/ \E level \in Levels : Begin(level)
    \/ \E t \in Txns : Step(t)
    \/ \E h \in 1 .. next_id : Vacuum(h)

Spec == Init /\ [][Next]_vars
\* The threads that commit go on: sync_all returns, and nothing they wait for
\* waits for them.
Fairness == \A t \in Txns : WF_vars(CommitStores(t) \/ CommitCloses(t) \/ CommitReopens(t))

FairSpec == Spec /\ Fairness

-----------------------------------------------------------------------------
(* Properties.                                                               *)

SnapshotType == [xmin : 1 .. MaxTxn + 1, xmax : 1 .. MaxTxn + 1,
                 active : SUBSET Txns, own : Txns]

\* The type of every variable of the manager, of the statements and of the storage.
TypeOK ==
    /\ StorageTypeOK
    /\ next_id \in 1 .. MaxTxn + 1
    /\ open \in [Txns -> [state : {"new", "open", "closed"},
                          level : {"ReadCommitted", "Snapshot"},
                          ending : BOOLEAN,
                          pinned : SnapshotType \cup {NoSnap},
                          last : SnapshotType \cup {NoSnap},
                          log : Seq(Nat), saved : SUBSET Nat]]
    /\ locks \in [Rows -> Txns \cup {NoTxn}]
    /\ stmt \in [Txns -> [pc : {"idle", "bound", "ready", "inserted", "read", "locked",
                                "failed", "storing", "stored", "refused"},
                          count : Nat,
                          kind : {"Update", "Delete", "Insert"},
                          row : Rows, col : Columns,
                          snap : SnapshotType \cup {NoSnap},
                          seen : Content \cup {NoRow},
                          log : Seq(Nat)]]

\* At most one version of a row is visible to a snapshot the manager handed out and
\* that is still in use, or to the one it would hand out now (snapshot.rs, is_visible).
OneVisibleVersion ==
    \A s \in Snapshots \cup {snapshot_for(t) : t \in OpenTxns}, r \in Rows :
        \A i, j \in DOMAIN rows[r] :
            is_visible(s, rows[r][i]) /\ is_visible(s, rows[r][j]) => i = j

\* The transactions whose mark the chain of r carries.
writers(r) == {rows[r][i].xmin : i \in DOMAIN rows[r]} \cup {rows[r][i].xmax : i \in DOMAIN rows[r]}

\* What a snapshot in use shows of a row its own transaction does not write never
\* changes: neither the steps of another commit, nor a rollback, nor a vacuum under its
\* precondition moves it (manager.rs, "Ending a transaction outside the state lock").
SnapshotsAreStable ==
    [][\A s \in Snapshots \cap Snapshots' : \A r \in Rows :
          (s.own \notin writers(r) /\ s.own \notin writers(r)') => get(s, r)' = get(s, r)]_vars

\* The latest version of a row that an open transaction wrote is locked by it, also
\* while its commit is between the storage and the list of open transactions: a writer
\* that gets the lock finds an outcome the storage has taken (finish_commit, step 3).  A row
\* just inserted is not locked yet, and nobody else holds it, until the statement has
\* its lock or, refused, has been taken back (insert.rs, write_lock after write_one).
WriterHoldsRow ==
    \A r \in Rows : rows[r] # <<>> /\ is_open(latest_writer(r)) =>
        LET t == latest_writer(r)
        IN  \/ locks[r] = t
            \/ /\ at(t, "inserted") \/ at(t, "failed")
               /\ stmt[t].kind = "Insert" /\ target(t) = r /\ free_for(t, r)

\* At any moment a transaction can be rolled back: each entry of its undo log finds the
\* tail of the chain it expects, and nothing it wrote is left (txn_log.rs, UndoEntry).
RollbackErases ==
    \A t \in Txns : txns[t].status = "InProgress" =>
        LET after == undo_after(t, 0)
        IN  /\ after.ok
            /\ \A r \in Rows : \A i \in DOMAIN after.rows[r] :
                   t \notin {after.rows[r][i].xmin, after.rows[r][i].xmax}

\* The savepoints of the manager and those of the storage are the same, in the same
\* order, for a transaction that is not ending, a commit that was refused included.
MarksAgree ==
    \A t \in Txns : live(t) =>
        open[t].log = [i \in DOMAIN txns[t].savepoints |-> txns[t].savepoints[i].id]

\* A statement reads no change of a transaction that may still be rolled back.
NoDirtyRead ==
    \A t \in Txns : stmt[t].seen # NoRow =>
        \A c \in Columns : \A u \in stmt[t].seen[c] \ {t} : ~ is_open(u) /\ status_in(u) = "Committed"

\* When check_write_conflict lets a write proceed, the row it changes is the one the
\* statement read (update_delete.rs, "its version is checked against the snapshot of the
\* statement").
ProceedOverWhatWasRead ==
    \A t \in Txns :
        at(t, "locked") /\ check_write_conflict(t, target(t)) = "Proceed" =>
            stmt[t].seen = latest(target(t)).data

\* A row read again after a wait is the row as the transaction that last wrote it left
\* it (update_delete.rs, requalify).
RereadIsLatest ==
    \A t \in Txns :
        (at(t, "locked") /\ check_write_conflict(t, target(t)) = "Reread") =>
            get(reread_snapshot(t), target(t)) \in {latest(target(t)).data, NoRow}

\* The storage never refuses a write the transaction manager let through: a row deleted
\* meanwhile is left alone, not reported as a broken caller (memory/mod.rs, check_current).
WritesAreCurrent ==
    \A t \in Txns : at(t, "locked") /\ to_write(t) # NoRow => check_current(t, target(t))

\* No update is lost: every version of a row holds each change the versions before it hold.
NoLostUpdate ==
    \A r \in Rows : \A i, j \in DOMAIN rows[r] : i < j =>
        \A c \in Columns : rows[r][i].data[c] \subseteq rows[r][j].data[c]

\* The column an UPDATE assigns keeps the changes of the version it replaces, whatever
\* happens to the columns it does not assign.
AssignedOverLatest ==
    \A r \in Rows : \A i \in DOMAIN rows[r] : i > 1 =>
        \A c \in Columns : rows[r][i].xmin \in rows[r][i].data[c] =>
            rows[r][i - 1].data[c] \subseteq rows[r][i].data[c]

\* A commit that began ends: the transaction is closed, or open again with its log.
CommitsEnd == \A t \in Txns : (is_open(t) /\ open[t].ending) ~> ~ (is_open(t) /\ open[t].ending)
=============================================================================
