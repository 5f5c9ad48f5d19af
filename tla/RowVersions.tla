---------------------------- MODULE RowVersions ----------------------------
(* The rows of MemoryStorage (vauban-storage/src/memory): the chain of       *)
(* versions of every row, the registry of transactions with their undo logs  *)
(* and savepoints, and the visibility rule of snapshot.rs.                   *)
(*                                                                           *)
(* The module holds the state of the storage and one operator per call of    *)
(* the Storage trait; the caller, TransactionManager, says who calls what    *)
(* and when.  One RwLock guards the whole storage, so a call is one step.    *)
(*                                                                           *)
(* The content of a row is a function from its columns to the set of the     *)
(* transactions whose change the column holds: `SET c = c + 1` adds its      *)
(* transaction to what it read, and a change that was overwritten unseen is  *)
(* missing from the set.                                                     *)
EXTENDS Naturals, Sequences, FiniteSets

CONSTANTS
    MaxTxn,         \* transactions are 1..MaxTxn, in the order they begin
    MaxRow,         \* rows are 1..MaxRow, in the order they are inserted
    Columns,        \* the columns of the one table
    NoRow           \* the `None` of an Option<Row>

ASSUME BoundsAssumption == MaxTxn \in Nat \ {0} /\ MaxRow \in Nat \ {0}

Txns == 1 .. MaxTxn
Rows == 1 .. MaxRow

\* The `None` of an xmax, and the transaction that wrote the rows that were
\* there at the start: older than all others, committed, and forgotten.
NoTxn == 0

Content == [Columns -> SUBSET Txns]

Version == [xmin : Txns \cup {NoTxn}, xmax : Txns \cup {NoTxn}, data : Content]

VARIABLES
    rows,            \* Table::rows: the chain of each row, oldest first; <<>> when unknown
    next_row_id,     \* Table::next_row_id
    txns,            \* Inner::txns: the registry
    next_savepoint   \* Inner::next_savepoint_id, counted for each transaction

storage == <<rows, next_row_id, txns, next_savepoint>>

Unknown == [status |-> "Unknown", writes |-> <<>>, savepoints |-> <<>>]

status_in(t) ==
    IF t \in Txns /\ txns[t].status # "Unknown" THEN txns[t].status ELSE "Committed"

is_finished(t) == txns[t].status \in {"Committed", "Aborted"}

-----------------------------------------------------------------------------
(* snapshot.rs: a snapshot is [xmin, xmax, active, own].                      *)

\* `status` is the fate of t as the caller knows it: the storage and the
\* transaction manager do not answer alike.
is_settled(snap, t, status) ==
    t = snap.own \/ (t < snap.xmax /\ t \notin snap.active /\ status = "Committed")

is_visible(snap, v) ==
    /\ is_settled(snap, v.xmin, status_in(v.xmin))
    /\ ~ (v.xmax # NoTxn /\ is_settled(snap, v.xmax, status_in(v.xmax)))

\* Inner::visible takes the first version of the chain that is visible.
get(snap, r) ==
    LET seen == {i \in DOMAIN rows[r] : is_visible(snap, rows[r][i])}
    IN  IF seen = {} THEN NoRow
        ELSE rows[r][CHOOSE i \in seen : \A j \in seen : i <= j].data

latest(r) == rows[r][Len(rows[r])]

\* Storage::latest_version: the deleter if there is one, else the creator.
latest_writer(r) == IF latest(r).xmax # NoTxn THEN latest(r).xmax ELSE latest(r).xmin

-----------------------------------------------------------------------------
(* Writes.                                                                   *)

check_current(t, r) ==
    /\ rows[r] # <<>>
    /\ latest(r).xmax = NoTxn
    /\ latest(r).xmin = t \/ status_in(latest(r).xmin) = "Committed"

\* writing_txn, and the entry pushed on the undo log.
log_write(t, kind, r) ==
    txns' = [txns EXCEPT ![t].status = "InProgress",
                         ![t].writes = Append(@, [kind |-> kind, row |-> r])]

new_version(t, data) == [xmin |-> t, xmax |-> NoTxn, data |-> data]

insert(t, data) ==
    /\ ~ is_finished(t)
    /\ next_row_id \in Rows
    /\ rows' = [rows EXCEPT ![next_row_id] = <<new_version(t, data)>>]
    /\ next_row_id' = next_row_id + 1
    /\ log_write(t, "Insert", next_row_id)
    /\ UNCHANGED next_savepoint

\* Variant: the replaced version keeps no mark of its writer.
supersede_unmarked(t, r) == rows[r]

supersede(t, r) == [rows[r] EXCEPT ![Len(rows[r])].xmax = t]

update(t, r, data) ==
    /\ check_current(t, r) /\ ~ is_finished(t)
    /\ rows' = [rows EXCEPT ![r] = Append(supersede(t, r), new_version(t, data))]
    /\ log_write(t, "Update", r)
    /\ UNCHANGED <<next_row_id, next_savepoint>>

delete(t, r) ==
    /\ check_current(t, r) /\ ~ is_finished(t)
    /\ rows' = [rows EXCEPT ![r] = supersede(t, r)]
    /\ log_write(t, "Delete", r)
    /\ UNCHANGED <<next_row_id, next_savepoint>>

-----------------------------------------------------------------------------
(* Undo.                                                                     *)

\* undo_update and undo_delete refuse a chain that does not end with the write
\* being undone; the caller reports a corruption.
undoable(chain, t, kind) ==
    LET n == Len(chain)
    IN  CASE kind = "Insert" -> TRUE
          [] kind = "Update" -> /\ n >= 2
                                /\ chain[n - 1].xmax = t
                                /\ chain[n].xmin = t /\ chain[n].xmax = NoTxn
          [] kind = "Delete" -> n >= 1 /\ chain[n].xmax = t

undone(chain, kind) ==
    LET n == Len(chain)
    IN  CASE kind = "Insert" -> <<>>
          [] kind = "Update" -> [SubSeq(chain, 1, n - 1) EXCEPT ![n - 1].xmax = NoTxn]
          [] kind = "Delete" -> [chain EXCEPT ![n].xmax = NoTxn]

\* The entries of the undo log past `mark`, taken back last first until one is
\* refused: the rows that result, and whether all were taken back.
undo_after(t, mark) ==
    LET log == txns[t].writes
        back[n \in 0 .. Len(log)] ==
            IF n = Len(log) THEN [rows |-> rows, ok |-> TRUE]
            ELSE LET later == back[n + 1]
                     e     == log[n + 1]
                 IN  IF later.ok /\ undoable(later.rows[e.row], t, e.kind)
                     THEN [later EXCEPT !.rows[e.row] = undone(@, e.kind)]
                     ELSE [later EXCEPT !.ok = FALSE]
    IN  back[mark]

\* finish_txn: the savepoints and the undo log go with the status.
finish_txn(t, status) ==
    txns' = [txns EXCEPT ![t] = [status |-> status, writes |-> <<>>, savepoints |-> <<>>]]

storage_commit(t) ==
    /\ ~ is_finished(t)
    /\ finish_txn(t, "Committed")
    /\ UNCHANGED <<rows, next_row_id, next_savepoint>>

storage_rollback(t) ==
    /\ ~ is_finished(t)
    /\ rows' = undo_after(t, 0).rows
    /\ finish_txn(t, "Aborted")
    /\ UNCHANGED <<next_row_id, next_savepoint>>

\* The code counts savepoints for all transactions at once.  A list holds those of one
\* transaction and is searched for these only, so that a count for each tells them apart.
storage_savepoint(t) ==
    /\ ~ is_finished(t)
    /\ txns' = [txns EXCEPT ![t].status = "InProgress",
                            ![t].savepoints =
                                Append(@, [id |-> next_savepoint[t], mark |-> Len(txns[t].writes)])]
    /\ next_savepoint' = [next_savepoint EXCEPT ![t] = @ + 1]
    /\ UNCHANGED <<rows, next_row_id>>

\* The position of savepoint sp in the list of t; 0 when the list does not hold it.
savepoint_position(t, sp) ==
    LET at == {i \in DOMAIN txns[t].savepoints : txns[t].savepoints[i].id = sp}
    IN  IF at = {} THEN 0 ELSE CHOOSE i \in at : TRUE

\* Variant: the undo log is not cut with the savepoints.
storage_rollback_to_uncut(t, sp) ==
    LET pos == savepoint_position(t, sp)
    IN  /\ txns[t].status = "InProgress" /\ pos # 0
        /\ rows' = undo_after(t, txns[t].savepoints[pos].mark).rows
        /\ txns' = [txns EXCEPT ![t].savepoints = SubSeq(@, 1, pos)]
        /\ UNCHANGED <<next_row_id, next_savepoint>>

storage_rollback_to(t, sp) ==
    LET pos  == savepoint_position(t, sp)
        mark == txns[t].savepoints[pos].mark
    IN  /\ txns[t].status = "InProgress" /\ pos # 0
        /\ mark <= Len(txns[t].writes)
        /\ rows' = undo_after(t, mark).rows
        /\ txns' = [txns EXCEPT ![t].savepoints = SubSeq(@, 1, pos),
                                ![t].writes = SubSeq(@, 1, mark)]
        /\ UNCHANGED <<next_row_id, next_savepoint>>

\* Table::vacuum in two passes over each chain, then the registry is pruned.
vacuum(horizon) ==
    LET kept(v) == ~ (v.xmax # NoTxn /\ v.xmax < horizon /\ status_in(v.xmax) = "Committed")
        sane(v) == status_in(v.xmin) # "Aborted"
    IN  /\ rows' = [r \in Rows |-> SelectSeq(SelectSeq(rows[r], kept), sane)]
        /\ txns' = [t \in Txns |-> IF is_finished(t) /\ t < horizon THEN Unknown ELSE txns[t]]
        /\ UNCHANGED <<next_row_id, next_savepoint>>

-----------------------------------------------------------------------------

\* A committed transaction wrote the first row before the start.
StorageInit ==
    /\ rows = [r \in Rows |-> IF r = 1 THEN <<new_version(NoTxn, [c \in Columns |-> {}])>>
                                       ELSE <<>>]
    /\ next_row_id = 2
    /\ txns = [t \in Txns |-> Unknown]
    /\ next_savepoint = [t \in Txns |-> 1]

StorageTypeOK ==
    /\ rows \in [Rows -> Seq(Version)]
    /\ next_row_id \in 2 .. MaxRow + 1
    /\ txns \in [Txns -> [status : {"Unknown", "InProgress", "Committed", "Aborted"},
                          writes : Seq([kind : {"Insert", "Update", "Delete"}, row : Rows]),
                          savepoints : Seq([id : Nat, mark : Nat])]]
    /\ next_savepoint \in [Txns -> Nat \ {0}]
=============================================================================
