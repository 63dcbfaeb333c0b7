------------------------------- MODULE Engine ------------------------------
(***************************************************************************)
(* The in-memory database (src/src/db.rs), its statement executor          *)
(* (src/src/execution.rs), its one transaction with its undo log           *)
(* (src/src/transaction.rs) and the table locks.                           *)
(*                                                                         *)
(* One statement runs at a time (`execute` takes &mut self).  UPDATE,      *)
(* DELETE and ROLLBACK work row by row or undo record by undo record and   *)
(* can stop half way, so each of them is a loop of steps; a statement ends *)
(* in phase "ok" or "error" and then returns.                              *)
(*                                                                         *)
(* A statement is a record with its kind in `op`.  A WHERE clause is a     *)
(* function from some columns to data: the conjunction of the equalities,  *)
(* and the empty function when there is no clause.  `set`, the assignments *)
(* of UPDATE, is such a function too.                                      *)
(***************************************************************************)
EXTENDS Table, Locks, SequencesExt

CONSTANTS
  TableName,  \* names of tables, which are also what locks are taken on
  Stmts,      \* the statements clients send
  MaxRowId,   \* bound of the model: no automatic row id is larger
  MaxTx,      \* bound of the model: no transaction id is larger
  MaxUndo     \* bound of the model: a longer undo log takes no more changes

\* A statement that takes a lock names a table, CREATE TABLE has a schema.
ASSUME StmtsAssumption ==
  \A s \in Stmts :
    /\ s.op \in {"CreateTable", "DropTable", "CreateIndex", "Insert", "Select", "Update",
                "Delete"} => s.t \in TableName
    /\ s.op = "CreateTable" => s.schema \in Schema
    /\ s.op = "CreateIndex" => s.unique \in BOOLEAN

ASSUME BoundsAssumption == MaxRowId \in Nat /\ MaxTx \in Nat \ {0} /\ MaxUndo \in Nat

VARIABLES
  tables,  \* the tables, by name
  txn,     \* the active transaction: its id (NoTx if there is none) and undo log
  locks,   \* the lock of each table
  nextTx,  \* next_transaction_id
  call     \* the statement being executed and how far it got

engineVars == <<tables, txn, locks, nextTx, call>>

NoTxn == [id |-> NoTx, undo |-> <<>>]

Row == UNION {[cols -> Datum] : cols \in SUBSET Column}

UndoRecord ==
  [op : {"CreateTable"}, t : TableName] \cup
  [op : {"CreateIndex"}, t : TableName, i : {s.i : s \in {x \in Stmts : x.op = "CreateIndex"}}] \cup
  [op : {"Insert"}, t : TableName, r : RowId] \cup
  [op : {"Delete", "Update"}, t : TableName, r : RowId, row : Row]

Active == txn.id # NoTx

\* Nothing is running.
Ready == [phase |-> "ready", stmt |-> [op |-> "none"], todo |-> {}, log |-> <<>>,
          tx |-> NoTx]

EmptyDatabase ==
  /\ tables = [t \in {} |-> 0]
  /\ txn = NoTxn
  /\ locks = [t \in TableName |-> FreeLock]
  /\ nextTx = 0
  /\ call = Ready

\* What clients can see: schemas, rows with their ids, and definitions of the
\* indexes (whose entries follow from the rows, see TablesAreSound).
View ==
  [t \in DOMAIN tables |->
     [schema |-> tables[t].schema, rows |-> tables[t].rows,
      idx |-> [i \in DOMAIN tables[t].idx |->
                 <<tables[t].idx[i].col, tables[t].idx[i].unique>>]]]

-----------------------------------------------------------------------------
(* Parts of a statement.                                                   *)

Begins == call.phase = "ready"

\* The statement ends here, with its result.
Ends(s, result) == call' = [Ready EXCEPT !.phase = result, !.stmt = s]

\* acquire_read_lock and acquire_write_lock: outside a transaction no lock
\* is needed and none is taken.
MayLock(t, mode) == Active => Grants(locks[t], txn.id, mode)

TakesLock(t, mode) ==
  /\ MayLock(t, mode)
  /\ locks' = IF Active THEN [locks EXCEPT ![t] = Held(@, txn.id, mode)] ELSE locks

\* record_undo: outside a transaction the record is dropped.
Records(undos) ==
  txn' = IF Active THEN [txn EXCEPT !.undo = @ \o undos] ELSE txn

\* The statement fails before it changed anything but the locks.
Fails(s) == Ends(s, "error") /\ UNCHANGED <<tables, txn, nextTx>>

\* A table is added or replaced.
Put(t, table) ==
  tables' = [n \in DOMAIN tables \cup {t} |-> IF n = t THEN table ELSE tables[n]]

Without(t) == [n \in DOMAIN tables \ {t} |-> tables[n]]

-----------------------------------------------------------------------------
(* Statements of one step.                                                 *)

\* A statement on a table whose lock another transaction holds is refused.
Refused(s) ==
  /\ Begins
  /\ \/ s.op \in {"CreateTable", "DropTable", "CreateIndex", "Insert", "Update", "Delete"}
        /\ ~MayLock(s.t, "Exclusive")
     \/ s.op = "Select" /\ ~MayLock(s.t, "Shared")
     \/ s.op = "DropIndex" /\ \E t \in DOMAIN tables :
          s.i \in DOMAIN tables[t].idx /\ ~MayLock(t, "Exclusive")
  /\ Fails(s)
  /\ UNCHANGED locks

CreateTableStmt(s) ==
  /\ Begins /\ s.op = "CreateTable"
  /\ TakesLock(s.t, "Exclusive")
  /\ \/ /\ s.t \notin DOMAIN tables
        /\ Put(s.t, NewTable(s.schema))
        /\ Records(<<[op |-> "CreateTable", t |-> s.t]>>)
        /\ Ends(s, "ok")
        /\ UNCHANGED nextTx
     \/ s.t \in DOMAIN tables /\ Fails(s)

\* DROP TABLE and DROP INDEX leave no undo record.
DropTableStmt(s) ==
  /\ Begins /\ s.op = "DropTable"
  /\ TakesLock(s.t, "Exclusive")
  /\ \/ /\ s.t \in DOMAIN tables
        /\ tables' = Without(s.t)
        /\ Ends(s, "ok")
        /\ UNCHANGED <<txn, nextTx>>
     \/ s.t \notin DOMAIN tables /\ Fails(s)

CreateIndexStmt(s) ==
  /\ Begins /\ s.op = "CreateIndex"
  /\ TakesLock(s.t, "Exclusive")
  /\ LET can == s.t \in DOMAIN tables /\ CanCreateIndex(tables[s.t], s.i, s.c, s.unique) IN
     \/ /\ can
        /\ Put(s.t, CreateIndex(tables[s.t], s.i, s.c, s.unique))
        /\ Records(<<[op |-> "CreateIndex", t |-> s.t, i |-> s.i]>>)
        /\ Ends(s, "ok")
        /\ UNCHANGED nextTx
     \/ ~can /\ Fails(s)

\* table_for_index takes the first table, in the order of a HashMap, that
\* has an index of the name.
DropIndexStmt(s) ==
  /\ Begins /\ s.op = "DropIndex"
  /\ LET owners == {t \in DOMAIN tables : s.i \in DOMAIN tables[t].idx} IN
     \/ \E t \in owners :
          /\ TakesLock(t, "Exclusive")
          /\ Put(t, DropIndex(tables[t], s.i))
          /\ Ends(s, "ok")
          /\ UNCHANGED <<txn, nextTx>>
     \/ owners = {} /\ Fails(s) /\ UNCHANGED locks

InsertStmt(s) ==
  /\ Begins /\ s.op = "Insert"
  /\ TakesLock(s.t, "Exclusive")
  /\ LET can == s.t \in DOMAIN tables /\ Writable(tables[s.t], s.row, NoRow) IN
     \/ /\ can
        /\ Put(s.t, AddRow(tables[s.t], s.row))
        /\ Records(<<[op |-> "Insert", t |-> s.t, r |-> tables[s.t].next]>>)
        /\ Ends(s, "ok")
        /\ UNCHANGED nextTx
     \/ ~can /\ Fails(s)

\* resolve_predicate and resolve_assignments: known columns, data of their type.
Resolves(t, clause) ==
  \A c \in DOMAIN clause : c \in tables[t].schema.cols /\ ValueFits(tables[t].schema, c, clause[c])

\* matches_predicate: a comparison with NULL never matches.
Matches(row, where) == \A c \in DOMAIN where : where[c] # Null /\ row[c] = where[c]

Matching(t, where) == {r \in DOMAIN tables[t].rows : Matches(tables[t].rows[r], where)}

\* SELECT changes nothing but the locks.
SelectStmt(s) ==
  /\ Begins /\ s.op = "Select"
  /\ TakesLock(s.t, "Shared")
  /\ Ends(s, IF s.t \in DOMAIN tables /\ Resolves(s.t, s.where) THEN "ok" ELSE "error")
  /\ UNCHANGED <<tables, txn, nextTx>>

-----------------------------------------------------------------------------
(* UPDATE and DELETE: a loop over the rows that matched at the start.      *)

\* The rows are collected and the loop is about to begin.
Loops(s, phase) ==
  /\ call' = [phase |-> phase, stmt |-> s, todo |-> Matching(s.t, s.where),
              log |-> <<>>, tx |-> NoTx]
  /\ UNCHANGED <<tables, txn, nextTx>>

StartUpdate(s) ==
  /\ Begins /\ s.op = "Update"
  /\ TakesLock(s.t, "Exclusive")
  /\ LET can == s.t \in DOMAIN tables /\ Resolves(s.t, s.where) /\ Resolves(s.t, s.set) IN
     (can /\ Loops(s, "update")) \/ (~can /\ Fails(s))

StartDelete(s) ==
  /\ Begins /\ s.op = "Delete"
  /\ TakesLock(s.t, "Exclusive")
  /\ LET can == s.t \in DOMAIN tables /\ Resolves(s.t, s.where) IN
     (can /\ Loops(s, "delete")) \/ (~can /\ Fails(s))

\* candidate_row_ids: a scan goes by row id, the probe of an index gives the
\* ids in the order in which they entered it, which may be any.
NextRows ==
  IF \E i \in DOMAIN tables[call.stmt.t].idx :
       tables[call.stmt.t].idx[i].col \in DOMAIN call.stmt.where
  THEN call.todo
  ELSE {r \in call.todo : \A q \in call.todo : r <= q}

\* The row `r` with the assignments of the UPDATE.
Assigned(r) ==
  LET row == tables[call.stmt.t].rows[r] IN
  [c \in DOMAIN row |-> IF c \in DOMAIN call.stmt.set THEN call.stmt.set[c] ELSE row[c]]

\* Bug: the row stays among those to be updated.
RowUpdatedAgain(t, r) ==
  /\ Put(t, ReplaceRow(tables[t], r, Assigned(r)))
  /\ UNCHANGED <<txn, locks, nextTx, call>>

\* Bug: the undo record keeps the new row.
RowUpdatedForgetful(t, r) ==
  /\ Put(t, ReplaceRow(tables[t], r, Assigned(r)))
  /\ call' = [call EXCEPT !.todo = @ \ {r},
       !.log = Append(@, [op |-> "Update", t |-> t, r |-> r, row |-> Assigned(r)])]
  /\ UNCHANGED <<txn, locks, nextTx>>

RowUpdated(t, r) ==
  /\ Put(t, ReplaceRow(tables[t], r, Assigned(r)))
  /\ call' = [call EXCEPT !.todo = @ \ {r},
       !.log = Append(@, [op |-> "Update", t |-> t, r |-> r, row |-> tables[t].rows[r]])]
  /\ UNCHANGED <<txn, locks, nextTx>>

\* Bug: a row that violates a constraint is passed over.
UpdateRowSkipping ==
  /\ call.phase = "update"
  /\ \E r \in NextRows :
       \/ Writable(tables[call.stmt.t], Assigned(r), r) /\ RowUpdated(call.stmt.t, r)
       \/ /\ ~Writable(tables[call.stmt.t], Assigned(r), r)
          /\ call' = [call EXCEPT !.todo = @ \ {r}]
          /\ UNCHANGED <<tables, txn, locks, nextTx>>

\* A row that violates a constraint ends the statement: the rows before it
\* stay changed, and their undo records, still local, are dropped (`log` keeps
\* them to the return only for the properties to see that there were some).
UpdateRow ==
  /\ call.phase = "update"
  /\ \E r \in NextRows :
       \/ Writable(tables[call.stmt.t], Assigned(r), r) /\ RowUpdated(call.stmt.t, r)
       \/ /\ ~Writable(tables[call.stmt.t], Assigned(r), r)
          /\ call' = [call EXCEPT !.phase = "error", !.todo = {}]
          /\ UNCHANGED <<tables, txn, locks, nextTx>>

DeleteOne ==
  /\ call.phase = "delete"
  /\ \E r \in NextRows :
       LET t == call.stmt.t IN
       /\ Put(t, DeleteRow(tables[t], r))
       /\ call' = [call EXCEPT !.todo = @ \ {r},
            !.log = Append(@, [op |-> "Delete", t |-> t, r |-> r, row |-> tables[t].rows[r]])]
  /\ UNCHANGED <<txn, locks, nextTx>>

\* Bug: each undo record is recorded twice.
LoopDoneTwice ==
  /\ call.phase \in {"update", "delete"} /\ call.todo = {}
  /\ Records(call.log \o call.log)
  /\ Ends(call.stmt, "ok")
  /\ UNCHANGED <<tables, locks, nextTx>>

\* The loop is over: the undo records join those of the transaction.
LoopDone ==
  /\ call.phase \in {"update", "delete"} /\ call.todo = {}
  /\ Records(call.log)
  /\ Ends(call.stmt, "ok")
  /\ UNCHANGED <<tables, locks, nextTx>>

-----------------------------------------------------------------------------
(* Transactions.                                                           *)

BeginStmt(s) ==
  /\ Begins /\ s.op = "Begin"
  /\ \/ Active /\ Fails(s) /\ UNCHANGED locks
     \/ LET id == IF nextTx = 0 THEN 1 ELSE nextTx IN
        /\ ~Active
        /\ txn' = [id |-> id, undo |-> <<>>]
        /\ nextTx' = id + 1
        /\ Ends(s, "ok")
        /\ UNCHANGED <<tables, locks>>

\* Bug: only the shared locks are released.
UnlockedReaders(tx) == [t \in TableName |-> [locks[t] EXCEPT !.shared = @ \ {tx}]]

\* release_all
Unlocked(tx) == [t \in TableName |-> Released(locks[t], tx)]

CommitStmt(s) ==
  /\ Begins /\ s.op = "Commit"
  /\ \/ ~Active /\ Fails(s) /\ UNCHANGED locks
     \/ /\ Active
        /\ txn' = NoTxn
        /\ locks' = Unlocked(txn.id)
        /\ Ends(s, "ok")
        /\ UNCHANGED <<tables, nextTx>>

\* Bug: the locks are released before the changes are undone.
RollbackUnlocksFirst(s) ==
  /\ Begins /\ s.op = "Rollback"
  /\ \/ ~Active /\ Fails(s) /\ UNCHANGED locks
     \/ /\ Active
        /\ txn' = NoTxn
        /\ locks' = Unlocked(txn.id)
        /\ call' = [phase |-> "undo", stmt |-> s, todo |-> {}, log |-> txn.undo,
                    tx |-> txn.id]
        /\ UNCHANGED <<tables, nextTx>>

\* ROLLBACK takes the transaction out of the database first.
RollbackStmt(s) ==
  /\ Begins /\ s.op = "Rollback"
  /\ \/ ~Active /\ Fails(s) /\ UNCHANGED locks
     \/ /\ Active
        /\ txn' = NoTxn
        /\ call' = [phase |-> "undo", stmt |-> s, todo |-> {}, log |-> txn.undo,
                    tx |-> txn.id]
        /\ UNCHANGED <<tables, locks, nextTx>>

\* Whether apply_undo succeeds.
CanUndo(u) ==
  u.op # "CreateTable" =>
    /\ u.t \in DOMAIN tables
    /\ u.op = "CreateIndex" => u.i \in DOMAIN tables[u.t].idx
    /\ u.op \in {"Insert", "Update"} => u.r \in DOMAIN tables[u.t].rows
    /\ u.op \in {"Delete", "Update"} => Writable(tables[u.t], u.row, u.r)

\* apply_undo, when it does.
Undoes(u) ==
  \/ u.op = "CreateTable" /\ tables' = Without(u.t)
  \/ u.op = "CreateIndex" /\ Put(u.t, DropIndex(tables[u.t], u.i))
  \/ u.op = "Insert" /\ Put(u.t, DeleteRow(tables[u.t], u.r))
  \/ u.op = "Delete" /\ Put(u.t, PutRow(tables[u.t], u.r, u.row))
  \/ u.op = "Update" /\ Put(u.t, ReplaceRow(tables[u.t], u.r, u.row))

\* Bug: the undo log is applied from its beginning.
UndoOldest ==
  /\ call.phase = "undo" /\ call.log # <<>>
  /\ LET u == Head(call.log) IN
     \/ /\ CanUndo(u)
        /\ Undoes(u)
        /\ call' = [call EXCEPT !.log = Tail(@)]
     \/ /\ ~CanUndo(u)
        /\ call' = [call EXCEPT !.phase = "error"]
        /\ UNCHANGED tables
  /\ UNCHANGED <<txn, locks, nextTx>>

\* One undo record, the latest; one that cannot be applied ends the ROLLBACK
\* with the rest unapplied and the locks still held.
UndoLast ==
  /\ call.phase = "undo" /\ call.log # <<>>
  /\ LET u == Last(call.log) IN
     \/ /\ CanUndo(u)
        /\ Undoes(u)
        /\ call' = [call EXCEPT !.log = Front(@)]
     \/ /\ ~CanUndo(u)
        /\ call' = [call EXCEPT !.phase = "error"]
        /\ UNCHANGED tables
  /\ UNCHANGED <<txn, locks, nextTx>>

UndoDone ==
  /\ call.phase = "undo" /\ call.log = <<>>
  /\ locks' = Unlocked(call.tx)
  /\ call' = [call EXCEPT !.phase = "ok"]
  /\ UNCHANGED <<tables, txn, nextTx>>

-----------------------------------------------------------------------------
\* execute_statement.
Start(s) ==
  \/ Refused(s)
  \/ CreateTableStmt(s) \/ DropTableStmt(s)
  \/ CreateIndexStmt(s) \/ DropIndexStmt(s)
  \/ InsertStmt(s) \/ SelectStmt(s) \/ StartUpdate(s) \/ StartDelete(s)
  \/ BeginStmt(s) \/ CommitStmt(s) \/ RollbackStmt(s)

\* The bounds of the model: clients send no statement that would exceed them.
WithinBounds(s) ==
  /\ s.op = "Insert" /\ s.t \in DOMAIN tables => tables[s.t].next <= MaxRowId
  /\ s.op = "Begin" => nextTx <= MaxTx
  /\ Active /\ s.op \in {"CreateTable", "CreateIndex", "Insert", "Update", "Delete"}
       => Len(txn.undo) < MaxUndo

Starts == \E s \in Stmts : WithinBounds(s) /\ Start(s)

Continues == UpdateRow \/ DeleteOne \/ LoopDone \/ UndoLast \/ UndoDone

\* The result of the statement goes back to its client.
Returns ==
  /\ call.phase \in {"ok", "error"}
  /\ call' = Ready
  /\ UNCHANGED <<tables, txn, locks, nextTx>>

EngineNext == Starts \/ Continues \/ Returns

=============================================================================
