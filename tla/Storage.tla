------------------------------ MODULE Storage ------------------------------
(***************************************************************************)
(* The life of one table of the row store (src/src/storage.rs): every      *)
(* sequence of the public operations of `Table`, an operation that returns *)
(* an error being no step.  The row store writes rows and indexes in       *)
(* separate loops and returns early out of the middle of them, so the      *)
(* properties relate the rows, the indexes and the row-id counter.         *)
(***************************************************************************)
EXTENDS Table

CONSTANTS
  Schemas,    \* the schemas the table may be created with
  Rows,       \* the rows callers offer, well formed or not
  IndexName,  \* names of secondary indexes
  MaxRowId    \* bound of the model: no row gets a larger row id

ASSUME StorageAssumption == Schemas \subseteq Schema /\ MaxRowId \in Nat

VARIABLES
  table,  \* the table
  used    \* history: every row id that was ever stored

vars == <<table, used>>

Init ==
  /\ \E s \in Schemas : table = NewTable(s)
  /\ used = {}

\* insert
Insert(row) ==
  /\ table.next <= MaxRowId
  /\ Writable(table, row, NoRow)
  /\ table' = AddRow(table, row)
  /\ used' = used \cup {table.next}

\* insert_with_row_id.  ROLLBACK of a DELETE and the snapshot loader call it;
\* both pass the id of a row that is not in the table.
InsertWithRowId(r, row) ==
  /\ r \notin DOMAIN table.rows
  /\ Writable(table, row, r)
  /\ table' = PutRow(table, r, row)
  /\ used' = used \cup {r}

\* replace_row
Replace(r, row) ==
  /\ Writable(table, row, r)
  /\ table' = ReplaceRow(table, r, row)
  /\ UNCHANGED used

\* delete_row
Delete(r) ==
  /\ table' = DeleteRow(table, r)
  /\ UNCHANGED used

\* create_index
AddIndex(i, c, unique) ==
  /\ CanCreateIndex(table, i, c, unique)
  /\ table' = CreateIndex(table, i, c, unique)
  /\ UNCHANGED used

\* drop_index
RemoveIndex(i) ==
  /\ table' = DropIndex(table, i)
  /\ UNCHANGED used

Next ==
  \/ \E row \in Rows : Insert(row)
  \/ \E r \in 1..MaxRowId, row \in Rows : InsertWithRowId(r, row)
  \/ \E r \in DOMAIN table.rows, row \in Rows : Replace(r, row)
  \/ \E r \in DOMAIN table.rows : Delete(r)
  \/ \E i \in IndexName, c \in Column, unique \in BOOLEAN : AddIndex(i, c, unique)
  \/ \E i \in DOMAIN table.idx : RemoveIndex(i)

Spec == Init /\ [][Next]_vars

-----------------------------------------------------------------------------
(* Properties.                                                             *)

\* The table is a record of the declared shape, every row has the columns of
\* the schema and every index is on one of them (struct Table, storage.rs:18).
TypeOK == TableType(table) /\ used \subseteq RowId

\* Whatever was inserted, replaced, deleted and restored, each index holds
\* under each key exactly the rows that have the key: the three loops over
\* the indexes (storage.rs:46, 91, 109) and the build of a new one (:135)
\* leave no stale and no missing entry.
IndexMirrorsRows == IndexExact(table)

\* No two rows share a non-NULL key of a UNIQUE column or of a unique index,
\* also when the index was created after the rows or the row was put back
\* under its old id (validate_row_for_write, storage.rs:201).
KeysAreUnique == UniqueHolds(table)

\* Some index would refuse the key of `row` if it were stored under `r`.
SomeIndexRejects(r, row) ==
  \E i \in DOMAIN table.idx : Rejects(table.idx[i], row[table.idx[i].col], r)

\* A row that validation accepts is refused by no index, so the early return
\* in the middle of the loops over the indexes (storage.rs:47 and :92), which
\* would leave some indexes written and the rows not, is never taken
\* (docs/ARCHITECTURE.md:380).
IndexNeverRejects ==
  \A row \in Rows :
    /\ Writable(table, row, NoRow) => ~SomeIndexRejects(table.next, row)
    /\ \A r \in 1..MaxRowId : Writable(table, row, r) => ~SomeIndexRejects(r, row)

\* An automatic row id was never the id of another row, a deleted one
\* included: a DELETE can be undone under the old id, and no undo record
\* ever names two rows (next_row_id, storage.rs:37-38 and 50-52).
RowIdsAreNeverReused == \A r \in used : r < table.next

=============================================================================
