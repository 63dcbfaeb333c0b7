--------------------------- MODULE StorageProofs ---------------------------
(***************************************************************************)
(* The invariants of Storage, for every set of columns, data, schemas,     *)
(* rows and index names.  The inductive invariant is TableInv of the       *)
(* table together with "no id that was ever used reaches next_row_id":     *)
(* uniqueness alone is not inductive (an index must be exact for a unique  *)
(* index to be protected), nor is the exactness of the indexes (a row is   *)
(* added under an id that must be fresh).                                  *)
(***************************************************************************)
EXTENDS Storage, TableProofs

IInv ==
  /\ TableInv(table)
  /\ used \subseteq RowId
  /\ RowIdsAreNeverReused

LEMMA InitIInv == Init => IInv
<1> SUFFICES ASSUME Init PROVE IInv
  OBVIOUS
<1>1. PICK s \in Schemas : table = NewTable(s)
  BY DEF Init
<1>2. TableInv(table)
  BY <1>1, NewTableInv, StorageAssumption
<1> QED BY <1>2 DEF Init, IInv, RowIdsAreNeverReused

\* The id of an inserted row joins the used ones below the new next_row_id.
LEMMA UsedBelowNext ==
  ASSUME IInv, NEW r \in RowId, used' = used \cup {r},
         table'.next \in RowId, r < table'.next, table.next <= table'.next
  PROVE  used' \subseteq RowId /\ RowIdsAreNeverReused'
<1>1. used' \subseteq RowId
  BY DEF IInv
<1>2. ASSUME NEW q \in used'
      PROVE  q < table'.next
  <2>1. CASE q \in used
    <3>1. q < table.next /\ q \in Nat /\ table.next \in Nat /\ table'.next \in Nat
      BY <2>1 DEF IInv, RowIdsAreNeverReused, TableInv, TableType, RowId
    <3> QED BY <3>1
  <2> QED BY <2>1, <1>2
<1> QED BY <1>1, <1>2 DEF RowIdsAreNeverReused

LEMMA InsertStep ==
  ASSUME IInv, NEW row \in Rows, Insert(row)
  PROVE  IInv'
<1>1. /\ table.next \in RowId
      /\ table.next \notin DOMAIN table.rows
      /\ Writable(table, row, table.next)
  BY WritableUnderNext DEF IInv, Insert
<1>2. TableInv(table')
  BY <1>1, PutRowInv DEF IInv, Insert, AddRow
<1>3. table'.next = table.next + 1
  BY <1>1 DEF Insert, AddRow, PutRow, With, RowId
<1>4. used' \subseteq RowId /\ RowIdsAreNeverReused'
  BY <1>1, <1>3, UsedBelowNext DEF Insert, RowId
<1> QED BY <1>2, <1>4 DEF IInv

LEMMA InsertWithRowIdStep ==
  ASSUME IInv, NEW r \in 1..MaxRowId, NEW row \in Rows, InsertWithRowId(r, row)
  PROVE  IInv'
<1>1. r \in RowId /\ table.next \in RowId
  BY StorageAssumption DEF RowId, IInv, TableInv, TableType
<1>2. TableInv(table')
  BY <1>1, PutRowInv DEF IInv, InsertWithRowId
<1>3. table'.next = IF r >= table.next THEN r + 1 ELSE table.next
  BY DEF InsertWithRowId, PutRow, With
<1>4. used' \subseteq RowId /\ RowIdsAreNeverReused'
  BY <1>1, <1>3, UsedBelowNext DEF InsertWithRowId, RowId
<1> QED BY <1>2, <1>4 DEF IInv

LEMMA ReplaceStep ==
  ASSUME IInv, NEW r \in DOMAIN table.rows, NEW row \in Rows, Replace(r, row)
  PROVE  IInv'
<1>1. TableInv(table')
  BY ReplaceRowInv DEF IInv, Replace
<1> QED BY <1>1 DEF IInv, Replace, RowIdsAreNeverReused, ReplaceRow, With

LEMMA DeleteStep ==
  ASSUME IInv, NEW r \in DOMAIN table.rows, Delete(r)
  PROVE  IInv'
<1>1. TableInv(table')
  BY DeleteRowInv DEF IInv, Delete
<1> QED BY <1>1 DEF IInv, Delete, RowIdsAreNeverReused, DeleteRow, With

LEMMA AddIndexStep ==
  ASSUME IInv, NEW i \in IndexName, NEW c \in Column, NEW unique \in BOOLEAN,
         AddIndex(i, c, unique)
  PROVE  IInv'
<1>1. TableInv(table')
  BY CreateIndexInv DEF IInv, AddIndex
<1> QED BY <1>1 DEF IInv, AddIndex, RowIdsAreNeverReused, CreateIndex, With

LEMMA RemoveIndexStep ==
  ASSUME IInv, NEW i \in DOMAIN table.idx, RemoveIndex(i)
  PROVE  IInv'
<1>1. TableInv(table')
  BY DropIndexInv DEF IInv, RemoveIndex
<1> QED BY <1>1 DEF IInv, RemoveIndex, RowIdsAreNeverReused, DropIndex, With

LEMMA NextIInv == IInv /\ [Next]_vars => IInv'
<1> SUFFICES ASSUME IInv, [Next]_vars PROVE IInv'
  OBVIOUS
<1>1. CASE Next
  BY <1>1, InsertStep, InsertWithRowIdStep, ReplaceStep, DeleteStep,
     AddIndexStep, RemoveIndexStep DEF Next
<1>2. CASE UNCHANGED vars
  BY <1>2 DEF vars, IInv, RowIdsAreNeverReused
<1> QED BY <1>1, <1>2

\* IInv holds in every reachable state of the table.
THEOREM Inductive == Spec => []IInv
BY InitIInv, NextIInv, PTL DEF Spec

\* Type correctness of the table.
THEOREM TypeCorrect == Spec => []TypeOK
<1>1. IInv => TypeOK
  BY DEF IInv, TypeOK, TableInv
<1> QED BY <1>1, Inductive, PTL

\* The indexes mirror the rows after every operation, whatever the schema,
\* the rows offered and the number of indexes.
THEOREM IndexesMirrorRows == Spec => []IndexMirrorsRows
<1>1. IInv => IndexMirrorsRows
  BY DEF IInv, IndexMirrorsRows, TableInv
<1> QED BY <1>1, Inductive, PTL

\* No duplicate key ever gets into a UNIQUE column or a unique index.
THEOREM UniqueKeys == Spec => []KeysAreUnique
<1>1. IInv => KeysAreUnique
  BY DEF IInv, KeysAreUnique, TableInv
<1> QED BY <1>1, Inductive, PTL

\* No write fails half way through the indexes.
THEOREM NoHalfWrittenIndexes == Spec => []IndexNeverRejects
<1>1. IInv => IndexNeverRejects
  <2> SUFFICES ASSUME IInv, NEW row \in Rows
               PROVE  /\ Writable(table, row, NoRow)
                           => ~SomeIndexRejects(table.next, row)
                      /\ \A r \in 1..MaxRowId :
                           Writable(table, row, r) => ~SomeIndexRejects(r, row)
    BY DEF IndexNeverRejects
  <2>1. ASSUME NEW r, Writable(table, row, r)
        PROVE  ~SomeIndexRejects(r, row)
    BY <2>1, AcceptedRowIsNotRejected DEF IInv, SomeIndexRejects
  <2>2. Writable(table, row, NoRow) => Writable(table, row, table.next)
    BY WritableUnderNext DEF IInv
  <2> QED BY <2>1, <2>2
<1> QED BY <1>1, Inductive, PTL

\* A row id never names two rows.
THEOREM FreshRowIds == Spec => []RowIdsAreNeverReused
<1>1. IInv => RowIdsAreNeverReused
  BY DEF IInv
<1> QED BY <1>1, Inductive, PTL
=============================================================================
