------------------------------- MODULE Table -------------------------------
(***************************************************************************)
(* One in-memory table of the row store (src/src/storage.rs) with its      *)
(* secondary hash indexes (src/src/index.rs) and its schema                *)
(* (src/src/schema.rs), as a value: every operation of `Table` is a guard  *)
(* and a function from tables to tables, so that a state machine, the      *)
(* statement executor and the recovery code use the same definitions.      *)
(*                                                                         *)
(* A row is a function from its columns to data; a row id is a positive    *)
(* natural, `NoRow` is the `None` of `replacing_row_id`.  The row ids an   *)
(* index keeps for one key form a set: their order is left to the callers, *)
(* because building an index visits a HashMap in no particular order.      *)
(***************************************************************************)
EXTENDS Naturals

CONSTANTS
  Column,      \* column names
  Value,       \* the non-NULL data
  Null,        \* SQL NULL
  ColumnType   \* the values the declared type of each column accepts

ASSUME NullAssumption == Null \notin Value
ASSUME ColumnTypeAssumption == ColumnType \in [Column -> SUBSET Value]

Datum == Value \cup {Null}
RowId == Nat \ {0}
NoRow == 0

-----------------------------------------------------------------------------
(* Schema: which columns a table has, which refuse NULL, which are UNIQUE. *)

Schema ==
  {s \in [cols : SUBSET Column, notNull : SUBSET Column, unique : SUBSET Column] :
     /\ s.cols # {}
     /\ s.notNull \subseteq s.cols
     /\ s.unique \subseteq s.cols}

ValueFits(schema, c, v) ==
  IF v = Null THEN c \notin schema.notNull ELSE v \in ColumnType[c]

RowFits(schema, row) ==
  /\ row \in [schema.cols -> Datum]
  /\ \A c \in schema.cols : ValueFits(schema, c, row[c])

-----------------------------------------------------------------------------
(* Secondary index: the row ids stored under each non-NULL key.            *)

EmptyIndex(c, unique) ==
  [col |-> c, unique |-> unique, ent |-> [v \in Value |-> {}]]

Entered(ent, v, r) ==
  [k \in Value |-> IF k = v THEN ent[k] \cup {r} ELSE ent[k]]

Removed(ent, v, r) ==
  [k \in Value |-> IF k = v THEN ent[k] \ {r} ELSE ent[k]]

\* The test on which SecondaryIndex::insert returns an error.
Rejects(ix, v, r) ==
  ix.unique /\ v # Null /\ ix.ent[v] # {} /\ r \notin ix.ent[v]

-----------------------------------------------------------------------------
(* Table.                                                                  *)

\* Bug: row ids start at 0.
NewTableFromZero(schema) ==
  [schema |-> schema, next |-> 0, rows |-> [r \in {} |-> Null],
   idx |-> [i \in {} |-> Null]]

NewTable(schema) ==
  [schema |-> schema, next |-> 1, rows |-> [r \in {} |-> Null],
   idx |-> [i \in {} |-> Null]]

\* The table with its rows and indexes replaced; the schema never changes.
With(t, next, rows, idx) ==
  [schema |-> t.schema, next |-> next, rows |-> rows, idx |-> idx]

\* Every index of `t`, its entries changed by `f`.
EachIndex(t, f(_)) ==
  [i \in DOMAIN t.idx |->
     [col |-> t.idx[i].col, unique |-> t.idx[i].unique, ent |-> f(t.idx[i])]]

UniqueColumns(t) ==
  t.schema.unique \cup
  {t.idx[i].col : i \in {j \in DOMAIN t.idx : t.idx[j].unique}}

\* Bug: the row that is replaced counts too.
TakenByItself(t, c, v, r) == \E q \in DOMAIN t.rows : t.rows[q][c] = v

\* Some row other than `r` holds `v` in column `c`.
Taken(t, c, v, r) == \E q \in DOMAIN t.rows : q # r /\ t.rows[q][c] = v

\* Bug: only the UNIQUE columns of the schema are tested.
WritableIgnoringIndexes(t, row, r) ==
  /\ RowFits(t.schema, row)
  /\ \A c \in t.schema.unique : row[c] # Null => ~Taken(t, c, row[c], r)

\* validate_row_for_write: the schema accepts the row, and no row but the
\* one it replaces has its key in a UNIQUE column or under a unique index.
Writable(t, row, r) ==
  /\ RowFits(t.schema, row)
  /\ \A c \in UniqueColumns(t) : row[c] # Null => ~Taken(t, c, row[c], r)

\* Bug: a row put back under its old id leaves next_row_id where it is.
PutRowKeepingNext(t, r, row) ==
  With(t, t.next,
       [q \in DOMAIN t.rows \cup {r} |-> IF q = r THEN row ELSE t.rows[q]],
       EachIndex(t, LAMBDA ix : Entered(ix.ent, row[ix.col], r)))

\* insert_with_row_id, after its validation.
PutRow(t, r, row) ==
  With(t, IF r >= t.next THEN r + 1 ELSE t.next,
       [q \in DOMAIN t.rows \cup {r} |-> IF q = r THEN row ELSE t.rows[q]],
       EachIndex(t, LAMBDA ix : Entered(ix.ent, row[ix.col], r)))

\* insert: the id comes from next_row_id.
AddRow(t, row) == PutRow(t, t.next, row)

\* Bug: an index whose key changes gets the new entry and keeps the old one.
ReplaceRowForgettingKey(t, r, row) ==
  With(t, t.next, [t.rows EXCEPT ![r] = row],
       EachIndex(t, LAMBDA ix : Entered(ix.ent, row[ix.col], r)))

\* replace_row: SecondaryIndex::update does nothing when the key is unchanged.
ReplaceRow(t, r, row) ==
  With(t, t.next, [t.rows EXCEPT ![r] = row],
       EachIndex(t, LAMBDA ix :
         IF t.rows[r][ix.col] = row[ix.col] THEN ix.ent
         ELSE Entered(Removed(ix.ent, t.rows[r][ix.col], r), row[ix.col], r)))

DeleteRow(t, r) ==
  With(t, t.next, [q \in DOMAIN t.rows \ {r} |-> t.rows[q]],
       EachIndex(t, LAMBDA ix : Removed(ix.ent, t.rows[r][ix.col], r)))

\* The entries create_index collects from the rows already there.
BuiltEntries(t, c) ==
  [v \in Value |-> {r \in DOMAIN t.rows : t.rows[r][c] = v}]

\* Two rows share a non-NULL key of column `c`.
HasDuplicates(t, c) ==
  \E r, q \in DOMAIN t.rows :
    r # q /\ t.rows[r][c] # Null /\ t.rows[r][c] = t.rows[q][c]

\* Bug: CREATE UNIQUE INDEX does not look at the rows already there.
CanCreateIndexUnchecked(t, i, c, unique) ==
  i \notin DOMAIN t.idx /\ c \in t.schema.cols

CanCreateIndex(t, i, c, unique) ==
  /\ i \notin DOMAIN t.idx
  /\ c \in t.schema.cols
  /\ unique => ~HasDuplicates(t, c)

CreateIndex(t, i, c, unique) ==
  With(t, t.next, t.rows,
       [j \in DOMAIN t.idx \cup {i} |->
          IF j = i THEN [col |-> c, unique |-> unique, ent |-> BuiltEntries(t, c)]
                   ELSE t.idx[j]])

DropIndex(t, i) ==
  With(t, t.next, t.rows, [j \in DOMAIN t.idx \ {i} |-> t.idx[j]])

-----------------------------------------------------------------------------
(* What is true of a table between two operations.                         *)

TableType(t) ==
  /\ t.schema \in Schema
  /\ t.next \in RowId
  /\ DOMAIN t.rows \subseteq RowId
  /\ t.rows \in [DOMAIN t.rows -> [t.schema.cols -> Datum]]
  /\ \A i \in DOMAIN t.idx :
       /\ t.idx[i].col \in t.schema.cols
       /\ t.idx[i].unique \in BOOLEAN
       /\ DOMAIN t.idx[i].ent = Value
       /\ \A v \in Value : t.idx[i].ent[v] \subseteq RowId

\* Every stored row satisfies the schema it was declared with.
RowsFit(t) == \A r \in DOMAIN t.rows : RowFits(t.schema, t.rows[r])

\* The next automatic row id is above every row id in use.
NextIsFresh(t) == \A r \in DOMAIN t.rows : r < t.next

\* No two rows share a non-NULL key of a UNIQUE column or of a unique index.
UniqueHolds(t) == \A c \in UniqueColumns(t) : ~HasDuplicates(t, c)

\* Each index holds, under each key, exactly the rows that have the key.
IndexExact(t) ==
  \A i \in DOMAIN t.idx : \A v \in Value :
    t.idx[i].ent[v] = {r \in DOMAIN t.rows : t.rows[r][t.idx[i].col] = v}

TableInv(t) ==
  TableType(t) /\ RowsFit(t) /\ NextIsFresh(t) /\ UniqueHolds(t) /\ IndexExact(t)

=============================================================================
