---------------------------- MODULE TableProofs ----------------------------
(***************************************************************************)
(* Every operation of a table preserves TableInv, and no index refuses a   *)
(* row that validation accepts.  The lemmas are about values, so that the  *)
(* proofs of the state machines built on Table cite them by name.  So are  *)
(* those about what clients see of a table, and about sessions.            *)
(***************************************************************************)
EXTENDS Sessions, TLAPS, FiniteSetTheorems, SequenceTheorems

\* A row the schema accepts holds data, and no other column.
LEMMA FittingRow ==
  ASSUME NEW schema \in Schema, NEW row, RowFits(schema, row)
  PROVE  /\ row \in [schema.cols -> Datum]
         /\ DOMAIN row = schema.cols
         /\ \A c \in schema.cols : row[c] \in Datum
BY DEF RowFits

\* A new table has no row and no index.
LEMMA NewTableInv ==
  ASSUME NEW schema \in Schema
  PROVE  TableInv(NewTable(schema))
<1> DEFINE t == NewTable(schema)
<1>1. t.schema = schema /\ t.next = 1 /\ DOMAIN t.rows = {} /\ DOMAIN t.idx = {}
  BY DEF NewTable
<1>2. TableType(t)
  <2>1. t.rows \in [DOMAIN t.rows -> [t.schema.cols -> Datum]]
    BY DEF NewTable
  <2> HIDE DEF t
  <2> QED BY <1>1, <2>1 DEF TableType, RowId
<1>3. RowsFit(t) /\ NextIsFresh(t) /\ IndexExact(t)
  BY <1>1 DEF RowsFit, NextIsFresh, IndexExact
<1>4. UniqueHolds(t)
  BY <1>1 DEF UniqueHolds, HasDuplicates
<1> HIDE DEF t
<1> QED BY <1>2, <1>3, <1>4 DEF TableInv, t

\* The columns on which a table refuses duplicates are columns of its schema.
LEMMA UniqueColumnsAreColumns ==
  ASSUME NEW t, TableType(t)
  PROVE  UniqueColumns(t) \subseteq t.schema.cols
BY DEF UniqueColumns, TableType, Schema

\* Storing an accepted row under an id that no row has (insert_with_row_id).
LEMMA PutRowInv ==
  ASSUME NEW t, TableInv(t), NEW r \in RowId, r \notin DOMAIN t.rows,
         NEW row, Writable(t, row, r)
  PROVE  TableInv(PutRow(t, r, row))
<1> DEFINE u == PutRow(t, r, row)
<1>1. /\ u.schema = t.schema
      /\ u.next = IF r >= t.next THEN r + 1 ELSE t.next
      /\ u.rows = [q \in DOMAIN t.rows \cup {r} |-> IF q = r THEN row ELSE t.rows[q]]
      /\ DOMAIN u.idx = DOMAIN t.idx
      /\ \A i \in DOMAIN t.idx :
           /\ u.idx[i].col = t.idx[i].col
           /\ u.idx[i].unique = t.idx[i].unique
           /\ u.idx[i].ent = Entered(t.idx[i].ent, row[t.idx[i].col], r)
  BY DEF PutRow, With, EachIndex
<1>2. DOMAIN u.rows = DOMAIN t.rows \cup {r} /\ u.rows[r] = row
      /\ \A q \in DOMAIN t.rows : u.rows[q] = t.rows[q]
  BY <1>1
<1> HIDE DEF u
<1>3. TableType(t) /\ RowsFit(t) /\ NextIsFresh(t) /\ UniqueHolds(t) /\ IndexExact(t)
  BY DEF TableInv
<1>4. RowFits(t.schema, row)
  BY DEF Writable
<1>5. row \in [t.schema.cols -> Datum]
  BY <1>3, <1>4, FittingRow DEF TableType
<1>6. TableType(u)
  <2>1. u.schema \in Schema /\ u.next \in RowId /\ DOMAIN u.rows \subseteq RowId
    BY <1>1, <1>2, <1>3 DEF TableType, RowId
  <2>2. u.rows \in [DOMAIN u.rows -> [u.schema.cols -> Datum]]
    BY <1>1, <1>2, <1>3, <1>5 DEF TableType
  <2>3. \A i \in DOMAIN u.idx :
          /\ u.idx[i].col \in u.schema.cols
          /\ u.idx[i].unique \in BOOLEAN
          /\ DOMAIN u.idx[i].ent = Value
          /\ \A v \in Value : u.idx[i].ent[v] \subseteq RowId
    <3> SUFFICES ASSUME NEW i \in DOMAIN t.idx
                 PROVE  /\ t.idx[i].col \in t.schema.cols
                        /\ t.idx[i].unique \in BOOLEAN
                        /\ DOMAIN u.idx[i].ent = Value
                        /\ \A v \in Value : u.idx[i].ent[v] \subseteq RowId
      BY <1>1
    <3>1. u.idx[i].ent = Entered(t.idx[i].ent, row[t.idx[i].col], r)
      BY <1>1
    <3>2. \A v \in Value : t.idx[i].ent[v] \subseteq RowId
      BY <1>3 DEF TableType
    <3> QED BY <1>3, <3>1, <3>2 DEF TableType, Entered
  <2> QED BY <2>1, <2>2, <2>3 DEF TableType
<1>7. RowsFit(u)
  BY <1>1, <1>2, <1>3, <1>4 DEF RowsFit
<1>8. NextIsFresh(u)
  BY <1>1, <1>2, <1>3 DEF NextIsFresh, TableType, RowId
<1>9. UniqueColumns(u) = UniqueColumns(t)
  BY <1>1 DEF UniqueColumns
<1>10. UniqueHolds(u)
  <2> SUFFICES ASSUME NEW c \in UniqueColumns(t),
                      NEW p \in DOMAIN u.rows, NEW q \in DOMAIN u.rows,
                      p # q, u.rows[p][c] # Null, u.rows[p][c] = u.rows[q][c]
               PROVE  FALSE
    BY <1>9 DEF UniqueHolds, HasDuplicates
  <2>1. CASE p \in DOMAIN t.rows /\ q \in DOMAIN t.rows
    BY <2>1, <1>2, <1>3 DEF UniqueHolds, HasDuplicates
  <2>2. CASE p = r \/ q = r
    BY <2>2, <1>2 DEF Writable, Taken
  <2> QED BY <2>1, <2>2, <1>2
<1>11. IndexExact(u)
  <2> SUFFICES ASSUME NEW i \in DOMAIN u.idx, NEW v \in Value
               PROVE  u.idx[i].ent[v]
                        = {q \in DOMAIN u.rows : u.rows[q][u.idx[i].col] = v}
    BY DEF IndexExact
  <2>1. t.idx[i].ent[v] = {q \in DOMAIN t.rows : t.rows[q][t.idx[i].col] = v}
    BY <1>1, <1>3 DEF IndexExact
  <2>2. u.idx[i].ent[v] = IF v = row[t.idx[i].col] THEN t.idx[i].ent[v] \cup {r}
                                                   ELSE t.idx[i].ent[v]
    <3>1. u.idx[i].ent = Entered(t.idx[i].ent, row[t.idx[i].col], r)
      BY <1>1
    <3> QED BY <3>1 DEF Entered
  <2>3. u.idx[i].col = t.idx[i].col
    BY <1>1
  <2> QED BY <2>1, <2>2, <2>3, <1>2
<1> QED BY <1>6, <1>7, <1>8, <1>10, <1>11 DEF TableInv, u

\* A row validated for no id in particular may be stored under the next one.
LEMMA WritableUnderNext ==
  ASSUME NEW t, TableInv(t), NEW row, Writable(t, row, NoRow)
  PROVE  t.next \in RowId /\ t.next \notin DOMAIN t.rows /\ Writable(t, row, t.next)
<1>1. t.next \in RowId /\ DOMAIN t.rows \subseteq RowId
  BY DEF TableInv, TableType
<1>2. t.next \notin DOMAIN t.rows
  BY <1>1 DEF TableInv, NextIsFresh, RowId
<1>3. \A c, v : Taken(t, c, v, t.next) => Taken(t, c, v, NoRow)
  BY <1>1 DEF Taken, NoRow, RowId
<1> QED BY <1>1, <1>2, <1>3 DEF Writable

\* Replacing a stored row by an accepted one (replace_row).
LEMMA ReplaceRowInv ==
  ASSUME NEW t, TableInv(t), NEW r \in DOMAIN t.rows,
         NEW row, Writable(t, row, r)
  PROVE  TableInv(ReplaceRow(t, r, row))
<1> DEFINE u == ReplaceRow(t, r, row)
           NewEnt(i) == IF t.rows[r][t.idx[i].col] = row[t.idx[i].col] THEN t.idx[i].ent
                        ELSE Entered(Removed(t.idx[i].ent, t.rows[r][t.idx[i].col], r),
                                     row[t.idx[i].col], r)
<1>1. /\ u.schema = t.schema
      /\ u.next = t.next
      /\ u.rows = [t.rows EXCEPT ![r] = row]
      /\ DOMAIN u.idx = DOMAIN t.idx
      /\ \A i \in DOMAIN t.idx :
           /\ u.idx[i].col = t.idx[i].col
           /\ u.idx[i].unique = t.idx[i].unique
           /\ u.idx[i].ent = NewEnt(i)
  BY DEF ReplaceRow, With, EachIndex
<1>2. DOMAIN u.rows = DOMAIN t.rows /\ u.rows[r] = row
      /\ \A q \in DOMAIN t.rows : q # r => u.rows[q] = t.rows[q]
  BY <1>1
<1> HIDE DEF u
<1>3. TableType(t) /\ RowsFit(t) /\ NextIsFresh(t) /\ UniqueHolds(t) /\ IndexExact(t)
  BY DEF TableInv
<1>4. RowFits(t.schema, row)
  BY DEF Writable
<1>5. row \in [t.schema.cols -> Datum]
  BY <1>3, <1>4, FittingRow DEF TableType
<1>6. \A i \in DOMAIN u.idx, v \in Value :
        /\ DOMAIN u.idx[i].ent = Value
        /\ u.idx[i].ent[v] = {q \in DOMAIN u.rows : u.rows[q][u.idx[i].col] = v}
  <2> TAKE i \in DOMAIN u.idx, v \in Value
  <2> DEFINE c == u.idx[i].col
  <2>1. /\ i \in DOMAIN t.idx /\ c = t.idx[i].col
        /\ t.idx[i].ent[v] = {q \in DOMAIN t.rows : t.rows[q][c] = v}
    BY <1>1, <1>3 DEF IndexExact
  <2>2. u.idx[i].ent = NewEnt(i) /\ DOMAIN t.idx[i].ent = Value
    BY <1>1, <1>3, <2>1 DEF TableType
  <2>3. CASE t.rows[r][c] = row[c]
    <3>1. u.idx[i].ent = t.idx[i].ent
      BY <2>1, <2>2, <2>3
    <3>2. \A q \in DOMAIN t.rows : u.rows[q][c] = t.rows[q][c]
      BY <1>2, <2>3
    <3> QED BY <2>1, <2>2, <3>1, <3>2, <1>2
  <2>4. CASE t.rows[r][c] # row[c]
    <3>1. u.idx[i].ent = Entered(Removed(t.idx[i].ent, t.rows[r][c], r), row[c], r)
      BY <2>1, <2>2, <2>4
    <3>2. DOMAIN u.idx[i].ent = Value
      BY <3>1 DEF Entered
    <3>3. u.idx[i].ent[v] = IF v = row[c] THEN t.idx[i].ent[v] \cup {r}
                            ELSE IF v = t.rows[r][c] THEN t.idx[i].ent[v] \ {r}
                            ELSE t.idx[i].ent[v]
      BY <3>1, <2>4 DEF Entered, Removed
    <3>4. \A q \in DOMAIN t.rows : q \in u.idx[i].ent[v] <=> u.rows[q][c] = v
      <4> TAKE q \in DOMAIN t.rows
      <4>1. q \in t.idx[i].ent[v] <=> t.rows[q][c] = v
        BY <2>1
      <4>2. CASE q = r
        <5>1. u.rows[q][c] = row[c]
          BY <1>2, <4>2
        <5> QED BY <2>4, <3>3, <4>1, <4>2, <5>1
      <4>3. CASE q # r
        <5>1. u.rows[q][c] = t.rows[q][c]
          BY <1>2, <4>3
        <5> QED BY <3>3, <4>1, <4>3, <5>1
      <4> QED BY <4>2, <4>3
    <3>5. u.idx[i].ent[v] \subseteq DOMAIN t.rows
      BY <2>1, <3>3
    <3> QED BY <1>2, <3>2, <3>4, <3>5
  <2> QED BY <2>3, <2>4
<1>7. TableType(u)
  <2>1. u.schema \in Schema /\ u.next \in RowId /\ DOMAIN u.rows \subseteq RowId
    BY <1>1, <1>2, <1>3 DEF TableType
  <2>2. u.rows \in [DOMAIN u.rows -> [u.schema.cols -> Datum]]
    BY <1>1, <1>2, <1>3, <1>5 DEF TableType
  <2>3. \A i \in DOMAIN u.idx :
          u.idx[i].col \in u.schema.cols /\ u.idx[i].unique \in BOOLEAN
    BY <1>1, <1>3 DEF TableType
  <2>4. \A i \in DOMAIN u.idx : \A v \in Value : u.idx[i].ent[v] \subseteq RowId
    BY <1>6, <2>1
  <2>5. \A i \in DOMAIN u.idx : DOMAIN u.idx[i].ent = Value
    <3> TAKE i \in DOMAIN u.idx
    <3>1. i \in DOMAIN t.idx /\ u.idx[i].ent = NewEnt(i)
      BY <1>1
    <3>2. DOMAIN t.idx[i].ent = Value
      BY <1>3, <3>1 DEF TableType
    <3> QED BY <3>1, <3>2 DEF Entered
  <2> QED BY <2>1, <2>2, <2>3, <2>4, <2>5 DEF TableType
<1>8. RowsFit(u) /\ NextIsFresh(u)
  BY <1>1, <1>2, <1>3, <1>4 DEF RowsFit, NextIsFresh
<1>9. UniqueColumns(u) = UniqueColumns(t)
  BY <1>1 DEF UniqueColumns
<1>10. UniqueHolds(u)
  <2> SUFFICES ASSUME NEW c \in UniqueColumns(t),
                      NEW p \in DOMAIN u.rows, NEW q \in DOMAIN u.rows,
                      p # q, u.rows[p][c] # Null, u.rows[p][c] = u.rows[q][c]
               PROVE  FALSE
    BY <1>9 DEF UniqueHolds, HasDuplicates
  <2>1. CASE p # r /\ q # r
    BY <2>1, <1>2, <1>3 DEF UniqueHolds, HasDuplicates
  <2>2. CASE p = r \/ q = r
    BY <2>2, <1>2 DEF Writable, Taken
  <2> QED BY <2>1, <2>2
<1>11. IndexExact(u)
  BY <1>6 DEF IndexExact
<1> QED BY <1>7, <1>8, <1>10, <1>11 DEF TableInv, u

\* Deleting a stored row (delete_row).
LEMMA DeleteRowInv ==
  ASSUME NEW t, TableInv(t), NEW r \in DOMAIN t.rows
  PROVE  TableInv(DeleteRow(t, r))
<1> DEFINE u == DeleteRow(t, r)
<1>1. /\ u.schema = t.schema
      /\ u.next = t.next
      /\ u.rows = [q \in DOMAIN t.rows \ {r} |-> t.rows[q]]
      /\ DOMAIN u.idx = DOMAIN t.idx
      /\ \A i \in DOMAIN t.idx :
           /\ u.idx[i].col = t.idx[i].col
           /\ u.idx[i].unique = t.idx[i].unique
           /\ u.idx[i].ent = Removed(t.idx[i].ent, t.rows[r][t.idx[i].col], r)
  BY DEF DeleteRow, With, EachIndex
<1>2. DOMAIN u.rows = DOMAIN t.rows \ {r}
      /\ \A q \in DOMAIN u.rows : u.rows[q] = t.rows[q]
  BY <1>1
<1> HIDE DEF u
<1>3. TableType(t) /\ RowsFit(t) /\ NextIsFresh(t) /\ UniqueHolds(t) /\ IndexExact(t)
  BY DEF TableInv
<1>4. \A i \in DOMAIN u.idx, v \in Value :
        /\ DOMAIN u.idx[i].ent = Value
        /\ u.idx[i].ent[v] = {q \in DOMAIN u.rows : u.rows[q][u.idx[i].col] = v}
  <2> TAKE i \in DOMAIN u.idx, v \in Value
  <2> DEFINE c == u.idx[i].col
  <2>1. /\ i \in DOMAIN t.idx /\ c = t.idx[i].col
        /\ t.idx[i].ent[v] = {q \in DOMAIN t.rows : t.rows[q][c] = v}
    BY <1>1, <1>3 DEF IndexExact
  <2>2. u.idx[i].ent = Removed(t.idx[i].ent, t.rows[r][c], r)
    BY <1>1, <2>1
  <2>3. /\ DOMAIN u.idx[i].ent = Value
        /\ u.idx[i].ent[v] = IF v = t.rows[r][c] THEN t.idx[i].ent[v] \ {r}
                                                 ELSE t.idx[i].ent[v]
    BY <2>2 DEF Removed
  <2> QED BY <2>1, <2>3, <1>2
<1>5. TableType(u)
  <2>1. u.schema \in Schema /\ u.next \in RowId /\ DOMAIN u.rows \subseteq RowId
    BY <1>1, <1>2, <1>3 DEF TableType
  <2>2. u.rows \in [DOMAIN u.rows -> [u.schema.cols -> Datum]]
    BY <1>1, <1>2, <1>3 DEF TableType
  <2>3. \A i \in DOMAIN u.idx :
          u.idx[i].col \in u.schema.cols /\ u.idx[i].unique \in BOOLEAN
    BY <1>1, <1>3 DEF TableType
  <2>4. \A i \in DOMAIN u.idx : \A v \in Value : u.idx[i].ent[v] \subseteq RowId
    BY <1>4, <2>1
  <2>5. \A i \in DOMAIN u.idx : DOMAIN u.idx[i].ent = Value
    BY <1>1 DEF Removed
  <2> QED BY <2>1, <2>2, <2>3, <2>4, <2>5 DEF TableType
<1>6. RowsFit(u) /\ NextIsFresh(u)
  BY <1>1, <1>2, <1>3 DEF RowsFit, NextIsFresh
<1>7. UniqueHolds(u)
  <2>1. UniqueColumns(u) = UniqueColumns(t)
    BY <1>1 DEF UniqueColumns
  <2> QED BY <2>1, <1>2, <1>3 DEF UniqueHolds, HasDuplicates
<1>8. IndexExact(u)
  BY <1>4 DEF IndexExact
<1> QED BY <1>5, <1>6, <1>7, <1>8 DEF TableInv, u

\* A new index on the rows already there (create_index).
LEMMA CreateIndexInv ==
  ASSUME NEW t, TableInv(t), NEW i, NEW c, NEW unique \in BOOLEAN,
         CanCreateIndex(t, i, c, unique)
  PROVE  TableInv(CreateIndex(t, i, c, unique))
<1> DEFINE u == CreateIndex(t, i, c, unique)
<1>1. /\ u.schema = t.schema
      /\ u.next = t.next
      /\ u.rows = t.rows
      /\ DOMAIN u.idx = DOMAIN t.idx \cup {i}
      /\ u.idx[i] = [col |-> c, unique |-> unique, ent |-> BuiltEntries(t, c)]
      /\ \A j \in DOMAIN t.idx : u.idx[j] = t.idx[j]
  BY DEF CreateIndex, With, CanCreateIndex
<1> HIDE DEF u
<1>2. TableType(t) /\ RowsFit(t) /\ NextIsFresh(t) /\ UniqueHolds(t) /\ IndexExact(t)
  BY DEF TableInv
<1>3. c \in t.schema.cols /\ (unique => ~HasDuplicates(t, c))
  BY DEF CanCreateIndex
<1>4. TableType(u)
  <2>1. /\ u.idx[i].col \in u.schema.cols
        /\ u.idx[i].unique \in BOOLEAN
        /\ DOMAIN u.idx[i].ent = Value
        /\ \A v \in Value : u.idx[i].ent[v] \subseteq RowId
    BY <1>1, <1>2, <1>3 DEF BuiltEntries, TableType
  <2> QED BY <1>1, <1>2, <2>1 DEF TableType
<1>5. RowsFit(u) /\ NextIsFresh(u)
  BY <1>1, <1>2 DEF RowsFit, NextIsFresh
<1>6. UniqueHolds(u)
  <2>1. UniqueColumns(u) \subseteq
          UniqueColumns(t) \cup (IF unique THEN {c} ELSE {})
    BY <1>1 DEF UniqueColumns
  <2>2. \A d : HasDuplicates(u, d) <=> HasDuplicates(t, d)
    BY <1>1 DEF HasDuplicates
  <2> QED BY <1>2, <1>3, <2>1, <2>2 DEF UniqueHolds
<1>7. IndexExact(u)
  BY <1>1, <1>2 DEF IndexExact, BuiltEntries
<1> QED BY <1>4, <1>5, <1>6, <1>7 DEF TableInv, u

\* Dropping an index (drop_index).
LEMMA DropIndexInv ==
  ASSUME NEW t, TableInv(t), NEW i
  PROVE  TableInv(DropIndex(t, i))
<1> DEFINE u == DropIndex(t, i)
<1>1. /\ u.schema = t.schema
      /\ u.next = t.next
      /\ u.rows = t.rows
      /\ DOMAIN u.idx = DOMAIN t.idx \ {i}
      /\ \A j \in DOMAIN u.idx : u.idx[j] = t.idx[j]
  BY DEF DropIndex, With
<1> HIDE DEF u
<1>2. TableType(t) /\ RowsFit(t) /\ NextIsFresh(t) /\ UniqueHolds(t) /\ IndexExact(t)
  BY DEF TableInv
<1>3. TableType(u) /\ RowsFit(u) /\ NextIsFresh(u)
  BY <1>1, <1>2 DEF TableType, RowsFit, NextIsFresh
<1>4. UniqueHolds(u)
  <2>1. UniqueColumns(u) \subseteq UniqueColumns(t)
    BY <1>1 DEF UniqueColumns
  <2> QED BY <1>1, <1>2, <2>1 DEF UniqueHolds, HasDuplicates
<1>5. IndexExact(u)
  BY <1>1, <1>2 DEF IndexExact
<1> QED BY <1>3, <1>4, <1>5 DEF TableInv, u

\* No index refuses the key of a row that validation accepts.
LEMMA AcceptedRowIsNotRejected ==
  ASSUME NEW t, TableInv(t), NEW r, NEW row, Writable(t, row, r),
         NEW i \in DOMAIN t.idx
  PROVE  ~Rejects(t.idx[i], row[t.idx[i].col], r)
<1> DEFINE c == t.idx[i].col
<1>1. TableType(t) /\ IndexExact(t) /\ RowFits(t.schema, row)
  BY DEF TableInv, Writable
<1>2. row[c] \in Datum
  BY <1>1, FittingRow DEF TableType
<1> SUFFICES ASSUME Rejects(t.idx[i], row[c], r)
             PROVE  FALSE
  OBVIOUS
<1>3. row[c] \in Value /\ t.idx[i].unique
  BY <1>2 DEF Rejects, Datum
<1>4. PICK q \in DOMAIN t.rows : q # r /\ t.rows[q][c] = row[c]
  BY <1>1, <1>3 DEF Rejects, IndexExact
<1>5. c \in UniqueColumns(t) /\ row[c] # Null
  BY <1>3, NullAssumption DEF UniqueColumns
<1> QED BY <1>4, <1>5 DEF Writable, Taken

-----------------------------------------------------------------------------
(* What clients see of the operations of a table.                          *)

\* Adding, dropping and changing undo each other.
LEMMA AddedAndDropped ==
  ASSUME NEW f, f = [z \in DOMAIN f |-> f[z]], NEW x, NEW y
  PROVE  /\ x \notin DOMAIN f => Dropped(Added(f, x, y), x) = f
         /\ x \in DOMAIN f =>
              /\ Added(Dropped(f, x), x, f[x]) = f
              /\ Added(f, x, y) = [f EXCEPT ![x] = y]
              /\ Added([f EXCEPT ![x] = y], x, f[x]) = f
<1>1. ASSUME x \notin DOMAIN f
      PROVE  Dropped(Added(f, x, y), x) = f
  BY <1>1 DEF Added, Dropped
<1>2. ASSUME x \in DOMAIN f
      PROVE  Added(Dropped(f, x), x, f[x]) = f
  BY <1>2 DEF Added, Dropped
<1>3. ASSUME x \in DOMAIN f
      PROVE  Added(f, x, y) = [f EXCEPT ![x] = y]
  BY <1>3 DEF Added
<1>4. ASSUME x \in DOMAIN f
      PROVE  Added([f EXCEPT ![x] = y], x, f[x]) = f
  BY <1>4 DEF Added
<1> QED BY <1>1, <1>2, <1>3, <1>4

\* The columns on which a table refuses duplicates can be seen.
LEMMA SeenUniqueColumns ==
  ASSUME NEW t
  PROVE  UniqueColumns(t) =
           TableView(t).schema.unique \cup
           {x[1] : x \in {y \in Range(TableView(t).idx) : y[2]}}
<1> DEFINE x == TableView(t)
<1>1. x.schema = t.schema /\ DOMAIN x.idx = DOMAIN t.idx
      /\ \A i \in DOMAIN t.idx : x.idx[i][1] = t.idx[i].col /\ x.idx[i][2] = t.idx[i].unique
  BY DEF TableView
<1> HIDE DEF x
<1> QED BY <1>1 DEF UniqueColumns, Range, x

\* A sound table looks sound.
LEMMA SoundIsSeen ==
  ASSUME NEW t, TableInv(t)
  PROVE  Sound(TableView(t))
<1>1. TableView(t).rows = t.rows /\ TableView(t).schema = t.schema
  BY DEF TableView
<1>2. \A r \in DOMAIN t.rows : RowFits(t.schema, t.rows[r])
  BY DEF TableInv, RowsFit, RowFits, ValueFits, Datum
<1>3. \A c \in UniqueColumns(t) : \A r, q \in DOMAIN t.rows :
        r # q /\ t.rows[r][c] # Null => t.rows[r][c] # t.rows[q][c]
  BY DEF TableInv, UniqueHolds, HasDuplicates
<1> QED BY <1>1, <1>2, <1>3, SeenUniqueColumns DEF Sound

\* The row of an undo record can be written when the table with that row in
\* it looks sound.
LEMMA WritableWhenSound ==
  ASSUME NEW t, TableInv(t), NEW u, u.op \in {"Delete", "Update"},
         Sound(UndoneIn(TableView(t), u))
  PROVE  Writable(t, u.row, u.r)
<1> DEFINE x == UndoneIn(TableView(t), u)
<1>1. /\ x.schema = t.schema /\ x.idx = TableView(t).idx
      /\ DOMAIN x.rows = DOMAIN t.rows \cup {u.r} /\ x.rows[u.r] = u.row
      /\ \A q \in DOMAIN t.rows : q # u.r => x.rows[q] = t.rows[q]
  BY DEF UndoneIn, TableView, WithRows, Added
<1> HIDE DEF x
<1>2. TableView(t).schema = t.schema
  BY DEF TableView
<1>3. RowFits(t.schema, u.row)
  BY <1>1 DEF Sound, RowFits, ValueFits, Datum, x
<1>4. ASSUME NEW c \in UniqueColumns(t), u.row[c] # Null
      PROVE  ~Taken(t, c, u.row[c], u.r)
  <2>1. c \in x.schema.unique \cup {y[1] : y \in {z \in Range(x.idx) : z[2]}}
    BY <1>1, <1>2, SeenUniqueColumns
  <2>2. \A r, q \in DOMAIN x.rows :
          r # q /\ x.rows[r][c] # Null => x.rows[r][c] # x.rows[q][c]
    BY <2>1 DEF Sound, x
  <2> QED BY <1>1, <1>4, <2>2 DEF Taken
<1> QED BY <1>3, <1>4 DEF Writable

\* The operations of a table, as they are seen.
LEMMA SeenPutRow ==
  ASSUME NEW t, NEW r, NEW row
  PROVE  TableView(PutRow(t, r, row)) = WithRows(TableView(t), Added(t.rows, r, row))
BY DEF PutRow, With, EachIndex, TableView, WithRows, Added

\* replace_row, as it is seen.
LEMMA SeenReplaceRow ==
  ASSUME NEW t, NEW r, NEW row
  PROVE  TableView(ReplaceRow(t, r, row)) = WithRows(TableView(t), [t.rows EXCEPT ![r] = row])
BY DEF ReplaceRow, With, EachIndex, TableView, WithRows

\* delete_row, as it is seen.
LEMMA SeenDeleteRow ==
  ASSUME NEW t, NEW r
  PROVE  TableView(DeleteRow(t, r)) = WithRows(TableView(t), Dropped(t.rows, r))
BY DEF DeleteRow, With, EachIndex, TableView, WithRows, Dropped

\* create_index, as it is seen.
LEMMA SeenCreateIndex ==
  ASSUME NEW t, NEW i, NEW c, NEW unique
  PROVE  TableView(CreateIndex(t, i, c, unique)) =
           WithIdx(TableView(t), Added(TableView(t).idx, i, <<c, unique>>))
<1> DEFINE new == CreateIndex(t, i, c, unique)
           idx == Added(TableView(t).idx, i, <<c, unique>>)
<1>1. /\ new.schema = t.schema /\ new.rows = t.rows /\ DOMAIN new.idx = DOMAIN t.idx \cup {i}
      /\ \A j \in DOMAIN t.idx \cup {i} :
           /\ j = i => new.idx[j].col = c /\ new.idx[j].unique = unique
           /\ j # i => new.idx[j] = t.idx[j]
  BY DEF CreateIndex, With
<1> HIDE DEF new
<1>2. [j \in DOMAIN new.idx |-> <<new.idx[j].col, new.idx[j].unique>>] = idx
  BY <1>1 DEF TableView, Added
<1>3. TableView(t).schema = t.schema /\ TableView(t).rows = t.rows
  BY DEF TableView
<1> HIDE DEF idx
<1>4. TableView(new) = WithIdx(TableView(t), idx)
  BY <1>1, <1>2, <1>3 DEF TableView, WithIdx
<1> QED BY <1>4 DEF new, idx

\* drop_index, as it is seen.
LEMMA SeenDropIndex ==
  ASSUME NEW t, NEW i
  PROVE  TableView(DropIndex(t, i)) = WithIdx(TableView(t), Dropped(TableView(t).idx, i))
BY DEF DropIndex, With, TableView, WithIdx, Dropped

\* A table without its newest index.
LEMMA IndexOfRecord ==
  ASSUME NEW t, NEW i, i \notin DOMAIN t.idx, NEW c, NEW unique, NEW u, u.op = "CreateIndex", u.i = i
  PROVE  /\ UndoneIn(TableView(CreateIndex(t, i, c, unique)), u) = TableView(t)
         /\ i \in DOMAIN CreateIndex(t, i, c, unique).idx
<1>1. /\ TableView(t).idx = [j \in DOMAIN TableView(t).idx |-> TableView(t).idx[j]]
      /\ i \notin DOMAIN TableView(t).idx
  BY DEF TableView
<1>2. Dropped(Added(TableView(t).idx, i, <<c, unique>>), i) = TableView(t).idx
  BY <1>1, AddedAndDropped
<1>3. \A x, idx : UndoneIn(WithIdx(x, idx), u) = WithIdx(x, Dropped(idx, i))
  BY DEF UndoneIn, WithIdx
<1>4. WithIdx(TableView(t), TableView(t).idx) = TableView(t)
  BY DEF WithIdx, TableView
<1>5. i \in DOMAIN CreateIndex(t, i, c, unique).idx
  BY DEF CreateIndex, With
<1> QED BY <1>2, <1>3, <1>4, <1>5, SeenCreateIndex

\* A table with the old row in its place, without the new row, or with the
\* deleted row again.
LEMMA RowOfRecord ==
  ASSUME NEW t, TableInv(t), NEW r, NEW row, NEW u, u.r = r
  PROVE  /\ u.op = "Insert" /\ r \notin DOMAIN t.rows =>
              UndoneIn(TableView(PutRow(t, r, row)), u) = TableView(t)
         /\ u.op = "Update" /\ r \in DOMAIN t.rows /\ u.row = t.rows[r] =>
              UndoneIn(TableView(ReplaceRow(t, r, row)), u) = TableView(t)
         /\ u.op = "Delete" /\ r \in DOMAIN t.rows /\ u.row = t.rows[r] =>
              UndoneIn(TableView(DeleteRow(t, r)), u) = TableView(t)
<1>1. t.rows = [q \in DOMAIN t.rows |-> t.rows[q]]
  BY DEF TableInv, TableType
<1>2. WithRows(TableView(t), t.rows) = TableView(t)
  BY DEF TableView, WithRows
<1>3. \A x, rows :
        /\ u.op = "Insert" => UndoneIn(WithRows(x, rows), u) = WithRows(x, Dropped(rows, r))
        /\ u.op \in {"Update", "Delete"} =>
             UndoneIn(WithRows(x, rows), u) = WithRows(x, Added(rows, r, u.row))
  BY DEF UndoneIn, WithRows
<1>4. ASSUME u.op = "Insert", r \notin DOMAIN t.rows
      PROVE  UndoneIn(TableView(PutRow(t, r, row)), u) = TableView(t)
  <2>1. Dropped(Added(t.rows, r, row), r) = t.rows
    BY <1>1, <1>4, AddedAndDropped
  <2> QED BY <1>2, <1>3, <1>4, <2>1, SeenPutRow
<1>5. ASSUME u.op = "Update", r \in DOMAIN t.rows, u.row = t.rows[r]
      PROVE  UndoneIn(TableView(ReplaceRow(t, r, row)), u) = TableView(t)
  <2>1. Added([t.rows EXCEPT ![r] = row], r, u.row) = t.rows
    BY <1>1, <1>5, AddedAndDropped
  <2>2. UndoneIn(WithRows(TableView(t), [t.rows EXCEPT ![r] = row]), u) =
          WithRows(TableView(t), Added([t.rows EXCEPT ![r] = row], r, u.row))
    BY <1>3, <1>5
  <2> QED BY <1>2, <2>1, <2>2, SeenReplaceRow
<1>6. ASSUME u.op = "Delete", r \in DOMAIN t.rows, u.row = t.rows[r]
      PROVE  UndoneIn(TableView(DeleteRow(t, r)), u) = TableView(t)
  <2>1. Added(Dropped(t.rows, r), r, u.row) = t.rows
    BY <1>1, <1>6, AddedAndDropped
  <2> QED BY <1>2, <1>3, <1>6, <2>1, SeenDeleteRow
<1> QED BY <1>4, <1>5, <1>6

\* A view of a table is a record of its schema, its rows and its indexes.
LEMMA ViewIsSeen ==
  ASSUME NEW t, t.rows = [r \in DOMAIN t.rows |-> t.rows[r]]
  PROVE  IsSeen(TableView(t)) /\ TableView(t).rows = t.rows /\ TableView(t).schema = t.schema
<1>1. TableView(t).rows = t.rows /\ TableView(t).schema = t.schema
  BY DEF TableView
<1>2. KeptRows(t.rows, {}) = t.rows
  BY DEF KeptRows
<1>3. WithRows(TableView(t), t.rows) = TableView(t)
  BY DEF TableView, WithRows
<1> QED BY <1>1, <1>2, <1>3 DEF IsSeen

\* The assignments of the store are those of the loop, all of them done.
LEMMA AssignIsSeen ==
  ASSUME NEW x, IsSeen(x), NEW rs, NEW set
  PROVE  Assign(x, rs, set) = WithRows(x, AssignedRows(x.rows, rs, set))
<1> DEFINE rows == [r \in DOMAIN x.rows |->
                      IF r \notin rs THEN x.rows[r]
                      ELSE [c \in DOMAIN x.rows[r] |->
                              IF c \in DOMAIN set THEN set[c] ELSE x.rows[r][c]]]
<1>1. rows = AssignedRows(x.rows, rs, set)
  BY DEF AssignedRows, AssignedRow
<1>2. Assign(x, rs, set) = [x EXCEPT !.rows = rows]
  BY DEF Assign
<1>3. x = [schema |-> x.schema, rows |-> x.rows, idx |-> x.idx]
  BY DEF IsSeen, WithRows
<1> HIDE DEF rows
<1>4. [x EXCEPT !.rows = rows] = WithRows(x, rows)
  BY <1>3 DEF WithRows
<1> QED BY <1>1, <1>2, <1>4

\* So are its deletions.
LEMMA KeptIsSeen ==
  ASSUME NEW x, IsSeen(x), NEW gone
  PROVE  [x EXCEPT !.rows = Restrict(@, DOMAIN @ \ gone)] = WithRows(x, KeptRows(x.rows, gone))
<1> DEFINE rows == Restrict(x.rows, DOMAIN x.rows \ gone)
<1>1. rows = KeptRows(x.rows, gone)
  BY DEF KeptRows, Restrict
<1>2. x = [schema |-> x.schema, rows |-> x.rows, idx |-> x.idx]
  BY DEF IsSeen, WithRows
<1> HIDE DEF rows
<1>3. [x EXCEPT !.rows = rows] = WithRows(x, rows)
  BY <1>2 DEF WithRows
<1> QED BY <1>1, <1>3 DEF rows

-----------------------------------------------------------------------------
(* Sessions: rows under other ids.                                         *)

\* There are finitely many rows, and their ids are numbers.
LEMMA IdsAreFinite ==
  ASSUME NEW p, HasIds(p)
  PROVE  /\ DOMAIN p \subseteq RowId /\ IsFiniteSet(DOMAIN p)
         /\ p = [r \in DOMAIN p |-> p[r]]
         /\ \E n \in RowId : \A r \in DOMAIN p : r < n
<1>1. PICK n \in Nat : DOMAIN p \subseteq 1..n
  BY DEF HasIds
<1>2. IsFiniteSet(1..n)
  BY FS_Interval
<1>3. IsFiniteSet(DOMAIN p)
  BY <1>1, <1>2, FS_Subset
<1>4. n + 1 \in RowId /\ \A r \in 1..n : r < n + 1 /\ r \in RowId
  BY <1>1 DEF RowId
<1>5. p = [r \in DOMAIN p |-> p[r]]
  BY DEF HasIds, KeptRows
<1> QED BY <1>1, <1>3, <1>4, <1>5

\* The id of a new row is above those in use.
LEMMA FreshIsAbove ==
  ASSUME NEW p, HasIds(p)
  PROVE  Fresh(p) \in RowId /\ \A r \in DOMAIN p : r < Fresh(p)
BY IdsAreFinite DEF Fresh

\* What a renaming of rows keeps.
LEMMA RenamedRows ==
  ASSUME NEW p, NEW q, HasIds(p), HasIds(q), NEW f, Renames(f, p, q)
  PROVE  /\ \A a \in DOMAIN p : f[a] \in DOMAIN q /\ q[f[a]] = p[a]
         /\ \A a, b \in DOMAIN p : a < b <=> f[a] < f[b]
         /\ \A a, b \in DOMAIN p : f[a] = f[b] => a = b
         /\ \A z \in DOMAIN q : \E a \in DOMAIN p : f[a] = z
<1>1. DOMAIN p \subseteq RowId /\ DOMAIN q \subseteq RowId
  BY IdsAreFinite
<1>2. \A a \in DOMAIN p : f[a] \in DOMAIN q
  BY DEF Renames
<1>3. \A a, b \in DOMAIN p : a < b => f[a] < f[b]
  BY DEF Renames
<1>4. \A a, b \in RowId : a < b \/ b < a \/ a = b
  BY DEF RowId
<1>5. \A a, b \in RowId : ~(a < b /\ b < a) /\ ~(a < a)
  BY DEF RowId
<1>6. \A a, b \in DOMAIN p : f[a] < f[b] => a < b
  BY <1>1, <1>2, <1>3, <1>4, <1>5
<1>7. \A a, b \in DOMAIN p : f[a] = f[b] => a = b
  BY <1>1, <1>2, <1>3, <1>4, <1>5
<1> QED BY <1>2, <1>3, <1>6, <1>7 DEF Renames

\* Every row has an id of its own: the identity renames it.
LEMMA SameAsThemselves ==
  ASSUME NEW p, HasIds(p)
  PROVE  SameRows(p, p)
<1> DEFINE f == [a \in DOMAIN p |-> a]
<1>1. Renames(f, p, p)
  BY DEF Renames
<1> QED BY <1>1 DEF SameRows

\* A renaming can be undone.
LEMMA SameRowsBack ==
  ASSUME NEW p, NEW q, SameRows(p, q)
  PROVE  SameRows(q, p)
<1>1. HasIds(p) /\ HasIds(q)
  BY DEF SameRows
<1>2. PICK f : Renames(f, p, q)
  BY DEF SameRows
<1> DEFINE g == [z \in DOMAIN q |-> CHOOSE a \in DOMAIN p : f[a] = z]
<1>3. \A z \in DOMAIN q : g[z] \in DOMAIN p /\ f[g[z]] = z
  BY <1>1, <1>2, RenamedRows
<1>4. g \in [DOMAIN q -> DOMAIN p]
  BY <1>3
<1> HIDE DEF g
<1>5. \A a \in DOMAIN p : g[f[a]] = a
  BY <1>1, <1>2, <1>3, RenamedRows
<1>6. \A y, z \in DOMAIN q : y < z => g[y] < g[z]
  BY <1>1, <1>2, <1>3, RenamedRows
<1>7. \A z \in DOMAIN q : p[g[z]] = q[z]
  BY <1>1, <1>2, <1>3, RenamedRows
<1>8. \A a \in DOMAIN p : f[a] \in DOMAIN q
  BY <1>1, <1>2, RenamedRows
<1>9. Renames(g, q, p)
  BY <1>4, <1>5, <1>6, <1>7, <1>8 DEF Renames
<1> QED BY <1>1, <1>9 DEF SameRows

\* A row more, under an id above all others on either side.
LEMMA SameRowsAdded ==
  ASSUME NEW p, NEW q, SameRows(p, q), NEW row,
         NEW a \in RowId, \A r \in DOMAIN p : r < a,
         NEW b \in RowId, \A r \in DOMAIN q : r < b
  PROVE  SameRows(Added(p, a, row), Added(q, b, row))
<1> DEFINE u == Added(p, a, row)
           v == Added(q, b, row)
<1>1. HasIds(p) /\ HasIds(q) /\ DOMAIN p \subseteq RowId /\ DOMAIN q \subseteq RowId
  BY IdsAreFinite DEF SameRows
<1>2. PICK f : Renames(f, p, q)
  BY DEF SameRows
<1>3. ASSUME NEW w, HasIds(w), NEW c \in RowId, \A r \in DOMAIN w : r < c
      PROVE  HasIds(Added(w, c, row)) /\ c \notin DOMAIN w
  <2>1. DOMAIN w \subseteq RowId
    BY <1>3, IdsAreFinite
  <2>2. \A r \in RowId : r < c \/ r = c => r \in 1..c
    BY DEF RowId
  <2>3. c \in Nat /\ ~(c < c)
    BY DEF RowId
  <2>4. DOMAIN Added(w, c, row) = DOMAIN w \cup {c}
    BY DEF Added
  <2>5. DOMAIN Added(w, c, row) \subseteq 1..c
    BY <1>3, <2>1, <2>2, <2>4
  <2>6. Added(w, c, row) = KeptRows(Added(w, c, row), {})
    BY DEF Added, KeptRows
  <2> QED BY <1>3, <2>3, <2>5, <2>6 DEF HasIds
<1>4. HasIds(u) /\ HasIds(v) /\ a \notin DOMAIN p /\ b \notin DOMAIN q
  BY <1>1, <1>3
<1>5. /\ DOMAIN u = DOMAIN p \cup {a} /\ u[a] = row /\ \A r \in DOMAIN p : u[r] = p[r]
      /\ DOMAIN v = DOMAIN q \cup {b} /\ v[b] = row /\ \A r \in DOMAIN q : v[r] = q[r]
  BY <1>4 DEF Added
<1> HIDE DEF u, v
<1> DEFINE g == [r \in DOMAIN u |-> IF r = a THEN b ELSE f[r]]
<1>6. g[a] = b /\ \A r \in DOMAIN p : g[r] = f[r]
  BY <1>4, <1>5
<1>7. /\ \A r \in DOMAIN p : f[r] \in DOMAIN q /\ q[f[r]] = p[r]
      /\ \A r, s \in DOMAIN p : r < s => f[r] < f[s]
      /\ \A z \in DOMAIN q : \E r \in DOMAIN p : f[r] = z
  BY <1>1, <1>2, RenamedRows
<1>8. g \in [DOMAIN u -> DOMAIN v]
  BY <1>5, <1>7
<1> HIDE DEF g
<1>9. \A r, s \in DOMAIN u : r < s => g[r] < g[s]
  <2>1. \A r \in DOMAIN p : ~(a < r)
    BY <1>1 DEF RowId
  <2>2. ~(a < a)
    BY DEF RowId
  <2> QED BY <1>5, <1>6, <1>7, <2>1, <2>2
<1>10. \A z \in DOMAIN v : \E r \in DOMAIN u : g[r] = z
  BY <1>5, <1>6, <1>7
<1>11. \A r \in DOMAIN u : v[g[r]] = u[r]
  BY <1>5, <1>6, <1>7
<1>12. Renames(g, u, v)
  BY <1>8, <1>9, <1>10, <1>11 DEF Renames
<1> QED BY <1>4, <1>12 DEF SameRows, u, v

\* A renaming relates the rows a clause chooses on either side.
LEMMA ChosenAlike ==
  ASSUME NEW x, NEW y, HasIds(x.rows), HasIds(y.rows), NEW f, Renames(f, x.rows, y.rows), NEW where
  PROVE  \A r \in DOMAIN x.rows : r \in Chosen(x, where) <=> f[r] \in Chosen(y, where)
<1> TAKE r \in DOMAIN x.rows
<1>1. f[r] \in DOMAIN y.rows /\ y.rows[f[r]] = x.rows[r]
  BY RenamedRows
<1> DEFINE p == x.rows[r]
<1>2. r \in Chosen(x, where) <=> \A c \in DOMAIN where : {p[c]} \ {Null} = {where[c]}
  BY DEF Chosen
<1>3. f[r] \in Chosen(y, where) <=> \A c \in DOMAIN where : {p[c]} \ {Null} = {where[c]}
  BY <1>1 DEF Chosen
<1> QED BY <1>2, <1>3

\* It chooses as many.
LEMMA AsManyChosen ==
  ASSUME NEW x, NEW y, Alike(x, y), NEW where
  PROVE  /\ IsFiniteSet(Chosen(x, where)) /\ IsFiniteSet(Chosen(y, where))
         /\ Cardinality(Chosen(x, where)) = Cardinality(Chosen(y, where))
<1> DEFINE A == Chosen(x, where)
           B == Chosen(y, where)
<1>1. HasIds(x.rows) /\ HasIds(y.rows)
  BY DEF Alike, SameRows
<1>2. PICK f : Renames(f, x.rows, y.rows)
  BY DEF Alike, SameRows
<1>3. A \subseteq DOMAIN x.rows /\ B \subseteq DOMAIN y.rows
  BY DEF Chosen
<1>4. \A r \in DOMAIN x.rows : r \in A <=> f[r] \in B
  BY <1>1, <1>2, ChosenAlike
<1> HIDE DEF A, B
<1>5. IsFiniteSet(A) /\ IsFiniteSet(B)
  BY <1>1, <1>3, IdsAreFinite, FS_Subset
<1> DEFINE g == [r \in A |-> f[r]]
<1>6. g \in [A -> B]
  BY <1>3, <1>4
<1>7. \A r, s \in A : g[r] = g[s] => r = s
  BY <1>1, <1>2, <1>3, RenamedRows
<1>8. \A z \in B : \E r \in A : g[r] = z
  <2> SUFFICES ASSUME NEW z \in B PROVE \E r \in A : g[r] = z
    OBVIOUS
  <2>1. PICK r \in DOMAIN x.rows : f[r] = z
    BY <1>1, <1>2, <1>3, RenamedRows
  <2>2. r \in A
    BY <1>4, <2>1
  <2> QED BY <2>1, <2>2
<1>9. g \in Bijection(A, B)
  BY <1>6, <1>7, <1>8 DEF Bijection, Injection, Surjection, IsInjective
<1>10. Cardinality(B) = Cardinality(A)
  BY <1>5, <1>9, FS_Bijection DEF ExistsBijection
<1> QED BY <1>5, <1>10 DEF A, B

\* What is sound stays sound under other ids.
LEMMA SoundAlike ==
  ASSUME NEW x, NEW y, Alike(x, y), Sound(x)
  PROVE  Sound(y)
<1>1. HasIds(x.rows) /\ HasIds(y.rows) /\ x.schema = y.schema /\ x.idx = y.idx
  BY DEF Alike, SameRows
<1>2. PICK f : Renames(f, x.rows, y.rows)
  BY DEF Alike, SameRows
<1>3. \A z \in DOMAIN y.rows : \E a \in DOMAIN x.rows : f[a] = z /\ y.rows[z] = x.rows[a]
  BY <1>1, <1>2, RenamedRows
<1>4. ASSUME NEW r \in DOMAIN y.rows
      PROVE  RowFits(y.schema, y.rows[r])
  BY <1>1, <1>3 DEF Sound
<1>5. ASSUME NEW c \in y.schema.unique \cup {z[1] : z \in {w \in Range(y.idx) : w[2]}},
             NEW r \in DOMAIN y.rows, NEW q \in DOMAIN y.rows, r # q, y.rows[r][c] # Null
      PROVE  y.rows[r][c] # y.rows[q][c]
  <2>1. PICK a \in DOMAIN x.rows : f[a] = r /\ y.rows[r] = x.rows[a]
    BY <1>3
  <2>2. PICK b \in DOMAIN x.rows : f[b] = q /\ y.rows[q] = x.rows[b]
    BY <1>3
  <2>3. a # b
    BY <1>5, <2>1, <2>2
  <2>4. c \in x.schema.unique \cup {z[1] : z \in {w \in Range(x.idx) : w[2]}}
    BY <1>1, <1>5
  <2>5. \A m, n \in DOMAIN x.rows : m # n /\ x.rows[m][c] # Null => x.rows[m][c] # x.rows[n][c]
    BY <2>4 DEF Sound
  <2> QED BY <1>5, <2>1, <2>2, <2>3, <2>5
<1> QED BY <1>4, <1>5 DEF Sound

\* Being alike is mutual.
LEMMA AlikeBack ==
  ASSUME NEW x, NEW y, Alike(x, y)
  PROVE  Alike(y, x)
BY SameRowsBack DEF Alike

\* An UPDATE and a DELETE of the rows a clause chooses.
LEMMA SameRowsChanged ==
  ASSUME NEW x, NEW y, Alike(x, y), NEW where
  PROVE  /\ \A set : SameRows(AssignedRows(x.rows, Chosen(x, where), set),
                              AssignedRows(y.rows, Chosen(y, where), set))
         /\ SameRows(KeptRows(x.rows, Chosen(x, where)), KeptRows(y.rows, Chosen(y, where)))
<1> DEFINE A == Chosen(x, where)
           B == Chosen(y, where)
           p == x.rows
           q == y.rows
<1>1. HasIds(p) /\ HasIds(q)
  BY DEF Alike, SameRows
<1>2. PICK f : Renames(f, p, q)
  BY DEF Alike, SameRows
<1>3. \A r \in DOMAIN p : r \in A <=> f[r] \in B
  BY <1>1, <1>2, ChosenAlike
<1> HIDE DEF A, B
<1>4. /\ \A a \in DOMAIN p : f[a] \in DOMAIN q /\ q[f[a]] = p[a]
      /\ \A a, b \in DOMAIN p : a < b => f[a] < f[b]
      /\ \A z \in DOMAIN q : \E a \in DOMAIN p : f[a] = z
  BY <1>1, <1>2, RenamedRows
<1>5. ASSUME NEW w, HasIds(w), NEW rs
      PROVE  (\A set : HasIds(AssignedRows(w, rs, set))) /\ HasIds(KeptRows(w, rs))
  <2> SUFFICES ASSUME NEW set
               PROVE  HasIds(AssignedRows(w, rs, set)) /\ HasIds(KeptRows(w, rs))
    OBVIOUS
  <2>1. PICK n \in Nat : DOMAIN w \subseteq 1..n
    BY <1>5 DEF HasIds
  <2>2. DOMAIN AssignedRows(w, rs, set) \subseteq 1..n /\ DOMAIN KeptRows(w, rs) \subseteq 1..n
    BY <2>1 DEF AssignedRows, KeptRows
  <2>3. AssignedRows(w, rs, set) = KeptRows(AssignedRows(w, rs, set), {})
    BY DEF AssignedRows, KeptRows
  <2>4. KeptRows(w, rs) = KeptRows(KeptRows(w, rs), {})
    BY DEF KeptRows
  <2> QED BY <2>2, <2>3, <2>4 DEF HasIds
<1>6. ASSUME NEW set
      PROVE  SameRows(AssignedRows(p, A, set), AssignedRows(q, B, set))
  <2> DEFINE u == AssignedRows(p, A, set)
             v == AssignedRows(q, B, set)
  <2>1. /\ DOMAIN u = DOMAIN p /\ DOMAIN v = DOMAIN q
        /\ \A r \in DOMAIN p : u[r] = IF r \in A THEN AssignedRow(p[r], set) ELSE p[r]
        /\ \A r \in DOMAIN q : v[r] = IF r \in B THEN AssignedRow(q[r], set) ELSE q[r]
    BY DEF AssignedRows
  <2>2. HasIds(u) /\ HasIds(v)
    BY <1>1, <1>5
  <2> HIDE DEF u, v
  <2>3. \A a \in DOMAIN p : v[f[a]] = u[a]
    BY <1>3, <1>4, <2>1
  <2>4. f \in [DOMAIN u -> DOMAIN v]
    BY <1>2, <2>1 DEF Renames
  <2>5. Renames(f, u, v)
    BY <1>4, <2>1, <2>3, <2>4 DEF Renames
  <2> QED BY <2>2, <2>5 DEF SameRows, u, v
<1>7. SameRows(KeptRows(p, A), KeptRows(q, B))
  <2> DEFINE u == KeptRows(p, A)
             v == KeptRows(q, B)
             g == [r \in DOMAIN u |-> f[r]]
  <2>1. /\ DOMAIN u = DOMAIN p \ A /\ DOMAIN v = DOMAIN q \ B
        /\ \A r \in DOMAIN u : u[r] = p[r]
        /\ \A r \in DOMAIN v : v[r] = q[r]
    BY DEF KeptRows
  <2>2. HasIds(u) /\ HasIds(v)
    BY <1>1, <1>5
  <2> HIDE DEF u, v
  <2>3. \A r \in DOMAIN u : g[r] = f[r] /\ f[r] \in DOMAIN v /\ v[f[r]] = u[r]
    BY <1>3, <1>4, <2>1
  <2>4. g \in [DOMAIN u -> DOMAIN v]
    BY <2>3
  <2> HIDE DEF g
  <2>5. \A z \in DOMAIN v : \E a \in DOMAIN u : g[a] = z
    BY <1>3, <1>4, <2>1, <2>3
  <2>6. \A a, b \in DOMAIN u : a < b => g[a] < g[b]
    BY <1>4, <2>1, <2>3
  <2>7. Renames(g, u, v)
    BY <2>3, <2>4, <2>5, <2>6 DEF Renames
  <2> QED BY <2>2, <2>7 DEF SameRows, u, v
<1> QED BY <1>6, <1>7 DEF A, B

-----------------------------------------------------------------------------
(* Sessions: statements.                                                   *)

\* A row more, whatever its id, as long as it is above all others.
LEMMA InsertedAlike ==
  ASSUME NEW x, NEW y, Alike(x, y), NEW s, s.op = "Insert",
         NEW a \in RowId, \A r \in DOMAIN x.rows : r < a
  PROVE  Alike(WithRows(x, Added(x.rows, a, s.row)), Changed(y, s))
<1>1. Fresh(y.rows) \in RowId /\ \A r \in DOMAIN y.rows : r < Fresh(y.rows)
  BY FreshIsAbove DEF Alike, SameRows
<1>2. SameRows(Added(x.rows, a, s.row), Added(y.rows, Fresh(y.rows), s.row))
  BY <1>1, SameRowsAdded DEF Alike
<1>3. Changed(y, s) = WithRows(y, Added(y.rows, Fresh(y.rows), s.row))
  BY DEF Changed
<1> QED BY <1>2, <1>3 DEF Alike, WithRows

\* The same statement leaves alike what is alike.
LEMMA ChangedAlike ==
  ASSUME NEW x, NEW y, Alike(x, y), NEW s, s.op \in OnTable
  PROVE  Alike(Changed(x, s), Changed(y, s))
<1>1. CASE s.op = "CreateIndex"
  BY <1>1 DEF Changed, Alike, WithIdx
<1>2. CASE s.op = "Insert"
  <2>1. Fresh(x.rows) \in RowId /\ \A r \in DOMAIN x.rows : r < Fresh(x.rows)
    BY FreshIsAbove DEF Alike, SameRows
  <2>2. Changed(x, s) = WithRows(x, Added(x.rows, Fresh(x.rows), s.row))
    BY <1>2 DEF Changed
  <2> QED BY <1>2, <2>1, <2>2, InsertedAlike
<1>3. CASE s.op = "Update"
  <2>1. \A z : Changed(z, s) = WithRows(z, AssignedRows(z.rows, Chosen(z, s.where), s.set))
    BY <1>3 DEF Changed
  <2>2. SameRows(AssignedRows(x.rows, Chosen(x, s.where), s.set),
                 AssignedRows(y.rows, Chosen(y, s.where), s.set))
    BY SameRowsChanged
  <2> QED BY <2>1, <2>2 DEF Alike, WithRows
<1>4. CASE s.op = "Delete"
  <2>1. \A z : Changed(z, s) = WithRows(z, KeptRows(z.rows, Chosen(z, s.where)))
    BY <1>4 DEF Changed
  <2>2. SameRows(KeptRows(x.rows, Chosen(x, s.where)), KeptRows(y.rows, Chosen(y, s.where)))
    BY SameRowsChanged
  <2> QED BY <2>1, <2>2 DEF Alike, WithRows
<1> QED BY <1>1, <1>2, <1>3, <1>4 DEF OnTable

\* It succeeds on both or on neither.
LEMMA TakesAlike ==
  ASSUME NEW x, NEW y, Alike(x, y), NEW s, s.op \in OnTable
  PROVE  Takes(x, s) <=> Takes(y, s)
<1>1. Sound(Changed(x, s)) <=> Sound(Changed(y, s))
  BY ChangedAlike, AlikeBack, SoundAlike
<1>2. x.schema = y.schema /\ x.idx = y.idx
  BY DEF Alike
<1> QED BY <1>1, <1>2 DEF Takes

\* One table is added or replaced, dropped, or an index dropped, on either side.
LEMMA AlikeDbs ==
  ASSUME NEW v, NEW w, AlikeDb(v, w)
  PROVE  /\ \A t, x, y : Alike(x, y) => AlikeDb(Added(v, t, x), Added(w, t, y))
         /\ \A t : AlikeDb(Dropped(v, t), Dropped(w, t))
         /\ \A i : AlikeDb(WithoutIndex(v, i), WithoutIndex(w, i))
         /\ \A i : Owners(v, i) = Owners(w, i)
<1>1. DOMAIN v = DOMAIN w /\ \A t \in DOMAIN v : Alike(v[t], w[t])
  BY DEF AlikeDb
<1>2. ASSUME NEW t, NEW x, NEW y, Alike(x, y)
      PROVE  AlikeDb(Added(v, t, x), Added(w, t, y))
  BY <1>1, <1>2 DEF AlikeDb, Added
<1>3. ASSUME NEW t
      PROVE  AlikeDb(Dropped(v, t), Dropped(w, t))
  BY <1>1 DEF AlikeDb, Dropped
<1>4. ASSUME NEW i
      PROVE  AlikeDb(WithoutIndex(v, i), WithoutIndex(w, i))
  <2>1. \A x, y : Alike(x, y) => Alike(WithIdx(x, Dropped(x.idx, i)), WithIdx(y, Dropped(y.idx, i)))
    BY DEF Alike, WithIdx
  <2> QED BY <1>1, <2>1 DEF AlikeDb, WithoutIndex
<1>5. ASSUME NEW i
      PROVE  Owners(v, i) = Owners(w, i)
  BY <1>1 DEF Owners, Alike
<1> QED BY <1>2, <1>3, <1>4, <1>5

\* Databases that are alike permit the same statements, which leave as many
\* undo records, and doom the same ROLLBACKs.
LEMMA PermitsAlike ==
  ASSUME NEW v, NEW w, AlikeDb(v, w)
  PROVE  /\ \A s : PermitsOn(v, s) <=> PermitsOn(w, s)
         /\ \A s : s.op \in {"Update", "Delete"} /\ s.t \in DOMAIN v => Recorded(v, s) = Recorded(w, s)
         /\ \A undo : Doomed(undo, v) <=> Doomed(undo, w)
<1>1. DOMAIN v = DOMAIN w /\ \A t \in DOMAIN v : Alike(v[t], w[t])
  BY DEF AlikeDb
<1>2. ASSUME NEW s
      PROVE  PermitsOn(v, s) <=> PermitsOn(w, s)
  <2>1. s.op \in OnTable /\ s.t \in DOMAIN v => (Takes(v[s.t], s) <=> Takes(w[s.t], s))
    BY <1>1, TakesAlike
  <2>2. Owners(v, s.i) = Owners(w, s.i)
    BY AlikeDbs
  <2> QED BY <1>1, <2>1, <2>2 DEF PermitsOn
<1>3. ASSUME NEW s, s.op \in {"Update", "Delete"}, s.t \in DOMAIN v
      PROVE  Recorded(v, s) = Recorded(w, s)
  <2>1. Cardinality(Chosen(v[s.t], s.where)) = Cardinality(Chosen(w[s.t], s.where))
    BY <1>1, <1>3, AsManyChosen
  <2> QED BY <1>3, <2>1 DEF Recorded
<1>4. ASSUME NEW undo
      PROVE  Doomed(undo, v) <=> Doomed(undo, w)
  <2>1. \A u : Lost(u, v) <=> Lost(u, w)
    BY <1>1 DEF Lost, Alike
  <2> QED BY <2>1 DEF Doomed
<1> QED BY <1>2, <1>3, <1>4

-----------------------------------------------------------------------------
(* Sessions: transactions.                                                 *)

\* A ROLLBACK that could not succeed cannot succeed later, when what it would
\* miss is still missing or was made anew.
LEMMA DoomedStays ==
  ASSUME NEW S, NEW undo \in Seq(S), NEW rec \in Seq(S), NEW db, NEW new, Doomed(undo, db),
         \A n \in DOMAIN undo : Lost(undo[n], db) =>
           Lost(undo[n], new) \/ \E m \in DOMAIN rec : Remakes(rec[m], undo[n])
  PROVE  Doomed(undo \o rec, new)
<1> DEFINE all == undo \o rec
<1>1. /\ Len(undo) \in Nat /\ DOMAIN undo = 1..Len(undo)
      /\ Len(rec) \in Nat /\ DOMAIN rec = 1..Len(rec)
  BY LenProperties
<1>2. /\ all \in Seq(S) /\ Len(all) = Len(undo) + Len(rec)
      /\ \A n \in 1..Len(undo) + Len(rec) :
           all[n] = IF n <= Len(undo) THEN undo[n] ELSE rec[n - Len(undo)]
  BY ConcatProperties
<1>3. DOMAIN all = 1..Len(undo) + Len(rec)
  BY <1>2, LenProperties
<1> HIDE DEF all
<1>4. \A n \in DOMAIN undo : n \in DOMAIN all /\ all[n] = undo[n]
  BY <1>1, <1>2, <1>3
<1>5. ASSUME NEW m \in DOMAIN rec
      PROVE  /\ Len(undo) + m \in DOMAIN all /\ all[Len(undo) + m] = rec[m]
             /\ \A n \in DOMAIN undo : Len(undo) + m > n
  <2>1. m \in 1..Len(rec) /\ Len(undo) + m \in 1..Len(undo) + Len(rec)
    BY <1>1
  <2>2. ~(Len(undo) + m <= Len(undo)) /\ Len(undo) + m - Len(undo) = m
    BY <1>1, <2>1
  <2>3. all[Len(undo) + m] = rec[m]
    BY <1>2, <2>1, <2>2
  <2> QED BY <1>1, <1>3, <2>1, <2>3
<1>6. PICK n \in DOMAIN undo :
        Lost(undo[n], db) \/ \E m \in DOMAIN undo : m > n /\ Remakes(undo[m], undo[n])
  BY DEF Doomed
<1>7. CASE Lost(undo[n], new)
  BY <1>4, <1>7 DEF Doomed, all
<1>8. CASE \E m \in DOMAIN undo : m > n /\ Remakes(undo[m], undo[n])
  BY <1>4, <1>8 DEF Doomed, all
<1>9. CASE \E m \in DOMAIN rec : Remakes(rec[m], undo[n])
  <2>1. PICK m \in DOMAIN rec : Remakes(rec[m], undo[n])
    BY <1>9
  <2>2. \E k \in DOMAIN all : k > n /\ Remakes(all[k], all[n])
    BY <1>4, <1>5, <2>1
  <2> QED BY <1>4, <2>2 DEF Doomed, all
<1> QED BY <1>6, <1>7, <1>8, <1>9

\* The effect of a statement and its records, kind by kind.
LEMMA EffectOf ==
  ASSUME NEW db, NEW s
  PROVE  /\ s.op = "CreateTable" =>
              /\ DbAfter(db, s) = Added(db, s.t, NewView(s.schema))
              /\ Recorded(db, s) = <<[op |-> s.op, t |-> s.t]>>
         /\ s.op = "CreateIndex" =>
              /\ DbAfter(db, s) = Added(db, s.t, Changed(db[s.t], s))
              /\ Recorded(db, s) = <<[op |-> s.op, t |-> s.t, i |-> s.i]>>
         /\ s.op = "Insert" =>
              /\ DbAfter(db, s) = Added(db, s.t, Changed(db[s.t], s))
              /\ Recorded(db, s) = <<[op |-> s.op, t |-> s.t]>>
         /\ s.op \in {"Update", "Delete"} =>
              /\ DbAfter(db, s) = Added(db, s.t, Changed(db[s.t], s))
              /\ Recorded(db, s) = [n \in 1..Cardinality(Chosen(db[s.t], s.where)) |->
                                      [op |-> s.op, t |-> s.t]]
         /\ s.op = "DropTable" => DbAfter(db, s) = Dropped(db, s.t) /\ Recorded(db, s) = <<>>
         /\ s.op = "DropIndex" => DbAfter(db, s) = WithoutIndex(db, s.i) /\ Recorded(db, s) = <<>>
<1>1. CASE s.op = "CreateTable"
  BY <1>1 DEF DbAfter, Recorded, OnTable
<1>2. CASE s.op = "CreateIndex"
  BY <1>2 DEF DbAfter, Recorded, OnTable
<1>3. CASE s.op = "Insert"
  BY <1>3 DEF DbAfter, Recorded, OnTable
<1>4. CASE s.op \in {"Update", "Delete"}
  BY <1>4 DEF DbAfter, Recorded, OnTable
<1>5. CASE s.op = "DropTable" \/ s.op = "DropIndex"
  BY <1>5 DEF DbAfter, Recorded, OnTable
<1> QED BY <1>1, <1>2, <1>3, <1>4, <1>5

\* No statement but ROLLBACK saves a transaction whose ROLLBACK cannot succeed.
LEMMA DoomedAfter ==
  ASSUME NEW S, NEW undo \in Seq(S), NEW db, NEW s, PermitsOn(db, s),
         Recorded(db, s) \in Seq(S), Doomed(undo, db)
  PROVE  Doomed(undo \o Recorded(db, s), DbAfter(db, s))
<1> DEFINE new == DbAfter(db, s)
           rec == Recorded(db, s)
<1> SUFFICES ASSUME NEW u, Lost(u, db)
             PROVE  Lost(u, new) \/ \E m \in DOMAIN rec : Remakes(rec[m], u)
  BY DoomedStays
<1>1. CASE s.op = "CreateTable"
  <2>1. new = Added(db, s.t, NewView(s.schema)) /\ rec = <<[op |-> s.op, t |-> s.t]>>
    BY <1>1, EffectOf
  <2>2. 1 \in DOMAIN rec /\ rec[1] = [op |-> "CreateTable", t |-> s.t]
    BY <1>1, <2>1
  <2> HIDE DEF rec, new
  <2>3. CASE u.op # "CreateTable" /\ u.t = s.t
    BY <2>2, <2>3 DEF Remakes
  <2>4. CASE u.t # s.t
    BY <2>1, <2>4 DEF Lost, Added
  <2> QED BY <1>1, <2>3, <2>4 DEF Lost, PermitsOn
<1>2. CASE s.op = "CreateIndex"
  <2>1. new = Added(db, s.t, Changed(db[s.t], s)) /\ rec = <<[op |-> s.op, t |-> s.t, i |-> s.i]>>
    BY <1>2, EffectOf
  <2>2. 1 \in DOMAIN rec /\ rec[1] = [op |-> "CreateIndex", t |-> s.t, i |-> s.i]
    BY <1>2, <2>1
  <2>3. DOMAIN Changed(db[s.t], s).idx = DOMAIN db[s.t].idx \cup {s.i} /\ s.t \in DOMAIN db
    BY <1>2 DEF Changed, WithIdx, Added, PermitsOn, OnTable
  <2> HIDE DEF rec, new
  <2>4. DOMAIN new = DOMAIN db /\ new[s.t] = Changed(db[s.t], s)
        /\ \A t \in DOMAIN db : t # s.t => new[t] = db[t]
    BY <2>1, <2>3 DEF Added
  <2>5. CASE u.op = "CreateIndex" /\ u.t = s.t /\ u.i = s.i
    BY <2>2, <2>5 DEF Remakes
  <2>6. CASE ~(u.op = "CreateIndex" /\ u.t = s.t /\ u.i = s.i)
    BY <2>3, <2>4, <2>6 DEF Lost
  <2> QED BY <2>5, <2>6
<1>3. CASE s.op \in {"Insert", "Update", "Delete"}
  <2>1. new = Added(db, s.t, Changed(db[s.t], s)) /\ s.t \in DOMAIN db
    BY <1>3 DEF DbAfter, OnTable, PermitsOn
  <2>2. Changed(db[s.t], s).idx = db[s.t].idx
    BY <1>3 DEF Changed, WithRows
  <2> HIDE DEF new
  <2>3. DOMAIN new = DOMAIN db /\ new[s.t] = Changed(db[s.t], s)
        /\ \A t \in DOMAIN db : t # s.t => new[t] = db[t]
    BY <2>1 DEF Added
  <2> QED BY <2>2, <2>3 DEF Lost
<1>4. CASE s.op = "DropTable"
  <2>1. new = Dropped(db, s.t)
    BY <1>4, EffectOf
  <2> HIDE DEF new
  <2> QED BY <2>1 DEF Lost, Dropped
<1>5. CASE s.op = "DropIndex"
  <2>1. new = WithoutIndex(db, s.i)
    BY <1>5, EffectOf
  <2> HIDE DEF new
  <2>2. DOMAIN new = DOMAIN db /\ \A t \in DOMAIN db : DOMAIN new[t].idx \subseteq DOMAIN db[t].idx
    BY <2>1 DEF WithoutIndex, WithIdx, Dropped
  <2> QED BY <2>2 DEF Lost
<1>6. CASE s.op \notin {"CreateTable", "CreateIndex", "Insert", "Update", "Delete", "DropTable",
                       "DropIndex"}
  <2>1. new = db
    BY <1>6 DEF DbAfter, OnTable
  <2> QED BY <2>1
<1> QED BY <1>1, <1>2, <1>3, <1>4, <1>5, <1>6

\* A record that is not of the dropped table can be undone without it.
LEMMA UndoneWithoutTable ==
  ASSUME NEW v, NEW u, CanBeUndone(v, u), NEW t, u.op # "CreateTable" => u.t # t
  PROVE  /\ CanBeUndone(Dropped(v, t), u)
         /\ UndoneView(Dropped(v, t), u) = Dropped(UndoneView(v, u), t)
<1>1. CASE u.op = "CreateTable"
  BY <1>1 DEF CanBeUndone, UndoneView, Dropped
<1>2. CASE u.op # "CreateTable"
  <2>1. u.t # t /\ u.t \in DOMAIN v
    BY <1>2 DEF CanBeUndone
  <2>2. DOMAIN Dropped(v, t) = DOMAIN v \ {t} /\ \A q \in DOMAIN v \ {t} : Dropped(v, t)[q] = v[q]
    BY DEF Dropped
  <2>3. CanBeUndone(Dropped(v, t), u)
    BY <2>1, <2>2 DEF CanBeUndone
  <2>4. \A w : UndoneView(w, u) = [q \in DOMAIN w |-> IF q = u.t THEN UndoneIn(w[q], u) ELSE w[q]]
    BY <1>2 DEF UndoneView
  <2>5. UndoneView(Dropped(v, t), u) = Dropped(UndoneView(v, u), t)
    BY <2>1, <2>2, <2>4 DEF Dropped
  <2> QED BY <2>3, <2>5
<1> QED BY <1>1, <1>2

\* A record that is not of the dropped index can be undone without it.
LEMMA UndoneWithoutIndex ==
  ASSUME NEW v, NEW u, CanBeUndone(v, u), NEW i, u.op = "CreateIndex" => u.i # i
  PROVE  /\ CanBeUndone(WithoutIndex(v, i), u)
         /\ UndoneView(WithoutIndex(v, i), u) = WithoutIndex(UndoneView(v, u), i)
<1> DEFINE W(x) == WithIdx(x, Dropped(x.idx, i))
<1>1. DOMAIN WithoutIndex(v, i) = DOMAIN v /\ \A t \in DOMAIN v : WithoutIndex(v, i)[t] = W(v[t])
  BY DEF WithoutIndex
<1>2. \A x : DOMAIN W(x).idx = DOMAIN x.idx \ {i} /\ W(x).rows = x.rows
  BY DEF WithIdx, Dropped
<1>3. CanBeUndone(WithoutIndex(v, i), u)
  BY <1>1, <1>2 DEF CanBeUndone
<1>4. CASE u.op = "CreateTable"
  BY <1>3, <1>4 DEF UndoneView, WithoutIndex, Dropped
<1>5. CASE u.op # "CreateTable"
  <2>1. ASSUME NEW x
        PROVE  UndoneIn(W(x), u) = W(UndoneIn(x, u))
    <3>1. CASE u.op = "CreateIndex"
      <4>1. Dropped(Dropped(x.idx, i), u.i) = Dropped(Dropped(x.idx, u.i), i)
        BY DEF Dropped
      <4> QED BY <3>1, <4>1 DEF UndoneIn, WithIdx
    <3>2. CASE u.op # "CreateIndex"
      BY <3>2 DEF UndoneIn, WithIdx, WithRows
    <3> QED BY <3>1, <3>2
  <2> HIDE DEF W
  <2>2. \A w : UndoneView(w, u) = [q \in DOMAIN w |-> IF q = u.t THEN UndoneIn(w[q], u) ELSE w[q]]
    BY <1>5 DEF UndoneView
  <2>3. \A w : WithoutIndex(w, i) = [q \in DOMAIN w |-> W(w[q])]
    BY DEF WithoutIndex, W
  <2>4. UndoneView(WithoutIndex(v, i), u) = WithoutIndex(UndoneView(v, u), i)
    BY <2>1, <2>2, <2>3
  <2> QED BY <1>3, <2>4
<1> QED BY <1>4, <1>5, <1>3

\* What is sound stays sound without a table or an index.
LEMMA SoundWithout ==
  ASSUME NEW v, SoundView(v)
  PROVE  (\A t : SoundView(Dropped(v, t))) /\ (\A i : SoundView(WithoutIndex(v, i)))
<1>1. ASSUME NEW t
      PROVE  SoundView(Dropped(v, t))
  BY DEF SoundView, Dropped
<1>2. ASSUME NEW i
      PROVE  SoundView(WithoutIndex(v, i))
  <2>1. ASSUME NEW x, Sound(x)
        PROVE  Sound(WithIdx(x, Dropped(x.idx, i)))
    <3> DEFINE y == WithIdx(x, Dropped(x.idx, i))
    <3>1. /\ y.schema = x.schema /\ y.rows = x.rows /\ DOMAIN y.idx \subseteq DOMAIN x.idx
          /\ \A j \in DOMAIN y.idx : y.idx[j] = x.idx[j]
      BY DEF WithIdx, Dropped
    <3> HIDE DEF y
    <3>2. Range(y.idx) \subseteq Range(x.idx)
      BY <3>1 DEF Range
    <3> QED BY <2>1, <3>1, <3>2 DEF Sound, y
  <2> QED BY <2>1 DEF SoundView, WithoutIndex
<1> QED BY <1>1, <1>2

\* A statement leaves alike databases alike.
LEMMA DbAfterAlike ==
  ASSUME NEW v, NEW w, AlikeDb(v, w), NEW s, PermitsOn(v, s)
  PROVE  AlikeDb(DbAfter(v, s), DbAfter(w, s))
<1>1. CASE s.op = "CreateTable"
  <2> DEFINE new == NewView(s.schema)
  <2>1. HasIds(new.rows)
    <3>1. DOMAIN new.rows \subseteq 1..0 /\ new.rows = KeptRows(new.rows, {})
      BY DEF NewView, KeptRows
    <3> HIDE DEF new
    <3> QED BY <3>1 DEF HasIds
  <2> HIDE DEF new
  <2>2. Alike(new, new)
    BY <2>1, SameAsThemselves DEF Alike
  <2>3. AlikeDb(Added(v, s.t, new), Added(w, s.t, new))
    BY <2>2, AlikeDbs
  <2>4. DbAfter(v, s) = Added(v, s.t, new) /\ DbAfter(w, s) = Added(w, s.t, new)
    BY <1>1, EffectOf DEF new
  <2> QED BY <2>3, <2>4
<1>2. CASE s.op \in OnTable
  <2>1. s.t \in DOMAIN v
    BY <1>2 DEF PermitsOn
  <2>2. Alike(v[s.t], w[s.t])
    BY <2>1 DEF AlikeDb
  <2>3. Alike(Changed(v[s.t], s), Changed(w[s.t], s))
    BY <1>2, <2>2, ChangedAlike
  <2>4. AlikeDb(Added(v, s.t, Changed(v[s.t], s)), Added(w, s.t, Changed(w[s.t], s)))
    BY <2>3, AlikeDbs
  <2>5. \A x : DbAfter(x, s) = Added(x, s.t, Changed(x[s.t], s))
    BY <1>2 DEF DbAfter, OnTable
  <2> QED BY <2>4, <2>5
<1>3. CASE s.op = "DropTable" \/ s.op = "DropIndex"
  <2>1. \A x : s.op = "DropTable" => DbAfter(x, s) = Dropped(x, s.t)
    BY EffectOf
  <2>2. \A x : s.op = "DropIndex" => DbAfter(x, s) = WithoutIndex(x, s.i)
    BY EffectOf
  <2> QED BY <1>3, <2>1, <2>2, AlikeDbs
<1>4. CASE s.op \notin {"CreateTable", "DropTable", "DropIndex"} /\ s.op \notin OnTable
  BY <1>4 DEF DbAfter
<1> QED BY <1>1, <1>2, <1>3, <1>4

-----------------------------------------------------------------------------
(* Sessions: what the tables of the engine decide.                         *)

\* The rows of a table have ids.
LEMMA RowsHaveIds ==
  ASSUME NEW t, TableInv(t)
  PROVE  HasIds(TableView(t).rows) /\ TableView(t).rows = t.rows
<1>1. TableView(t).rows = t.rows
  BY DEF TableView
<1>2. t.next \in Nat /\ \A r \in DOMAIN t.rows : r \in RowId /\ r < t.next
  BY DEF TableInv, TableType, NextIsFresh, RowId
<1>3. \A r, n \in Nat : r \in RowId /\ r < n => r \in 1..n
  BY DEF RowId
<1>4. DOMAIN t.rows \subseteq 1..t.next
  BY <1>2, <1>3 DEF RowId
<1>5. t.rows = KeptRows(t.rows, {})
  BY DEF TableInv, TableType, KeptRows
<1> QED BY <1>1, <1>2, <1>4, <1>5 DEF HasIds

\* A row that leaves the table sound is accepted.
LEMMA InsertDecided ==
  ASSUME NEW t, TableInv(t), NEW s, s.op = "Insert", Sound(Changed(TableView(t), s))
  PROVE  Writable(t, s.row, NoRow)
<1> DEFINE x == TableView(t)
           r == Fresh(x.rows)
           new == Changed(x, s)
<1>1. HasIds(x.rows) /\ x.rows = t.rows /\ x.schema = t.schema
  BY RowsHaveIds DEF TableView
<1>2. r \in RowId /\ \A q \in DOMAIN x.rows : q < r
  BY <1>1, FreshIsAbove
<1>3. new = WithRows(x, Added(x.rows, r, s.row))
  BY DEF Changed
<1>4. new.schema = x.schema /\ new.idx = x.idx /\ new.rows = Added(x.rows, r, s.row)
  BY <1>3 DEF WithRows
<1>5. UniqueColumns(t) = x.schema.unique \cup {z[1] : z \in {y \in Range(x.idx) : y[2]}}
  BY SeenUniqueColumns
<1> HIDE DEF x, r, new
<1>6. r \notin DOMAIN t.rows
  BY <1>1, <1>2 DEF RowId
<1>7. /\ DOMAIN new.rows = DOMAIN t.rows \cup {r} /\ new.rows[r] = s.row
      /\ \A q \in DOMAIN t.rows : new.rows[q] = t.rows[q]
  BY <1>1, <1>4, <1>6 DEF Added
<1>8. RowFits(t.schema, s.row)
  BY <1>1, <1>4, <1>7 DEF Sound, new, x
<1>9. ASSUME NEW c \in UniqueColumns(t), s.row[c] # Null, NEW q \in DOMAIN t.rows,
             t.rows[q][c] = s.row[c]
      PROVE  FALSE
  <2>1. Sound(new)
    BY DEF new, x
  <2>2. c \in new.schema.unique \cup {z[1] : z \in {y \in Range(new.idx) : y[2]}}
    BY <1>4, <1>5
  <2>3. \A a, b \in DOMAIN new.rows : a # b /\ new.rows[a][c] # Null => new.rows[a][c] # new.rows[b][c]
    BY <2>1, <2>2 DEF Sound
  <2> QED BY <1>6, <1>7, <1>9, <2>3
<1> QED BY <1>8, <1>9 DEF Writable, Taken

\* An index that leaves the table sound is accepted.
LEMMA IndexDecided ==
  ASSUME NEW t, TableInv(t), NEW s, s.op = "CreateIndex", s.unique \in BOOLEAN,
         Takes(TableView(t), s)
  PROVE  CanCreateIndex(t, s.i, s.c, s.unique)
<1> DEFINE x == TableView(t)
           new == Changed(x, s)
<1>1. x.rows = t.rows /\ x.schema = t.schema /\ DOMAIN x.idx = DOMAIN t.idx
  BY DEF TableView
<1>2. s.i \notin DOMAIN x.idx /\ s.c \in x.schema.cols /\ Sound(new)
  BY DEF Takes
<1>3. new = WithIdx(x, Added(x.idx, s.i, <<s.c, s.unique>>))
  BY DEF Changed
<1>4. new.rows = x.rows /\ new.idx = Added(x.idx, s.i, <<s.c, s.unique>>)
  BY <1>3 DEF WithIdx
<1> HIDE DEF x, new
<1>5. ASSUME s.unique
      PROVE  ~HasDuplicates(t, s.c)
  <2>1. <<s.c, s.unique>> \in Range(new.idx)
    BY <1>4 DEF Range, Added
  <2>2. s.c \in {z[1] : z \in {y \in Range(new.idx) : y[2]}}
    <3>1. <<s.c, s.unique>>[1] = s.c /\ <<s.c, s.unique>>[2] = s.unique
      OBVIOUS
    <3> QED BY <1>5, <2>1, <3>1
  <2>3. \A a, b \in DOMAIN new.rows : a # b /\ new.rows[a][s.c] # Null => new.rows[a][s.c] # new.rows[b][s.c]
    BY <1>2, <2>2 DEF Sound
  <2> QED BY <1>1, <1>4, <2>3 DEF HasDuplicates
<1> QED BY <1>1, <1>2, <1>5 DEF CanCreateIndex

=============================================================================
