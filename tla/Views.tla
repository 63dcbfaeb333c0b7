-------------------------------- MODULE Views -------------------------------
(***************************************************************************)
(* What clients see of a table, as a value: its schema, its rows by row    *)
(* id, and the column and uniqueness of each of its indexes, by name (the  *)
(* entries of an index follow from the rows).  And what the statements and *)
(* the undo records of the engine do to it.                                *)
(***************************************************************************)
EXTENDS Table, Functions

\* What clients see of the table `t` of the row store.
TableView(t) ==
  [schema |-> t.schema, rows |-> t.rows,
   idx |-> [i \in DOMAIN t.idx |-> <<t.idx[i].col, t.idx[i].unique>>]]

WithRows(x, rows) == [schema |-> x.schema, rows |-> rows, idx |-> x.idx]
WithIdx(x, idx) == [schema |-> x.schema, rows |-> x.rows, idx |-> idx]

\* A function with one argument more, or changed, and with one less.
Added(f, x, y) == [z \in DOMAIN f \cup {x} |-> IF z = x THEN y ELSE f[z]]
Dropped(f, x) == [z \in DOMAIN f \ {x} |-> f[z]]

\* The rows fit the schema, and no two of them share a key of a UNIQUE column
\* or of a unique index.
Sound(table) ==
  /\ \A r \in DOMAIN table.rows : RowFits(table.schema, table.rows[r])
  /\ \A c \in table.schema.unique \cup {x[1] : x \in {y \in Range(table.idx) : y[2]}} :
       \A r, q \in DOMAIN table.rows :
         r # q /\ table.rows[r][c] # Null => table.rows[r][c] # table.rows[q][c]

SoundView(v) == \A t \in DOMAIN v : Sound(v[t])

-----------------------------------------------------------------------------
(* Statements.                                                             *)

\* A clause names columns of the table, and data of their type.
ResolvedBy(schema, clause) ==
  \A c \in DOMAIN clause : c \in schema.cols /\ ValueFits(schema, c, clause[c])

\* The rows a clause of equalities selects; NULL equals nothing.
Chosen(table, where) ==
  {r \in DOMAIN table.rows : \A c \in DOMAIN where : {table.rows[r][c]} \ {Null} = {where[c]}}

\* The table with the assignments `set` made in the rows `rs`.
Assign(table, rs, set) ==
  [table EXCEPT !.rows =
     [r \in DOMAIN @ |->
        IF r \notin rs THEN @[r]
        ELSE [c \in DOMAIN @[r] |-> IF c \in DOMAIN set THEN set[c] ELSE @[r][c]]]]

\* The row with the assignments of an UPDATE, and the rows with them in `rs`.
AssignedRow(row, set) == [c \in DOMAIN row |-> IF c \in DOMAIN set THEN set[c] ELSE row[c]]

AssignedRows(rows, rs, set) ==
  [r \in DOMAIN rows |-> IF r \in rs THEN AssignedRow(rows[r], set) ELSE rows[r]]

\* The rows that a DELETE of `gone` leaves.
KeptRows(rows, gone) == [r \in DOMAIN rows \ gone |-> rows[r]]

\* A record of what is seen of a table.
IsSeen(x) == x = WithRows(x, KeptRows(x.rows, {}))

-----------------------------------------------------------------------------
(* Undo records.                                                           *)

\* The table seen after a record that is not of its creation has been undone.
UndoneIn(x, u) ==
  CASE u.op = "CreateIndex" -> WithIdx(x, Dropped(x.idx, u.i))
    [] u.op = "Insert" -> WithRows(x, Dropped(x.rows, u.r))
    [] OTHER -> WithRows(x, Added(x.rows, u.r, u.row))

UndoneView(v, u) ==
  IF u.op = "CreateTable" THEN Dropped(v, u.t)
  ELSE [t \in DOMAIN v |-> IF t = u.t THEN UndoneIn(v[t], u) ELSE v[t]]

CanBeUndone(v, u) ==
  u.op # "CreateTable" =>
    /\ u.t \in DOMAIN v
    /\ u.op = "CreateIndex" => u.i \in DOMAIN v[u.t].idx
    /\ u.op \in {"Insert", "Update"} => u.r \in DOMAIN v[u.t].rows

=============================================================================
