------------------------------ MODULE Sessions ------------------------------
(***************************************************************************)
(* What a statement of the log means: a session is what clients see of the *)
(* database, whether a transaction is open, what its undo log holds as far *)
(* as it matters for whether ROLLBACK succeeds, and what ROLLBACK goes     *)
(* back to.  `Permits` tells whether a statement succeeds in a session,    *)
(* `After` the session it leaves.                                          *)
(*                                                                         *)
(* The rows of a session may have other ids than those of the engine that  *)
(* runs the same statements: a database that was reopened numbers its rows *)
(* anew.  Only their order is the same, which is what `Alike` says.        *)
(***************************************************************************)
EXTENDS Views, Sequences, FiniteSets

-----------------------------------------------------------------------------
(* Rows under other ids.                                                   *)

\* Rows by their ids, of which there is a largest one.
HasIds(rows) == rows = KeptRows(rows, {}) /\ \E n \in Nat : DOMAIN rows \subseteq 1..n

\* `f` gives each row of `p` the id it has in `q`, and keeps the order.
Renames(f, p, q) ==
  /\ f \in [DOMAIN p -> DOMAIN q]
  /\ \A a, b \in DOMAIN p : a < b => f[a] < f[b]
  /\ \A z \in DOMAIN q : \E a \in DOMAIN p : f[a] = z
  /\ \A a \in DOMAIN p : q[f[a]] = p[a]

SameRows(p, q) == HasIds(p) /\ HasIds(q) /\ \E f : Renames(f, p, q)

Alike(x, y) ==
  x.schema = y.schema /\ x.idx = y.idx /\ SameRows(x.rows, y.rows)

AlikeDb(v, w) == DOMAIN v = DOMAIN w /\ \A t \in DOMAIN v : Alike(v[t], w[t])

-----------------------------------------------------------------------------
(* Statements.                                                             *)

\* The id of a new row: above every id in use.
Fresh(rows) == CHOOSE r \in RowId : \A q \in DOMAIN rows : q < r

NewView(schema) ==
  [schema |-> schema, rows |-> [r \in {} |-> Null], idx |-> [i \in {} |-> Null]]

\* The statements on the rows or the indexes of one table.
OnTable == {"CreateIndex", "Insert", "Update", "Delete"}

\* The table after the statement.
Changed(x, s) ==
  CASE s.op = "CreateIndex" -> WithIdx(x, Added(x.idx, s.i, <<s.c, s.unique>>))
    [] s.op = "Insert" -> WithRows(x, Added(x.rows, Fresh(x.rows), s.row))
    [] s.op = "Update" -> WithRows(x, AssignedRows(x.rows, Chosen(x, s.where), s.set))
    [] OTHER -> WithRows(x, KeptRows(x.rows, Chosen(x, s.where)))

\* The table accepts the statement.
Takes(x, s) ==
  /\ s.op = "CreateIndex" => s.i \notin DOMAIN x.idx /\ s.c \in x.schema.cols
  /\ s.op \in {"Update", "Delete"} => ResolvedBy(x.schema, s.where)
  /\ s.op = "Update" => ResolvedBy(x.schema, s.set)
  /\ Sound(Changed(x, s))

Owners(db, i) == {t \in DOMAIN db : i \in DOMAIN db[t].idx}

WithoutIndex(db, i) == [t \in DOMAIN db |-> WithIdx(db[t], Dropped(db[t].idx, i))]

PermitsOn(db, s) ==
  /\ s.op = "CreateTable" => s.t \notin DOMAIN db
  /\ s.op = "DropTable" \/ s.op \in OnTable => s.t \in DOMAIN db
  /\ s.op \in OnTable => Takes(db[s.t], s)
  /\ s.op = "DropIndex" => \E t \in DOMAIN db : Owners(db, s.i) = {t}

DbAfter(db, s) ==
  CASE s.op = "CreateTable" -> Added(db, s.t, NewView(s.schema))
    [] s.op = "DropTable" -> Dropped(db, s.t)
    [] s.op = "DropIndex" -> WithoutIndex(db, s.i)
    [] s.op \in OnTable -> Added(db, s.t, Changed(db[s.t], s))
    [] OTHER -> db

-----------------------------------------------------------------------------
(* Transactions.                                                           *)

\* What a ROLLBACK does with a record, as far as the rows do not matter.
Kind(u) ==
  IF u.op = "CreateIndex" THEN [op |-> u.op, t |-> u.t, i |-> u.i] ELSE [op |-> u.op, t |-> u.t]

\* The records of a statement.
Recorded(db, s) ==
  CASE s.op \in {"CreateTable", "Insert"} -> <<[op |-> s.op, t |-> s.t]>>
    [] s.op = "CreateIndex" -> <<[op |-> s.op, t |-> s.t, i |-> s.i]>>
    [] s.op \in {"Update", "Delete"} ->
         [n \in 1..Cardinality(Chosen(db[s.t], s.where)) |-> [op |-> s.op, t |-> s.t]]
    [] OTHER -> <<>>

\* The table or the index of the record is gone.
Lost(u, db) ==
  \/ u.op # "CreateTable" /\ u.t \notin DOMAIN db
  \/ u.op = "CreateIndex" /\ u.t \in DOMAIN db /\ u.i \notin DOMAIN db[u.t].idx

\* `m` made the table or the index of `u`, which was there before it, anew.
Remakes(m, u) ==
  /\ m.t = u.t
  /\ \/ m.op = "CreateTable" /\ u.op # "CreateTable"
     \/ m.op = "CreateIndex" /\ u.op = "CreateIndex" /\ m.i = u.i

\* A ROLLBACK of these records cannot get to the end.
Doomed(undo, db) ==
  \E n \in DOMAIN undo :
    Lost(undo[n], db) \/ \E m \in DOMAIN undo : m > n /\ Remakes(undo[m], undo[n])

\* What ROLLBACK goes back to: what was dropped since is not there.
BaseAfter(base, s) ==
  CASE s.op = "DropTable" -> Dropped(base, s.t)
    [] s.op = "DropIndex" -> WithoutIndex(base, s.i)
    [] OTHER -> base

-----------------------------------------------------------------------------
(* Sessions.                                                               *)

NoSession == [db |-> [t \in {} |-> 0], open |-> FALSE, undo |-> <<>>, base |-> [t \in {} |-> 0]]

Permits(x, s) ==
  CASE s.op = "Begin" -> ~x.open
    [] s.op = "Commit" -> x.open
    [] s.op = "Rollback" -> x.open /\ ~Doomed(x.undo, x.db)
    [] OTHER -> PermitsOn(x.db, s)

After(x, s) ==
  CASE s.op = "Begin" -> [db |-> x.db, open |-> TRUE, undo |-> <<>>, base |-> x.db]
    [] s.op = "Commit" -> [db |-> x.db, open |-> FALSE, undo |-> <<>>, base |-> x.db]
    [] s.op = "Rollback" -> [db |-> x.base, open |-> FALSE, undo |-> <<>>, base |-> x.base]
    [] OTHER ->
         [db |-> DbAfter(x.db, s), open |-> x.open,
          undo |-> IF x.open THEN x.undo \o Recorded(x.db, s) ELSE x.undo,
          base |-> BaseAfter(x.base, s)]

=============================================================================
