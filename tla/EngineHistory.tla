--------------------------- MODULE EngineHistory ---------------------------
(***************************************************************************)
(* The engine with the history its properties speak about: what the        *)
(* database looked like when the transaction and the statement began, and  *)
(* the two events after which a ROLLBACK cannot restore it.                *)
(***************************************************************************)
EXTENDS Engine, Views

VARIABLES
  base,    \* what the database showed when the transaction began (now, if none)
  before,  \* what it showed when the running statement began (now, if none)
  broken,  \* the transaction dropped a table or an index, or an UPDATE in it
           \* failed after it had changed a row
  leaked   \* transactions whose ROLLBACK failed

vars == <<tables, txn, locks, nextTx, call, base, before, broken, leaked>>

PartialUpdate == call.phase = "update" /\ call'.phase = "error" /\ call.log # <<>>

DropsInside ==
  Active /\ call'.phase = "ok" /\ call'.stmt.op \in {"DropTable", "DropIndex"}
         /\ call.phase = "ready"

Init ==
  /\ EmptyDatabase
  /\ base = View /\ before = View
  /\ broken = FALSE
  /\ leaked = {}

\* No transaction is active and no statement runs.
Quiet == txn.id = NoTx /\ call.phase = "ready"

Remembers ==
  /\ base' = IF Quiet' THEN View' ELSE base
  /\ before' = IF call'.phase = "ready" THEN View' ELSE before
  /\ broken' = (~Quiet' /\ (broken \/ DropsInside \/ (Active /\ PartialUpdate)))
  /\ leaked' = IF call.phase = "undo" /\ call'.phase = "error"
               THEN leaked \cup {call.tx} ELSE leaked

Next == EngineNext /\ Remembers

\* A statement that has begun runs to its end: nothing else runs meanwhile.
Spec == Init /\ [][Next]_vars /\ WF_vars((Continues \/ Returns) /\ Remembers)

-----------------------------------------------------------------------------
(* Properties.                                                             *)

\* Every table has its declared shape, and transactions, locks and the
\* running statement are what their declarations say.
TypeOK ==
  /\ DOMAIN tables \subseteq TableName
  /\ \A t \in DOMAIN tables : TableType(tables[t])
  /\ txn \in [id : 0..MaxTx, undo : Seq(UndoRecord)]
  /\ locks \in [TableName -> [shared : SUBSET (1..MaxTx), excl : 0..MaxTx]]
  /\ nextTx \in 0..(MaxTx + 1)
  /\ call \in [phase : {"ready", "update", "delete", "undo", "ok", "error"},
               stmt : Stmts \cup {Ready.stmt}, todo : SUBSET RowId,
               log : Seq(UndoRecord), tx : 0..MaxTx]
  /\ leaked \subseteq 1..MaxTx

\* In every state, also between two rows of a statement, inside a ROLLBACK
\* and after a statement that failed half way, every table satisfies its
\* schema and its UNIQUE constraints and its indexes mirror its rows.
TablesAreSound ==
  \A t \in DOMAIN tables :
    RowsFit(tables[t]) /\ NextIsFresh(tables[t]) /\ UniqueHolds(tables[t])
    /\ IndexExact(tables[t])

\* ROLLBACK brings back exactly the tables, rows, row ids and indexes the
\* transaction began with, whatever it inserted, updated, deleted and
\* created in whatever order, unless it was broken (db.rs:228, :278).
RollbackRestores ==
  call.phase = "ok" /\ call.stmt.op = "Rollback" /\ ~broken => View = base

\* No undo record of an unbroken transaction fails to apply: undoing in
\* reverse order never meets a UNIQUE clash, a missing row or a missing
\* table, so ROLLBACK never stops half way (the `?` at db.rs:235).
RollbackSucceeds ==
  call.phase = "error" /\ call.stmt.op = "Rollback" /\ call.tx # NoTx => broken

\* The row a DELETE removed is put back under an id no row has: the ids of
\* deleted rows are not given to the rows inserted after it, so
\* insert_with_row_id never overwrites a row and leaves no stale index entry.
UndoNeverOverwrites ==
  call.phase = "undo" /\ call.log # <<>> =>
    LET u == Last(call.log) IN
    u.op = "Delete" /\ u.t \in DOMAIN tables => u.r \notin DOMAIN tables[u.t].rows

\* A lock is held only by the active transaction, by one whose ROLLBACK is
\* running, or by one whose ROLLBACK failed.
LocksFollowTransaction ==
  \A t \in TableName :
    Holders(locks[t]) \subseteq ({txn.id, call.tx} \cup leaked) \ {NoTx}

\* While a transaction is active or is being rolled back, a table changes,
\* appears or vanishes only under its exclusive lock.
ChangesAreLocked ==
  LET owner == IF Active THEN txn.id ELSE call.tx IN
  owner # NoTx =>
    \A t \in TableName :
      \/ t \notin DOMAIN tables /\ t \notin DOMAIN tables'
      \/ t \in DOMAIN tables /\ t \in DOMAIN tables' /\ tables[t] = tables'[t]
      \/ locks'[t].excl = owner

\* ROLLBACK included, no change of a transaction escapes its locks (every
\* acquire_write_lock in execution.rs comes before the change, and
\* release_all at db.rs:238 after the last undo).
WritesAreLocked == [][ChangesAreLocked]_vars

\* An UPDATE that stops at a row is right to: all its rows together, with the
\* assignments made, violate a constraint too.  Checking one row at a time,
\* against rows of which some are updated and some are not, and in whatever
\* order an index gives them, refuses no UPDATE whose result is sound (the loop
\* over replace_row at execution.rs:304).
RefusedUpdatesClash ==
  [][call.phase = "update" /\ call'.phase = "error" =>
       LET was == before[call.stmt.t] IN
       ~Sound(Assign(was, Chosen(was, call.stmt.where), call.stmt.set))]_vars

\* Every statement ends and returns to its client.
StatementsReturn == call.phase # "ready" ~> call.phase = "ready"

\* What clients see once the running statement has ended: until then it has
\* not taken place.
Shown == IF call.phase \in {"ready", "ok", "error"} THEN View ELSE before

Open == Active \/ call.phase = "undo"

Store == INSTANCE SqlStore WITH
  db <- Shown, saved <- IF Open THEN base ELSE Shown, open <- Open, broken <- Open /\ broken

\* The engine, with its indexes, undo log, locks and row by row loops, is a
\* store in which every statement takes place at once: an UPDATE that checks
\* each row against the rows as they are leaves, when it succeeds, what one
\* assignment to all its rows would, and ROLLBACK is one step back.  (The store
\* says nothing of results: a statement that changes nothing is no step of it.)
ImplementsStore == Store!Spec

-----------------------------------------------------------------------------
(* Statements of the documentation that the code does not keep.            *)

\* docs/ROADMAP.md, "Rollback reliably undoes inserts, updates, and deletes":
\* after a ROLLBACK, one that failed included, each table that was there when the
\* transaction began, and that no one dropped, has the rows it had then.  It has
\* not after an UPDATE that failed at a later row, since its undo records went
\* with the error (execution.rs:304), and not when the records of a dropped table
\* stop the ROLLBACK before those of another one (execution.rs:112, db.rs:235).
RollbackUndoesRows ==
  call.phase \in {"ok", "error"} /\ call.stmt.op = "Rollback" /\ call.tx # NoTx
    => \A t \in DOMAIN base \cap DOMAIN tables : tables[t].rows = base[t].rows

=============================================================================
