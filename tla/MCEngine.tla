------------------------------ MODULE MCEngine -----------------------------
(***************************************************************************)
(* Small instances of EngineHistory.  All statements at once make an       *)
(* instance too large: each behaviour stays in one of the worlds, with     *)
(* statements and bounds of its own.                                       *)
(***************************************************************************)
EXTENDS EngineHistory, TLC

CONSTANTS ta, tb, k, w, v1, v2, ix, Worlds

MCColumn == {k, w}
MCValue == {v1, v2}
MCColumnType == [c \in MCColumn |-> MCValue]

Plain == [cols |-> {k}, notNull |-> {}, unique |-> {}]
Keyed == [cols |-> {k, w}, notNull |-> {w}, unique |-> {k}]

Tx == {[op |-> "Begin"], [op |-> "Commit"], [op |-> "Rollback"]}

\* Rows of a table with a UNIQUE key come and go, and an index with them: two
\* rows without a key let an UPDATE of both change the first and fail at the
\* second.
RowStmts ==
  Tx \cup
  {[op |-> "CreateTable", t |-> ta, schema |-> Keyed],
   [op |-> "CreateIndex", t |-> ta, i |-> ix, c |-> w, unique |-> TRUE]} \cup
  {[op |-> "Insert", t |-> ta, row |-> (k :> x @@ w :> v1)] : x \in {v1, v2, Null}} \cup
  {[op |-> "Insert", t |-> ta, row |-> (k :> Null @@ w :> Null)]} \cup
  {[op |-> "Update", t |-> ta, set |-> (k :> v1), where |-> y] : y \in {<<>>, (w :> v1)}} \cup
  {[op |-> "Update", t |-> ta, set |-> (w :> x), where |-> (w :> v1)] : x \in {v2, Null}} \cup
  {[op |-> "Update", t |-> ta, set |-> (w :> v1), where |-> (k :> v1)]} \cup
  {[op |-> "Delete", t |-> ta, where |-> y] : y \in {<<>>, (k :> v1)}}

\* Tables and indexes come and go, two of the indexes under the same name.
SchemaStmts ==
  Tx \cup
  {[op |-> "CreateTable", t |-> x, schema |-> Plain] : x \in {ta, tb}} \cup
  {[op |-> "DropTable", t |-> ta],
   [op |-> "CreateIndex", t |-> ta, i |-> ix, c |-> k, unique |-> TRUE],
   [op |-> "CreateIndex", t |-> tb, i |-> ix, c |-> k, unique |-> FALSE],
   [op |-> "DropIndex", i |-> ix],
   [op |-> "Delete", t |-> ta, where |-> (k :> v1)],
   [op |-> "Select", t |-> ta, where |-> (k :> v1)]} \cup
  {[op |-> "Insert", t |-> ta, row |-> (k :> x)] : x \in MCValue}

\* A table is dropped between changes of it and of another one.
DropStmts ==
  Tx \cup
  {[op |-> "CreateTable", t |-> x, schema |-> Plain] : x \in {ta, tb}} \cup
  {[op |-> "Insert", t |-> x, row |-> (k :> v1)] : x \in {ta, tb}} \cup
  {[op |-> "DropTable", t |-> ta]}

MCStmts == RowStmts \cup SchemaStmts
UndoStmts == RowStmts \cup DropStmts

-----------------------------------------------------------------------------
VARIABLE world

World ==
  CASE world = "rows"   -> [stmts |-> RowStmts, rowIds |-> 3, tx |-> 1, undo |-> 3]
    [] world = "schema" -> [stmts |-> SchemaStmts, rowIds |-> 2, tx |-> 2, undo |-> 2]
    [] world = "drops"  -> [stmts |-> DropStmts, rowIds |-> 2, tx |-> 1, undo |-> 2]

\* A statement sent now is one of the world's, within the world's bounds.
InWorld ==
  LET s == call'.stmt IN
  call.phase = "ready" =>
    /\ s \in World.stmts
    /\ s.op = "Insert" /\ s.t \in DOMAIN tables => tables[s.t].next <= World.rowIds
    /\ s.op = "Begin" => nextTx <= World.tx
    /\ Active /\ s.op \in {"CreateTable", "CreateIndex", "Insert", "Update", "Delete"}
         => Len(txn.undo) < World.undo

MCInit == Init /\ world \in Worlds
MCNext == Next /\ InWorld /\ UNCHANGED world
MCSpec == MCInit /\ [][MCNext]_<<vars, world>> /\ WF_vars((Continues \/ Returns) /\ Remembers)
=============================================================================
