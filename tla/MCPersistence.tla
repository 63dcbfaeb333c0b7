---------------------------- MODULE MCPersistence --------------------------
(* Small instances of Persistence.                                         *)
EXTENDS Persistence

CONSTANTS ta, tb, k, v1, v2, ix

MCColumn == {k}
MCValue == {v1, v2}
MCColumnType == [c \in MCColumn |-> MCValue]

Plain == [cols |-> {k}, notNull |-> {}, unique |-> {}]
Keyed == [cols |-> {k}, notNull |-> {}, unique |-> {k}]

Tx == {[op |-> "Begin"], [op |-> "Commit"], [op |-> "Rollback"]}
Checkpoint == [op |-> "Checkpoint"]
Inserts == {[op |-> "Insert", t |-> ta, row |-> (k :> x)] : x \in MCValue}

\* The rows of a table with a UNIQUE key, in and out of transactions.
RowStmts ==
  Tx \cup Inserts \cup
  {Checkpoint,
   [op |-> "CreateTable", t |-> ta, schema |-> Keyed],
   [op |-> "Update", t |-> ta, set |-> (k :> v2), where |-> <<>>],
   [op |-> "Delete", t |-> ta, where |-> (k :> v1)]}

\* Tables and indexes, two of the indexes under the same name.
SchemaStmts ==
  Tx \cup
  {Checkpoint,
   [op |-> "CreateTable", t |-> ta, schema |-> Plain],
   [op |-> "CreateTable", t |-> tb, schema |-> Plain],
   [op |-> "Insert", t |-> ta, row |-> (k :> v1)],
   [op |-> "DropTable", t |-> ta],
   [op |-> "CreateIndex", t |-> ta, i |-> ix, c |-> k, unique |-> TRUE],
   [op |-> "CreateIndex", t |-> tb, i |-> ix, c |-> k, unique |-> FALSE],
   [op |-> "DropIndex", i |-> ix]}

\* A little of everything, for the run that goes on after trust is lost.
OpenStmts ==
  {[op |-> "Begin"], [op |-> "Rollback"], Checkpoint,
   [op |-> "CreateTable", t |-> ta, schema |-> Keyed],
   [op |-> "Insert", t |-> ta, row |-> (k :> v1)],
   [op |-> "Select", t |-> ta, where |-> <<>>]}

MCStmts == RowStmts \cup SchemaStmts \cup OpenStmts

\* Transactions and CHECKPOINT, for the run about sessions.
SessionStmts ==
  Tx \cup {Checkpoint, [op |-> "CreateTable", t |-> ta, schema |-> Keyed]}

\* A transaction with something in it, for the run about restarts.
RestartStmts ==
  Inserts \cup
  {[op |-> "Begin"], [op |-> "Commit"], [op |-> "CreateTable", t |-> ta, schema |-> Plain]}

\* Rows, CHECKPOINTs and two indexes of one name, without transactions, for the
\* run about what fails.
DurableStmts ==
  Inserts \cup {Checkpoint, [op |-> "DropIndex", i |-> ix]} \cup
  {[op |-> "CreateTable", t |-> x, schema |-> Plain] : x \in {ta, tb}} \cup
  {[op |-> "CreateIndex", t |-> x, i |-> ix, c |-> k, unique |-> FALSE] : x \in {ta, tb}}

-----------------------------------------------------------------------------
(* All statements at once make an instance too large: each behaviour stays *)
(* in one of three worlds, with statements and bounds of its own.  What    *)
(* follows the loss of trust is of interest in the world "open" only.      *)

VARIABLE world

World ==
  CASE world = "rows"   -> [stmts |-> RowStmts, next |-> 4, wal |-> 3, faults |-> 2]
    [] world = "schema" -> [stmts |-> SchemaStmts, next |-> 3, wal |-> 3, faults |-> 1]
    [] world = "open"   -> [stmts |-> OpenStmts, next |-> 3, wal |-> 3, faults |-> 2]

InWorld ==
  /\ call.phase # "ready" => call.stmt \in World.stmts
  /\ \A t \in DOMAIN tables : tables[t].next <= World.next
  /\ Len(wal.lines) <= World.wal /\ faults <= World.faults
  /\ trusted \/ world = "open"

MCInit == Init /\ world \in {"rows", "schema", "open"}
MCNext == Next /\ UNCHANGED world
MCSpec == MCInit /\ [][MCNext]_<<vars, world>> /\ WF_vars(Loading)

=============================================================================
