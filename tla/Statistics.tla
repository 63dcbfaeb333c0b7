----------------------------- MODULE Statistics -----------------------------
(***************************************************************************)
(* The database with the statistics of the optimizer                       *)
(* (src/src/optimizer.rs): ANALYZE makes them, EXPLAIN shows them, and     *)
(* they go only with their table (src/src/db.rs).  They are no part of     *)
(* transactions: they survive ROLLBACK and every later change of the rows. *)
(*                                                                         *)
(* ANALYZE names at most one table, in `only`; without one it means them   *)
(* all.  Of the statement that EXPLAIN explains only the table and the     *)
(* pairs <<column, datum>> its WHERE clause compares matter, `compares`.   *)
(***************************************************************************)
EXTENDS Engine

VARIABLES
  stats,  \* the statistics of the tables analyzed so far, by name
  fresh   \* history: the tables whose rows have not changed since their ANALYZE

vars == <<tables, txn, locks, nextTx, call, stats, fresh>>

-----------------------------------------------------------------------------
(* Statistics of one table.                                                *)

\* TableStats::from_rows: NULL counts as a value.
StatsOf(t) ==
  [rows |-> Cardinality(DOMAIN t.rows),
   distinct |-> [c \in t.schema.cols |-> Cardinality({t.rows[r][c] : r \in DOMAIN t.rows})]]

\* Bug: the rows are divided by the number of the columns.
EstimateByColumns(st, c) ==
  Min({Max({st.rows \div Cardinality(DOMAIN st.distinct), 1}), st.rows})

\* estimate_equality_rows
Estimate(st, c) ==
  LET distinct == IF c \in DOMAIN st.distinct THEN st.distinct[c] ELSE 1 IN
  Min({Max({st.rows \div Max({distinct, 1}), 1}), st.rows})

\* describe_access_path, for a table with statistics: how EXPLAIN says the rows
\* are found and how many it expects, when the indexes `used` can answer the
\* predicate (Lookups in Query), of which the code takes the first.
AccessPaths(t, used, st) ==
  IF used = {} THEN {[path |-> "SeqScan", rows |-> st.rows]}
  ELSE {[path |-> "IndexLookup", col |-> t.idx[i].col, rows |-> Estimate(st, t.idx[i].col)]
          : i \in used}

-----------------------------------------------------------------------------
(* The database.                                                           *)

Init == EmptyDatabase /\ stats = [t \in {} |-> 0] /\ fresh = {}

\* Bug: the statistics of a table outlive it.
Keeps(t) == stats

Forgets(t) == [n \in DOMAIN stats \ {t} |-> stats[n]]

\* drop_table and the undo of CREATE TABLE remove the statistics.
Engines ==
  /\ EngineNext
  /\ stats' = CASE call.phase = "ready" /\ call'.phase = "ok" /\ call'.stmt.op = "DropTable"
                     -> Forgets(call'.stmt.t)
                [] call.phase = "undo" /\ call.log # <<>> /\ Last(call.log).op = "CreateTable"
                     -> Forgets(Last(call.log).t)
                [] OTHER -> stats
  /\ fresh' = {t \in fresh \cap DOMAIN tables' : tables'[t].rows = tables[t].rows}

\* ANALYZE takes no lock and leaves no undo record.
AnalyzeStmt(s) ==
  /\ Begins /\ s.op = "Analyze"
  /\ LET ts == IF s.only = {} THEN DOMAIN tables ELSE s.only IN
     \/ /\ ts \subseteq DOMAIN tables
        /\ stats' = [t \in DOMAIN stats \cup ts |->
                       IF t \in ts THEN StatsOf(tables[t]) ELSE stats[t]]
        /\ fresh' = fresh \cup ts
        /\ Ends(s, "ok")
        /\ UNCHANGED <<tables, txn, nextTx, locks>>
     \/ ~(ts \subseteq DOMAIN tables) /\ Fails(s) /\ UNCHANGED <<locks, stats, fresh>>

\* EXPLAIN takes no lock either and changes nothing.
ExplainStmt(s) ==
  /\ Begins /\ s.op = "Explain"
  /\ Ends(s, IF /\ s.t \in DOMAIN tables
                /\ \A e \in s.compares : /\ e[1] \in tables[s.t].schema.cols
                                         /\ ValueFits(tables[s.t].schema, e[1], e[2])
             THEN "ok" ELSE "error")
  /\ UNCHANGED <<tables, txn, locks, nextTx, stats, fresh>>

Next == Engines \/ \E s \in Stmts : AnalyzeStmt(s) \/ ExplainStmt(s)

Spec == Init /\ [][Next]_vars

-----------------------------------------------------------------------------
(* Properties.                                                             *)

\* Statistics are of tables that exist and of the columns they have now, never
\* of an earlier table of the same name (the two stats.remove in db.rs).
StatsFitSchema ==
  \A t \in DOMAIN stats :
    t \in DOMAIN tables /\ DOMAIN stats[t].distinct = tables[t].schema.cols

\* While the rows of a table are those ANALYZE saw, the estimate EXPLAIN shows
\* for the lookup in an index is one a key of its column could meet: some key
\* has at least as many rows, and some key has no more.  (What it shows for a
\* scan is the number of rows.)
EstimateIsPossible ==
  \A n \in fresh :
    LET t == tables[n]
        having(c, v) == Cardinality({r \in DOMAIN t.rows : t.rows[r][c] = v})
        keys(c) == {t.rows[r][c] : r \in DOMAIN t.rows} IN
    \A used \in SUBSET DOMAIN t.idx :
      \A path \in AccessPaths(t, used, stats[n]) :
        /\ path.path = "SeqScan" => path.rows = Cardinality(DOMAIN t.rows)
        /\ path.path = "IndexLookup" /\ DOMAIN t.rows # {} =>
             /\ \E v \in keys(path.col) : having(path.col, v) >= path.rows
             /\ \E v \in keys(path.col) : having(path.col, v) <= path.rows

=============================================================================
