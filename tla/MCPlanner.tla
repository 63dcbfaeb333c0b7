------------------------------ MODULE MCPlanner -----------------------------
(* One table of two nullable columns and up to three rows, with an index    *)
(* that comes and goes, and SELECTs by all kinds of predicates.             *)
EXTENDS Planner, TLC

CONSTANTS ta, k, w, ix

MCColumn == {k, w}
MCValue == 1..2
MCColumnType == [c \in MCColumn |-> MCValue]

Narrow == [cols |-> {k}, notNull |-> {}, unique |-> {}]
Wide == [cols |-> {k, w}, notNull |-> {}, unique |-> {}]

Cmp(c, cmp, v) == [op |-> "cmp", col |-> c, cmp |-> cmp, val |-> v]
And(l, r) == [op |-> "and", l |-> l, r |-> r]
Or(l, r) == [op |-> "or", l |-> l, r |-> r]

Wheres ==
  {[op |-> "all"],
   Cmp(k, "=", 1), Cmp(k, "=", Null), Cmp(k, "<>", 1), Cmp(w, "<=", 1),
   And(Cmp(w, "=", 1), Cmp(k, "=", 2)),
   And(Cmp(w, ">=", 1), And(Cmp(k, "=", 1), Cmp(k, "<", 2))),
   Or(Cmp(k, "=", 1), Cmp(w, "=", 1)),
   And(Or(Cmp(k, "=", 2), Cmp(k, ">", 1)), Cmp(k, "=", 2))}

\* Rows come and go, and tables of one name and different columns.
MCStmts ==
  {[op |-> "Analyze", only |-> ts] : ts \in {{}, {ta}}} \cup
  {[op |-> "Explain", t |-> ta, compares |-> e] : e \in {{}, {<<k, Null>>}, {<<w, 1>>}}} \cup
  {[op |-> "Begin"], [op |-> "Rollback"],
   [op |-> "DropTable", t |-> ta],
   [op |-> "CreateIndex", t |-> ta, i |-> ix, c |-> k, unique |-> FALSE],
   [op |-> "Update", t |-> ta, set |-> (k :> 1), where |-> (k :> 2)],
   [op |-> "Delete", t |-> ta, where |-> (k :> 1)]} \cup
  {[op |-> "CreateTable", t |-> ta, schema |-> s] : s \in {Narrow, Wide}} \cup
  {[op |-> "Insert", t |-> ta, row |-> (k :> e[1] @@ w :> e[2])] :
     e \in {<<1, 1>>, <<2, 1>>, <<2, Null>>, <<Null, 1>>}} \cup
  {[op |-> "Insert", t |-> ta, row |-> (k :> 1)]}

MCQueries ==
  [where : Wheres,
   order : {{}, {<<k, "Asc">>}, {<<w, "Desc">>}},
   limit : {1, 3}]
=============================================================================
