------------------------------- MODULE Planner ------------------------------
(***************************************************************************)
(* The queries that the database with its statistics can be asked at any   *)
(* moment between two statements.                                          *)
(***************************************************************************)
EXTENDS Statistics, Query

CONSTANT Queries  \* the SELECTs asked of every table

-----------------------------------------------------------------------------
(* Properties.                                                             *)

\* The three-valued logic of SQL: a comparison with NULL is unknown, AND and
\* OR take the least and the greatest of false < unknown < true.
RECURSIVE Truth(_, _)
Truth(row, p) ==
  CASE p.op = "all" -> 2
    [] p.op = "cmp" -> IF row[p.col] = Null \/ p.val = Null THEN 1
                       ELSE LET x == row[p.col] y == p.val IN
                         IF \/ p.cmp = "=" /\ x = y
                            \/ p.cmp = "<>" /\ x # y
                            \/ p.cmp \in {"<", "<="} /\ x < y
                            \/ p.cmp \in {">", ">="} /\ x > y
                            \/ p.cmp \in {"<=", ">="} /\ x = y THEN 2 ELSE 0
    [] p.op = "and" -> Min({Truth(row, p.l), Truth(row, p.r)})
    [] p.op = "or" -> Max({Truth(row, p.l), Truth(row, p.r)})

\* The rows a WHERE clause asks for.
Wanted(t, p) == {r \in DOMAIN t.rows : Truth(t.rows[r], p) = 2}

\* `P` holds of every table and every query the table can be asked now.
ForQueries(P(_, _)) ==
  call.phase = "ready" =>
    \A t \in DOMAIN tables : \A q \in Queries :
      Resolved(tables[t], q) => P(tables[t], q)

\* Whatever has happened to the table and its indexes, in and out of
\* transactions, and whichever way the rows are found, a SELECT gives exactly
\* the rows its WHERE clause is true of (not false, not unknown; README.md,
\* "SQL-correct `NULL` handling in `WHERE` predicates (unknown comparisons
\* filter out)"), each of them once, and as many of them as LIMIT allows; and
\* COUNT(*) gives the number of these.
WhereIsThreeValued ==
  ForQueries(LAMBDA t, q :
    /\ \A ids \in Selected(t, q) :
         ToSet(ids) \subseteq Wanted(t, q.where) /\ Cardinality(ToSet(ids)) = Len(ids)
    /\ Counted(t, q) = {Min({q.limit, Cardinality(Wanted(t, q.where))})})

\* Where no wanted row has NULL in the column of ORDER BY, the answer is in its
\* order and LIMIT keeps the first rows of it: no row left out comes before a
\* row given, so that the answers of an index and of a scan have the same keys.
LimitKeepsTheFirst ==
  ForQueries(LAMBDA t, q :
    LET wanted == Wanted(t, q.where) IN
    (\A o \in q.order : \A r \in wanted : t.rows[r][o[1]] # Null) =>
      \A ids \in Selected(t, q) :
        /\ \A k \in 1..(Len(ids) - 1) : ~ComesBefore(t, ids[k + 1], ids[k], q.order)
        /\ \A r \in wanted \ ToSet(ids) : \A k \in DOMAIN ids : ~ComesBefore(t, r, ids[k], q.order))

-----------------------------------------------------------------------------
(* Statements of the documentation that the code does not keep.            *)

\* docs/MILESTONES.md, "Sorting mixed values should be rejected or defined":
\* whatever place NULL has, the other keys of ORDER BY come in their order.
OrderIsDefined ==
  ForQueries(LAMBDA t, q :
    \A ids \in Selected(t, q) :
      \A k, m \in DOMAIN ids : k < m => ~ComesBefore(t, ids[m], ids[k], q.order))

=============================================================================
