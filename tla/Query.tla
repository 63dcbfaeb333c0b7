-------------------------------- MODULE Query -------------------------------
(***************************************************************************)
(* SELECT (src/src/execution.rs) as a function of a table.                 *)
(*                                                                         *)
(* A predicate is a tree of comparisons, ANDs and ORs; [op |-> "all"] is   *)
(* the missing WHERE clause.  A query has a predicate `where`, `order` (a  *)
(* set with at most one pair <<column, direction>>) and `limit`, a natural *)
(* (a large one when there is none).  Its answer is the sequence of the    *)
(* row ids, or their number; any other projection is left out.             *)
(*                                                                         *)
(* The data of a column have one type and its order: they are named by     *)
(* naturals in that order.                                                 *)
(***************************************************************************)
EXTENDS Table, SequencesExt

ASSUME OrderAssumption == Value \subseteq Nat

Columns(p) ==
  LET RECURSIVE In(_)
      In(x) == CASE x.op = "all" -> {}
                 [] x.op = "cmp" -> {<<x.col, x.val>>}
                 [] OTHER -> In(x.l) \cup In(x.r)
  IN In(p)

\* resolve_predicate: every comparison is of a known column with a datum the
\* column could hold, so `x = NULL` is an error for a NOT NULL column.
ResolvesPredicate(t, p) ==
  \A e \in Columns(p) : e[1] \in t.schema.cols /\ ValueFits(t.schema, e[1], e[2])

\* A SELECT that is no error: the column of ORDER BY is known too.
Resolved(t, q) ==
  ResolvesPredicate(t, q.where) /\ \A o \in q.order : o[1] \in t.schema.cols

\* compare_values
Compare(x, cmp, y) ==
  /\ x # Null /\ y # Null
  /\ CASE cmp = "=" -> x = y [] cmp = "<>" -> x # y
       [] cmp = "<" -> x < y [] cmp = "<=" -> x <= y
       [] cmp = ">" -> x > y [] cmp = ">=" -> x >= y

\* matches_predicate
RECURSIVE Satisfies(_, _)
Satisfies(row, p) ==
  CASE p.op = "all" -> TRUE
    [] p.op = "cmp" -> Compare(row[p.col], p.cmp, p.val)
    [] p.op = "and" -> Satisfies(row, p.l) /\ Satisfies(row, p.r)
    [] p.op = "or"  -> Satisfies(row, p.l) \/ Satisfies(row, p.r)

\* Bug: one side of an OR is good enough for a probe.
RECURSIVE IndexProbeOfEither(_)
IndexProbeOfEither(p) ==
  CASE p.op = "cmp" /\ p.cmp = "=" -> {<<p.col, p.val>>}
    [] p.op \in {"and", "or"} ->
         IF IndexProbeOfEither(p.l) # {} THEN IndexProbeOfEither(p.l)
         ELSE IndexProbeOfEither(p.r)
    [] OTHER -> {}

\* index_probe: the leftmost equality the predicate implies, if any.
RECURSIVE IndexProbe(_)
IndexProbe(p) ==
  CASE p.op = "cmp" /\ p.cmp = "=" -> {<<p.col, p.val>>}
    [] p.op = "and" -> IF IndexProbe(p.l) # {} THEN IndexProbe(p.l) ELSE IndexProbe(p.r)
    [] OTHER -> {}

\* The pairs of an index and a key that can answer the predicate.  The code
\* takes the first index by name; names have no order here, so any is taken.
Lookups(t, p) ==
  {<<i, e[2]>> : <<i, e>> \in {x \in (DOMAIN t.idx) \X IndexProbe(p) :
                                 t.idx[x[1]].col = x[2][1]}}

\* probe: no entry is under NULL.
Probe(ix, v) == IF v = Null THEN {} ELSE ix.ent[v]

\* candidate_row_ids, in the orders they can come in: by row id from a scan,
\* in any order from an index, whose entries were put there in any order.
Candidates(t, p) ==
  IF Lookups(t, p) = {} THEN {SetToSortSeq(DOMAIN t.rows, LAMBDA x, y : x < y)}
  ELSE UNION {SetToSeqs(Probe(t.idx[e[1]], e[2])) : e \in Lookups(t, p)}

\* The comparison of ORDER BY: NULL is neither less nor greater than a datum.
ComesBefore(t, r, q, order) ==
  \E o \in order :
    LET x == t.rows[r][o[1]]
        y == t.rows[q][o[1]] IN
    x # Null /\ y # Null /\ IF o[2] = "Asc" THEN x < y ELSE x > y

\* sort_by of at most 20 rows is an insertion sort; of rows without NULL in the
\* column every stable sort gives the same.
SortedBy(t, ids, order) ==
  FoldLeft(LAMBDA done, r :
             LET stays == {k \in DOMAIN done : ~ComesBefore(t, r, done[k], order)} IN
             InsertAt(done, Max(stays \cup {0}) + 1, r),
           <<>>, ids)

Truncated(ids, limit) == SubSeq(ids, 1, Min({limit, Len(ids)}))

\* Bug: the rows are cut before they are sorted.
SelectedUnsorted(t, q) ==
  {SortedBy(t, Truncated(SelectSeq(ids, LAMBDA r : Satisfies(t.rows[r], q.where)), q.limit),
            q.order) : ids \in Candidates(t, q.where)}

\* select, up to its projection: the row ids it can give, in order.
Selected(t, q) ==
  {Truncated(SortedBy(t, SelectSeq(ids, LAMBDA r : Satisfies(t.rows[r], q.where)), q.order),
             q.limit) : ids \in Candidates(t, q.where)}

\* ... and what SELECT COUNT(*) gives: it counts the rows that LIMIT has left.
Counted(t, q) == {Len(ids) : ids \in Selected(t, q)}

=============================================================================
