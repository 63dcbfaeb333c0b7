-------------------------------- MODULE Parser ------------------------------
(***************************************************************************)
(* The recursive-descent parser of SQL (src/src/parser.rs), from tokens to *)
(* statements.  A client types a statement token by token; what parse_sql  *)
(* makes of the tokens so far is a function of them.                       *)
(*                                                                         *)
(* A token is its text: keywords, which the code compares without regard   *)
(* to case, are in capitals, and are identifiers like any other word.      *)
(* Every operator below takes the tokens that are left and gives the       *)
(* result of a method of `Parser`: "ok" with a value and the rest, "bad"   *)
(* when a token is refused, or "more" when the tokens end too early (the   *)
(* code gives an error for both).                                          *)
(***************************************************************************)
EXTENDS Naturals, SequencesExt

CONSTANTS
  Name,    \* the words that are no keywords
  Type,    \* the names of the types
  Count,   \* the numbers that are not negative
  Literal, \* all other numbers and the strings
  Scripts  \* what clients type: [opening, the first tokens; then, the others;
           \* most, how many of these at most (a bound of the model)]

VARIABLES
  tokens,  \* the tokens typed so far
  script   \* the script the client follows

vars == <<tokens, script>>

Keyword ==
  {"EXPLAIN", "BEGIN", "COMMIT", "ROLLBACK", "ANALYZE", "CHECKPOINT", "DROP", "TABLE",
   "INDEX", "CREATE", "UNIQUE", "PRIMARY", "KEY", "NOT", "NULL", "ON", "INSERT", "INTO",
   "VALUES", "SELECT", "COUNT", "FROM", "WHERE", "AND", "OR", "ORDER", "BY", "ASC", "DESC",
   "LIMIT", "UPDATE", "SET", "DELETE", "TRUE", "FALSE"}

Word == Name \cup Type \cup Keyword

-----------------------------------------------------------------------------
(* Results.                                                                *)

Ok(v, rest) == [st |-> "ok", v |-> v, rest |-> rest]

Bad == [st |-> "bad"]

\* The method returns an error at the first token of `in`.
Fail(in) == IF in = <<>> THEN [st |-> "more"] ELSE Bad

\* The `?` of the code: what follows a success.
Then(result, Cont(_, _)) ==
  IF result.st = "ok" THEN Cont(result.v, result.rest) ELSE result

\* peek
Peek(in, token) == in # <<>> /\ Head(in) = token

\* One token of the set `wanted`, by advance: expect_ident, parse_comparison_op ...
One(in, wanted) ==
  IF in # <<>> /\ Head(in) \in wanted THEN Ok(Head(in), Tail(in)) ELSE Fail(in)

\* expect and expect_keyword, of several tokens in a row.
RECURSIVE Expect(_, _)
Expect(in, wanted) ==
  IF wanted = <<>> THEN Ok(<<>>, in)
  ELSE Then(One(in, {Head(wanted)}), LAMBDA v, rest : Expect(rest, Tail(wanted)))

ExpectIdent(in) == One(in, Word)

\* The loop `item { , item }`.
List(item(_), in) ==
  LET RECURSIVE Items(_, _)
      Items(done, at) ==
        Then(item(at), LAMBDA v, rest :
          IF Peek(rest, ",") THEN Items(Append(done, v), Tail(rest))
          ELSE Ok(Append(done, v), rest))
  IN Items(<<>>, in)

\* The list, and what must follow it.
ListThen(item(_), in, after) ==
  Then(List(item, in), LAMBDA items, r1 :
    Then(Expect(r1, after), LAMBDA v, r2 : Ok(items, r2)))

ParseLiteral(in) == One(in, Count \cup Literal \cup {"TRUE", "FALSE", "NULL"})

-----------------------------------------------------------------------------
(* Predicates.                                                             *)

ParseComparison(in) ==
  Then(ExpectIdent(in), LAMBDA col, r1 :
    Then(One(r1, {"=", "<>", "<", "<=", ">", ">="}), LAMBDA cmp, r2 :
      Then(ParseLiteral(r2), LAMBDA val, r3 :
        Ok([op |-> "cmp", col |-> col, cmp |-> cmp, val |-> val], r3))))

\* The loop `operand { word operand }`, which builds its tree to the left.
LeftToRight(operand(_), word, op, in) ==
  LET RECURSIVE Rest(_, _)
      Rest(left, at) ==
        IF Peek(at, word)
        THEN Then(operand(Tail(at)), LAMBDA right, rest :
               Rest([op |-> op, l |-> left, r |-> right], rest))
        ELSE Ok(left, at)
  IN Then(operand(in), Rest)

\* parse_predicate_primary, parse_and, parse_or
RECURSIVE ParseOr(_)

ParsePrimary(in) ==
  IF Peek(in, "(")
  THEN Then(ParseOr(Tail(in)), LAMBDA p, r1 :
         Then(Expect(r1, <<")">>), LAMBDA v, r2 : Ok(p, r2)))
  ELSE ParseComparison(in)

\* Bug: AND and OR bind alike, from the left.
ParseAndOr(in) ==
  LET RECURSIVE Rest(_, _)
      Rest(left, at) ==
        IF Peek(at, "AND") \/ Peek(at, "OR")
        THEN Then(ParsePrimary(Tail(at)), LAMBDA right, rest :
               Rest([op |-> IF Head(at) = "AND" THEN "and" ELSE "or", l |-> left, r |-> right],
                    rest))
        ELSE Ok(left, at)
  IN Then(ParsePrimary(in), Rest)

ParseAnd(in) == LeftToRight(ParsePrimary, "AND", "and", in)

ParseOr(in) == LeftToRight(ParseAnd, "OR", "or", in)

ParseWhere(in) ==
  IF Peek(in, "WHERE") THEN ParseOr(Tail(in)) ELSE Ok([op |-> "all"], in)

-----------------------------------------------------------------------------
(* SELECT, UPDATE, DELETE, INSERT.                                         *)

\* Any word is an identifier, but a first COUNT always begins COUNT(*).
ParseProjection(in) ==
  IF Peek(in, "*") THEN Ok(<<"*">>, Tail(in))
  ELSE IF Peek(in, "COUNT")
  THEN Then(Expect(Tail(in), <<"(", "*", ")">>), LAMBDA v, rest :
         Ok(<<"COUNT", "(", "*", ")">>, rest))
  ELSE List(ExpectIdent, in)

ParseOrderBy(in) ==
  IF ~Peek(in, "ORDER") THEN Ok(<<>>, in)
  ELSE Then(Expect(Tail(in), <<"BY">>), LAMBDA v, r1 :
         Then(ExpectIdent(r1), LAMBDA col, r2 :
           Ok(<<col, IF Peek(r2, "DESC") THEN "DESC" ELSE "ASC">>,
              IF Peek(r2, "DESC") \/ Peek(r2, "ASC") THEN Tail(r2) ELSE r2)))

ParseLimit(in) ==
  IF ~Peek(in, "LIMIT") THEN Ok(<<>>, in)
  ELSE Then(One(Tail(in), Count), LAMBDA n, rest : Ok(<<n>>, rest))

ParseSelect(in) ==
  Then(ParseProjection(in), LAMBDA what, r1 :
  Then(Expect(r1, <<"FROM">>), LAMBDA v, r2 :
  Then(ExpectIdent(r2), LAMBDA t, r3 :
  Then(ParseWhere(r3), LAMBDA where, r4 :
  Then(ParseOrderBy(r4), LAMBDA order, r5 :
  Then(ParseLimit(r5), LAMBDA limit, r6 :
    Ok([op |-> "Select", what |-> what, t |-> t, where |-> where, order |-> order,
        limit |-> limit], r6)))))))

ParseAssignment(in) ==
  Then(ExpectIdent(in), LAMBDA col, r1 :
  Then(Expect(r1, <<"=">>), LAMBDA v, r2 :
  Then(ParseLiteral(r2), LAMBDA val, r3 : Ok(<<col, val>>, r3))))

ParseUpdate(in) ==
  Then(ExpectIdent(in), LAMBDA t, r1 :
  Then(Expect(r1, <<"SET">>), LAMBDA v, r2 :
  Then(List(ParseAssignment, r2), LAMBDA set, r3 :
  Then(ParseWhere(r3), LAMBDA where, r4 :
    Ok([op |-> "Update", t |-> t, set |-> set, where |-> where], r4)))))

ParseDelete(in) ==
  Then(Expect(in, <<"FROM">>), LAMBDA v, r1 :
  Then(ExpectIdent(r1), LAMBDA t, r2 :
  Then(ParseWhere(r2), LAMBDA where, r3 :
    Ok([op |-> "Delete", t |-> t, where |-> where], r3))))

ParseInsert(in) ==
  Then(Expect(in, <<"INTO">>), LAMBDA v, r1 :
  Then(ExpectIdent(r1), LAMBDA t, r2 :
  Then(Expect(r2, <<"VALUES", "(">>), LAMBDA x, r3 :
  Then(ListThen(ParseLiteral, r3, <<")">>), LAMBDA values, r4 :
    Ok([op |-> "Insert", t |-> t, values |-> values], r4)))))

-----------------------------------------------------------------------------
(* CREATE and DROP.                                                        *)

\* The words after the type of a column, in any number and order; of NULL and
\* NOT NULL the last one counts.
RECURSIVE ParseFlags(_, _)
ParseFlags(flags, in) ==
  CASE Peek(in, "PRIMARY") -> Then(Expect(Tail(in), <<"KEY">>), LAMBDA v, rest :
                                ParseFlags(flags \cup {"PK", "UQ", "NN"}, rest))
    [] Peek(in, "UNIQUE") -> ParseFlags(flags \cup {"UQ"}, Tail(in))
    [] Peek(in, "NOT") -> Then(Expect(Tail(in), <<"NULL">>), LAMBDA v, rest :
                            ParseFlags(flags \cup {"NN"}, rest))
    [] Peek(in, "NULL") -> ParseFlags(flags \ {"NN"}, Tail(in))
    [] OTHER -> Ok(flags, in)

\* Bug: UNIQUE is parsed and forgotten.
ParseColumnForgetful(in) ==
  Then(ExpectIdent(in), LAMBDA col, r1 :
  Then(One(r1, Type), LAMBDA type, r2 :
  Then(ParseFlags({}, r2), LAMBDA flags, r3 :
    Ok([col |-> col, type |-> type, flags |-> IF "PK" \in flags THEN flags ELSE flags \ {"UQ"}],
       r3))))

ParseColumn(in) ==
  Then(ExpectIdent(in), LAMBDA col, r1 :
  Then(One(r1, Type), LAMBDA type, r2 :
  Then(ParseFlags({}, r2), LAMBDA flags, r3 :
    Ok([col |-> col, type |-> type, flags |-> flags], r3))))

ParseCreateTable(in) ==
  Then(ExpectIdent(in), LAMBDA t, r1 :
  Then(Expect(r1, <<"(">>), LAMBDA v, r2 :
  Then(ListThen(ParseColumn, r2, <<")">>), LAMBDA cols, r3 :
    Ok([op |-> "CreateTable", t |-> t, cols |-> cols], r3))))

ParseCreateIndex(in, unique) ==
  Then(ExpectIdent(in), LAMBDA i, r1 :
  Then(Expect(r1, <<"ON">>), LAMBDA v, r2 :
  Then(ExpectIdent(r2), LAMBDA t, r3 :
  Then(Expect(r3, <<"(">>), LAMBDA x, r4 :
  Then(ExpectIdent(r4), LAMBDA c, r5 :
  Then(Expect(r5, <<")">>), LAMBDA y, r6 :
    Ok([op |-> "CreateIndex", i |-> i, t |-> t, c |-> c, unique |-> unique], r6)))))))

ParseCreate(in) ==
  LET unique == Peek(in, "UNIQUE")
      rest == IF unique THEN Tail(in) ELSE in IN
  CASE Peek(rest, "TABLE") -> IF unique THEN Bad ELSE ParseCreateTable(Tail(rest))
    [] Peek(rest, "INDEX") -> ParseCreateIndex(Tail(rest), unique)
    [] OTHER -> Fail(rest)

ParseDrop(in) ==
  IF Peek(in, "TABLE") \/ Peek(in, "INDEX")
  THEN Then(ExpectIdent(Tail(in)), LAMBDA n, rest :
         Ok([op |-> "Drop", what |-> Head(in), name |-> n], rest))
  ELSE Fail(in)

-----------------------------------------------------------------------------
(* Statements.                                                             *)

\* is_statement_boundary
AtBoundary(in) == in = <<>> \/ Peek(in, ";")

RECURSIVE ParseStatement(_)
ParseStatement(in) ==
  IF in = <<>> THEN Fail(in)
  ELSE LET rest == Tail(in) IN
  CASE Head(in) = "EXPLAIN" -> Then(ParseStatement(rest), LAMBDA s, r :
                                 Ok([op |-> "Explain", stmt |-> s], r))
    [] Head(in) \in {"BEGIN", "COMMIT", "ROLLBACK", "CHECKPOINT"} -> Ok([op |-> Head(in)], rest)
    [] Head(in) = "ANALYZE" ->
         IF AtBoundary(rest) THEN Ok([op |-> "Analyze", t |-> <<>>], rest)
         ELSE Then(ExpectIdent(rest), LAMBDA t, r : Ok([op |-> "Analyze", t |-> <<t>>], r))
    [] Head(in) = "DROP" -> ParseDrop(rest)
    [] Head(in) = "CREATE" -> ParseCreate(rest)
    [] Head(in) = "INSERT" -> ParseInsert(rest)
    [] Head(in) = "SELECT" -> ParseSelect(rest)
    [] Head(in) = "UPDATE" -> ParseUpdate(rest)
    [] Head(in) = "DELETE" -> ParseDelete(rest)
    [] OTHER -> Fail(in)

\* parse_sql
Parse(in) ==
  Then(ParseStatement(in), LAMBDA s, r :
    LET end == IF Peek(r, ";") THEN Tail(r) ELSE r IN
    IF end = <<>> THEN Ok(s, end) ELSE Bad)

Init ==
  /\ script \in Scripts
  /\ tokens = script.opening

\* Nothing is typed after a token that was refused.
TypeToken ==
  /\ Parse(tokens).st # "bad"
  /\ Len(tokens) < Len(script.opening) + script.most
  /\ \E token \in script.then : tokens' = Append(tokens, token)
  /\ UNCHANGED script

Spec == Init /\ [][TypeToken]_vars

-----------------------------------------------------------------------------
(* The tokens a statement stands for.                                      *)

Commas(items) ==
  Tail(FlattenSeq([k \in DOMAIN items |-> <<",">> \o items[k]]))

RECURSIVE PrintPredicate(_)
PrintPredicate(p) ==
  CASE p.op = "cmp" -> <<p.col, p.cmp, p.val>>
    [] p.op = "and" -> PrintPredicate(p.l) \o <<"AND">> \o PrintPredicate(p.r)
    [] p.op = "or" -> PrintPredicate(p.l) \o <<"OR">> \o PrintPredicate(p.r)

PrintWhere(p) == IF p.op = "all" THEN <<>> ELSE <<"WHERE">> \o PrintPredicate(p)

RECURSIVE Printed(_)
Printed(s) ==
  CASE s.op = "Explain" -> <<"EXPLAIN">> \o Printed(s.stmt)
    [] s.op \in {"BEGIN", "COMMIT", "ROLLBACK", "CHECKPOINT"} -> <<s.op>>
    [] s.op = "Analyze" -> <<"ANALYZE">> \o s.t
    [] s.op = "Drop" -> <<"DROP", s.what, s.name>>
    [] s.op = "CreateTable" ->
         <<"CREATE", "TABLE", s.t, "(">>
           \o Commas([k \in DOMAIN s.cols |-> <<s.cols[k].col, s.cols[k].type>>]) \o <<")">>
    [] s.op = "CreateIndex" ->
         <<"CREATE">> \o (IF s.unique THEN <<"UNIQUE">> ELSE <<>>)
           \o <<"INDEX", s.i, "ON", s.t, "(", s.c, ")">>
    [] s.op = "Insert" ->
         <<"INSERT", "INTO", s.t, "VALUES", "(">>
           \o Commas([k \in DOMAIN s.values |-> <<s.values[k]>>]) \o <<")">>
    [] s.op = "Select" ->
         <<"SELECT">>
           \o (IF s.what[1] = "COUNT" THEN s.what
               ELSE Commas([k \in DOMAIN s.what |-> <<s.what[k]>>]))
           \o <<"FROM", s.t>> \o PrintWhere(s.where)
           \o (IF s.order = <<>> THEN <<>> ELSE <<"ORDER", "BY">> \o s.order)
           \o (IF s.limit = <<>> THEN <<>> ELSE <<"LIMIT">> \o s.limit)
    [] s.op = "Update" ->
         <<"UPDATE", s.t, "SET">>
           \o Commas([k \in DOMAIN s.set |-> <<s.set[k][1], "=", s.set[k][2]>>])
           \o PrintWhere(s.where)
    [] s.op = "Delete" -> <<"DELETE", "FROM", s.t>> \o PrintWhere(s.where)

\* The tokens without brackets, ASC, the semicolon and, in CREATE TABLE, the
\* constraints of the columns, which come in any order and number: `Asked` says
\* what they ask for.
Essence(ts) ==
  LET noise == {"(", ")", "ASC", ";"} \cup
               IF Len(ts) > 1 /\ ts[2] = "TABLE"
               THEN {"PRIMARY", "KEY", "UNIQUE", "NOT", "NULL"} ELSE {}
  IN SelectSeq(ts, LAMBDA x : x \notin noise)

\* The words after the type of the n-th column, in CREATE TABLE a (c t ..., c t ...).
Constraints(ts, n) ==
  LET cuts == SelectSeq([k \in DOMAIN ts |-> k], LAMBDA k : ts[k] \in {"(", ",", ")"})
  IN SubSeq(ts, cuts[n] + 3, cuts[n + 1] - 1)

\* What they ask for.  A column that is asked to be both NULL and NOT NULL is
\* what the last of the words says.
Asked(words) ==
  LET at(word) == {k \in DOMAIN words : words[k] = word}
      nulls == {k \in at("NULL") : k = 1 \/ words[k - 1] # "NOT"}
      holds == [PK |-> at("PRIMARY") # {},
                UQ |-> at("PRIMARY") \cup at("UNIQUE") # {},
                NN |-> \E k \in at("PRIMARY") \cup at("NOT") : \A j \in nulls : j < k]
  IN {flag \in DOMAIN holds : holds[flag]}

\* The truth of a predicate as it is written, from that of its comparisons: OR
\* outside brackets divides it first, then AND, then the brackets come off.
RECURSIVE Written(_, _)
Written(ts, val) ==
  LET nesting(k) == Cardinality({j \in 1..k : ts[j] = "("}) - Cardinality({j \in 1..k : ts[j] = ")"})
      outside(w) == {k \in DOMAIN ts : ts[k] = w /\ nesting(k) = 0}
      before(k) == Written(SubSeq(ts, 1, k - 1), val)
      after(k) == Written(SubSeq(ts, k + 1, Len(ts)), val) IN
  IF outside("OR") # {} THEN LET k == Min(outside("OR")) IN before(k) \/ after(k)
  ELSE IF outside("AND") # {} THEN LET k == Min(outside("AND")) IN before(k) /\ after(k)
  ELSE IF ts[1] = "(" THEN Written(SubSeq(ts, 2, Len(ts) - 1), val)
  ELSE val[ts]

RECURSIVE Comparisons(_)
Comparisons(p) ==
  IF p.op = "cmp" THEN {<<p.col, p.cmp, p.val>>} ELSE Comparisons(p.l) \cup Comparisons(p.r)

RECURSIVE Parsed(_, _)
Parsed(p, val) ==
  CASE p.op = "cmp" -> val[<<p.col, p.cmp, p.val>>]
    [] p.op = "and" -> Parsed(p.l, val) /\ Parsed(p.r, val)
    [] p.op = "or" -> Parsed(p.l, val) \/ Parsed(p.r, val)

-----------------------------------------------------------------------------
(* Properties.                                                             *)

\* Nothing of an accepted statement is dropped, doubled, reordered or taken for
\* something else: printing what was parsed gives the tokens again, also where
\* keywords serve as names and optional clauses are left out, and a column has
\* the constraints its words ask for.  With one exception, which is what the
\* code does (parser.rs:385-389): of NULL and NOT NULL in one column the last is
\* kept and the other is ignored, so `a INT NOT NULL NULL` takes NULLs and is not
\* refused.  (TableSchema::new makes a PRIMARY KEY NOT NULL again.)
NothingIsIgnored ==
  LET result == Parse(tokens) IN
  result.st = "ok" =>
    /\ Essence(Printed(result.v)) = Essence(tokens)
    /\ result.v.op = "CreateTable" =>
         \A n \in DOMAIN result.v.cols :
           result.v.cols[n].flags = Asked(Constraints(tokens, n))

\* AND binds tighter than OR, brackets bind tightest, whatever the depth: a
\* parsed WHERE clause is true of the same rows as the written one.  (Clauses
\* that use AND or OR as the name of a column are left out.)
PredicatesMeanWhatTheySay ==
  LET result == Parse(tokens) IN
  result.st = "ok" /\ script.opening # <<>> /\ Last(script.opening) = "WHERE" =>
    LET comparisons == Comparisons(result.v.where)
        clause == SubSeq(tokens, Len(script.opening) + 1, Len(tokens)) IN
    (\A c \in comparisons : c[1] \in Name) =>
      \A val \in [comparisons -> BOOLEAN] :
        Parsed(result.v.where, val) = Written(clause, val)

=============================================================================
