-------------------------- MODULE StatisticsProofs --------------------------
(***************************************************************************)
(* The statistics are of the tables that exist, and the estimates made     *)
(* from them are possible, for every set of tables, columns, data and      *)
(* statements.                                                             *)
(***************************************************************************)
EXTENDS Statistics, EngineProofs, FiniteSetTheorems

-----------------------------------------------------------------------------
(* Arithmetic and counting.                                                *)

LEMMA MaxOfTwo ==
  ASSUME NEW a \in Nat, NEW b \in Nat
  PROVE  Max({a, b}) = IF a < b THEN b ELSE a
<1> DEFINE m == IF a < b THEN b ELSE a
<1>1. m \in {a, b} /\ \A y \in {a, b} : m >= y
  OBVIOUS
<1>2. \A x \in {a, b} : (\A y \in {a, b} : x >= y) => x = m
  OBVIOUS
<1> QED BY <1>1, <1>2 DEF Max

LEMMA MinOfTwo ==
  ASSUME NEW a \in Nat, NEW b \in Nat
  PROVE  Min({a, b}) = IF a < b THEN a ELSE b
<1> DEFINE m == IF a < b THEN a ELSE b
<1>1. m \in {a, b} /\ \A y \in {a, b} : m <= y
  OBVIOUS
<1>2. \A x \in {a, b} : (\A y \in {a, b} : x <= y) => x = m
  OBVIOUS
<1> QED BY <1>1, <1>2 DEF Min

\* A quotient, as it is rounded.
LEMMA Quotient ==
  ASSUME NEW n \in Nat, NEW d \in Nat \ {0}
  PROVE  n \div d \in Nat /\ d * (n \div d) <= n /\ n < d * ((n \div d) + 1)
OBVIOUS

\* The estimate for an equality, of at least as many rows as keys and at least
\* one of each.
LEMMA EstimateIsQuotient ==
  ASSUME NEW st, NEW c \in DOMAIN st.distinct, NEW n \in Nat \ {0}, NEW d \in Nat \ {0},
         d <= n, st.rows = n, st.distinct[c] = d
  PROVE  Estimate(st, c) = n \div d /\ n \div d \in Nat \ {0}
<1>1. n \div d \in Nat /\ n < d * ((n \div d) + 1) /\ d * (n \div d) <= n
  BY Quotient
<1> DEFINE e == n \div d
<1> HIDE DEF e
<1>2. e \in Nat /\ n < d * (e + 1) /\ d * e <= n
  BY <1>1 DEF e
<1>3. e # 0
  BY <1>2
<1>4. e <= n
  <2>1. e <= d * e
    BY <1>2
  <2> QED BY <1>2, <2>1
<1>5. Max({d, 1}) = d /\ Max({e, 1}) = e
  BY <1>2, <1>3, MaxOfTwo
<1>6. Min({e, n}) = e
  BY <1>2, <1>4, MinOfTwo
<1> QED BY <1>2, <1>3, <1>5, <1>6 DEF Estimate, e

\* The keys of finitely many elements, and the elements of each key.
KeysOf(R, key) == {key[r] : r \in R}
At(R, key, v) == {r \in R : key[r] = v}

LEMMA KeysAreFinite ==
  ASSUME NEW R, IsFiniteSet(R), NEW key
  PROVE  IsFiniteSet(KeysOf(R, key)) /\ Cardinality(KeysOf(R, key)) <= Cardinality(R)
<1> DEFINE f == [r \in R |-> key[r]]
<1>1. f \in Surjection(R, KeysOf(R, key))
  BY DEF Surjection, KeysOf
<1> QED BY <1>1, FS_Surjection

LEMMA AtIsFinite ==
  ASSUME NEW R, IsFiniteSet(R), NEW key, NEW v
  PROVE  /\ IsFiniteSet(At(R, key, v)) /\ Cardinality(At(R, key, v)) \in Nat
         /\ ExistsBijection(1..Cardinality(At(R, key, v)), At(R, key, v))
<1>1. At(R, key, v) \in SUBSET R
  BY DEF At
<1>2. IsFiniteSet(At(R, key, v))
  BY <1>1, FS_Subset
<1> QED BY <1>2, FS_CardinalityType

\* The elements of each key can be numbered.
LEMMA Numbered ==
  ASSUME NEW R, IsFiniteSet(R), NEW key
  PROVE  \E number : \A v \in KeysOf(R, key) :
           number[v] \in Bijection(1..Cardinality(At(R, key, v)), At(R, key, v))
<1> DEFINE number == [v \in KeysOf(R, key) |->
             CHOOSE g : g \in Bijection(1..Cardinality(At(R, key, v)), At(R, key, v))]
<1>1. ASSUME NEW v \in KeysOf(R, key)
      PROVE  number[v] \in Bijection(1..Cardinality(At(R, key, v)), At(R, key, v))
  <2>1. \E g : g \in Bijection(1..Cardinality(At(R, key, v)), At(R, key, v))
    BY AtIsFinite DEF ExistsBijection
  <2> QED BY <2>1
<1> HIDE DEF number
<1> QED BY <1>1

\* With at most `m` elements of each of `d` keys there are at most d * m.
LEMMA FewOfEach ==
  ASSUME NEW R, IsFiniteSet(R), NEW key, NEW m \in Nat,
         \A v \in KeysOf(R, key) : Cardinality(At(R, key, v)) <= m
  PROVE  Cardinality(R) <= Cardinality(KeysOf(R, key)) * m
<1> DEFINE keys == KeysOf(R, key)
           at(v) == At(R, key, v)
<1>1. IsFiniteSet(keys)
  BY KeysAreFinite
<1>2. PICK number : \A v \in keys : number[v] \in Bijection(1..Cardinality(at(v)), at(v))
  BY Numbered
<1>3. \A v \in keys : Cardinality(at(v)) \in Nat
  BY AtIsFinite
<1>4. PICK f : f = [r \in R |-> CHOOSE k \in 1..Cardinality(at(key[r])) : number[key[r]][k] = r]
  OBVIOUS
<1>5. ASSUME NEW r \in R
      PROVE  f[r] \in 1..m /\ number[key[r]][f[r]] = r
  <2>1. key[r] \in keys /\ r \in at(key[r])
    BY DEF KeysOf, At
  <2>2. number[key[r]] \in Surjection(1..Cardinality(at(key[r])), at(key[r]))
    BY <1>2, <2>1 DEF Bijection
  <2>3. \E k \in 1..Cardinality(at(key[r])) : number[key[r]][k] = r
    BY <2>1, <2>2 DEF Surjection
  <2>4. f[r] \in 1..Cardinality(at(key[r])) /\ number[key[r]][f[r]] = r
    BY <1>4, <2>3
  <2>5. Cardinality(at(key[r])) \in Nat /\ Cardinality(at(key[r])) <= m
    BY <1>3, <2>1
  <2> QED BY <2>4, <2>5
<1> DEFINE g == [r \in R |-> <<key[r], f[r]>>]
<1>6. g \in Injection(R, keys \X (1..m))
  <2>1. g \in [R -> keys \X (1..m)]
    BY <1>5 DEF KeysOf
  <2>2. ASSUME NEW r \in R, NEW q \in R, g[r] = g[q]
        PROVE  r = q
    <3>1. key[r] = key[q] /\ f[r] = f[q]
      BY <2>2
    <3> QED BY <1>5, <3>1
  <2> QED BY <2>1, <2>2 DEF Injection, IsInjective
<1>7. /\ IsFiniteSet(1..m) /\ Cardinality(1..m) = m
  BY FS_Interval
<1>8. /\ IsFiniteSet(keys \X (1..m))
      /\ Cardinality(keys \X (1..m)) = Cardinality(keys) * m
  BY <1>1, <1>7, FS_Product
<1> QED BY <1>6, <1>8, FS_Injection

\* With at least `m` elements of each of `d` keys there are at least d * m.
LEMMA ManyOfEach ==
  ASSUME NEW R, IsFiniteSet(R), NEW key, NEW m \in Nat,
         \A v \in KeysOf(R, key) : m <= Cardinality(At(R, key, v))
  PROVE  Cardinality(KeysOf(R, key)) * m <= Cardinality(R)
<1> DEFINE keys == KeysOf(R, key)
           at(v) == At(R, key, v)
<1>1. IsFiniteSet(keys)
  BY KeysAreFinite
<1>2. PICK number : \A v \in keys : number[v] \in Bijection(1..Cardinality(at(v)), at(v))
  BY Numbered
<1>3. \A v \in keys : Cardinality(at(v)) \in Nat
  BY AtIsFinite
<1> DEFINE g == [e \in keys \X (1..m) |-> number[e[1]][e[2]]]
<1>4. ASSUME NEW v \in keys, NEW k \in 1..m
      PROVE  /\ number[v][k] \in R /\ key[number[v][k]] = v
             /\ \A j \in 1..m : number[v][j] = number[v][k] => j = k
  <2>1. number[v] \in Injection(1..Cardinality(at(v)), at(v))
    BY <1>2 DEF Bijection
  <2>2. \A j \in 1..m : j \in 1..Cardinality(at(v))
    BY <1>3
  <2> QED BY <2>1, <2>2 DEF Injection, IsInjective, At
<1>5. g \in Injection(keys \X (1..m), R)
  <2>1. g \in [keys \X (1..m) -> R]
    BY <1>4
  <2>2. ASSUME NEW a \in keys \X (1..m), NEW b \in keys \X (1..m), g[a] = g[b]
        PROVE  a = b
    <3>1. number[a[1]][a[2]] = number[b[1]][b[2]]
      BY <2>2
    <3>2. a[1] = b[1]
      BY <1>4, <3>1
    <3>3. a[2] = b[2]
      BY <1>4, <3>1, <3>2
    <3> QED BY <3>2, <3>3
  <2> QED BY <2>1, <2>2 DEF Injection, IsInjective
<1>6. /\ IsFiniteSet(1..m) /\ Cardinality(1..m) = m
  BY FS_Interval
<1>7. Cardinality(keys \X (1..m)) = Cardinality(keys) * m
  BY <1>1, <1>6, FS_Product
<1> QED BY <1>5, <1>7, FS_Injection

\* Some key has at least the average, rounded down, and some key no more.
LEMMA SomeKeyIsAverage ==
  ASSUME NEW R, IsFiniteSet(R), NEW key, R # {}
  PROVE  LET keys == KeysOf(R, key)
             e == Cardinality(R) \div Cardinality(keys)
         IN  /\ Cardinality(R) \in Nat \ {0}
             /\ Cardinality(keys) \in Nat \ {0} /\ Cardinality(keys) <= Cardinality(R)
             /\ \E v \in keys : Cardinality(At(R, key, v)) >= e
             /\ \E v \in keys : Cardinality(At(R, key, v)) <= e
<1> DEFINE keys == KeysOf(R, key)
           count(v) == Cardinality(At(R, key, v))
           n == Cardinality(R)
           d == Cardinality(keys)
           e == n \div d
<1>1. IsFiniteSet(keys) /\ d <= n
  BY KeysAreFinite
<1>2. n \in Nat \ {0} /\ d \in Nat \ {0}
  <2>1. keys # {}
    BY DEF KeysOf
  <2> QED BY <1>1, <2>1, FS_CardinalityType, FS_EmptySet
<1>3. \A v \in keys : count(v) \in Nat
  BY AtIsFinite
<1> HIDE DEF n, d
<1>4. e \in Nat /\ d * e <= n /\ n < d * (e + 1)
  BY <1>2, Quotient
<1> HIDE DEF e
<1>5. e # 0
  BY <1>1, <1>2, <1>4
<1>6. \E v \in keys : count(v) >= e
  <2> SUFFICES ASSUME \A v \in keys : ~(count(v) >= e) PROVE FALSE
    OBVIOUS
  <2>1. e - 1 \in Nat /\ \A v \in keys : count(v) <= e - 1
    BY <1>3, <1>4, <1>5
  <2>2. n <= d * (e - 1)
    BY <2>1, FewOfEach DEF n, d
  <2>3. d * (e - 1) < d * e
    BY <1>2, <1>4, <1>5
  <2> QED BY <1>2, <1>4, <2>1, <2>2, <2>3
<1>7. \E v \in keys : count(v) <= e
  <2> SUFFICES ASSUME \A v \in keys : ~(count(v) <= e) PROVE FALSE
    OBVIOUS
  <2>1. e + 1 \in Nat /\ \A v \in keys : e + 1 <= count(v)
    BY <1>3, <1>4
  <2>2. d * (e + 1) <= n
    BY <2>1, ManyOfEach DEF n, d
  <2> QED BY <1>2, <1>4, <2>2
<1> QED BY <1>1, <1>2, <1>6, <1>7 DEF n, d, e

-----------------------------------------------------------------------------
(* Tables and their statistics.                                            *)

\* The tables there were have their schemas.
SchemasStay ==
  \A t \in DOMAIN tables : t \in DOMAIN tables' /\ tables'[t].schema = tables[t].schema

\* A table is replaced by one of the same schema, or a new one is added.
LEMMA SchemaOfPut ==
  ASSUME NEW t, NEW table, Put(t, table),
         t \in DOMAIN tables => table.schema = tables[t].schema
  PROVE  SchemasStay
BY DEF Put, SchemasStay

\* The first step of a statement.
LEMMA StartOf ==
  ASSUME NEW s, Start(s)
  PROVE  call.phase = "ready" /\ call'.stmt = s
<1>1. ASSUME NEW result, Ends(s, result) PROVE call'.stmt = s
  BY <1>1, EndOf
<1>2. ASSUME NEW phase, Loops(s, phase) PROVE call'.stmt = s
  BY <1>2 DEF Loops
<1>3. Fails(s) => call'.stmt = s
  BY <1>1 DEF Fails
<1>4. CASE Refused(s) \/ CreateTableStmt(s) \/ DropTableStmt(s) \/ CreateIndexStmt(s)
  BY <1>1, <1>3, <1>4 DEF Refused, CreateTableStmt, DropTableStmt, CreateIndexStmt, Begins
<1>5. CASE DropIndexStmt(s) \/ InsertStmt(s) \/ SelectStmt(s)
  BY <1>1, <1>3, <1>5 DEF DropIndexStmt, InsertStmt, SelectStmt, Begins
<1>6. CASE StartUpdate(s) \/ StartDelete(s)
  BY <1>2, <1>3, <1>6 DEF StartUpdate, StartDelete, Begins
<1>7. CASE BeginStmt(s) \/ CommitStmt(s) \/ RollbackStmt(s)
  BY <1>1, <1>3, <1>7 DEF BeginStmt, CommitStmt, RollbackStmt, Begins
<1> QED BY <1>4, <1>5, <1>6, <1>7 DEF Start

\* A table disappears only in DROP TABLE and in the undo of its creation, and
\* then its statistics go with it; the schema of a table never changes.
LEMMA TablesAtStart ==
  ASSUME NEW s, Start(s)
  PROVE  IF call'.phase = "ok" /\ s.op = "DropTable" THEN tables' = Without(s.t) ELSE SchemasStay
<1>2. ASSUME tables' = tables PROVE SchemasStay
  BY <1>2 DEF SchemasStay
<1>3. CASE Refused(s)
  BY <1>2, <1>3 DEF Refused, Fails, Ends, Ready
<1>4. CASE CreateTableStmt(s)
  <2>1. s.op # "DropTable"
    BY <1>4 DEF CreateTableStmt
  <2>2. CASE s.t \notin DOMAIN tables /\ Put(s.t, NewTable(s.schema))
    BY <2>1, <2>2, SchemaOfPut
  <2>3. CASE Fails(s)
    BY <1>2, <2>1, <2>3 DEF Fails
  <2> QED BY <1>4, <2>2, <2>3 DEF CreateTableStmt
<1>5. CASE DropTableStmt(s)
  <2>1. CASE Fails(s)
    BY <1>2, <2>1 DEF Fails, Ends, Ready
  <2>2. CASE tables' = Without(s.t) /\ Ends(s, "ok")
    BY <1>5, <2>2, EndOf DEF DropTableStmt
  <2> QED BY <1>5, <2>1, <2>2 DEF DropTableStmt
<1>6. CASE CreateIndexStmt(s)
  <2>1. s.op # "DropTable"
    BY <1>6 DEF CreateIndexStmt
  <2>2. CASE Put(s.t, CreateIndex(tables[s.t], s.i, s.c, s.unique))
    <3>1. CreateIndex(tables[s.t], s.i, s.c, s.unique).schema = tables[s.t].schema
      BY DEF CreateIndex, With
    <3> QED BY <2>1, <2>2, <3>1, SchemaOfPut
  <2>3. CASE Fails(s)
    BY <1>2, <2>1, <2>3 DEF Fails
  <2> QED BY <1>6, <2>2, <2>3 DEF CreateIndexStmt
<1>7. CASE DropIndexStmt(s)
  <2>1. s.op # "DropTable"
    BY <1>7 DEF DropIndexStmt
  <2>2. ASSUME NEW t, Put(t, DropIndex(tables[t], s.i))
        PROVE  SchemasStay
    BY <2>2, SchemaOfPut DEF DropIndex, With
  <2>3. CASE Fails(s)
    BY <1>2, <2>1, <2>3 DEF Fails
  <2> QED BY <1>7, <2>1, <2>2, <2>3 DEF DropIndexStmt
<1>8. CASE InsertStmt(s)
  <2>1. s.op # "DropTable"
    BY <1>8 DEF InsertStmt
  <2>2. CASE Put(s.t, AddRow(tables[s.t], s.row))
    BY <2>1, <2>2, SchemaOfPut DEF AddRow, PutRow, With
  <2>3. CASE Fails(s)
    BY <1>2, <2>1, <2>3 DEF Fails
  <2> QED BY <1>8, <2>2, <2>3 DEF InsertStmt
<1>9. CASE SelectStmt(s) \/ StartUpdate(s) \/ StartDelete(s)
           \/ BeginStmt(s) \/ CommitStmt(s) \/ RollbackStmt(s)
  <2>1. s.op # "DropTable" /\ tables' = tables
    BY <1>9 DEF SelectStmt, StartUpdate, StartDelete, BeginStmt, CommitStmt, RollbackStmt,
                Fails, Loops
  <2> QED BY <1>2, <2>1
<1> QED BY <1>3, <1>4, <1>5, <1>6, <1>7, <1>8, <1>9 DEF Start

LEMMA TablesLater ==
  ASSUME Continues \/ Returns
  PROVE  IF call.phase = "undo" /\ call.log # <<>> /\ Last(call.log).op = "CreateTable"
         THEN tables' = Without(Last(call.log).t) ELSE SchemasStay
<1>1. ASSUME tables' = tables PROVE SchemasStay
  BY <1>1 DEF SchemasStay
<1>2. CASE UpdateRow
  <2>1. call.phase = "update"
    BY <1>2 DEF UpdateRow
  <2>2. ASSUME NEW r, RowUpdated(call.stmt.t, r) PROVE SchemasStay
    <3>1. ReplaceRow(tables[call.stmt.t], r, Assigned(r)).schema = tables[call.stmt.t].schema
      BY DEF ReplaceRow, With
    <3> QED BY <2>2, <3>1, SchemaOfPut DEF RowUpdated
  <2> QED BY <1>1, <1>2, <2>1, <2>2 DEF UpdateRow
<1>3. CASE DeleteOne
  <2>1. call.phase = "delete"
    BY <1>3 DEF DeleteOne
  <2>2. ASSUME NEW r, Put(call.stmt.t, DeleteRow(tables[call.stmt.t], r)) PROVE SchemasStay
    BY <2>2, SchemaOfPut DEF DeleteRow, With
  <2> QED BY <1>3, <2>1, <2>2 DEF DeleteOne
<1>4. CASE UndoLast
  <2> DEFINE u == Last(call.log)
  <2>1. CASE u.op = "CreateTable"
    BY <1>4, <2>1 DEF UndoLast, CanUndo, Undoes
  <2>2. CASE u.op # "CreateTable"
    <3>1. CASE tables' = tables
      BY <1>1, <2>2, <3>1
    <3>2. ASSUME NEW table, Put(u.t, table), table.schema = tables[u.t].schema
          PROVE  SchemasStay
      BY <3>2, SchemaOfPut
    <3>3. CASE Undoes(u)
      <4>1. /\ DropIndex(tables[u.t], u.i).schema = tables[u.t].schema
            /\ DeleteRow(tables[u.t], u.r).schema = tables[u.t].schema
            /\ PutRow(tables[u.t], u.r, u.row).schema = tables[u.t].schema
            /\ ReplaceRow(tables[u.t], u.r, u.row).schema = tables[u.t].schema
        BY DEF DropIndex, DeleteRow, PutRow, ReplaceRow, With
      <4> QED BY <2>2, <3>2, <3>3, <4>1 DEF Undoes
    <3> QED BY <1>4, <2>2, <3>1, <3>3 DEF UndoLast
  <2> QED BY <2>1, <2>2
<1>5. CASE LoopDone \/ UndoDone \/ Returns
  <2>1. tables' = tables /\ ~(call.phase = "undo" /\ call.log # <<>>)
    BY <1>5 DEF LoopDone, UndoDone, Returns
  <2> QED BY <1>1, <2>1
<1> QED BY <1>2, <1>3, <1>4, <1>5 DEF Continues

\* Each step of the engine keeps the tables and their schemas, or it removes
\* one table with its statistics.
LEMMA TablesAndStats ==
  ASSUME Engines
  PROVE  \/ SchemasStay /\ stats' = stats
         \/ \E t : tables' = Without(t) /\ stats' = Forgets(t)
<1>1. CASE \E s \in Stmts : Start(s)
  <2>1. PICK s \in Stmts : Start(s)
    BY <1>1
  <2>2. call.phase = "ready" /\ call'.stmt = s
    BY <2>1, StartOf
  <2>3. stats' = IF call'.phase = "ok" /\ s.op = "DropTable" THEN Forgets(s.t) ELSE stats
    BY <2>2 DEF Engines
  <2> QED BY <2>1, <2>3, TablesAtStart
<1>2. CASE Continues \/ Returns
  <2>1. call.phase # "ready"
    BY <1>2 DEF Continues, UpdateRow, DeleteOne, LoopDone, UndoLast, UndoDone, Returns
  <2>2. stats' = IF call.phase = "undo" /\ call.log # <<>> /\ Last(call.log).op = "CreateTable"
                 THEN Forgets(Last(call.log).t) ELSE stats
    BY <2>1 DEF Engines
  <2> QED BY <1>2, <2>2, TablesLater
<1> QED BY <1>1, <1>2 DEF Engines, EngineNext, Starts

\* What is kept of a fresh table is what ANALYZE would make of it now.
FreshInv ==
  \A t \in fresh : t \in DOMAIN tables /\ t \in DOMAIN stats /\ stats[t] = StatsOf(tables[t])

StatsInv == EngineInv /\ StatsFitSchema /\ FreshInv

LEMMA EnginesStep ==
  ASSUME StatsInv, Engines
  PROVE  StatsInv'
<1>1. EngineInv'
  BY EngineNextInv DEF StatsInv, Engines
<1>2. fresh' = {t \in fresh \cap DOMAIN tables' : tables'[t].rows = tables[t].rows}
  BY DEF Engines
<1>3. CASE SchemasStay /\ stats' = stats
  <2>1. StatsFitSchema'
    BY <1>3 DEF StatsInv, StatsFitSchema, SchemasStay
  <2>2. ASSUME NEW t \in fresh'
        PROVE  t \in DOMAIN tables' /\ t \in DOMAIN stats' /\ stats'[t] = StatsOf(tables'[t])
    <3>1. /\ t \in fresh /\ t \in DOMAIN tables' /\ t \in DOMAIN tables
          /\ tables'[t].rows = tables[t].rows /\ tables'[t].schema = tables[t].schema
      BY <1>2, <1>3 DEF StatsInv, FreshInv, SchemasStay
    <3>2. StatsOf(tables'[t]) = StatsOf(tables[t])
      BY <3>1 DEF StatsOf
    <3> QED BY <1>3, <3>1, <3>2 DEF StatsInv, FreshInv
  <2> QED BY <1>1, <2>1, <2>2 DEF StatsInv, FreshInv
<1>4. ASSUME NEW t, tables' = Without(t), stats' = Forgets(t)
      PROVE  StatsInv'
  <2>1. /\ DOMAIN tables' = DOMAIN tables \ {t} /\ DOMAIN stats' = DOMAIN stats \ {t}
        /\ \A q \in DOMAIN tables' : tables'[q] = tables[q]
        /\ \A q \in DOMAIN stats' : stats'[q] = stats[q]
    BY <1>4 DEF Without, Forgets
  <2>2. StatsFitSchema' /\ FreshInv'
    BY <1>2, <2>1 DEF StatsInv, StatsFitSchema, FreshInv
  <2> QED BY <1>1, <2>2 DEF StatsInv
<1> QED BY <1>3, <1>4, TablesAndStats

\* A statement that ends without having changed anything.
LEMMA NothingChanged ==
  ASSUME EngineInv, Begins, NEW s \in Stmts, NEW result \in {"ok", "error"}, Ends(s, result),
         UNCHANGED <<tables, txn, nextTx, locks>>
  PROVE  EngineInv'
<1>1. DeletesAreFinal(txn'.undo, tables')
  BY PendingAtRest DEF EngineInv, Begins
<1>2. Active' <=> Active
  BY DEF Active
<1> QED BY <1>1, <1>2, EndedStatement DEF EngineInv, EngineType, TxnInv

LEMMA AnalyzeStep ==
  ASSUME StatsInv, NEW s \in Stmts, AnalyzeStmt(s)
  PROVE  StatsInv'
<1> DEFINE ts == IF s.only = {} THEN DOMAIN tables ELSE s.only
<1>1. Begins /\ EngineInv
  BY DEF AnalyzeStmt, StatsInv
<1>2. CASE Fails(s) /\ UNCHANGED <<locks, stats, fresh>>
  <2>1. EngineInv'
    BY <1>1, <1>2, NothingChanged DEF Fails
  <2> QED BY <1>2, <2>1 DEF Fails, StatsInv, StatsFitSchema, FreshInv
<1>3. ASSUME ts \subseteq DOMAIN tables,
             stats' = [t \in DOMAIN stats \cup ts |->
                         IF t \in ts THEN StatsOf(tables[t]) ELSE stats[t]],
             fresh' = fresh \cup ts, Ends(s, "ok"), UNCHANGED <<tables, txn, nextTx, locks>>
      PROVE  StatsInv'
  <2>1. EngineInv'
    BY <1>1, <1>3, NothingChanged
  <2>2. /\ DOMAIN stats' = DOMAIN stats \cup ts
        /\ \A t \in DOMAIN stats' : stats'[t] = IF t \in ts THEN StatsOf(tables[t]) ELSE stats[t]
    BY <1>3
  <2>3. \A t : DOMAIN StatsOf(tables[t]).distinct = tables[t].schema.cols
    BY DEF StatsOf
  <2> HIDE DEF ts
  <2>4. StatsFitSchema'
    BY <1>3, <2>2, <2>3 DEF StatsInv, StatsFitSchema
  <2>5. FreshInv'
    BY <1>3, <2>2 DEF StatsInv, FreshInv
  <2> QED BY <2>1, <2>4, <2>5 DEF StatsInv
<1> QED BY <1>2, <1>3 DEF AnalyzeStmt

LEMMA ExplainStep ==
  ASSUME StatsInv, NEW s \in Stmts, ExplainStmt(s)
  PROVE  StatsInv'
<1>1. /\ Begins /\ \E result \in {"ok", "error"} : Ends(s, result)
      /\ UNCHANGED <<tables, txn, locks, nextTx, stats, fresh>>
  BY DEF ExplainStmt
<1>2. EngineInv'
  BY <1>1, NothingChanged DEF StatsInv
<1> QED BY <1>1, <1>2 DEF StatsInv, StatsFitSchema, FreshInv

\* The inductive invariant of the database with its statistics.
THEOREM StatisticsInductive == Spec => []StatsInv
<1>1. Init => StatsInv
  BY EmptyDatabaseInv DEF Init, StatsInv, StatsFitSchema, FreshInv
<1>2. StatsInv /\ [Next]_vars => StatsInv'
  <2>1. StatsInv /\ Next => StatsInv'
    BY EnginesStep, AnalyzeStep, ExplainStep DEF Next
  <2>2. StatsInv /\ UNCHANGED vars => StatsInv'
    <3> SUFFICES ASSUME StatsInv, UNCHANGED vars PROVE StatsInv'
      OBVIOUS
    <3>1. UNCHANGED engineVars /\ UNCHANGED <<tables, stats, fresh>>
      BY DEF vars, engineVars
    <3>2. EngineInv'
      BY <3>1, EngineNextInv DEF StatsInv
    <3> QED BY <3>1, <3>2 DEF StatsInv, StatsFitSchema, FreshInv
  <2> QED BY <2>1, <2>2
<1> QED BY <1>1, <1>2, PTL DEF Spec

\* Statistics are never those of an earlier table of the same name: drop_table
\* and the undo of CREATE TABLE (db.rs) are the only ways a table goes.
THEOREM StatsAreOfTheTable == Spec => []StatsFitSchema
<1>1. StatsInv => StatsFitSchema
  BY DEF StatsInv
<1> QED BY <1>1, StatisticsInductive, PTL

\* The estimate for a column of a table, whose rows are finitely many.
LEMMA RowsOfColumn ==
  ASSUME NEW t, TableInv(t), NEW c \in t.schema.cols, DOMAIN t.rows # {}
  PROVE  /\ \E v \in {t.rows[r][c] : r \in DOMAIN t.rows} :
              Cardinality({r \in DOMAIN t.rows : t.rows[r][c] = v}) >= Estimate(StatsOf(t), c)
         /\ \E v \in {t.rows[r][c] : r \in DOMAIN t.rows} :
              Cardinality({r \in DOMAIN t.rows : t.rows[r][c] = v}) <= Estimate(StatsOf(t), c)
<1> DEFINE R == DOMAIN t.rows
           key == [r \in R |-> t.rows[r][c]]
           st == StatsOf(t)
<1>2. IsFiniteSet(R)
  <2>1. t.next \in Nat /\ R \in SUBSET (0..t.next)
    BY DEF TableInv, TableType, NextIsFresh, RowId
  <2>2. IsFiniteSet(0..t.next)
    BY <2>1, FS_Interval
  <2> QED BY <2>1, <2>2, FS_Subset
<1>3. /\ KeysOf(R, key) = {t.rows[r][c] : r \in R}
      /\ \A v : At(R, key, v) = {r \in R : t.rows[r][c] = v}
  BY DEF KeysOf, At
<1>4. /\ c \in DOMAIN st.distinct /\ st.rows = Cardinality(R)
      /\ st.distinct[c] = Cardinality(KeysOf(R, key))
  BY <1>3 DEF StatsOf
<1> HIDE DEF key, st
<1>5. /\ Cardinality(R) \in Nat \ {0} /\ Cardinality(KeysOf(R, key)) \in Nat \ {0}
      /\ Cardinality(KeysOf(R, key)) <= Cardinality(R)
      /\ \E v \in KeysOf(R, key) :
           Cardinality(At(R, key, v)) >= Cardinality(R) \div Cardinality(KeysOf(R, key))
      /\ \E v \in KeysOf(R, key) :
           Cardinality(At(R, key, v)) <= Cardinality(R) \div Cardinality(KeysOf(R, key))
  BY <1>2, SomeKeyIsAverage
<1>6. Estimate(st, c) = Cardinality(R) \div Cardinality(KeysOf(R, key))
  BY <1>4, <1>5, EstimateIsQuotient
<1> QED BY <1>3, <1>5, <1>6 DEF st

\* The estimate EXPLAIN gives for an index lookup is possible while the rows
\* are those ANALYZE saw (TableStats::from_rows, estimate_equality_rows).
THEOREM EstimatesArePossible == Spec => []EstimateIsPossible
<1>1. StatsInv => EstimateIsPossible
  <2> SUFFICES ASSUME StatsInv, NEW n \in fresh, NEW used \in SUBSET DOMAIN tables[n].idx,
                      NEW path \in AccessPaths(tables[n], used, stats[n])
               PROVE  LET t == tables[n]
                          having(c, v) == Cardinality({r \in DOMAIN t.rows : t.rows[r][c] = v})
                          keys(c) == {t.rows[r][c] : r \in DOMAIN t.rows}
                      IN  /\ path.path = "SeqScan" => path.rows = Cardinality(DOMAIN t.rows)
                          /\ path.path = "IndexLookup" /\ DOMAIN t.rows # {} =>
                               /\ \E v \in keys(path.col) : having(path.col, v) >= path.rows
                               /\ \E v \in keys(path.col) : having(path.col, v) <= path.rows
    BY DEF EstimateIsPossible
  <2>1. stats[n] = StatsOf(tables[n]) /\ TableInv(tables[n])
    BY DEF StatsInv, FreshInv, EngineInv, SoundTables
  <2>2. CASE used = {}
    BY <2>1, <2>2 DEF AccessPaths, StatsOf
  <2>3. CASE used # {}
    <3>1. PICK i \in used :
            path = [path |-> "IndexLookup", col |-> tables[n].idx[i].col,
                    rows |-> Estimate(stats[n], tables[n].idx[i].col)]
      BY <2>3 DEF AccessPaths
    <3>2. /\ i \in DOMAIN tables[n].idx /\ path.path = "IndexLookup"
          /\ path.col = tables[n].idx[i].col /\ path.col \in tables[n].schema.cols
          /\ path.rows = Estimate(StatsOf(tables[n]), path.col)
      BY <2>1, <3>1 DEF TableInv, TableType
    <3> DEFINE t == tables[n]
               c == path.col
    <3> HIDE DEF t, c
    <3>3. TableInv(t) /\ c \in t.schema.cols /\ path.rows = Estimate(StatsOf(t), c)
      BY <2>1, <3>2 DEF t, c
    <3>4. DOMAIN t.rows # {} =>
            /\ \E v \in {t.rows[r][c] : r \in DOMAIN t.rows} :
                 Cardinality({r \in DOMAIN t.rows : t.rows[r][c] = v}) >= path.rows
            /\ \E v \in {t.rows[r][c] : r \in DOMAIN t.rows} :
                 Cardinality({r \in DOMAIN t.rows : t.rows[r][c] = v}) <= path.rows
      <4> DEFINE e == Estimate(StatsOf(t), c)
      <4> HIDE DEF e
      <4>1. DOMAIN t.rows # {} =>
              /\ \E v \in {t.rows[r][c] : r \in DOMAIN t.rows} :
                   Cardinality({r \in DOMAIN t.rows : t.rows[r][c] = v}) >= e
              /\ \E v \in {t.rows[r][c] : r \in DOMAIN t.rows} :
                   Cardinality({r \in DOMAIN t.rows : t.rows[r][c] = v}) <= e
        BY <3>3, RowsOfColumn, Zenon DEF e
      <4>2. path.rows = e
        BY <3>3 DEF e
      <4> QED BY <4>1, <4>2, Zenon
    <3> QED BY <3>2, <3>4 DEF t, c
  <2> QED BY <2>2, <2>3
<1> QED BY <1>1, StatisticsInductive, PTL

=============================================================================
