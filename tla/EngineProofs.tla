---------------------------- MODULE EngineProofs ---------------------------
(***************************************************************************)
(* What every step of the engine preserves, whichever specification it is  *)
(* a step of: tables stay sound, and the row of a DELETE that can still be *)
(* undone has an id that no row has.                                       *)
(*                                                                         *)
(* Soundness of the tables alone is not inductive: undoing a DELETE puts a *)
(* row back under its id without looking whether the id is in use.  That   *)
(* it is free depends on all the records of the undo log that have not     *)
(* been applied yet, and on the tables dropped and created since.          *)
(***************************************************************************)
EXTENDS Engine, TableProofs, SequenceTheorems

\* The undo records that may still be applied: those of the transaction with
\* those of its running statement, or those the ROLLBACK has left.
Pending ==
  CASE call.phase = "undo" -> call.log
    [] call.phase \in {"update", "delete"} -> txn.undo \o call.log
    [] OTHER -> txn.undo

IsDelete(u) == u.op = "Delete"

Creates(u, t) == u.op = "CreateTable" /\ u.t = t

\* The row of each DELETE in `log` is in no table of `db` and its id is given
\* to no other row, as long as the table is the one the row was deleted from.
RowsAreGone(log, db) ==
  \A n \in DOMAIN log :
    IsDelete(log[n]) /\ log[n].t \in DOMAIN db
      /\ (\A m \in DOMAIN log : m > n => ~Creates(log[m], log[n].t)) =>
      log[n].r \notin DOMAIN db[log[n].t].rows /\ log[n].r < db[log[n].t].next

\* No row is deleted twice, as long as its table is the same.
DeletedOnce(log) ==
  \A n, m \in DOMAIN log :
    /\ n < m /\ IsDelete(log[n]) /\ IsDelete(log[m])
    /\ log[n].t = log[m].t /\ log[n].r = log[m].r
    => \E k \in DOMAIN log : n < k /\ k < m /\ Creates(log[k], log[n].t)

DeletesAreFinal(log, db) == RowsAreGone(log, db) /\ DeletedOnce(log)

\* CHECKPOINT is a phase of the engine that runs on a data directory.
Phase == {"ready", "update", "delete", "undo", "ok", "error", "checkpoint"}

EngineType ==
  /\ txn \in [id : Nat, undo : Seq(UndoRecord)]
  /\ locks \in [TableName -> [shared : SUBSET (Nat \ {0}), excl : Nat]]
  /\ nextTx \in Nat
  /\ call \in [phase : Phase, stmt : Stmts \cup {Ready.stmt}, todo : SUBSET RowId,
               log : Seq(UndoRecord), tx : Nat]

SoundTables(db) ==
  /\ DOMAIN db \subseteq TableName
  /\ \A t \in DOMAIN db : TableInv(db[t])

\* What is true of a running loop, whose table nobody else changes.
LoopInv ==
  /\ call.phase \in {"update", "delete"} =>
       /\ call.stmt.t \in DOMAIN tables
       /\ call.todo \subseteq DOMAIN tables[call.stmt.t].rows
       /\ \A n \in DOMAIN call.log : call.log[n].t = call.stmt.t
  /\ call.phase = "update" => \A n \in DOMAIN call.log : call.log[n].op = "Update"
  /\ call.phase = "delete" => \A n \in DOMAIN call.log : call.log[n].op = "Delete"

\* Without a transaction there is nothing to undo, and a ROLLBACK has taken
\* its transaction out of the database.
TxnInv ==
  /\ ~Active => txn.undo = <<>>
  /\ call.phase = "undo" => ~Active

EngineInv ==
  EngineType /\ SoundTables(tables) /\ LoopInv /\ TxnInv /\ DeletesAreFinal(Pending, tables)

-----------------------------------------------------------------------------
(* Logs.                                                                   *)

\* A log with one more record: its records are the old ones, then the new one.
LEMMA AppendedLog ==
  ASSUME NEW log \in Seq(UndoRecord), NEW u \in UndoRecord
  PROVE  /\ Append(log, u) \in Seq(UndoRecord)
         /\ Len(log) \in Nat
         /\ DOMAIN log = 1..Len(log)
         /\ DOMAIN Append(log, u) = 1..(Len(log) + 1)
         /\ \A n \in 1..Len(log) : Append(log, u)[n] = log[n]
         /\ Append(log, u)[Len(log) + 1] = u
BY AppendProperties, LenProperties

\* The last record of a log is dropped (`undo.pop()` of ROLLBACK): the others stay in place.
LEMMA ShortenedLog ==
  ASSUME NEW log \in Seq(UndoRecord), log # <<>>
  PROVE  /\ Front(log) \in Seq(UndoRecord)
         /\ Len(log) \in Nat \ {0}
         /\ DOMAIN log = 1..Len(log)
         /\ DOMAIN Front(log) = 1..(Len(log) - 1)
         /\ \A n \in 1..(Len(log) - 1) : Front(log)[n] = log[n]
         /\ Last(log) = log[Len(log)] /\ Last(log) \in UndoRecord
<1>1. Len(log) \in Nat \ {0} /\ DOMAIN log = 1..Len(log)
  BY EmptySeq, LenProperties
<1>2. \A n \in 1..Len(log) : log[n] \in UndoRecord
  BY <1>1, ElementOfSeq
<1>3. /\ Front(log) \in Seq(UndoRecord)
      /\ Len(Front(log)) = Len(log) - 1
      /\ \A n \in 1..(Len(log) - 1) : Front(log)[n] = log[n]
  <2>1. 1 \in Int /\ Len(log) - 1 \in Int /\ \A n \in 1..(Len(log) - 1) : log[n] \in UndoRecord
    BY <1>1, <1>2
  <2>2. /\ Front(log) \in Seq(UndoRecord)
        /\ Len(Front(log)) = IF 1 <= Len(log) - 1 THEN Len(log) - 1 - 1 + 1 ELSE 0
        /\ \A n \in 1..(Len(log) - 1 - 1 + 1) : Front(log)[n] = log[1 + n - 1]
    BY <2>1, SubSeqProperties DEF Front
  <2> HIDE DEF Front
  <2>3. \A k \in Nat \ {0} : k - 1 - 1 + 1 = k - 1 /\ (IF 1 <= k - 1 THEN k - 1 - 1 + 1 ELSE 0) = k - 1
    OBVIOUS
  <2>4. \A n \in 1..(Len(log) - 1) : 1 + n - 1 = n
    BY <1>1
  <2>5. Len(log) - 1 - 1 + 1 = Len(log) - 1 /\ Len(Front(log)) = Len(log) - 1
    BY <1>1, <2>2, <2>3
  <2> QED BY <2>2, <2>4, <2>5
<1>4. DOMAIN Front(log) = 1..(Len(log) - 1)
  BY <1>3, LenProperties
<1>5. Last(log) = log[Len(log)] /\ Last(log) \in UndoRecord
  <2>1. Len(log) \in 1..Len(log)
    BY <1>1
  <2> QED BY <1>2, <2>1 DEF Last
<1> QED BY <1>1, <1>3, <1>4, <1>5

\* The log of a statement follows that of its transaction.
LEMMA JoinedLog ==
  ASSUME NEW a \in Seq(UndoRecord), NEW b \in Seq(UndoRecord)
  PROVE  /\ a \o b \in Seq(UndoRecord)
         /\ Len(a) \in Nat /\ Len(b) \in Nat
         /\ DOMAIN a = 1..Len(a) /\ DOMAIN b = 1..Len(b)
         /\ DOMAIN (a \o b) = 1..(Len(a) + Len(b))
         /\ \A n \in 1..Len(a) : (a \o b)[n] = a[n]
         /\ \A n \in 1..Len(b) : (a \o b)[Len(a) + n] = b[n]
<1>1. /\ Len(a) \in Nat /\ Len(b) \in Nat
      /\ DOMAIN a = 1..Len(a) /\ DOMAIN b = 1..Len(b)
  BY LenProperties
<1>2. /\ a \o b \in Seq(UndoRecord)
      /\ Len(a \o b) = Len(a) + Len(b)
      /\ \A n \in 1..(Len(a) + Len(b)) : (a \o b)[n] = IF n <= Len(a) THEN a[n] ELSE b[n - Len(a)]
  BY ConcatProperties
<1>3. DOMAIN (a \o b) = 1..(Len(a) + Len(b))
  BY <1>2, LenProperties
<1>4. \A n \in 1..Len(b) : Len(a) + n \in 1..(Len(a) + Len(b)) /\ ~(Len(a) + n <= Len(a))
                            /\ Len(a) + n - Len(a) = n
  BY <1>1
<1>5. \A n \in 1..Len(b) : (a \o b)[Len(a) + n] = b[n]
  BY <1>2, <1>4
<1> QED BY <1>1, <1>2, <1>3, <1>5

\* A record joins the log of the statement, or of the transaction.
LEMMA JoinOfAppended ==
  ASSUME NEW a \in Seq(UndoRecord), NEW b \in Seq(UndoRecord), NEW u \in UndoRecord
  PROVE  a \o Append(b, u) = Append(a \o b, u) /\ a \o <<u>> = Append(a, u)
<1>1. <<u>> \in Seq(UndoRecord) /\ a \o b \in Seq(UndoRecord)
  BY ConcatProperties
<1>2. Append(b, u) = b \o <<u>> /\ Append(a \o b, u) = (a \o b) \o <<u>> /\ Append(a, u) = a \o <<u>>
  BY <1>1, AppendIsConcat
<1> QED BY <1>1, <1>2, ConcatAssociative

-----------------------------------------------------------------------------
(* How the condition on pending DELETEs survives a change.                 *)

\* Every table of `new` is one of `old`, in which rows have been removed or
\* added under new automatic ids only.
Grows(old, new) ==
  \A t \in DOMAIN new :
    /\ t \in DOMAIN old
    /\ old[t].next <= new[t].next
    /\ \A r \in DOMAIN new[t].rows : r \in DOMAIN old[t].rows \/ old[t].next <= r

\* Without undo records no table has a row that could come back.
LEMMA NothingPending ==
  ASSUME NEW db
  PROVE  DeletesAreFinal(<<>>, db)
BY DEF DeletesAreFinal, RowsAreGone, DeletedOnce

\* The row ids in a log of undo records.
LEMMA DeleteRecord ==
  ASSUME NEW u \in UndoRecord, IsDelete(u)
  PROVE  u.t \in TableName /\ u.r \in RowId /\ u.row \in Row
BY DEF UndoRecord, IsDelete

\* A table that keeps its rows and its next row id, or has more of both, leaves
\* the row ids of its undone deletions alone.
LEMMA FinalWhenGrown ==
  ASSUME NEW log \in Seq(UndoRecord), NEW old, NEW new,
         SoundTables(old), SoundTables(new), Grows(old, new), DeletesAreFinal(log, old)
  PROVE  DeletesAreFinal(log, new)
<1> SUFFICES ASSUME NEW n \in DOMAIN log, IsDelete(log[n]), log[n].t \in DOMAIN new,
                    \A m \in DOMAIN log : m > n => ~Creates(log[m], log[n].t)
             PROVE  log[n].r \notin DOMAIN new[log[n].t].rows /\ log[n].r < new[log[n].t].next
  BY DEF DeletesAreFinal, RowsAreGone
<1> DEFINE t == log[n].t
           r == log[n].r
<1>1. t \in DOMAIN old /\ r \notin DOMAIN old[t].rows /\ r < old[t].next
  BY DEF Grows, DeletesAreFinal, RowsAreGone
<1>2. r \in Nat /\ old[t].next \in Nat /\ new[t].next \in Nat
  <2>1. log[n] \in UndoRecord
    BY ElementOfSeq, LenProperties
  <2>2. r \in RowId
    BY <2>1, DeleteRecord
  <2> QED BY <1>1, <2>2 DEF SoundTables, TableInv, TableType, RowId
<1>3. old[t].next <= new[t].next
  BY DEF Grows
<1>4. r < new[t].next
  BY <1>1, <1>2, <1>3
<1>5. r \notin DOMAIN new[t].rows
  BY <1>1, <1>2 DEF Grows
<1> QED BY <1>4, <1>5

\* A record that is no DELETE joins the log.
LEMMA FinalWhenAppended ==
  ASSUME NEW log \in Seq(UndoRecord), NEW db, NEW u \in UndoRecord, ~IsDelete(u),
         DeletesAreFinal(log, db)
  PROVE  DeletesAreFinal(Append(log, u), db)
<1> DEFINE new == Append(log, u)
<1>1. /\ Len(log) \in Nat /\ DOMAIN log = 1..Len(log) /\ DOMAIN new = 1..(Len(log) + 1)
      /\ \A n \in 1..Len(log) : new[n] = log[n]
      /\ new[Len(log) + 1] = u
  BY AppendedLog
<1> HIDE DEF new
<1>2. \A n \in DOMAIN new : IsDelete(new[n]) => n \in DOMAIN log /\ new[n] = log[n]
  BY <1>1
<1>3. DOMAIN log \subseteq DOMAIN new /\ \A n \in DOMAIN log : new[n] = log[n]
  BY <1>1
<1>4. RowsAreGone(new, db)
  BY <1>2, <1>3 DEF DeletesAreFinal, RowsAreGone
<1>5. DeletedOnce(new)
  BY <1>2, <1>3 DEF DeletesAreFinal, DeletedOnce
<1> QED BY <1>4, <1>5 DEF DeletesAreFinal, new

\* The DELETE of row `r` of table `t` joins the log, the row leaves the table.
LEMMA FinalWhenDeleted ==
  ASSUME NEW log \in Seq(UndoRecord), NEW old, NEW new, NEW u \in UndoRecord,
         SoundTables(old), SoundTables(new), Grows(old, new), DeletesAreFinal(log, old),
         IsDelete(u), u.t \in DOMAIN old, u.r \in DOMAIN old[u.t].rows,
         u.t \in DOMAIN new, u.r \notin DOMAIN new[u.t].rows
  PROVE  DeletesAreFinal(Append(log, u), new)
<1> DEFINE app == Append(log, u)
<1>1. /\ Len(log) \in Nat /\ DOMAIN log = 1..Len(log) /\ DOMAIN app = 1..(Len(log) + 1)
      /\ \A n \in 1..Len(log) : app[n] = log[n]
      /\ app[Len(log) + 1] = u
  BY AppendedLog
<1> HIDE DEF app
<1>2. DOMAIN log \subseteq DOMAIN app /\ \A n \in DOMAIN log : app[n] = log[n]
  BY <1>1
<1>3. DeletesAreFinal(log, new)
  BY FinalWhenGrown
<1>4. u.r < new[u.t].next
  <2>1. u.r < old[u.t].next /\ old[u.t].next <= new[u.t].next
    BY DEF SoundTables, TableInv, NextIsFresh, Grows
  <2>2. u.r \in Nat /\ old[u.t].next \in Nat /\ new[u.t].next \in Nat
    BY DEF SoundTables, TableInv, TableType, RowId
  <2> QED BY <2>1, <2>2
<1>5. RowsAreGone(app, new)
  <2> SUFFICES ASSUME NEW n \in DOMAIN app, IsDelete(app[n]), app[n].t \in DOMAIN new,
                      \A m \in DOMAIN app : m > n => ~Creates(app[m], app[n].t)
               PROVE  /\ app[n].r \notin DOMAIN new[app[n].t].rows
                      /\ app[n].r < new[app[n].t].next
    BY DEF RowsAreGone
  <2>1. CASE n = Len(log) + 1
    BY <2>1, <1>1, <1>4
  <2>2. CASE n \in DOMAIN log
    BY <2>2, <1>2, <1>3 DEF DeletesAreFinal, RowsAreGone
  <2> QED BY <2>1, <2>2, <1>1
<1>6. DeletedOnce(app)
  <2> SUFFICES ASSUME NEW n \in DOMAIN app, NEW m \in DOMAIN app, n < m,
                      IsDelete(app[n]), IsDelete(app[m]),
                      app[n].t = app[m].t, app[n].r = app[m].r
               PROVE  \E k \in DOMAIN app : n < k /\ k < m /\ Creates(app[k], app[n].t)
    BY DEF DeletedOnce
  <2>1. CASE m \in DOMAIN log
    <3>1. n \in DOMAIN log
      BY <2>1, <1>1
    <3> QED BY <2>1, <3>1, <1>2 DEF DeletesAreFinal, DeletedOnce
  <2>2. CASE m = Len(log) + 1
    <3>1. n \in DOMAIN log /\ app[n] = log[n] /\ app[m] = u
      BY <2>2, <1>1
    <3>2. PICK k \in DOMAIN log : k > n /\ Creates(log[k], log[n].t)
      BY <3>1 DEF DeletesAreFinal, RowsAreGone
    <3>3. k \in DOMAIN app /\ app[k] = log[k] /\ n < k /\ k < m
      BY <1>1, <2>2, <3>1, <3>2
    <3> QED BY <3>1, <3>2, <3>3
  <2> QED BY <2>1, <2>2, <1>1
<1> QED BY <1>5, <1>6 DEF DeletesAreFinal, app

\* The table `t` is created: DELETEs from an earlier table of its name no
\* longer speak of it.
LEMMA FinalWhenCreated ==
  ASSUME NEW log \in Seq(UndoRecord), NEW old, NEW new, NEW u \in UndoRecord,
         Creates(u, u.t), DeletesAreFinal(log, old), u.t \notin DOMAIN old,
         DOMAIN new = DOMAIN old \cup {u.t},
         \A t \in DOMAIN old : new[t] = old[t]
  PROVE  DeletesAreFinal(Append(log, u), new)
<1> DEFINE app == Append(log, u)
<1>1. /\ Len(log) \in Nat /\ DOMAIN log = 1..Len(log) /\ DOMAIN app = 1..(Len(log) + 1)
      /\ \A n \in 1..Len(log) : app[n] = log[n]
      /\ app[Len(log) + 1] = u
  BY AppendedLog
<1> HIDE DEF app
<1>2. ~IsDelete(u)
  BY DEF IsDelete, Creates
<1>3. \A n \in DOMAIN app : IsDelete(app[n]) => n \in DOMAIN log /\ app[n] = log[n]
  BY <1>1, <1>2
<1>4. DOMAIN log \subseteq DOMAIN app /\ \A n \in DOMAIN log : app[n] = log[n]
  BY <1>1
<1>5. DeletedOnce(app)
  BY <1>3, <1>4 DEF DeletesAreFinal, DeletedOnce
<1>6. RowsAreGone(app, new)
  <2> SUFFICES ASSUME NEW n \in DOMAIN app, IsDelete(app[n]), app[n].t \in DOMAIN new,
                      \A m \in DOMAIN app : m > n => ~Creates(app[m], app[n].t)
               PROVE  /\ app[n].r \notin DOMAIN new[app[n].t].rows
                      /\ app[n].r < new[app[n].t].next
    BY DEF RowsAreGone
  <2>1. n \in DOMAIN log /\ app[n] = log[n]
    BY <1>3
  <2>2. app[n].t # u.t
    <3>1. Len(log) + 1 \in DOMAIN app /\ Len(log) + 1 > n
      BY <1>1, <2>1
    <3> QED BY <1>1, <3>1
  <2>3. app[n].t \in DOMAIN old
    BY <2>2
  <2> QED BY <2>1, <2>3, <1>4 DEF DeletesAreFinal, RowsAreGone
<1> QED BY <1>5, <1>6 DEF DeletesAreFinal, app

\* The last record leaves the log with no change of the tables, unless it
\* created a table that is still there.
LEMMA FinalWhenShortened ==
  ASSUME NEW log \in Seq(UndoRecord), log # <<>>, NEW db, DeletesAreFinal(log, db),
         \A t \in DOMAIN db : ~Creates(Last(log), t)
  PROVE  DeletesAreFinal(Front(log), db)
<1> DEFINE front == Front(log)
<1>1. /\ Len(log) \in Nat \ {0} /\ DOMAIN log = 1..Len(log)
      /\ DOMAIN front = 1..(Len(log) - 1)
      /\ \A n \in 1..(Len(log) - 1) : front[n] = log[n]
      /\ Last(log) = log[Len(log)]
  BY ShortenedLog
<1> HIDE DEF front
<1>2. /\ DOMAIN front \subseteq DOMAIN log /\ \A n \in DOMAIN front : front[n] = log[n]
      /\ \A n \in DOMAIN log : n \in DOMAIN front \/ log[n] = Last(log)
  BY <1>1
<1>3. RowsAreGone(front, db)
  <2> SUFFICES ASSUME NEW n \in DOMAIN front, IsDelete(front[n]), front[n].t \in DOMAIN db,
                      \A m \in DOMAIN front : m > n => ~Creates(front[m], front[n].t)
               PROVE  /\ front[n].r \notin DOMAIN db[front[n].t].rows
                      /\ front[n].r < db[front[n].t].next
    BY DEF RowsAreGone
  <2>1. \A m \in DOMAIN log : m > n => ~Creates(log[m], log[n].t)
    BY <1>2
  <2> QED BY <1>2, <2>1 DEF DeletesAreFinal, RowsAreGone
<1>4. DeletedOnce(front)
  <2> SUFFICES ASSUME NEW n \in DOMAIN front, NEW m \in DOMAIN front, n < m,
                      IsDelete(front[n]), IsDelete(front[m]),
                      front[n].t = front[m].t, front[n].r = front[m].r
               PROVE  \E k \in DOMAIN front : n < k /\ k < m /\ Creates(front[k], front[n].t)
    BY DEF DeletedOnce
  <2>1. PICK k \in DOMAIN log : n < k /\ k < m /\ Creates(log[k], log[n].t)
    BY <1>2 DEF DeletesAreFinal, DeletedOnce
  <2>2. k \in DOMAIN front
    BY <1>1, <2>1
  <2> QED BY <1>2, <2>1, <2>2
<1> QED BY <1>3, <1>4 DEF DeletesAreFinal, front

\* The row of the last record comes back, and it is the only row that does.
LEMMA FinalWhenRestored ==
  ASSUME NEW log \in Seq(UndoRecord), log # <<>>, NEW old, NEW new,
         SoundTables(old), SoundTables(new), DeletesAreFinal(log, old),
         NEW u, u = Last(log), IsDelete(u), DOMAIN new \subseteq DOMAIN old,
         \A t \in DOMAIN new :
           /\ old[t].next <= new[t].next
           /\ \A r \in DOMAIN new[t].rows : r \in DOMAIN old[t].rows \/ (t = u.t /\ r = u.r)
  PROVE  DeletesAreFinal(Front(log), new)
<1> DEFINE front == Front(log)
<1>1. /\ Len(log) \in Nat \ {0} /\ DOMAIN log = 1..Len(log)
      /\ DOMAIN front = 1..(Len(log) - 1)
      /\ \A n \in 1..(Len(log) - 1) : front[n] = log[n]
      /\ u = log[Len(log)]
      /\ front \in Seq(UndoRecord)
  BY ShortenedLog
<1>2. DeletesAreFinal(front, old)
  BY FinalWhenShortened DEF Creates, IsDelete
<1> HIDE DEF front
<1>3. \A n \in DOMAIN front : n \in DOMAIN log /\ front[n] = log[n] /\ n < Len(log)
  BY <1>1
<1>4. RowsAreGone(front, new)
  <2> SUFFICES ASSUME NEW n \in DOMAIN front, IsDelete(front[n]), front[n].t \in DOMAIN new,
                      \A m \in DOMAIN front : m > n => ~Creates(front[m], front[n].t)
               PROVE  /\ front[n].r \notin DOMAIN new[front[n].t].rows
                      /\ front[n].r < new[front[n].t].next
    BY DEF RowsAreGone
  <2> DEFINE t == front[n].t
             r == front[n].r
  <2>1. t \in DOMAIN old /\ r \notin DOMAIN old[t].rows /\ r < old[t].next
    BY <1>2 DEF DeletesAreFinal, RowsAreGone
  <2>2. r \in Nat /\ old[t].next \in Nat /\ new[t].next \in Nat
    <3>1. front[n] \in UndoRecord
      BY <1>1, ElementOfSeq, LenProperties
    <3>2. r \in RowId
      BY <3>1, DeleteRecord
    <3> QED BY <2>1, <3>2 DEF SoundTables, TableInv, TableType, RowId
  <2>3. r < new[t].next
    BY <2>1, <2>2
  <2>4. ~(t = u.t /\ r = u.r)
    <3> SUFFICES ASSUME t = u.t, r = u.r PROVE FALSE
      OBVIOUS
    <3>1. Len(log) \in DOMAIN log
      BY <1>1
    <3>2. PICK k \in DOMAIN log : n < k /\ k < Len(log) /\ Creates(log[k], log[n].t)
      BY <1>1, <1>3, <3>1 DEF DeletesAreFinal, DeletedOnce
    <3>3. k \in DOMAIN front
      BY <1>1, <3>2
    <3> QED BY <1>3, <3>2, <3>3
  <2> QED BY <2>1, <2>3, <2>4
<1> QED BY <1>2, <1>4 DEF DeletesAreFinal, front

\* Records at the end of the log that create no table are dropped.
LEMMA FinalWhenCut ==
  ASSUME NEW a \in Seq(UndoRecord), NEW b \in Seq(UndoRecord), NEW db,
         DeletesAreFinal(a \o b, db), \A n \in DOMAIN b : b[n].op # "CreateTable"
  PROVE  DeletesAreFinal(a, db)
<1> DEFINE ab == a \o b
<1>1. /\ Len(a) \in Nat /\ Len(b) \in Nat /\ DOMAIN a = 1..Len(a) /\ DOMAIN b = 1..Len(b)
      /\ DOMAIN ab = 1..(Len(a) + Len(b))
      /\ \A n \in 1..Len(a) : ab[n] = a[n]
      /\ \A n \in 1..Len(b) : ab[Len(a) + n] = b[n]
  BY JoinedLog
<1> HIDE DEF ab
<1>2. DOMAIN a \subseteq DOMAIN ab /\ \A n \in DOMAIN a : ab[n] = a[n]
  BY <1>1
<1>3. \A t : \A n \in DOMAIN ab : Creates(ab[n], t) => n \in DOMAIN a
  <2> SUFFICES ASSUME NEW n \in DOMAIN ab, NEW t, Creates(ab[n], t), n \notin DOMAIN a
               PROVE  FALSE
    OBVIOUS
  <2>1. n - Len(a) \in DOMAIN b /\ n = Len(a) + (n - Len(a))
    BY <1>1
  <2>2. ab[n] = b[n - Len(a)]
    BY <1>1, <2>1
  <2> QED BY <2>1, <2>2 DEF Creates
<1>4. RowsAreGone(a, db)
  BY <1>2, <1>3 DEF DeletesAreFinal, RowsAreGone, ab
<1>5. DeletedOnce(a)
  BY <1>2, <1>3 DEF DeletesAreFinal, DeletedOnce, ab
<1> QED BY <1>4, <1>5 DEF DeletesAreFinal

-----------------------------------------------------------------------------
(* Parts of a statement.                                                   *)

\* Adding or replacing one table of a catalogue of tables.
LEMMA PutTable ==
  ASSUME SoundTables(tables), NEW t \in TableName, NEW table, TableInv(table), Put(t, table)
  PROVE  /\ SoundTables(tables')
         /\ DOMAIN tables' = DOMAIN tables \cup {t}
         /\ tables'[t] = table
         /\ \A q \in DOMAIN tables : q # t => tables'[q] = tables[q]
<1>1. /\ DOMAIN tables' = DOMAIN tables \cup {t}
      /\ tables'[t] = table
      /\ \A q \in DOMAIN tables : q # t => tables'[q] = tables[q]
  BY DEF Put
<1> QED BY <1>1 DEF SoundTables

\* Removing one table from a catalogue of tables.
LEMMA RemoveTable ==
  ASSUME SoundTables(tables), NEW t, tables' = Without(t)
  PROVE  SoundTables(tables') /\ Grows(tables, tables') /\ t \notin DOMAIN tables'
<1>1. DOMAIN tables' = DOMAIN tables \ {t} /\ \A q \in DOMAIN tables' : tables'[q] = tables[q]
  BY DEF Without
<1>2. \A q \in DOMAIN tables : tables[q].next \in Nat
  BY DEF SoundTables, TableInv, TableType, RowId
<1> QED BY <1>1, <1>2 DEF SoundTables, Grows

\* A changed table takes the place of the table `t`.
LEMMA GrownByPut ==
  ASSUME SoundTables(tables), NEW t \in DOMAIN tables, NEW table, TableInv(table), Put(t, table),
         tables[t].next <= table.next,
         \A r \in DOMAIN table.rows : r \in DOMAIN tables[t].rows \/ tables[t].next <= r
  PROVE  SoundTables(tables') /\ Grows(tables, tables')
<1>1. t \in TableName
  BY DEF SoundTables
<1>2. \A q \in DOMAIN tables : tables[q].next \in Nat
  BY DEF SoundTables, TableInv, TableType, RowId
<1>3. /\ SoundTables(tables')
      /\ DOMAIN tables' = DOMAIN tables
      /\ tables'[t] = table
      /\ \A q \in DOMAIN tables : q # t => tables'[q] = tables[q]
  BY <1>1, PutTable
<1>4. ASSUME NEW q \in DOMAIN tables
      PROVE  /\ tables[q].next <= tables'[q].next
             /\ \A r \in DOMAIN tables'[q].rows :
                  r \in DOMAIN tables[q].rows \/ tables[q].next <= r
  <2>1. CASE q = t
    BY <2>1, <1>3
  <2>2. CASE q # t
    BY <2>2, <1>2, <1>3
  <2> QED BY <2>1, <2>2
<1> QED BY <1>3, <1>4 DEF Grows

\* acquire leaves locks, whatever the lock asked for.
LEMMA LockTaken ==
  ASSUME EngineType, NEW t \in TableName, NEW mode, TakesLock(t, mode)
  PROVE  locks' \in [TableName -> [shared : SUBSET (Nat \ {0}), excl : Nat]]
<1>1. CASE ~Active
  BY <1>1 DEF TakesLock, EngineType
<1>2. CASE Active
  <2>1. Held(locks[t], txn.id, mode) \in [shared : SUBSET (Nat \ {0}), excl : Nat]
    BY <1>2 DEF EngineType, Held, Active, NoTx
  <2> QED BY <1>2, <2>1 DEF TakesLock, EngineType
<1> QED BY <1>1, <1>2

\* record_undo keeps the transaction a transaction, and appends to its log.
LEMMA UndoRecorded ==
  ASSUME EngineType, NEW u \in UndoRecord, Records(<<u>>)
  PROVE  /\ txn' \in [id : Nat, undo : Seq(UndoRecord)]
         /\ txn'.id = txn.id
         /\ txn'.undo = IF Active THEN Append(txn.undo, u) ELSE txn.undo
<1>1. txn.undo \in Seq(UndoRecord) /\ txn.undo \o <<u>> = Append(txn.undo, u)
  BY JoinOfAppended, EmptySeq DEF EngineType
<1>2. Append(txn.undo, u) \in Seq(UndoRecord)
  BY <1>1, AppendProperties
<1> QED BY <1>1, <1>2 DEF EngineType, Records

\* The phases a statement can end in.
LEMMA EndOf ==
  ASSUME NEW s, NEW result, Ends(s, result)
  PROVE  /\ call' = [phase |-> result, stmt |-> s, todo |-> {}, log |-> <<>>, tx |-> NoTx]
         /\ call'.phase = result /\ call'.stmt = s /\ call'.todo = {} /\ call'.log = <<>>
         /\ call'.tx = NoTx
BY DEF Ends, Ready

\* Between statements only the log of the transaction is to be undone.
LEMMA PendingAtRest ==
  /\ call.phase \in {"ready", "ok", "error"} => Pending = txn.undo
  /\ call'.phase \in {"ready", "ok", "error"} => Pending' = txn'.undo
BY DEF Pending

\* A statement has ended: the loops are over and only the tables, the locks
\* and the transaction have to be looked at.
LEMMA EndedStatement ==
  ASSUME NEW s \in Stmts, NEW result \in {"ok", "error"}, Ends(s, result),
         SoundTables(tables'),
         txn' \in [id : Nat, undo : Seq(UndoRecord)],
         ~Active' => txn'.undo = <<>>,
         locks' \in [TableName -> [shared : SUBSET (Nat \ {0}), excl : Nat]],
         nextTx' \in Nat,
         DeletesAreFinal(txn'.undo, tables')
  PROVE  EngineInv'
<1>1. /\ call' = [phase |-> result, stmt |-> s, todo |-> {}, log |-> <<>>, tx |-> NoTx]
      /\ call'.phase = result
  BY EndOf
<1>2. call' \in [phase : Phase, stmt : Stmts \cup {Ready.stmt}, todo : SUBSET RowId,
                 log : Seq(UndoRecord), tx : Nat]
  <2>1. <<>> \in Seq(UndoRecord) /\ result \in Phase /\ NoTx \in Nat
    BY EmptySeq DEF NoTx, Phase
  <2> QED BY <1>1, <2>1
<1>3. EngineType' /\ SoundTables(tables')
  BY <1>2 DEF EngineType
<1>4. LoopInv' /\ TxnInv'
  BY <1>1 DEF LoopInv, TxnInv
<1>5. Pending' = txn'.undo
  BY <1>1, PendingAtRest
<1> QED BY <1>3, <1>4, <1>5 DEF EngineInv

\* The statement failed before it changed anything but the locks.
LEMMA FailedStatement ==
  ASSUME EngineInv, Begins, NEW s \in Stmts, Fails(s),
         locks' \in [TableName -> [shared : SUBSET (Nat \ {0}), excl : Nat]]
  PROVE  EngineInv'
<1>1. Pending = txn.undo
  BY PendingAtRest DEF Begins
<1>2. /\ Ends(s, "error") /\ tables' = tables /\ txn' = txn /\ nextTx' = nextTx
      /\ Active' = Active
  BY DEF Fails, Active
<1>3. DeletesAreFinal(txn'.undo, tables')
  BY <1>1, <1>2 DEF EngineInv
<1> QED BY <1>2, <1>3, EndedStatement DEF EngineInv, EngineType, TxnInv

\* The statement succeeded with one undo record.
LEMMA RecordedStatement ==
  ASSUME EngineInv, Begins, NEW s \in Stmts, NEW u \in UndoRecord,
         Records(<<u>>), Ends(s, "ok"), nextTx' = nextTx,
         locks' \in [TableName -> [shared : SUBSET (Nat \ {0}), excl : Nat]],
         SoundTables(tables'), DeletesAreFinal(Append(txn.undo, u), tables')
  PROVE  EngineInv'
<1>1. /\ txn' \in [id : Nat, undo : Seq(UndoRecord)]
      /\ txn'.id = txn.id
      /\ txn'.undo = IF Active THEN Append(txn.undo, u) ELSE txn.undo
  BY UndoRecorded DEF EngineInv
<1>2. (Active' <=> Active) /\ (~Active => txn.undo = <<>>)
  BY <1>1 DEF Active, EngineInv, TxnInv
<1>3. DeletesAreFinal(txn'.undo, tables')
  BY <1>1, <1>2, NothingPending
<1>4. nextTx' \in Nat
  BY DEF EngineInv, EngineType
<1> QED BY <1>1, <1>2, <1>3, <1>4, EndedStatement

\* The statement succeeded without an undo record.
LEMMA UnrecordedStatement ==
  ASSUME EngineInv, Begins, NEW s \in Stmts, txn' = txn, Ends(s, "ok"), nextTx' = nextTx,
         locks' \in [TableName -> [shared : SUBSET (Nat \ {0}), excl : Nat]],
         SoundTables(tables'), Grows(tables, tables')
  PROVE  EngineInv'
<1>1. txn.undo \in Seq(UndoRecord) /\ DeletesAreFinal(txn.undo, tables)
  BY PendingAtRest DEF EngineInv, EngineType, Begins
<1>2. DeletesAreFinal(txn'.undo, tables')
  BY <1>1, FinalWhenGrown DEF EngineInv
<1>3. Active' <=> Active
  BY DEF Active
<1> QED BY <1>2, <1>3, EndedStatement DEF EngineInv, EngineType, TxnInv

-----------------------------------------------------------------------------
(* Statements of one step.                                                 *)

\* A statement that ends before it took a lock.
LEMMA RefusedStep ==
  ASSUME EngineInv, NEW s \in Stmts, Refused(s)
  PROVE  EngineInv'
<1>1. Begins /\ Fails(s) /\ locks' = locks
  BY DEF Refused
<1> QED BY <1>1, FailedStatement DEF EngineInv, EngineType

\* CREATE TABLE adds an empty table with its unique indexes.
LEMMA CreateTableStep ==
  ASSUME EngineInv, NEW s \in Stmts, CreateTableStmt(s)
  PROVE  EngineInv'
<1>1. Begins /\ s.t \in TableName /\ s.schema \in Schema
  BY StmtsAssumption DEF CreateTableStmt
<1>2. locks' \in [TableName -> [shared : SUBSET (Nat \ {0}), excl : Nat]]
  BY <1>1, LockTaken DEF CreateTableStmt, EngineInv
<1>3. CASE Fails(s)
  BY <1>1, <1>2, <1>3, FailedStatement
<1>4. CASE ~Fails(s)
  <2> DEFINE u == [op |-> "CreateTable", t |-> s.t]
  <2>1. /\ s.t \notin DOMAIN tables
        /\ Put(s.t, NewTable(s.schema)) /\ Records(<<u>>) /\ Ends(s, "ok")
        /\ nextTx' = nextTx
    BY <1>4 DEF CreateTableStmt
  <2>2. u \in UndoRecord /\ Creates(u, u.t)
    BY <1>1 DEF UndoRecord, Creates
  <2>3. /\ SoundTables(tables')
        /\ DOMAIN tables' = DOMAIN tables \cup {s.t}
        /\ \A q \in DOMAIN tables : tables'[q] = tables[q]
    BY <1>1, <2>1, NewTableInv, PutTable DEF EngineInv
  <2>4. txn.undo \in Seq(UndoRecord) /\ DeletesAreFinal(txn.undo, tables)
    BY <1>1, PendingAtRest DEF EngineInv, EngineType, Begins
  <2>5. DeletesAreFinal(Append(txn.undo, u), tables')
    BY <2>1, <2>2, <2>3, <2>4, FinalWhenCreated
  <2> QED BY <1>1, <1>2, <2>1, <2>2, <2>3, <2>5, RecordedStatement
<1> QED BY <1>3, <1>4

\* DROP TABLE forgets the rows of a table, and runs outside transactions only.
LEMMA DropTableStep ==
  ASSUME EngineInv, NEW s \in Stmts, DropTableStmt(s)
  PROVE  EngineInv'
<1>1. Begins /\ s.t \in TableName
  BY StmtsAssumption DEF DropTableStmt
<1>2. locks' \in [TableName -> [shared : SUBSET (Nat \ {0}), excl : Nat]]
  BY <1>1, LockTaken DEF DropTableStmt, EngineInv
<1>3. CASE Fails(s)
  BY <1>1, <1>2, <1>3, FailedStatement
<1>4. CASE ~Fails(s)
  <2>1. tables' = Without(s.t) /\ Ends(s, "ok") /\ txn' = txn /\ nextTx' = nextTx
    BY <1>4 DEF DropTableStmt
  <2>2. SoundTables(tables') /\ Grows(tables, tables')
    BY <2>1, RemoveTable DEF EngineInv
  <2> QED BY <1>1, <1>2, <2>1, <2>2, UnrecordedStatement
<1> QED BY <1>3, <1>4

\* An operation on the indexes of a table leaves its rows alone.
LEMMA IndexesOnly ==
  ASSUME SoundTables(tables), NEW t \in DOMAIN tables, NEW table, TableInv(table),
         table.next = tables[t].next, table.rows = tables[t].rows, Put(t, table)
  PROVE  SoundTables(tables') /\ Grows(tables, tables')
<1>1. tables[t].next \in Nat
  BY DEF SoundTables, TableInv, TableType, RowId
<1> QED BY <1>1, GrownByPut

\* CREATE INDEX leaves the rows of its table alone.
LEMMA CreateIndexStep ==
  ASSUME EngineInv, NEW s \in Stmts, CreateIndexStmt(s)
  PROVE  EngineInv'
<1>1. Begins /\ s.op = "CreateIndex" /\ s.t \in TableName /\ s.unique \in BOOLEAN
  BY StmtsAssumption DEF CreateIndexStmt
<1>2. locks' \in [TableName -> [shared : SUBSET (Nat \ {0}), excl : Nat]]
  BY <1>1, LockTaken DEF CreateIndexStmt, EngineInv
<1>3. CASE Fails(s)
  BY <1>1, <1>2, <1>3, FailedStatement
<1>4. CASE ~Fails(s)
  <2> DEFINE u == [op |-> "CreateIndex", t |-> s.t, i |-> s.i]
             table == CreateIndex(tables[s.t], s.i, s.c, s.unique)
  <2>1. /\ s.t \in DOMAIN tables /\ CanCreateIndex(tables[s.t], s.i, s.c, s.unique)
        /\ Put(s.t, table) /\ Records(<<u>>) /\ Ends(s, "ok") /\ nextTx' = nextTx
    BY <1>4 DEF CreateIndexStmt
  <2>2. u \in UndoRecord /\ ~IsDelete(u)
    BY <1>1 DEF UndoRecord, IsDelete
  <2>3. TableInv(table) /\ table.next = tables[s.t].next /\ table.rows = tables[s.t].rows
    <3>1. TableInv(tables[s.t])
      BY <2>1 DEF EngineInv, SoundTables
    <3>2. TableInv(table)
      BY <1>1, <2>1, <3>1, CreateIndexInv
    <3> QED BY <3>2 DEF CreateIndex, With
  <2>4. SoundTables(tables') /\ Grows(tables, tables')
    <3> HIDE DEF table
    <3> QED BY <2>1, <2>3, IndexesOnly DEF EngineInv
  <2>5. txn.undo \in Seq(UndoRecord) /\ DeletesAreFinal(txn.undo, tables)
    BY <1>1, PendingAtRest DEF EngineInv, EngineType, Begins
  <2>6. DeletesAreFinal(txn.undo, tables')
    BY <2>4, <2>5, FinalWhenGrown DEF EngineInv
  <2>7. DeletesAreFinal(Append(txn.undo, u), tables')
    BY <2>2, <2>5, <2>6, FinalWhenAppended
  <2> QED BY <1>1, <1>2, <2>1, <2>2, <2>4, <2>7, RecordedStatement
<1> QED BY <1>3, <1>4

\* DROP INDEX leaves the rows of its table alone.
LEMMA DropIndexStep ==
  ASSUME EngineInv, NEW s \in Stmts, DropIndexStmt(s)
  PROVE  EngineInv'
<1>1. Begins
  BY DEF DropIndexStmt
<1>2. CASE Fails(s) /\ UNCHANGED locks
  BY <1>1, <1>2, FailedStatement DEF EngineInv, EngineType
<1>3. ASSUME NEW t \in DOMAIN tables, TakesLock(t, "Exclusive"),
             Put(t, DropIndex(tables[t], s.i)), Ends(s, "ok"), txn' = txn, nextTx' = nextTx
      PROVE  EngineInv'
  <2> DEFINE table == DropIndex(tables[t], s.i)
  <2>1. t \in TableName /\ TableInv(tables[t])
    BY <1>3 DEF EngineInv, SoundTables
  <2>2. locks' \in [TableName -> [shared : SUBSET (Nat \ {0}), excl : Nat]]
    BY <1>3, <2>1, LockTaken DEF EngineInv
  <2>3. TableInv(table) /\ table.next = tables[t].next /\ table.rows = tables[t].rows
    <3>1. TableInv(table)
      BY <2>1, DropIndexInv
    <3> QED BY <3>1 DEF DropIndex, With
  <2> HIDE DEF table
  <2>4. SoundTables(tables') /\ Grows(tables, tables')
    BY <1>3, <2>3, IndexesOnly DEF EngineInv, table
  <2> QED BY <1>1, <1>3, <2>2, <2>4, UnrecordedStatement
<1> QED BY <1>2, <1>3 DEF DropIndexStmt

\* INSERT takes a row id that no row and no undo record has.
LEMMA InsertStep ==
  ASSUME EngineInv, NEW s \in Stmts, InsertStmt(s)
  PROVE  EngineInv'
<1>1. Begins /\ s.t \in TableName
  BY StmtsAssumption DEF InsertStmt
<1>2. locks' \in [TableName -> [shared : SUBSET (Nat \ {0}), excl : Nat]]
  BY <1>1, LockTaken DEF InsertStmt, EngineInv
<1>3. CASE Fails(s)
  BY <1>1, <1>2, <1>3, FailedStatement
<1>4. CASE ~Fails(s)
  <2> DEFINE r == tables[s.t].next
             u == [op |-> "Insert", t |-> s.t, r |-> r]
             table == AddRow(tables[s.t], s.row)
  <2>1. /\ s.t \in DOMAIN tables /\ Writable(tables[s.t], s.row, NoRow)
        /\ Put(s.t, table) /\ Records(<<u>>) /\ Ends(s, "ok") /\ nextTx' = nextTx
    BY <1>4 DEF InsertStmt
  <2>2. TableInv(tables[s.t])
    BY <2>1 DEF EngineInv, SoundTables
  <2>3. r \in RowId /\ r \notin DOMAIN tables[s.t].rows /\ Writable(tables[s.t], s.row, r)
    BY <2>1, <2>2, WritableUnderNext
  <2>4. u \in UndoRecord /\ ~IsDelete(u)
    BY <1>1, <2>3 DEF UndoRecord, IsDelete
  <2>5. TableInv(table)
    BY <2>2, <2>3, PutRowInv DEF AddRow
  <2>6. /\ tables[s.t].next <= table.next
        /\ \A q \in DOMAIN table.rows : q \in DOMAIN tables[s.t].rows \/ tables[s.t].next <= q
    BY <2>3 DEF AddRow, PutRow, With, RowId
  <2>7. SoundTables(tables') /\ Grows(tables, tables')
    <3> HIDE DEF table
    <3> QED BY <2>1, <2>5, <2>6, GrownByPut DEF EngineInv
  <2>8. txn.undo \in Seq(UndoRecord) /\ DeletesAreFinal(txn.undo, tables)
    BY <1>1, PendingAtRest DEF EngineInv, EngineType, Begins
  <2>9. DeletesAreFinal(txn.undo, tables')
    BY <2>7, <2>8, FinalWhenGrown DEF EngineInv
  <2>10. DeletesAreFinal(Append(txn.undo, u), tables')
    BY <2>4, <2>8, <2>9, FinalWhenAppended
  <2> QED BY <1>1, <1>2, <2>1, <2>4, <2>7, <2>10, RecordedStatement
<1> QED BY <1>3, <1>4

\* SELECT changes nothing but the locks.
LEMMA SelectStep ==
  ASSUME EngineInv, NEW s \in Stmts, SelectStmt(s)
  PROVE  EngineInv'
<1>1. Begins /\ s.t \in TableName /\ tables' = tables /\ txn' = txn /\ nextTx' = nextTx
  BY StmtsAssumption DEF SelectStmt
<1>2. locks' \in [TableName -> [shared : SUBSET (Nat \ {0}), excl : Nat]]
  BY <1>1, LockTaken DEF SelectStmt, EngineInv
<1>3. PICK result \in {"ok", "error"} : Ends(s, result)
  BY DEF SelectStmt
<1>4. DeletesAreFinal(txn'.undo, tables') /\ (Active' <=> Active)
  BY <1>1, PendingAtRest DEF EngineInv, Begins, Active
<1> QED BY <1>1, <1>2, <1>3, <1>4, EndedStatement DEF EngineInv, EngineType, TxnInv

-----------------------------------------------------------------------------
(* UPDATE and DELETE.                                                      *)

\* Both start with the matching rows, and no undo record of their own.
LEMMA StartLoop ==
  ASSUME EngineInv, Begins, NEW s \in Stmts, NEW phase \in {"update", "delete"},
         s.t \in DOMAIN tables, Loops(s, phase),
         locks' \in [TableName -> [shared : SUBSET (Nat \ {0}), excl : Nat]]
  PROVE  EngineInv'
<1>1. /\ call' = [phase |-> phase, stmt |-> s, todo |-> Matching(s.t, s.where),
                  log |-> <<>>, tx |-> NoTx]
      /\ call'.phase = phase /\ call'.stmt = s /\ call'.log = <<>>
      /\ call'.todo = Matching(s.t, s.where)
      /\ tables' = tables /\ txn' = txn /\ nextTx' = nextTx
  BY DEF Loops
<1>2. Matching(s.t, s.where) \subseteq DOMAIN tables[s.t].rows
  BY DEF Matching
<1>3. DOMAIN tables[s.t].rows \subseteq RowId
  BY DEF EngineInv, SoundTables, TableInv, TableType
<1>4. EngineType'
  <2>1. <<>> \in Seq(UndoRecord) /\ phase \in Phase /\ NoTx \in Nat
    BY EmptySeq DEF NoTx, Phase
  <2>2. call' \in [phase : Phase, stmt : Stmts \cup {Ready.stmt}, todo : SUBSET RowId,
                   log : Seq(UndoRecord), tx : Nat]
    BY <1>1, <1>2, <1>3, <2>1
  <2> QED BY <1>1, <2>2 DEF EngineInv, EngineType
<1>5. LoopInv'
  <2>1. DOMAIN call'.log = {}
    BY <1>1
  <2> QED BY <1>1, <1>2, <2>1 DEF LoopInv
<1>6. TxnInv'
  BY <1>1 DEF EngineInv, TxnInv, Active
<1>7. Pending' = Pending
  <2>1. Pending' = txn.undo \o <<>>
    BY <1>1 DEF Pending
  <2>2. txn.undo \o <<>> = txn.undo
    BY ConcatEmptySeq DEF EngineInv, EngineType
  <2> QED BY <2>1, <2>2, PendingAtRest DEF Begins
<1> QED BY <1>1, <1>4, <1>5, <1>6, <1>7 DEF EngineInv

\* UPDATE locks its table and finds its rows.
LEMMA StartUpdateStep ==
  ASSUME EngineInv, NEW s \in Stmts, StartUpdate(s)
  PROVE  EngineInv'
<1>1. Begins /\ s.t \in TableName
  BY StmtsAssumption DEF StartUpdate
<1>2. locks' \in [TableName -> [shared : SUBSET (Nat \ {0}), excl : Nat]]
  BY <1>1, LockTaken DEF StartUpdate, EngineInv
<1>3. CASE Fails(s)
  BY <1>1, <1>2, <1>3, FailedStatement
<1>4. CASE ~Fails(s)
  BY <1>1, <1>2, <1>4, StartLoop DEF StartUpdate
<1> QED BY <1>3, <1>4

\* DELETE locks its table and finds its rows.
LEMMA StartDeleteStep ==
  ASSUME EngineInv, NEW s \in Stmts, StartDelete(s)
  PROVE  EngineInv'
<1>1. Begins /\ s.t \in TableName
  BY StmtsAssumption DEF StartDelete
<1>2. locks' \in [TableName -> [shared : SUBSET (Nat \ {0}), excl : Nat]]
  BY <1>1, LockTaken DEF StartDelete, EngineInv
<1>3. CASE Fails(s)
  BY <1>1, <1>2, <1>3, FailedStatement
<1>4. CASE ~Fails(s)
  BY <1>1, <1>2, <1>4, StartLoop DEF StartDelete
<1> QED BY <1>3, <1>4

\* What a running loop may rely on.
LEMMA InTheLoop ==
  ASSUME EngineInv, call.phase \in {"update", "delete"}, NEW r \in NextRows
  PROVE  /\ call.stmt.t \in DOMAIN tables /\ call.stmt.t \in TableName
         /\ TableInv(tables[call.stmt.t])
         /\ r \in call.todo /\ r \in DOMAIN tables[call.stmt.t].rows /\ r \in RowId
         /\ tables[call.stmt.t].rows[r] \in Row
         /\ Pending = txn.undo \o call.log /\ Pending \in Seq(UndoRecord)
<1>1. call.stmt.t \in DOMAIN tables /\ call.todo \subseteq DOMAIN tables[call.stmt.t].rows
  BY DEF EngineInv, LoopInv
<1>2. TableInv(tables[call.stmt.t]) /\ call.stmt.t \in TableName
  BY <1>1 DEF EngineInv, SoundTables
<1>3. r \in call.todo
  BY DEF NextRows
<1>4. r \in DOMAIN tables[call.stmt.t].rows /\ r \in RowId
  BY <1>1, <1>2, <1>3 DEF TableInv, TableType
<1>5. tables[call.stmt.t].rows[r] \in Row
  <2> DEFINE cols == tables[call.stmt.t].schema.cols
  <2>1. cols \in SUBSET Column /\ tables[call.stmt.t].rows[r] \in [cols -> Datum]
    BY <1>2, <1>4 DEF TableInv, TableType, Schema
  <2> HIDE DEF cols
  <2> QED BY <2>1 DEF Row
<1>6. Pending = txn.undo \o call.log
  BY DEF Pending
<1>7. Pending \in Seq(UndoRecord)
  BY <1>6, ConcatProperties DEF EngineInv, EngineType
<1> QED BY <1>1, <1>2, <1>3, <1>4, <1>5, <1>6, <1>7

\* One more row is done: it leaves `todo`, its undo record joins the log.
LEMMA RowDone ==
  ASSUME EngineInv, call.phase \in {"update", "delete"}, NEW r \in NextRows,
         NEW u \in UndoRecord, u.t = call.stmt.t,
         u.op = IF call.phase = "update" THEN "Update" ELSE "Delete",
         call' = [call EXCEPT !.todo = @ \ {r}, !.log = Append(@, u)],
         txn' = txn, locks' = locks, nextTx' = nextTx,
         SoundTables(tables'), Grows(tables, tables'), DOMAIN tables' = DOMAIN tables,
         call.todo \ {r} \subseteq DOMAIN tables'[call.stmt.t].rows,
         DeletesAreFinal(Append(Pending, u), tables')
  PROVE  EngineInv'
<1>1. call \in [phase : Phase, stmt : Stmts \cup {Ready.stmt}, todo : SUBSET RowId,
                log : Seq(UndoRecord), tx : Nat]
      /\ txn.undo \in Seq(UndoRecord)
  BY DEF EngineInv, EngineType
<1>2. /\ call'.phase = call.phase /\ call'.stmt = call.stmt /\ call'.todo = call.todo \ {r}
      /\ call'.log = Append(call.log, u)
  BY <1>1
<1>3. Append(call.log, u) \in Seq(UndoRecord)
  BY <1>1, AppendProperties
<1>4. EngineType'
  BY <1>1, <1>3 DEF EngineInv, EngineType
<1>5. LoopInv'
  <2>1. /\ Len(call.log) \in Nat /\ DOMAIN call.log = 1..Len(call.log)
        /\ DOMAIN call'.log = 1..(Len(call.log) + 1)
        /\ \A n \in 1..Len(call.log) : call'.log[n] = call.log[n]
        /\ call'.log[Len(call.log) + 1] = u
    BY <1>1, <1>2, AppendedLog
  <2>2. \A n \in DOMAIN call'.log : n \in DOMAIN call.log \/ call'.log[n] = u
    BY <2>1
  <2>3. \A n \in DOMAIN call.log : call'.log[n] = call.log[n]
    BY <2>1
  <2> HIDE <2>1
  <2>4. /\ call.stmt.t \in DOMAIN tables
        /\ \A n \in DOMAIN call.log : call.log[n].t = call.stmt.t
        /\ call.phase = "update" => \A n \in DOMAIN call.log : call.log[n].op = "Update"
        /\ call.phase = "delete" => \A n \in DOMAIN call.log : call.log[n].op = "Delete"
    BY DEF EngineInv, LoopInv
  <2> QED BY <1>2, <2>2, <2>3, <2>4 DEF LoopInv
<1>6. TxnInv'
  BY <1>2 DEF EngineInv, TxnInv, Active
<1>7. Pending' = Append(Pending, u)
  <2>1. Pending' = txn.undo \o Append(call.log, u) /\ Pending = txn.undo \o call.log
    BY <1>2 DEF Pending
  <2> QED BY <1>1, <2>1, JoinOfAppended
<1> QED BY <1>4, <1>5, <1>6, <1>7 DEF EngineInv

\* UPDATE changes one row, or stops with the rows it has already changed.
LEMMA UpdateRowStep ==
  ASSUME EngineInv, UpdateRow
  PROVE  EngineInv'
<1>1. call.phase = "update"
  BY DEF UpdateRow
<1>2. ASSUME NEW r \in NextRows, Writable(tables[call.stmt.t], Assigned(r), r),
             RowUpdated(call.stmt.t, r)
      PROVE  EngineInv'
  <2> DEFINE t == call.stmt.t
             u == [op |-> "Update", t |-> t, r |-> r, row |-> tables[t].rows[r]]
             table == ReplaceRow(tables[t], r, Assigned(r))
  <2>1. /\ t \in DOMAIN tables /\ t \in TableName /\ TableInv(tables[t])
        /\ r \in DOMAIN tables[t].rows /\ r \in RowId /\ tables[t].rows[r] \in Row
        /\ Pending \in Seq(UndoRecord)
    BY <1>1, InTheLoop
  <2>2. /\ Put(t, table) /\ txn' = txn /\ locks' = locks /\ nextTx' = nextTx
        /\ call' = [call EXCEPT !.todo = @ \ {r}, !.log = Append(@, u)]
    BY <1>2 DEF RowUpdated
  <2>3. u \in UndoRecord /\ ~IsDelete(u) /\ u.t = t /\ u.op = "Update"
    BY <2>1 DEF UndoRecord, IsDelete
  <2>4. TableInv(table)
    BY <1>2, <2>1, ReplaceRowInv
  <2>5. table.next = tables[t].next /\ DOMAIN table.rows = DOMAIN tables[t].rows
    BY DEF ReplaceRow, With
  <2> HIDE DEF table, u
  <2>6. tables[t].next <= table.next
    BY <2>1, <2>5 DEF TableInv, TableType, RowId
  <2>7. SoundTables(tables') /\ Grows(tables, tables')
    BY <2>1, <2>2, <2>4, <2>5, <2>6, GrownByPut DEF EngineInv
  <2>8. DOMAIN tables' = DOMAIN tables /\ tables'[t] = table
    BY <2>1, <2>2, <2>4, PutTable DEF EngineInv
  <2>9. DeletesAreFinal(Append(Pending, u), tables')
    BY <2>1, <2>3, <2>7, FinalWhenGrown, FinalWhenAppended DEF EngineInv
  <2>10. call.todo \subseteq DOMAIN tables'[t].rows
    BY <1>1, <2>5, <2>8 DEF EngineInv, LoopInv
  <2> QED BY <1>1, <2>2, <2>3, <2>7, <2>8, <2>9, <2>10, RowDone
<1>3. CASE /\ call' = [call EXCEPT !.phase = "error", !.todo = {}]
           /\ UNCHANGED <<tables, txn, locks, nextTx>>
  <2>1. call'.phase = "error" /\ Pending' = txn.undo
    <3>1. call'.phase = "error"
      BY <1>3 DEF EngineInv, EngineType
    <3> QED BY <1>3, <3>1, PendingAtRest
  <2>2. EngineType'
    BY <1>3 DEF EngineInv, EngineType, Phase
  <2>3. LoopInv' /\ TxnInv'
    BY <1>3, <2>1 DEF EngineInv, LoopInv, TxnInv, Active
  <2>4. DeletesAreFinal(txn.undo, tables)
    <3>1. Pending = txn.undo \o call.log
      BY <1>1 DEF Pending
    <3>2. \A n \in DOMAIN call.log : call.log[n].op # "CreateTable"
      BY <1>1 DEF EngineInv, LoopInv
    <3> QED BY <3>1, <3>2, FinalWhenCut DEF EngineInv, EngineType
  <2> QED BY <1>3, <2>1, <2>2, <2>3, <2>4 DEF EngineInv
<1> QED BY <1>2, <1>3 DEF UpdateRow

\* DELETE removes one row, whose id is not used again.
LEMMA DeleteOneStep ==
  ASSUME EngineInv, DeleteOne
  PROVE  EngineInv'
<1>1. call.phase = "delete"
  BY DEF DeleteOne
<1> DEFINE t == call.stmt.t
           u(r) == [op |-> "Delete", t |-> t, r |-> r, row |-> tables[t].rows[r]]
<1>2. PICK r \in NextRows :
        /\ Put(t, DeleteRow(tables[t], r))
        /\ call' = [call EXCEPT !.todo = @ \ {r}, !.log = Append(@, u(r))]
        /\ txn' = txn /\ locks' = locks /\ nextTx' = nextTx
  BY DEF DeleteOne
<1> DEFINE table == DeleteRow(tables[t], r)
<1>3. /\ t \in DOMAIN tables /\ t \in TableName /\ TableInv(tables[t])
      /\ r \in DOMAIN tables[t].rows /\ r \in RowId /\ tables[t].rows[r] \in Row
      /\ Pending \in Seq(UndoRecord)
  BY <1>1, InTheLoop
<1>4. u(r) \in UndoRecord /\ IsDelete(u(r)) /\ u(r).t = t /\ u(r).r = r /\ u(r).op = "Delete"
  BY <1>3 DEF UndoRecord, IsDelete
<1>5. TableInv(table)
  BY <1>3, DeleteRowInv
<1>6. table.next = tables[t].next /\ DOMAIN table.rows = DOMAIN tables[t].rows \ {r}
  BY DEF DeleteRow, With
<1>7. Put(t, table)
  BY <1>2
<1> HIDE DEF table, u
<1>8. tables[t].next <= table.next
  BY <1>3, <1>6 DEF TableInv, TableType, RowId
<1>9. SoundTables(tables') /\ Grows(tables, tables')
  BY <1>3, <1>5, <1>6, <1>7, <1>8, GrownByPut DEF EngineInv
<1>10. DOMAIN tables' = DOMAIN tables /\ tables'[t] = table
  BY <1>3, <1>5, <1>7, PutTable DEF EngineInv
<1>11. DeletesAreFinal(Append(Pending, u(r)), tables')
  <2>1. r \notin DOMAIN tables'[t].rows
    BY <1>6, <1>10
  <2>2. DeletesAreFinal(Pending, tables) /\ SoundTables(tables)
    BY DEF EngineInv
  <2> QED BY <1>3, <1>4, <1>9, <1>10, <2>1, <2>2, FinalWhenDeleted
<1>12. call.todo \ {r} \subseteq DOMAIN tables'[t].rows
  BY <1>1, <1>6, <1>10 DEF EngineInv, LoopInv
<1> QED BY <1>1, <1>2, <1>4, <1>9, <1>10, <1>11, <1>12, RowDone

\* UPDATE and DELETE end: their records join the log of the transaction.
LEMMA LoopDoneStep ==
  ASSUME EngineInv, LoopDone
  PROVE  EngineInv'
<1>1. /\ call.phase \in {"update", "delete"} /\ Records(call.log) /\ Ends(call.stmt, "ok")
      /\ tables' = tables /\ locks' = locks /\ nextTx' = nextTx
  BY DEF LoopDone
<1>2. txn \in [id : Nat, undo : Seq(UndoRecord)] /\ call.log \in Seq(UndoRecord)
  BY DEF EngineInv, EngineType
<1>3. Pending = txn.undo \o call.log /\ Pending \in Seq(UndoRecord)
  BY <1>1, <1>2, ConcatProperties DEF Pending
<1>4. txn' = IF Active THEN [txn EXCEPT !.undo = Pending] ELSE txn
  BY <1>1, <1>3 DEF Records
<1>5. /\ txn' \in [id : Nat, undo : Seq(UndoRecord)]
      /\ (Active' <=> Active)
      /\ txn'.undo = IF Active THEN Pending ELSE <<>>
  BY <1>2, <1>3, <1>4 DEF Active, EngineInv, TxnInv
<1>6. DeletesAreFinal(txn'.undo, tables')
  BY <1>1, <1>5, NothingPending DEF EngineInv
<1>7. EngineType'
  <2>1. call' = [phase |-> "ok", stmt |-> call.stmt, todo |-> {}, log |-> <<>>, tx |-> NoTx]
    BY <1>1, EndOf
  <2>2. <<>> \in Seq(UndoRecord) /\ NoTx \in Nat /\ "ok" \in Phase
    BY EmptySeq DEF NoTx, Phase
  <2> QED BY <1>1, <1>5, <2>1, <2>2 DEF EngineInv, EngineType
<1>8. call'.phase = "ok"
  BY <1>1, EndOf
<1>9. LoopInv' /\ TxnInv' /\ Pending' = txn'.undo
  BY <1>5, <1>8, PendingAtRest DEF LoopInv, TxnInv
<1> QED BY <1>1, <1>6, <1>7, <1>9 DEF EngineInv

-----------------------------------------------------------------------------
(* Transactions.                                                           *)

\* BEGIN starts with an empty undo log.
LEMMA BeginStep ==
  ASSUME EngineInv, NEW s \in Stmts, BeginStmt(s)
  PROVE  EngineInv'
<1>1. Begins
  BY DEF BeginStmt
<1>2. CASE Fails(s) /\ UNCHANGED locks
  BY <1>1, <1>2, FailedStatement DEF EngineInv, EngineType
<1>3. ASSUME NEW id, id = IF nextTx = 0 THEN 1 ELSE nextTx,
             txn' = [id |-> id, undo |-> <<>>], nextTx' = id + 1, Ends(s, "ok"),
             UNCHANGED <<tables, locks>>
      PROVE  EngineInv'
  <2>1. id \in Nat /\ nextTx' \in Nat
    BY <1>3 DEF EngineInv, EngineType
  <2>2. txn' \in [id : Nat, undo : Seq(UndoRecord)] /\ txn'.undo = <<>>
    BY <1>3, <2>1, EmptySeq
  <2>3. DeletesAreFinal(txn'.undo, tables')
    BY <2>2, NothingPending
  <2> QED BY <1>3, <2>1, <2>2, <2>3, EndedStatement DEF EngineInv, EngineType
<1> QED BY <1>2, <1>3 DEF BeginStmt

\* release_all leaves locks.
LEMMA LocksReleased ==
  ASSUME EngineType, NEW tx, locks' = Unlocked(tx)
  PROVE  locks' \in [TableName -> [shared : SUBSET (Nat \ {0}), excl : Nat]]
BY DEF EngineType, Unlocked, Released, NoTx

\* COMMIT forgets the undo log.
LEMMA CommitStep ==
  ASSUME EngineInv, NEW s \in Stmts, CommitStmt(s)
  PROVE  EngineInv'
<1>1. Begins
  BY DEF CommitStmt
<1>2. CASE Fails(s) /\ UNCHANGED locks
  BY <1>1, <1>2, FailedStatement DEF EngineInv, EngineType
<1>3. CASE /\ txn' = NoTxn /\ locks' = Unlocked(txn.id) /\ Ends(s, "ok")
           /\ UNCHANGED <<tables, nextTx>>
  <2>1. txn' \in [id : Nat, undo : Seq(UndoRecord)] /\ txn'.undo = <<>>
    BY <1>3, EmptySeq DEF NoTxn, NoTx
  <2>2. DeletesAreFinal(txn'.undo, tables')
    BY <2>1, NothingPending
  <2>3. locks' \in [TableName -> [shared : SUBSET (Nat \ {0}), excl : Nat]]
    BY <1>3, LocksReleased DEF EngineInv
  <2> QED BY <1>3, <2>1, <2>2, <2>3, EndedStatement DEF EngineInv, EngineType
<1> QED BY <1>2, <1>3 DEF CommitStmt

\* ROLLBACK takes the undo log of the transaction over.
LEMMA RollbackStep ==
  ASSUME EngineInv, NEW s \in Stmts, RollbackStmt(s)
  PROVE  EngineInv'
<1>1. Begins
  BY DEF RollbackStmt
<1>2. CASE Fails(s) /\ UNCHANGED locks
  BY <1>1, <1>2, FailedStatement DEF EngineInv, EngineType
<1>3. CASE /\ txn' = NoTxn
           /\ call' = [phase |-> "undo", stmt |-> s, todo |-> {}, log |-> txn.undo,
                       tx |-> txn.id]
           /\ UNCHANGED <<tables, locks, nextTx>>
  <2>1. call'.phase = "undo" /\ Pending' = txn.undo /\ Pending = txn.undo
    BY <1>1, <1>3, PendingAtRest DEF Pending, Begins
  <2>2. EngineType'
    BY <1>3, EmptySeq DEF EngineInv, EngineType, Phase, NoTxn, NoTx
  <2>3. LoopInv' /\ TxnInv'
    BY <1>3, <2>1 DEF LoopInv, TxnInv, Active, NoTxn
  <2> QED BY <1>3, <2>1, <2>2, <2>3 DEF EngineInv
<1> QED BY <1>2, <1>3 DEF RollbackStmt

\* The last record and the table it speaks of.
LEMMA LastRecord ==
  ASSUME EngineInv, call.phase = "undo", call.log # <<>>, NEW u, u = Last(call.log), CanUndo(u)
  PROVE  /\ call.log \in Seq(UndoRecord) /\ Front(call.log) \in Seq(UndoRecord)
         /\ u \in UndoRecord
         /\ Pending = call.log /\ DeletesAreFinal(call.log, tables)
         /\ u.op # "CreateTable" =>
              u.t \in DOMAIN tables /\ u.t \in TableName /\ TableInv(tables[u.t])
<1>1. call.log \in Seq(UndoRecord) /\ Pending = call.log /\ DeletesAreFinal(call.log, tables)
  BY DEF EngineInv, EngineType, Pending
<1>2. Front(call.log) \in Seq(UndoRecord) /\ u \in UndoRecord
  BY <1>1, ShortenedLog
<1>3. ASSUME u.op # "CreateTable"
      PROVE  u.t \in DOMAIN tables /\ u.t \in TableName /\ TableInv(tables[u.t])
  <2>1. u.t \in DOMAIN tables
    BY <1>3 DEF CanUndo
  <2> QED BY <2>1 DEF EngineInv, SoundTables
<1> QED BY <1>1, <1>2, <1>3

\* The table after a record that is not of its creation has been undone.
UndoneTable(table, u) ==
  CASE u.op = "CreateIndex" -> DropIndex(table, u.i)
    [] u.op = "Insert" -> DeleteRow(table, u.r)
    [] u.op = "Delete" -> PutRow(table, u.r, u.row)
    [] u.op = "Update" -> ReplaceRow(table, u.r, u.row)

\* Undoing a record leaves a table a table.
LEMMA UndoneTableInv ==
  ASSUME EngineInv, call.phase = "undo", call.log # <<>>, NEW u, u = Last(call.log),
         CanUndo(u), u.op # "CreateTable"
  PROVE  /\ TableInv(UndoneTable(tables[u.t], u))
         /\ tables[u.t].next <= UndoneTable(tables[u.t], u).next
         /\ \A r \in DOMAIN UndoneTable(tables[u.t], u).rows :
              r \in DOMAIN tables[u.t].rows \/ (IsDelete(u) /\ r = u.r)
<1> DEFINE table == tables[u.t]
<1>1. /\ u \in UndoRecord /\ u.t \in DOMAIN tables /\ TableInv(table)
      /\ call.log \in Seq(UndoRecord) /\ DeletesAreFinal(call.log, tables)
  BY LastRecord
<1>2. table.next \in Nat
  BY <1>1 DEF TableInv, TableType, RowId
<1>3. CASE u.op = "CreateIndex"
  <2>1. UndoneTable(table, u) = DropIndex(table, u.i)
    BY <1>3 DEF UndoneTable
  <2>2. /\ DropIndex(table, u.i).next = table.next
        /\ DropIndex(table, u.i).rows = table.rows
    BY DEF DropIndex, With
  <2> QED BY <1>1, <1>2, <2>1, <2>2, DropIndexInv
<1>4. CASE u.op = "Insert"
  <2>1. UndoneTable(table, u) = DeleteRow(table, u.r) /\ u.r \in DOMAIN table.rows
    BY <1>4 DEF UndoneTable, CanUndo
  <2>2. /\ DeleteRow(table, u.r).next = table.next
        /\ DOMAIN DeleteRow(table, u.r).rows \subseteq DOMAIN table.rows
    BY DEF DeleteRow, With
  <2> QED BY <1>1, <1>2, <2>1, <2>2, DeleteRowInv
<1>5. CASE u.op = "Delete"
  <2>1. UndoneTable(table, u) = PutRow(table, u.r, u.row) /\ Writable(table, u.row, u.r)
    BY <1>5 DEF UndoneTable, CanUndo
  <2>2. u.r \in RowId
    BY <1>1, <1>5, DeleteRecord DEF IsDelete
  <2>3. u.r \notin DOMAIN table.rows /\ u.r < table.next
    <3>1. /\ Len(call.log) \in Nat \ {0} /\ DOMAIN call.log = 1..Len(call.log)
          /\ u = call.log[Len(call.log)]
      BY <1>1, ShortenedLog
    <3>2. Len(call.log) \in DOMAIN call.log /\ ~ \E m \in DOMAIN call.log : m > Len(call.log)
      BY <3>1
    <3> QED BY <1>1, <1>5, <3>1, <3>2 DEF DeletesAreFinal, RowsAreGone, IsDelete
  <2>4. TableInv(PutRow(table, u.r, u.row))
    BY <1>1, <2>1, <2>2, <2>3, PutRowInv
  <2>5. /\ PutRow(table, u.r, u.row).next = table.next
        /\ DOMAIN PutRow(table, u.r, u.row).rows = DOMAIN table.rows \cup {u.r}
    BY <1>2, <2>2, <2>3 DEF PutRow, With, RowId
  <2> QED BY <1>2, <1>5, <2>1, <2>4, <2>5 DEF IsDelete
<1>6. CASE u.op = "Update"
  <2>1. /\ UndoneTable(table, u) = ReplaceRow(table, u.r, u.row)
        /\ Writable(table, u.row, u.r) /\ u.r \in DOMAIN table.rows
    BY <1>6 DEF UndoneTable, CanUndo
  <2>2. /\ ReplaceRow(table, u.r, u.row).next = table.next
        /\ DOMAIN ReplaceRow(table, u.r, u.row).rows = DOMAIN table.rows
    BY DEF ReplaceRow, With
  <2> QED BY <1>1, <1>2, <2>1, <2>2, ReplaceRowInv
<1>7. u.op \in {"CreateIndex", "Insert", "Delete", "Update"}
  BY <1>1 DEF UndoRecord
<1> QED BY <1>3, <1>4, <1>5, <1>6, <1>7

\* Undoing the last record keeps the tables sound and the DELETEs before it
\* undoable.
LEMMA LastUndone ==
  ASSUME EngineInv, call.phase = "undo", call.log # <<>>, NEW u, u = Last(call.log),
         CanUndo(u), Undoes(u)
  PROVE  SoundTables(tables') /\ DeletesAreFinal(Front(call.log), tables')
<1>1. /\ call.log \in Seq(UndoRecord) /\ u \in UndoRecord
      /\ DeletesAreFinal(call.log, tables) /\ SoundTables(tables)
  BY LastRecord DEF EngineInv
<1>2. CASE u.op = "CreateTable"
  <2>1. tables' = Without(u.t)
    BY <1>2 DEF Undoes
  <2>2. SoundTables(tables') /\ Grows(tables, tables') /\ u.t \notin DOMAIN tables'
    BY <1>1, <2>1, RemoveTable
  <2>3. DeletesAreFinal(call.log, tables')
    BY <1>1, <2>2, FinalWhenGrown
  <2> QED BY <1>1, <2>2, <2>3, FinalWhenShortened DEF Creates
<1>3. CASE u.op # "CreateTable"
  <2> DEFINE table == UndoneTable(tables[u.t], u)
  <2>1. u.t \in DOMAIN tables /\ u.t \in TableName
    BY <1>3, LastRecord
  <2>2. Put(u.t, table)
    BY <1>3 DEF Undoes, UndoneTable
  <2>3. /\ TableInv(table) /\ tables[u.t].next <= table.next
        /\ \A r \in DOMAIN table.rows : r \in DOMAIN tables[u.t].rows \/ (IsDelete(u) /\ r = u.r)
    BY <1>3, UndoneTableInv
  <2> HIDE DEF table
  <2>4. /\ SoundTables(tables') /\ DOMAIN tables' = DOMAIN tables
        /\ tables'[u.t] = table /\ \A q \in DOMAIN tables : q # u.t => tables'[q] = tables[q]
    BY <1>1, <2>1, <2>2, <2>3, PutTable
  <2>5. CASE IsDelete(u)
    <3>1. \A t \in DOMAIN tables : tables[t].next \in Nat
      BY <1>1 DEF SoundTables, TableInv, TableType, RowId
    <3>2. \A t \in DOMAIN tables' :
            /\ tables[t].next <= tables'[t].next
            /\ \A r \in DOMAIN tables'[t].rows :
                 r \in DOMAIN tables[t].rows \/ (t = u.t /\ r = u.r)
      <4> TAKE t \in DOMAIN tables'
      <4>1. CASE t = u.t
        BY <2>3, <2>4, <4>1
      <4>2. CASE t # u.t
        BY <2>4, <3>1, <4>2
      <4> QED BY <4>1, <4>2
    <3> QED BY <1>1, <2>4, <2>5, <3>2, FinalWhenRestored
  <2>6. CASE ~IsDelete(u)
    <3>1. Grows(tables, tables')
      BY <1>1, <2>1, <2>2, <2>3, <2>6, GrownByPut
    <3>2. DeletesAreFinal(call.log, tables')
      BY <1>1, <2>4, <3>1, FinalWhenGrown
    <3> QED BY <1>1, <1>3, <2>4, <3>2, FinalWhenShortened DEF Creates
  <2> QED BY <2>4, <2>5, <2>6
<1> QED BY <1>2, <1>3

\* One record is undone, or the ROLLBACK fails.
LEMMA UndoLastStep ==
  ASSUME EngineInv, UndoLast
  PROVE  EngineInv'
<1> DEFINE u == Last(call.log)
<1>1. /\ call.phase = "undo" /\ call.log # <<>>
      /\ txn' = txn /\ locks' = locks /\ nextTx' = nextTx
  BY DEF UndoLast
<1>2. EngineType /\ SoundTables(tables) /\ ~Active /\ txn.undo = <<>>
  BY <1>1 DEF EngineInv, TxnInv
<1>3. CASE CanUndo(u) /\ Undoes(u) /\ call' = [call EXCEPT !.log = Front(@)]
  <2>1. Front(call.log) \in Seq(UndoRecord)
    BY <1>1, <1>3, LastRecord
  <2>2. SoundTables(tables') /\ DeletesAreFinal(Front(call.log), tables')
    BY <1>1, <1>3, LastUndone
  <2>3. call'.phase = "undo" /\ call'.log = Front(call.log)
    BY <1>1, <1>2, <1>3 DEF EngineType
  <2>4. EngineType'
    BY <1>1, <1>2, <1>3, <2>1 DEF EngineType
  <2>5. LoopInv' /\ TxnInv' /\ Pending' = Front(call.log)
    BY <1>1, <1>2, <2>3 DEF LoopInv, TxnInv, Pending, Active
  <2> QED BY <2>2, <2>4, <2>5 DEF EngineInv
<1>4. CASE call' = [call EXCEPT !.phase = "error"] /\ UNCHANGED tables
  <2>1. call'.phase = "error"
    BY <1>2, <1>4 DEF EngineType
  <2>2. EngineType'
    BY <1>1, <1>2, <1>4 DEF EngineType, Phase
  <2>3. LoopInv' /\ TxnInv' /\ Pending' = <<>>
    BY <1>1, <1>2, <2>1, PendingAtRest DEF LoopInv, TxnInv, Active
  <2> QED BY <1>2, <1>4, <2>2, <2>3, NothingPending DEF EngineInv
<1> QED BY <1>3, <1>4 DEF UndoLast

\* The ROLLBACK ends, nothing is left to be undone.
LEMMA UndoDoneStep ==
  ASSUME EngineInv, UndoDone
  PROVE  EngineInv'
<1>1. /\ call.phase = "undo" /\ call' = [call EXCEPT !.phase = "ok"]
      /\ locks' = Unlocked(call.tx) /\ tables' = tables /\ txn' = txn /\ nextTx' = nextTx
  BY DEF UndoDone
<1>2. EngineType /\ SoundTables(tables) /\ ~Active /\ txn.undo = <<>>
  BY <1>1 DEF EngineInv, TxnInv
<1>3. EngineType' /\ call'.phase = "ok"
  BY <1>1, <1>2, LocksReleased DEF EngineType, Phase
<1>4. LoopInv' /\ TxnInv' /\ Pending' = <<>>
  BY <1>1, <1>2, <1>3, PendingAtRest DEF LoopInv, TxnInv, Active
<1> QED BY <1>1, <1>2, <1>3, <1>4, NothingPending DEF EngineInv

\* The result of a statement goes back to its client.
LEMMA ReturnsStep ==
  ASSUME EngineInv, Returns
  PROVE  EngineInv'
<1>1. /\ call.phase \in {"ok", "error"} /\ call' = Ready
      /\ tables' = tables /\ txn' = txn /\ locks' = locks /\ nextTx' = nextTx
  BY DEF Returns
<1>2. call'.phase = "ready" /\ Pending = txn.undo /\ Pending' = txn.undo
  BY <1>1, PendingAtRest DEF Ready
<1>3. EngineType'
  BY <1>1, EmptySeq DEF EngineInv, EngineType, Ready, Phase, NoTx
<1>4. LoopInv' /\ TxnInv'
  BY <1>1, <1>2 DEF EngineInv, LoopInv, TxnInv, Active
<1> QED BY <1>1, <1>2, <1>3, <1>4 DEF EngineInv

-----------------------------------------------------------------------------
(* The engine.                                                             *)

\* A database without tables.
LEMMA EmptyDatabaseInv ==
  ASSUME EmptyDatabase
  PROVE  EngineInv
<1>1. call = Ready /\ txn = NoTxn /\ DOMAIN tables = {} /\ nextTx = 0
      /\ locks = [t \in TableName |-> FreeLock]
  BY DEF EmptyDatabase
<1>2. call.phase = "ready" /\ Pending = <<>>
  BY <1>1, PendingAtRest DEF Ready, NoTxn
<1>3. EngineType
  BY <1>1, EmptySeq DEF EngineType, Ready, Phase, NoTxn, NoTx, FreeLock
<1>4. SoundTables(tables) /\ LoopInv /\ TxnInv
  BY <1>1, <1>2 DEF SoundTables, LoopInv, TxnInv, NoTxn
<1> QED BY <1>2, <1>3, <1>4, NothingPending DEF EngineInv

\* The first step of a statement, which is all of it for most of them.
LEMMA StartInv ==
  ASSUME EngineInv, NEW s \in Stmts, Start(s)
  PROVE  EngineInv'
BY RefusedStep, CreateTableStep, DropTableStep, CreateIndexStep, DropIndexStep, InsertStep,
   SelectStep, StartUpdateStep, StartDeleteStep, BeginStep, CommitStep, RollbackStep
   DEF Start

\* Each later step of UPDATE, DELETE and ROLLBACK.
LEMMA ContinuesInv ==
  ASSUME EngineInv, Continues
  PROVE  EngineInv'
BY UpdateRowStep, DeleteOneStep, LoopDoneStep, UndoLastStep, UndoDoneStep DEF Continues

\* Every step of the engine, and every step that leaves it alone.
LEMMA EngineNextInv ==
  ASSUME EngineInv, EngineNext \/ UNCHANGED engineVars
  PROVE  EngineInv'
<1>1. CASE EngineNext
  BY <1>1, StartInv, ContinuesInv, ReturnsStep DEF EngineNext, Starts
<1>2. CASE UNCHANGED engineVars
  BY <1>2 DEF engineVars, EngineInv, EngineType, LoopInv, TxnInv, Active, Pending
<1> QED BY <1>1, <1>2

-----------------------------------------------------------------------------
(* The way back: a chain of sound databases, one before each undo record,  *)
(* which leads from what clients see to what they saw.                     *)

\* The databases `h` lead from `now` back to `then`.
LeadsBack(h, log, now, then) ==
  /\ h[0] = then /\ h[Len(log)] = now
  /\ \A k \in 1..Len(log) : CanBeUndone(h[k], log[k]) /\ h[k - 1] = UndoneView(h[k], log[k])
  /\ \A k \in 0..Len(log) : SoundView(h[k])

CanBeRestored(log, now, then) == \E h : LeadsBack(h, log, now, then)

\* Nothing to undo.
LEMMA NothingToUndo ==
  ASSUME NEW now, NEW then
  PROVE  /\ SoundView(now) => CanBeRestored(<<>>, now, now)
         /\ CanBeRestored(<<>>, now, then) => now = then
<1>1. Len(<<>>) = 0
  BY EmptySeq
<1>2. ASSUME SoundView(now)
      PROVE  LeadsBack([k \in {0} |-> now], <<>>, now, now)
  BY <1>1, <1>2 DEF LeadsBack
<1>3. CanBeRestored(<<>>, now, then) => now = then
  BY <1>1 DEF CanBeRestored, LeadsBack
<1> QED BY <1>2, <1>3 DEF CanBeRestored

\* One more record to undo.
LEMMA OneMoreToUndo ==
  ASSUME NEW log \in Seq(UndoRecord), NEW u \in UndoRecord, NEW now, NEW then, NEW new,
         CanBeRestored(log, now, then), CanBeUndone(new, u), UndoneView(new, u) = now,
         SoundView(new)
  PROVE  CanBeRestored(Append(log, u), new, then)
<1>1. PICK h : LeadsBack(h, log, now, then)
  BY DEF CanBeRestored
<1> DEFINE app == Append(log, u)
           g == [k \in 0..(Len(log) + 1) |-> IF k = Len(log) + 1 THEN new ELSE h[k]]
<1>2. /\ Len(log) \in Nat /\ Len(app) = Len(log) + 1
      /\ \A n \in 1..Len(log) : app[n] = log[n]
      /\ app[Len(log) + 1] = u
  BY AppendedLog, AppendProperties
<1> HIDE DEF app
<1>3. /\ g[Len(log) + 1] = new
      /\ \A k \in 0..Len(log) : g[k] = h[k]
  BY <1>2
<1> HIDE DEF g
<1>4. g[0] = then /\ g[Len(app)] = new
  BY <1>1, <1>2, <1>3 DEF LeadsBack
<1>5. ASSUME NEW k \in 1..Len(app)
      PROVE  CanBeUndone(g[k], app[k]) /\ g[k - 1] = UndoneView(g[k], app[k])
  <2>1. CASE k = Len(log) + 1
    <3>1. k - 1 = Len(log) /\ g[k] = new /\ app[k] = u /\ g[k - 1] = h[Len(log)]
      BY <1>2, <1>3, <2>1
    <3> QED BY <1>1, <3>1 DEF LeadsBack
  <2>2. CASE k \in 1..Len(log)
    <3>1. k \in 0..Len(log) /\ k - 1 \in 0..Len(log)
      BY <1>2, <2>2
    <3> QED BY <1>1, <1>2, <1>3, <2>2, <3>1 DEF LeadsBack
  <2> QED BY <1>2, <2>1, <2>2
<1>6. ASSUME NEW k \in 0..Len(app)
      PROVE  SoundView(g[k])
  <2>1. k = Len(log) + 1 \/ k \in 0..Len(log)
    BY <1>2
  <2> QED BY <1>1, <1>3, <2>1 DEF LeadsBack
<1>7. LeadsBack(g, app, new, then)
  BY <1>4, <1>5, <1>6 DEF LeadsBack
<1> QED BY <1>7 DEF CanBeRestored, app

\* The last record is undone.
LEMMA OneLessToUndo ==
  ASSUME NEW log \in Seq(UndoRecord), log # <<>>, NEW now, NEW then,
         CanBeRestored(log, now, then), NEW u, u = Last(log)
  PROVE  /\ CanBeUndone(now, u)
         /\ SoundView(UndoneView(now, u))
         /\ CanBeRestored(Front(log), UndoneView(now, u), then)
<1>1. PICK h : LeadsBack(h, log, now, then)
  BY DEF CanBeRestored
<1> DEFINE front == Front(log)
<1>2. /\ Len(log) \in Nat \ {0} /\ Len(front) = Len(log) - 1
      /\ \A n \in 1..(Len(log) - 1) : front[n] = log[n]
      /\ u = log[Len(log)]
  <2>1. front \in Seq(UndoRecord) /\ DOMAIN front = 1..(Len(log) - 1) /\ Len(log) \in Nat \ {0}
    BY ShortenedLog
  <2>2. Len(front) \in Nat /\ DOMAIN front = 1..Len(front)
    BY <2>1, LenProperties
  <2>3. \A a, b \in Nat : 1..a = 1..b => a = b
    <3> SUFFICES ASSUME NEW a \in Nat, NEW b \in Nat, 1..a = 1..b, a # b PROVE FALSE
      OBVIOUS
    <3>1. a + 1 \in 1..b \/ b + 1 \in 1..a
      OBVIOUS
    <3>2. a + 1 \notin 1..a /\ b + 1 \notin 1..b
      OBVIOUS
    <3> QED BY <3>1, <3>2
  <2>4. Len(front) = Len(log) - 1
    BY <2>1, <2>2, <2>3
  <2> QED BY <2>1, <2>4, ShortenedLog
<1> HIDE DEF front
<1>3. CanBeUndone(now, u) /\ h[Len(log) - 1] = UndoneView(now, u)
  <2>1. Len(log) \in 1..Len(log) /\ h[Len(log)] = now
    BY <1>1, <1>2 DEF LeadsBack
  <2> QED BY <1>1, <1>2, <2>1 DEF LeadsBack
<1>4. Len(log) - 1 \in 0..Len(log)
  BY <1>2
<1>5. SoundView(UndoneView(now, u))
  BY <1>1, <1>3, <1>4 DEF LeadsBack
<1>6. LeadsBack(h, front, UndoneView(now, u), then)
  <2>1. ASSUME NEW k \in 1..Len(front)
        PROVE  CanBeUndone(h[k], front[k]) /\ h[k - 1] = UndoneView(h[k], front[k])
    <3>1. k \in 1..Len(log) /\ front[k] = log[k]
      BY <1>2
    <3> QED BY <1>1, <3>1 DEF LeadsBack
  <2>2. ASSUME NEW k \in 0..Len(front)
        PROVE  SoundView(h[k])
    <3>1. k \in 0..Len(log)
      BY <1>2
    <3> QED BY <1>1, <3>1 DEF LeadsBack
  <2> QED BY <1>1, <1>2, <1>3, <2>1, <2>2 DEF LeadsBack
<1> QED BY <1>3, <1>5, <1>6 DEF CanBeRestored, front

-----------------------------------------------------------------------------
(* What clients see of the steps of the engine.                            *)

\* What clients see, table by table.
LEMMA SeenTables ==
  /\ View = [t \in DOMAIN tables |-> TableView(tables[t])]
  /\ View' = [t \in DOMAIN tables' |-> TableView(tables'[t])]
BY DEF View, TableView

\* A table is added or replaced.
LEMMA SeenPut ==
  ASSUME NEW t, NEW table, Put(t, table)
  PROVE  /\ DOMAIN View' = DOMAIN View \cup {t}
         /\ View'[t] = TableView(table)
         /\ \A q \in DOMAIN View : q # t => View'[q] = View[q]
BY SeenTables DEF Put

\* Sound tables look sound.
LEMMA SoundTablesAreSeen ==
  /\ SoundTables(tables) => SoundView(View)
  /\ SoundTables(tables') => SoundView(View')
BY SeenTables, SoundIsSeen DEF SoundTables, SoundView

\* Undoing a record, as it is seen.
LEMMA SeenUndo ==
  ASSUME EngineInv, NEW u \in UndoRecord, CanUndo(u), Undoes(u)
  PROVE  View' = UndoneView(View, u)
<1>1. CASE u.op = "CreateTable"
  <2>1. tables' = Without(u.t)
    BY <1>1 DEF Undoes
  <2> QED BY <1>1, <2>1, SeenTables DEF Without, UndoneView, Dropped
<1>2. CASE u.op # "CreateTable"
  <2> DEFINE t == u.t
             table == UndoneTable(tables[t], u)
  <2>1. t \in DOMAIN tables /\ TableInv(tables[t])
    BY <1>2 DEF CanUndo, EngineInv, SoundTables
  <2>2. Put(t, table)
    BY <1>2 DEF Undoes, UndoneTable
  <2>3. u.op \in {"CreateIndex", "Insert", "Delete", "Update"}
    BY <1>2 DEF UndoRecord
  <2>4. TableView(tables[t]).rows = tables[t].rows /\ DOMAIN TableView(tables[t]).idx = DOMAIN tables[t].idx
    BY DEF TableView
  <2>5. TableView(table) = UndoneIn(TableView(tables[t]), u)
    <3>1. CASE u.op = "CreateIndex"
      BY <3>1, SeenDropIndex DEF UndoneTable, UndoneIn
    <3>2. CASE u.op = "Insert"
      BY <2>4, <3>2, SeenDeleteRow DEF UndoneTable, UndoneIn
    <3>3. CASE u.op = "Delete"
      BY <2>4, <3>3, SeenPutRow DEF UndoneTable, UndoneIn
    <3>4. CASE u.op = "Update"
      <4>1. u.r \in DOMAIN tables[t].rows /\ tables[t].rows = [r \in DOMAIN tables[t].rows |-> tables[t].rows[r]]
        BY <1>2, <2>1, <3>4 DEF CanUndo, TableInv, TableType
      <4>2. Added(tables[t].rows, u.r, u.row) = [tables[t].rows EXCEPT ![u.r] = u.row]
        BY <4>1, AddedAndDropped
      <4> QED BY <2>4, <3>4, <4>2, SeenReplaceRow DEF UndoneTable, UndoneIn
    <3> QED BY <2>3, <3>1, <3>2, <3>3, <3>4
  <2> HIDE DEF table
  <2>6. /\ DOMAIN View' = DOMAIN View
        /\ View'[t] = UndoneIn(View[t], u)
        /\ \A q \in DOMAIN View : q # t => View'[q] = View[q]
    <3>1. View[t] = TableView(tables[t]) /\ DOMAIN View = DOMAIN tables
      BY <2>1, SeenTables
    <3>2. /\ DOMAIN View' = DOMAIN View \cup {t} /\ View'[t] = TableView(table)
          /\ \A q \in DOMAIN View : q # t => View'[q] = View[q]
      BY <2>2, SeenPut
    <3> QED BY <2>1, <2>5, <3>1, <3>2
  <2>7. View' = [q \in DOMAIN View |-> IF q = u.t THEN UndoneIn(View[q], u) ELSE View[q]]
    <3>1. View' = [q \in DOMAIN View' |-> View'[q]]
      BY SeenTables
    <3> QED BY <2>6, <3>1
  <2> QED BY <1>2, <2>7 DEF UndoneView
<1> QED BY <1>1, <1>2

\* A record that leads from one sound database to another does not fail.
LEMMA SeenCanUndo ==
  ASSUME EngineInv, NEW u \in UndoRecord, CanBeUndone(View, u), SoundView(UndoneView(View, u))
  PROVE  CanUndo(u)
<1> SUFFICES ASSUME u.op # "CreateTable"
             PROVE  CanUndo(u)
  BY DEF CanUndo
<1> DEFINE table == tables[u.t]
<1>1. u.t \in DOMAIN tables /\ View[u.t] = TableView(table) /\ TableInv(table)
  BY SeenTables DEF CanBeUndone, EngineInv, SoundTables
<1>2. TableView(table).rows = table.rows /\ DOMAIN TableView(table).idx = DOMAIN table.idx
  BY DEF TableView
<1>3. ASSUME u.op \in {"Delete", "Update"}
      PROVE  Writable(table, u.row, u.r)
  <2>1. u.t \in DOMAIN UndoneView(View, u) /\ UndoneView(View, u)[u.t] = UndoneIn(TableView(table), u)
    BY <1>1, SeenTables DEF UndoneView
  <2>2. Sound(UndoneIn(TableView(table), u))
    BY <2>1 DEF SoundView
  <2> HIDE DEF table
  <2> QED BY <1>1, <1>3, <2>2, WritableWhenSound
<1> QED BY <1>1, <1>2, <1>3 DEF CanUndo, CanBeUndone

\* The record of a change of one table.
LEMMA RecordOfChange ==
  ASSUME NEW u, u.op # "CreateTable", u.t \in DOMAIN tables, NEW table, Put(u.t, table),
         UndoneIn(TableView(table), u) = TableView(tables[u.t]),
         u.op = "CreateIndex" => u.i \in DOMAIN table.idx,
         u.op \in {"Insert", "Update"} => u.r \in DOMAIN table.rows
  PROVE  CanBeUndone(View', u) /\ UndoneView(View', u) = View
<1>1. /\ DOMAIN View' = DOMAIN View /\ u.t \in DOMAIN View
      /\ View'[u.t] = TableView(table) /\ View[u.t] = TableView(tables[u.t])
      /\ \A q \in DOMAIN View : q # u.t => View'[q] = View[q]
  <2>1. u.t \in DOMAIN View /\ View[u.t] = TableView(tables[u.t])
    BY SeenTables
  <2>2. /\ DOMAIN View' = DOMAIN View \cup {u.t} /\ View'[u.t] = TableView(table)
        /\ \A q \in DOMAIN View : q # u.t => View'[q] = View[q]
    BY SeenPut
  <2> QED BY <2>1, <2>2
<1>2. View = [q \in DOMAIN View |-> View[q]]
  BY SeenTables
<1>3. \A q \in DOMAIN View : (IF q = u.t THEN UndoneIn(View'[q], u) ELSE View'[q]) = View[q]
  BY <1>1
<1>4. UndoneView(View', u) = View
  BY <1>1, <1>2, <1>3 DEF UndoneView
<1>5. TableView(table).rows = table.rows /\ DOMAIN TableView(table).idx = DOMAIN table.idx
  BY DEF TableView
<1> QED BY <1>1, <1>4, <1>5 DEF CanBeUndone

-----------------------------------------------------------------------------
(* UPDATE and DELETE.  UPDATE checks each row against the rows as they     *)
(* are, some of them updated and some not.  It refuses a row only if the   *)
(* rows would clash in the end as well.                                    *)

\* What clients would see of the table `was` with the rows `done` of the
\* running loop done.
SeenAfter(was, done) ==
  IF call.phase = "update" THEN WithRows(was, AssignedRows(was.rows, done, call.stmt.set))
  ELSE WithRows(was, KeptRows(was.rows, done))

\* How far a running loop has got from the database `b`, which was seen when
\* it began.
LoopSeenFrom(b) ==
  LET t == call.stmt.t
      was == b[t]
      chosen == Chosen(was, call.stmt.where)
  IN
  /\ DOMAIN b = DOMAIN tables
  /\ \A q \in DOMAIN tables : q # t => b[q] = View[q]
  /\ IsSeen(was)
  /\ call.todo \subseteq chosen
  /\ View[t] = SeenAfter(was, chosen \ call.todo)
  /\ call.log = <<>> => b = View
  /\ Resolves(t, call.stmt.where)
  /\ call.phase = "update" => Resolves(t, call.stmt.set)

\* `matches_predicate` selects the rows the store chooses.
LEMMA MatchingIsChosen ==
  ASSUME NEW t, NEW where
  PROVE  Matching(t, where) = Chosen(TableView(tables[t]), where)
<1>1. TableView(tables[t]).rows = tables[t].rows
  BY DEF TableView
<1>2. ASSUME NEW v, NEW x
      PROVE  ({v} \ {Null} = {x}) <=> (x # Null /\ v = x)
  OBVIOUS
<1> QED BY <1>1, <1>2 DEF Matching, Matches, Chosen

\* The assignments of an UPDATE that resolve fit every row they are made in.
LEMMA AssignedFits ==
  ASSUME NEW t \in DOMAIN tables, TableInv(tables[t]), NEW set, Resolves(t, set),
         NEW row, RowFits(tables[t].schema, row)
  PROVE  RowFits(tables[t].schema, AssignedRow(row, set))
<1> DEFINE cols == tables[t].schema.cols
           new == AssignedRow(row, set)
<1>1. DOMAIN row = cols /\ DOMAIN new = cols /\ new = [c \in cols |-> new[c]]
  BY DEF RowFits, AssignedRow
<1>2. ASSUME NEW c \in cols
      PROVE  new[c] \in Datum /\ ValueFits(tables[t].schema, c, new[c])
  <2>1. c \in Column
    BY DEF TableInv, TableType, Schema
  <2>2. CASE c \in DOMAIN set
    <3>1. new[c] = set[c] /\ ValueFits(tables[t].schema, c, set[c])
      BY <1>1, <2>2 DEF AssignedRow, Resolves
    <3>2. ColumnType[c] \subseteq Value
      BY <2>1, ColumnTypeAssumption
    <3> HIDE DEF new
    <3> QED BY <3>1, <3>2 DEF ValueFits, Datum
  <2>3. CASE c \notin DOMAIN set
    <3>1. new[c] = row[c]
      BY <1>1, <2>3 DEF AssignedRow
    <3> QED BY <3>1 DEF RowFits
  <2> QED BY <2>2, <2>3
<1> HIDE DEF new
<1>3. new \in [cols -> Datum]
  BY <1>1, <1>2
<1> QED BY <1>2, <1>3 DEF RowFits, new

\* What the rows of a running UPDATE are.
LEMMA RowsInTheLoop ==
  ASSUME EngineInv, NEW b, LoopSeenFrom(b), call.phase = "update"
  PROVE  LET table == tables[call.stmt.t]
             was == b[call.stmt.t]
             chosen == Chosen(was, call.stmt.where)
         IN /\ was.schema = table.schema /\ was.idx = TableView(table).idx
            /\ table.rows = AssignedRows(was.rows, chosen \ call.todo, call.stmt.set)
            /\ DOMAIN table.rows = DOMAIN was.rows
<1> DEFINE t == call.stmt.t
           was == b[t]
           done == Chosen(was, call.stmt.where) \ call.todo
<1>1. View[t] = TableView(tables[t])
  BY SeenTables DEF EngineInv, LoopInv
<1>2. View[t] = WithRows(was, AssignedRows(was.rows, done, call.stmt.set))
  BY DEF LoopSeenFrom, SeenAfter
<1> HIDE DEF done
<1>3. /\ was.schema = tables[t].schema /\ was.idx = TableView(tables[t]).idx
      /\ tables[t].rows = AssignedRows(was.rows, done, call.stmt.set)
  <2>1. TableView(tables[t]).schema = tables[t].schema /\ TableView(tables[t]).rows = tables[t].rows
    BY DEF TableView
  <2>2. /\ View[t].schema = was.schema /\ View[t].idx = was.idx
        /\ View[t].rows = AssignedRows(was.rows, done, call.stmt.set)
    BY <1>2 DEF WithRows
  <2> QED BY <1>1, <2>1, <2>2
<1>4. DOMAIN tables[t].rows = DOMAIN was.rows
  BY <1>3 DEF AssignedRows
<1> QED BY <1>3, <1>4 DEF done

\* The row with which an UPDATE stops clashes with another row in the end.
LEMMA ClashIsFinal ==
  ASSUME EngineInv, NEW b, LoopSeenFrom(b), call.phase = "update", NEW r \in NextRows,
         ~Writable(tables[call.stmt.t], Assigned(r), r)
  PROVE  LET was == b[call.stmt.t] IN
         ~Sound(Assign(was, Chosen(was, call.stmt.where), call.stmt.set))
<1> DEFINE t == call.stmt.t
           was == b[t]
           chosen == Chosen(was, call.stmt.where)
           set == call.stmt.set
           rows == tables[t].rows
           final == AssignedRows(was.rows, chosen, set)
<1>1. /\ t \in DOMAIN tables /\ TableInv(tables[t]) /\ r \in call.todo /\ r \in DOMAIN rows
      /\ call.todo \subseteq chosen /\ IsSeen(was) /\ Resolves(t, set)
  BY InTheLoop DEF LoopSeenFrom
<1>2. /\ was.schema = tables[t].schema /\ was.idx = TableView(tables[t]).idx
      /\ rows = AssignedRows(was.rows, chosen \ call.todo, set) /\ DOMAIN rows = DOMAIN was.rows
  BY RowsInTheLoop
<1>3. \A q \in DOMAIN rows :
        /\ q \in call.todo => rows[q] = was.rows[q] /\ final[q] = AssignedRow(was.rows[q], set)
        /\ q \notin call.todo => final[q] = rows[q]
  BY <1>1, <1>2 DEF AssignedRows
<1>4. Assigned(r) = AssignedRow(rows[r], set) /\ final[r] = Assigned(r) /\ rows[r] = was.rows[r]
  BY <1>1, <1>3 DEF Assigned, AssignedRow
<1>5. DOMAIN final = DOMAIN rows
  BY <1>2 DEF AssignedRows
<1>6. RowFits(tables[t].schema, Assigned(r))
  <2>1. RowFits(tables[t].schema, rows[r])
    BY <1>1 DEF TableInv, RowsFit
  <2> QED BY <1>1, <1>4, <2>1, AssignedFits
<1>7. PICK c \in UniqueColumns(tables[t]), q \in DOMAIN rows :
        Assigned(r)[c] # Null /\ q # r /\ rows[q][c] = Assigned(r)[c]
  BY <1>6 DEF Writable, Taken
<1> HIDE DEF chosen, final
<1>8. final[q][c] = Assigned(r)[c]
  <2>1. CASE q \notin call.todo
    BY <1>3, <1>7, <2>1
  <2>2. CASE q \in call.todo
    <3>1. /\ DOMAIN rows[q] = tables[t].schema.cols /\ DOMAIN rows[r] = tables[t].schema.cols
          /\ c \in tables[t].schema.cols
      BY <1>1, <1>7 DEF TableInv, TableType, UniqueColumns, Schema
    <3>2. CASE c \in DOMAIN set
      <4>1. final[q][c] = set[c] /\ Assigned(r)[c] = set[c]
        BY <1>3, <1>4, <2>2, <3>1, <3>2 DEF AssignedRow
      <4> QED BY <4>1
    <3>3. CASE c \notin DOMAIN set
      <4>1. Assigned(r)[c] = rows[r][c]
        BY <1>4, <3>1, <3>3 DEF AssignedRow
      <4>2. HasDuplicates(tables[t], c)
        BY <1>1, <1>7, <4>1 DEF HasDuplicates
      <4> QED BY <1>1, <1>7, <4>2 DEF TableInv, UniqueHolds
    <3> QED BY <3>2, <3>3
  <2> QED BY <2>1, <2>2
<1>9. ~Sound(WithRows(was, final))
  <2> DEFINE x == WithRows(was, final)
  <2>1. x.schema = was.schema /\ x.rows = final /\ x.idx = was.idx
    BY DEF WithRows
  <2>2. c \in x.schema.unique \cup {y[1] : y \in {z \in Range(x.idx) : z[2]}}
    <3>1. TableView(tables[t]).schema = was.schema /\ TableView(tables[t]).idx = was.idx
      BY <1>2 DEF TableView
    <3>2. x.schema = TableView(tables[t]).schema /\ x.idx = TableView(tables[t]).idx
      BY <2>1, <3>1
    <3> HIDE DEF x, was
    <3> QED BY <1>7, <3>2, SeenUniqueColumns
  <2> HIDE DEF x
  <2>3. /\ q \in DOMAIN x.rows /\ r \in DOMAIN x.rows /\ q # r
        /\ x.rows[r][c] # Null /\ x.rows[r][c] = x.rows[q][c]
    BY <1>1, <1>4, <1>5, <1>7, <1>8, <2>1
  <2> QED BY <2>2, <2>3 DEF Sound, x
<1>10. Assign(was, chosen, set) = WithRows(was, final)
  BY <1>1, AssignIsSeen DEF final
<1> QED BY <1>9, <1>10 DEF chosen

\* The rows have been collected and none of them is done.
LEMMA LoopBegins ==
  ASSUME EngineInv, NEW b, b = View, NEW s \in Stmts, NEW phase \in {"update", "delete"},
         Begins, Loops(s, phase), s.t \in DOMAIN tables,
         Resolves(s.t, s.where), phase = "update" => Resolves(s.t, s.set)
  PROVE  LoopSeenFrom(b)'
<1> DEFINE t == s.t
           was == TableView(tables[t])
<1>1. /\ tables' = tables /\ call'.phase = phase /\ call'.stmt = s /\ call'.log = <<>>
      /\ call'.todo = Matching(t, s.where)
  BY DEF Loops
<1>2. View' = View /\ b = View
  BY <1>1 DEF View
<1>3. DOMAIN View = DOMAIN tables /\ View[t] = was
  BY SeenTables
<1>4. TableInv(tables[t])
  BY DEF EngineInv, SoundTables
<1>5. IsSeen(was)
  BY <1>4, ViewIsSeen DEF TableInv, TableType
<1>6. Matching(t, s.where) = Chosen(was, s.where)
  BY MatchingIsChosen
<1> HIDE DEF was
<1>7. was = WithRows(was, AssignedRows(was.rows, {}, s.set)) /\ was = WithRows(was, KeptRows(was.rows, {}))
  <2>1. was.rows = KeptRows(was.rows, {})
    BY <1>5 DEF IsSeen, WithRows
  <2>2. AssignedRows(was.rows, {}, s.set) = was.rows
    BY <2>1 DEF AssignedRows, KeptRows
  <2> QED BY <1>5, <2>1, <2>2 DEF IsSeen
<1>8. Chosen(was, s.where) \ Chosen(was, s.where) = {}
  OBVIOUS
<1>9. SeenAfter(was, {})' = was'
  BY <1>1, <1>7 DEF SeenAfter, was
<1>10. was' = was
  BY <1>1 DEF was
<1>11. Resolves(t, s.where)' /\ (phase = "update" => Resolves(t, s.set)')
  BY <1>1 DEF Resolves
<1> QED BY <1>1, <1>2, <1>3, <1>5, <1>6, <1>8, <1>9, <1>10, <1>11 DEF LoopSeenFrom

\* One more row is done.
LEMMA LoopGoesOn ==
  ASSUME EngineInv, EngineInv', NEW b, LoopSeenFrom(b), call.phase \in {"update", "delete"},
         NEW r \in NextRows, NEW table, Put(call.stmt.t, table), NEW u \in UndoRecord,
         call' = [call EXCEPT !.todo = @ \ {r}, !.log = Append(@, u)],
         LET rows == tables[call.stmt.t].rows IN
         TableView(table) =
           WithRows(TableView(tables[call.stmt.t]),
                    IF call.phase = "update"
                    THEN [rows EXCEPT ![r] = AssignedRow(rows[r], call.stmt.set)]
                    ELSE Dropped(rows, r))
  PROVE  LoopSeenFrom(b)'
<1> DEFINE t == call.stmt.t
           set == call.stmt.set
           was == b[t]
           chosen == Chosen(was, call.stmt.where)
           done == chosen \ call.todo
           rows == tables[t].rows
<1>1. /\ call'.phase = call.phase /\ call'.stmt = call.stmt /\ call'.todo = call.todo \ {r}
      /\ call'.log = Append(call.log, u) /\ call.log \in Seq(UndoRecord)
  BY DEF EngineInv, EngineType
<1>3. /\ t \in DOMAIN tables /\ TableInv(tables[t]) /\ r \in call.todo /\ call.todo \subseteq chosen
      /\ IsSeen(was)
  BY InTheLoop DEF LoopSeenFrom
<1>4. View[t] = TableView(tables[t]) /\ DOMAIN View = DOMAIN tables
  BY <1>3, SeenTables
<1>5. TableView(tables[t]).rows = rows /\ View[t] = SeenAfter(was, done)
  BY DEF TableView, LoopSeenFrom
<1>6. r \in DOMAIN was.rows
  <2>1. r \in chosen
    BY <1>3
  <2> QED BY <2>1 DEF Chosen
<1>7. chosen \ call'.todo = done \cup {r} /\ r \notin done
  BY <1>1, <1>3
<1> HIDE DEF chosen, done
<1>8. View'[t] = TableView(table) /\ DOMAIN View' = DOMAIN tables
      /\ \A q \in DOMAIN tables : q # t => View'[q] = View[q]
  <2>1. /\ DOMAIN View' = DOMAIN View \cup {t} /\ View'[t] = TableView(table)
        /\ \A q \in DOMAIN View : q # t => View'[q] = View[q]
    BY SeenPut
  <2> QED BY <1>3, <1>4, <2>1
<1>9. TableView(table) = SeenAfter(was, done \cup {r})
  <2>1. CASE call.phase = "update"
    <3>1. rows = AssignedRows(was.rows, done, set) /\ TableView(tables[t]) = WithRows(was, rows)
      BY <1>4, <1>5, <2>1 DEF SeenAfter, WithRows
    <3>2. rows[r] = was.rows[r]
      BY <1>6, <1>7, <3>1 DEF AssignedRows
    <3>3. [rows EXCEPT ![r] = AssignedRow(rows[r], set)] = AssignedRows(was.rows, done \cup {r}, set)
      <4>1. [AssignedRows(was.rows, done, set) EXCEPT ![r] = AssignedRow(was.rows[r], set)] =
              AssignedRows(was.rows, done \cup {r}, set)
        BY <1>6 DEF AssignedRows
      <4> QED BY <3>1, <3>2, <4>1
    <3>4. \A x : WithRows(TableView(tables[t]), x) = WithRows(was, x)
      BY <3>1 DEF WithRows
    <3> QED BY <2>1, <3>3, <3>4 DEF SeenAfter
  <2>2. CASE call.phase = "delete"
    <3>1. rows = KeptRows(was.rows, done) /\ TableView(tables[t]) = WithRows(was, rows)
      BY <1>4, <1>5, <2>2 DEF SeenAfter, WithRows
    <3>2. Dropped(rows, r) = KeptRows(was.rows, done \cup {r})
      BY <3>1 DEF Dropped, KeptRows
    <3>3. \A x : WithRows(TableView(tables[t]), x) = WithRows(was, x)
      BY <3>1 DEF WithRows
    <3> QED BY <2>2, <3>2, <3>3 DEF SeenAfter
  <2> QED BY <2>1, <2>2
<1>10. DOMAIN tables' = DOMAIN tables /\ tables'[t].schema = tables[t].schema
  <2>1. DOMAIN tables' = DOMAIN tables /\ tables'[t] = table
    BY <1>3 DEF Put
  <2>2. table.schema = tables[t].schema
    <3>1. TableView(table).schema = TableView(tables[t]).schema
      BY DEF WithRows
    <3> QED BY <3>1 DEF TableView
  <2> QED BY <2>1, <2>2
<1>11. call'.log # <<>>
  BY <1>1, AppendProperties, EmptySeq
<1>12. was' = was /\ chosen' = chosen
  BY <1>1 DEF chosen, Chosen
<1>13. SeenAfter(was, done)' = SeenAfter(was, done \cup {r})
  <2>1. done' = done \cup {r}
    BY <1>7, <1>12 DEF done
  <2> QED BY <1>1, <1>12, <2>1 DEF SeenAfter
<1>14. Resolves(t, call.stmt.where)' /\ (call.phase = "update" => Resolves(t, set)')
  BY <1>1, <1>10 DEF LoopSeenFrom, Resolves
<1> QED BY <1>1, <1>3, <1>8, <1>9, <1>10, <1>11, <1>12, <1>13, <1>14 DEF LoopSeenFrom, done, chosen

-----------------------------------------------------------------------------
(* The engine and the sessions: what the statements of one client lead to  *)
(* depends only on what it sees of the tables, in the order of the rows,   *)
(* and on the kinds of its undo records.                                   *)

\* What is left of a log when only the kinds of its records matter.
Kinds(log) == [n \in DOMAIN log |-> Kind(log[n])]

KindRecord == {Kind(u) : u \in UndoRecord}

\* A sequence is as long as its domain.
LEMMA LengthOf ==
  ASSUME NEW S, NEW seq \in Seq(S), NEW n \in Nat, DOMAIN seq = 1..n
  PROVE  Len(seq) = n
<1>1. Len(seq) \in Nat /\ DOMAIN seq = 1..Len(seq)
  BY LenProperties
<1>2. ASSUME Len(seq) # n
      PROVE  FALSE
  <2>1. n + 1 \in 1..Len(seq) \/ Len(seq) + 1 \in 1..n
    BY <1>1, <1>2
  <2>2. n + 1 \notin 1..n /\ Len(seq) + 1 \notin 1..Len(seq)
    BY <1>1
  <2> QED BY <1>1, <2>1, <2>2
<1> QED BY <1>2

\* The kinds of a log are a log.
LEMMA KindsAreRecords ==
  ASSUME NEW log \in Seq(UndoRecord)
  PROVE  /\ Kinds(log) \in Seq(KindRecord)
         /\ DOMAIN Kinds(log) = DOMAIN log /\ DOMAIN log = 1..Len(log) /\ Len(log) \in Nat
         /\ \A n \in DOMAIN log : Kinds(log)[n] = Kind(log[n])
         /\ Kinds(<<>>) = <<>>
<1>1. Len(log) \in Nat /\ DOMAIN log = 1..Len(log)
  BY LenProperties
<1>2. \A n \in 1..Len(log) : log[n] \in UndoRecord
  BY ElementOfSeq
<1>3. \A n \in DOMAIN log : Kind(log[n]) \in KindRecord
  BY <1>1, <1>2 DEF KindRecord
<1>4. Kinds(log) \in [1..Len(log) -> KindRecord]
  BY <1>1, <1>3 DEF Kinds
<1>5. Kinds(log) \in Seq(KindRecord)
  BY <1>1, <1>4, SeqDef
<1>6. Kinds(<<>>) = <<>>
  BY DEF Kinds
<1> QED BY <1>1, <1>5, <1>6 DEF Kinds

\* The kinds of two logs in a row.
LEMMA KindsJoined ==
  ASSUME NEW a \in Seq(UndoRecord), NEW b \in Seq(UndoRecord)
  PROVE  Kinds(a \o b) = Kinds(a) \o Kinds(b)
<1> DEFINE ab == a \o b
           k == Kinds(a) \o Kinds(b)
<1>1. /\ ab \in Seq(UndoRecord) /\ Len(a) \in Nat /\ Len(b) \in Nat
      /\ DOMAIN ab = 1..(Len(a) + Len(b))
      /\ \A n \in 1..Len(a) : ab[n] = a[n]
      /\ \A n \in 1..Len(b) : ab[Len(a) + n] = b[n]
  BY JoinedLog
<1>2. /\ Kinds(a) \in Seq(KindRecord) /\ Kinds(b) \in Seq(KindRecord)
      /\ DOMAIN Kinds(a) = 1..Len(a) /\ DOMAIN Kinds(b) = 1..Len(b)
      /\ \A n \in 1..Len(a) : Kinds(a)[n] = Kind(a[n])
      /\ \A n \in 1..Len(b) : Kinds(b)[n] = Kind(b[n])
  BY KindsAreRecords
<1>3. Len(Kinds(a)) = Len(a) /\ Len(Kinds(b)) = Len(b)
  BY <1>1, <1>2, LengthOf
<1>4. /\ k \in Seq(KindRecord) /\ DOMAIN k = 1..(Len(a) + Len(b))
      /\ \A n \in 1..(Len(a) + Len(b)) :
           k[n] = IF n <= Len(a) THEN Kinds(a)[n] ELSE Kinds(b)[n - Len(a)]
  <2>1. /\ k \in Seq(KindRecord) /\ Len(k) = Len(a) + Len(b)
        /\ \A n \in 1..(Len(a) + Len(b)) :
             k[n] = IF n <= Len(a) THEN Kinds(a)[n] ELSE Kinds(b)[n - Len(a)]
    BY <1>2, <1>3, ConcatProperties
  <2> HIDE DEF k
  <2>2. DOMAIN k = 1..Len(k)
    BY <2>1, LenProperties
  <2> QED BY <2>1, <2>2
<1>5. k = [n \in 1..(Len(a) + Len(b)) |-> k[n]]
  BY <1>4, LenProperties
<1>6. Kinds(ab) = [n \in 1..(Len(a) + Len(b)) |-> Kind(ab[n])]
  BY <1>1 DEF Kinds
<1> HIDE DEF ab, k
<1>7. ASSUME NEW n \in 1..(Len(a) + Len(b))
      PROVE  k[n] = Kind(ab[n])
  <2>1. CASE n <= Len(a)
    <3>1. n \in 1..Len(a)
      BY <1>1, <2>1
    <3> QED BY <1>1, <1>2, <1>4, <2>1, <3>1
  <2>2. CASE ~(n <= Len(a))
    <3>1. n - Len(a) \in 1..Len(b) /\ Len(a) + (n - Len(a)) = n
      BY <1>1, <2>2
    <3>2. ab[n] = b[n - Len(a)]
      BY <1>1, <3>1
    <3> QED BY <1>2, <1>4, <2>2, <3>1, <3>2
  <2> QED BY <2>1, <2>2
<1> QED BY <1>5, <1>6, <1>7 DEF ab, k

\* One more record.
LEMMA KindsAppended ==
  ASSUME NEW log \in Seq(UndoRecord), NEW u \in UndoRecord
  PROVE  Kinds(Append(log, u)) = Kinds(log) \o <<Kind(u)>> /\ <<Kind(u)>> \in Seq(KindRecord)
<1>1. <<u>> \in Seq(UndoRecord)
  OBVIOUS
<1>2. Kinds(log \o <<u>>) = Kinds(log) \o Kinds(<<u>>)
  BY <1>1, KindsJoined
<1>3. Append(log, u) = log \o <<u>>
  BY AppendIsConcat
<1>4. Kinds(<<u>>) = <<Kind(u)>>
  BY DEF Kinds
<1>5. Kinds(<<u>>) \in Seq(KindRecord)
  BY <1>1, KindsAreRecords
<1> QED BY <1>2, <1>3, <1>4, <1>5

\* No transaction but `tx` holds a lock.
LockedBy(tx) ==
  \A t \in TableName : locks[t].shared \subseteq {tx} /\ locks[t].excl \in {NoTx, tx}

\* A single transaction is never refused a lock, and one that has ended leaves
\* no lock behind.
LEMMA LocksOfOne ==
  ASSUME EngineType
  PROVE  /\ LockedBy(txn.id) => \A t \in TableName : \A mode : MayLock(t, mode)
         /\ \A t \in TableName : \A mode \in LockMode :
              LockedBy(txn.id) /\ TakesLock(t, mode) /\ txn'.id = txn.id => LockedBy(txn.id)'
         /\ LockedBy(txn.id) /\ locks' = locks /\ txn'.id = txn.id => LockedBy(txn.id)'
         /\ LockedBy(NoTx) => \A tx : LockedBy(tx)
         /\ \A tx : LockedBy(tx) /\ locks' = Unlocked(tx) => LockedBy(NoTx)'
<1>1. locks \in [TableName -> [shared : SUBSET (Nat \ {0}), excl : Nat]]
  BY DEF EngineType
<1>2. ASSUME LockedBy(txn.id), NEW t \in TableName, NEW mode
      PROVE  MayLock(t, mode)
  BY <1>2 DEF LockedBy, MayLock, Grants
<1>3. ASSUME LockedBy(txn.id), NEW t \in TableName, NEW mode \in LockMode, TakesLock(t, mode),
             txn'.id = txn.id
      PROVE  LockedBy(txn.id)'
  <2>1. \A q \in TableName : locks'[q] = locks[q] \/ (q = t /\ locks'[q] = Held(locks[q], txn.id, mode))
    BY <1>1, <1>3 DEF TakesLock
  <2>2. ASSUME NEW q \in TableName
        PROVE  locks'[q].shared \subseteq {txn.id} /\ locks'[q].excl \in {NoTx, txn.id}
    <3>1. locks[q].shared \subseteq {txn.id} /\ locks[q].excl \in {NoTx, txn.id}
      BY <1>3 DEF LockedBy
    <3>2. /\ Held(locks[q], txn.id, mode).shared \subseteq {txn.id}
          /\ Held(locks[q], txn.id, mode).excl \in {NoTx, txn.id}
      BY <1>1, <3>1 DEF Held
    <3> QED BY <2>1, <3>1, <3>2
  <2> QED BY <1>3, <2>2 DEF LockedBy
<1>4. LockedBy(NoTx) => \A tx : LockedBy(tx)
  BY <1>1 DEF LockedBy, NoTx
<1>5. ASSUME NEW tx, LockedBy(tx), locks' = Unlocked(tx)
      PROVE  LockedBy(NoTx)'
  BY <1>5 DEF LockedBy, Unlocked, Released
<1> QED BY <1>2, <1>3, <1>4, <1>5 DEF LockedBy

\* The log leads from `now` back to a database like `base`.
LeadsTo(log, now, base) == \E b : CanBeRestored(log, now, b) /\ AlikeDb(b, base)

\* The engine is where the session `x` is.
Tracks(x) ==
  /\ AlikeDb(View, x.db)
  /\ Active <=> x.open
  /\ Kinds(txn.undo) = x.undo
  /\ LockedBy(txn.id)
  /\ Active /\ ~Doomed(x.undo, x.db) => LeadsTo(txn.undo, View, x.base)

\* The statements that change a session when they succeed.
Matters(s) == s.op \notin {"Select", "Checkpoint"}

\* An UPDATE or a DELETE is on its way from the session `x`.
Looping(x) ==
  /\ call.stmt.op = IF call.phase = "update" THEN "Update" ELSE "Delete"
  /\ call.tx = NoTx
  /\ \E b : /\ AlikeDb(b, x.db) /\ LoopSeenFrom(b)
            /\ Len(call.log) =
                 Cardinality(Chosen(b[call.stmt.t], call.stmt.where) \ call.todo)
  /\ Active <=> x.open
  /\ Kinds(txn.undo) = x.undo
  /\ LockedBy(txn.id)
  /\ Active /\ ~Doomed(x.undo, x.db) => LeadsTo(txn.undo \o call.log, View, x.base)

\* A ROLLBACK is on its way from the session `x`.
Undoing(x) ==
  /\ call.stmt.op = "Rollback" /\ x.open
  /\ txn = NoTxn /\ call.tx # NoTx /\ LockedBy(call.tx)
  /\ ~Doomed(x.undo, x.db) => LeadsTo(call.log, View, x.base)
  /\ Doomed(x.undo, x.db) => Doomed(Kinds(call.log), View)

\* The running statement began in the session `x`: it succeeds if the session
\* permits it, and leads to the session after it.
Ran(x) ==
  /\ call.phase \in {"ready", "checkpoint"} => Tracks(x)
  /\ call.phase = "ok" =>
       IF Matters(call.stmt) THEN Permits(x, call.stmt) /\ Tracks(After(x, call.stmt))
       ELSE Tracks(x)
  /\ call.phase = "error" =>
       /\ Matters(call.stmt) => ~Permits(x, call.stmt)
       /\ call.log = <<>> /\ call.tx = NoTx => Tracks(x)
  /\ call.phase \in {"update", "delete"} => Looping(x)
  /\ call.phase = "undo" => Undoing(x)

\* The engine stays where it is when nothing changes but the locks.
LEMMA TracksUnchanged ==
  ASSUME NEW x, Tracks(x), tables' = tables, txn' = txn, LockedBy(txn.id)'
  PROVE  Tracks(x)'
<1>1. View' = View /\ (Active' <=> Active)
  BY DEF View, Active
<1> QED BY <1>1 DEF Tracks

\* One more record leads back to the same database.
LEMMA OneMoreLeadsTo ==
  ASSUME NEW log \in Seq(UndoRecord), NEW u \in UndoRecord, NEW now, NEW new, NEW base,
         LeadsTo(log, now, base), CanBeUndone(new, u), UndoneView(new, u) = now, SoundView(new)
  PROVE  LeadsTo(Append(log, u), new, base)
BY OneMoreToUndo DEF LeadsTo

\* The session after a statement that only changes tables.
LEMMA AfterOf ==
  ASSUME NEW x, NEW s, s.op \notin {"Begin", "Commit", "Rollback"}
  PROVE  /\ Permits(x, s) <=> PermitsOn(x.db, s)
         /\ After(x, s).db = DbAfter(x.db, s) /\ After(x, s).open = x.open
         /\ After(x, s).undo = IF x.open THEN x.undo \o Recorded(x.db, s) ELSE x.undo
         /\ After(x, s).base = BaseAfter(x.base, s)
<1>1. Permits(x, s) <=> PermitsOn(x.db, s)
  BY DEF Permits
<1>2. After(x, s) = [db |-> DbAfter(x.db, s), open |-> x.open,
                     undo |-> IF x.open THEN x.undo \o Recorded(x.db, s) ELSE x.undo,
                     base |-> BaseAfter(x.base, s)]
  BY DEF After
<1> QED BY <1>1, <1>2

\* A statement with one undo record succeeds in both.
LEMMA TracksRecorded ==
  ASSUME EngineInv, SoundTables(tables'), NEW x, Tracks(x), LockedBy(txn.id)',
         NEW s, s.op \in {"CreateTable", "CreateIndex", "Insert"}, PermitsOn(x.db, s),
         NEW u \in UndoRecord, Recorded(x.db, s) = <<Kind(u)>>, Records(<<u>>),
         AlikeDb(View', DbAfter(x.db, s)), CanBeUndone(View', u), UndoneView(View', u) = View
  PROVE  Tracks(After(x, s))'
<1> DEFINE y == After(x, s)
<1>1. /\ y.db = DbAfter(x.db, s) /\ y.open = x.open /\ y.base = x.base
      /\ y.undo = IF x.open THEN x.undo \o Recorded(x.db, s) ELSE x.undo
  <2>1. BaseAfter(x.base, s) = x.base
    BY DEF BaseAfter
  <2> QED BY <2>1, AfterOf
<1> HIDE DEF y
<1>2. txn.undo \in Seq(UndoRecord) /\ txn'.id = txn.id
      /\ txn'.undo = IF Active THEN Append(txn.undo, u) ELSE txn.undo
  BY UndoRecorded DEF EngineInv, EngineType
<1>3. (Active' <=> Active) /\ (Active <=> x.open) /\ Kinds(txn.undo) = x.undo
  BY <1>2 DEF Active, Tracks
<1>4. Kinds(txn'.undo) = y.undo
  <2>1. Kinds(Append(txn.undo, u)) = x.undo \o <<Kind(u)>>
    BY <1>2, <1>3, KindsAppended
  <2> QED BY <1>1, <1>2, <1>3, <2>1
<1>5. ASSUME Active, ~Doomed(y.undo, y.db)
      PROVE  LeadsTo(txn'.undo, View', y.base)
  <2>1. x.undo \in Seq(KindRecord) /\ Recorded(x.db, s) \in Seq(KindRecord)
    BY <1>2, <1>3, KindsAreRecords, KindsAppended
  <2>2. ~Doomed(x.undo, x.db)
    BY <1>1, <1>3, <1>5, <2>1, DoomedAfter
  <2>3. LeadsTo(txn.undo, View, x.base)
    BY <1>5, <2>2 DEF Tracks
  <2>4. SoundView(View')
    BY SoundTablesAreSeen
  <2>5. LeadsTo(Append(txn.undo, u), View', x.base)
    BY <1>2, <2>3, <2>4, OneMoreLeadsTo
  <2> QED BY <1>1, <1>2, <1>5, <2>5
<1>6. AlikeDb(View', y.db)
  BY <1>1
<1> QED BY <1>1, <1>3, <1>4, <1>5, <1>6 DEF Tracks, y

\* A way back, with the same table or the same index taken away everywhere.
LEMMA LeadsBackWithout ==
  ASSUME NEW log, NEW now, NEW then, CanBeRestored(log, now, then), NEW new, NEW old,
         \/ \E t : /\ new = Dropped(now, t) /\ old = Dropped(then, t)
                   /\ \A n \in 1..Len(log) : log[n].op # "CreateTable" => log[n].t # t
         \/ \E i : /\ new = WithoutIndex(now, i) /\ old = WithoutIndex(then, i)
                   /\ \A n \in 1..Len(log) : log[n].op = "CreateIndex" => log[n].i # i,
         Len(log) \in Nat
  PROVE  CanBeRestored(log, new, old)
<1>1. PICK h : LeadsBack(h, log, now, then)
  BY DEF CanBeRestored
<1>2. \A k \in 1..Len(log) : k \in 0..Len(log) /\ k - 1 \in 0..Len(log)
  OBVIOUS
<1>3. 0 \in 0..Len(log) /\ Len(log) \in 0..Len(log)
  OBVIOUS
<1>4. ASSUME NEW t, new = Dropped(now, t), old = Dropped(then, t),
             \A n \in 1..Len(log) : log[n].op # "CreateTable" => log[n].t # t
      PROVE  CanBeRestored(log, new, old)
  <2> DEFINE g == [k \in 0..Len(log) |-> Dropped(h[k], t)]
  <2>1. \A k \in 0..Len(log) : g[k] = Dropped(h[k], t)
    OBVIOUS
  <2> HIDE DEF g
  <2>2. ASSUME NEW k \in 1..Len(log)
        PROVE  CanBeUndone(g[k], log[k]) /\ g[k - 1] = UndoneView(g[k], log[k])
    <3>1. CanBeUndone(h[k], log[k]) /\ h[k - 1] = UndoneView(h[k], log[k])
      BY <1>1 DEF LeadsBack
    <3>2. g[k] = Dropped(h[k], t) /\ g[k - 1] = Dropped(h[k - 1], t)
      BY <1>2, <2>1
    <3> QED BY <1>4, <3>1, <3>2, UndoneWithoutTable
  <2>3. \A k \in 0..Len(log) : SoundView(g[k])
    BY <1>1, <2>1, SoundWithout DEF LeadsBack
  <2>4. g[0] = old /\ g[Len(log)] = new
    BY <1>1, <1>3, <1>4, <2>1 DEF LeadsBack
  <2> QED BY <2>2, <2>3, <2>4 DEF CanBeRestored, LeadsBack
<1>5. ASSUME NEW i, new = WithoutIndex(now, i), old = WithoutIndex(then, i),
             \A n \in 1..Len(log) : log[n].op = "CreateIndex" => log[n].i # i
      PROVE  CanBeRestored(log, new, old)
  <2> DEFINE g == [k \in 0..Len(log) |-> WithoutIndex(h[k], i)]
  <2>1. \A k \in 0..Len(log) : g[k] = WithoutIndex(h[k], i)
    OBVIOUS
  <2> HIDE DEF g
  <2>2. ASSUME NEW k \in 1..Len(log)
        PROVE  CanBeUndone(g[k], log[k]) /\ g[k - 1] = UndoneView(g[k], log[k])
    <3>1. CanBeUndone(h[k], log[k]) /\ h[k - 1] = UndoneView(h[k], log[k])
      BY <1>1 DEF LeadsBack
    <3>2. g[k] = WithoutIndex(h[k], i) /\ g[k - 1] = WithoutIndex(h[k - 1], i)
      BY <1>2, <2>1
    <3> QED BY <1>5, <3>1, <3>2, UndoneWithoutIndex
  <2>3. \A k \in 0..Len(log) : SoundView(g[k])
    BY <1>1, <2>1, SoundWithout DEF LeadsBack
  <2>4. g[0] = old /\ g[Len(log)] = new
    BY <1>1, <1>3, <1>5, <2>1 DEF LeadsBack
  <2> QED BY <2>2, <2>3, <2>4 DEF CanBeRestored, LeadsBack
<1> QED BY <1>4, <1>5

\* DROP TABLE and DROP INDEX succeed in both.
LEMMA TracksDropped ==
  ASSUME EngineInv, NEW x, Tracks(x), LockedBy(txn.id)', txn' = txn,
         NEW s, PermitsOn(x.db, s), View' = DbAfter(View, s),
         s.op = "DropTable" \/ s.op = "DropIndex"
  PROVE  Tracks(After(x, s))'
<1> DEFINE y == After(x, s)
<1>1. /\ y.db = DbAfter(x.db, s) /\ y.open = x.open /\ y.base = BaseAfter(x.base, s)
      /\ y.undo = x.undo
  <2>1. Recorded(x.db, s) = <<>>
    BY EffectOf
  <2>2. txn.undo \in Seq(UndoRecord) /\ Kinds(txn.undo) = x.undo
    BY DEF EngineInv, EngineType, Tracks
  <2>3. x.undo \o <<>> = x.undo
    BY <2>2, KindsAreRecords, ConcatEmptySeq
  <2> QED BY <2>1, <2>3, AfterOf
<1> HIDE DEF y
<1>2. AlikeDb(View, x.db) /\ (Active <=> x.open) /\ Kinds(txn.undo) = x.undo /\ (Active' <=> Active)
  BY DEF Tracks, Active
<1>3. AlikeDb(View', y.db)
  <2>1. PermitsOn(View, s)
    BY <1>2, PermitsAlike
  <2>2. AlikeDb(DbAfter(View, s), DbAfter(x.db, s))
    BY <1>2, <2>1, DbAfterAlike
  <2> QED BY <1>1, <2>2
<1>4. ASSUME Active, ~Doomed(y.undo, y.db)
      PROVE  LeadsTo(txn.undo, View', y.base)
  <2> DEFINE log == txn.undo
  <2>1. log \in Seq(UndoRecord)
    BY DEF EngineInv, EngineType
  <2>2. /\ Kinds(log) = x.undo /\ x.undo \in Seq(KindRecord) /\ Len(log) \in Nat
        /\ DOMAIN x.undo = 1..Len(log) /\ \A n \in 1..Len(log) : x.undo[n] = Kind(log[n])
    BY <1>2, <2>1, KindsAreRecords
  <2> HIDE DEF log
  <2>3. ~Doomed(x.undo, x.db)
    <3>1. Recorded(x.db, s) = <<>>
      BY EffectOf
    <3>2. <<>> \in Seq(KindRecord)
      BY EmptySeq
    <3>3. x.undo \o Recorded(x.db, s) = x.undo
      BY <2>2, <3>1, ConcatEmptySeq
    <3>4. Doomed(x.undo, x.db) => Doomed(x.undo, DbAfter(x.db, s))
      BY <2>2, <3>1, <3>2, <3>3, DoomedAfter
    <3> QED BY <1>1, <1>4, <3>4
  <2>4. PICK b : CanBeRestored(log, View, b) /\ AlikeDb(b, x.base)
    BY <1>4, <2>3 DEF Tracks, LeadsTo, log
  <2>5. \A n \in 1..Len(log) : ~Lost(Kind(log[n]), y.db)
    BY <1>1, <1>4, <2>2 DEF Doomed
  <2>6. \A u : /\ Kind(u).op = u.op /\ Kind(u).t = u.t
               /\ u.op = "CreateIndex" => Kind(u).i = u.i
    BY DEF Kind
  <2>7. CASE s.op = "DropTable"
    <3>1. y.db = Dropped(x.db, s.t) /\ y.base = Dropped(x.base, s.t) /\ View' = Dropped(View, s.t)
      BY <1>1, <2>7, EffectOf DEF BaseAfter
    <3>2. s.t \notin DOMAIN y.db
      BY <3>1 DEF Dropped
    <3>3. \A n \in 1..Len(log) : log[n].op # "CreateTable" => log[n].t # s.t
      BY <2>5, <2>6, <3>2 DEF Lost
    <3>4. CanBeRestored(log, Dropped(View, s.t), Dropped(b, s.t))
      BY <2>2, <2>4, <3>3, LeadsBackWithout
    <3>5. AlikeDb(Dropped(b, s.t), Dropped(x.base, s.t))
      BY <2>4, AlikeDbs
    <3> QED BY <3>1, <3>4, <3>5 DEF LeadsTo, log
  <2>8. CASE s.op = "DropIndex"
    <3>1. /\ y.db = WithoutIndex(x.db, s.i) /\ y.base = WithoutIndex(x.base, s.i)
          /\ View' = WithoutIndex(View, s.i)
      BY <1>1, <2>8, EffectOf DEF BaseAfter
    <3>2. \A t \in DOMAIN y.db : s.i \notin DOMAIN y.db[t].idx
      BY <3>1 DEF WithoutIndex, WithIdx, Dropped
    <3>3. \A n \in 1..Len(log) : log[n].op = "CreateIndex" => log[n].i # s.i
      BY <2>5, <2>6, <3>2 DEF Lost
    <3>4. CanBeRestored(log, WithoutIndex(View, s.i), WithoutIndex(b, s.i))
      BY <2>2, <2>4, <3>3, LeadsBackWithout
    <3>5. AlikeDb(WithoutIndex(b, s.i), WithoutIndex(x.base, s.i))
      BY <2>4, AlikeDbs
    <3> QED BY <3>1, <3>4, <3>5 DEF LeadsTo, log
  <2> QED BY <2>7, <2>8
<1> QED BY <1>1, <1>2, <1>3, <1>4 DEF Tracks, y

-----------------------------------------------------------------------------
(* Statements of one step: they succeed when the session permits them.     *)

\* A statement that fails before it changed anything.
LEMMA FailsRan ==
  ASSUME NEW x, Tracks(x), NEW s, Fails(s), LockedBy(txn.id)', Matters(s) => ~Permits(x, s)
  PROVE  Ran(x)'
<1>1. call'.phase = "error" /\ call'.stmt = s /\ call'.log = <<>> /\ call'.tx = NoTx
  BY EndOf DEF Fails
<1>2. Tracks(x)'
  BY TracksUnchanged DEF Fails
<1>3. (Matters(call.stmt) => ~Permits(x, call.stmt))'
  BY <1>1 DEF Matters
<1> QED BY <1>1, <1>2, <1>3 DEF Ran

\* A statement that succeeds.
LEMMA SucceedsRan ==
  ASSUME NEW x, NEW s, Ends(s, "ok"), Matters(s), Permits(x, s), Tracks(After(x, s))'
  PROVE  Ran(x)'
<1>1. call'.phase = "ok" /\ call'.stmt = s
  BY EndOf
<1>2. Matters(call'.stmt) /\ Permits(x, call'.stmt)
  BY <1>1
<1>3. Tracks(After(x, call.stmt))'
  BY <1>1 DEF Tracks
<1> QED BY <1>1, <1>2, <1>3 DEF Ran, Matters

\* The locks of a session never refuse a statement.
LEMMA NoneRefused ==
  ASSUME EngineInv, NEW x, Tracks(x), NEW s \in Stmts
  PROVE  ~Refused(s)
<1>1. LockedBy(txn.id) /\ EngineType /\ DOMAIN tables \subseteq TableName
  BY DEF Tracks, EngineInv, SoundTables
<1>2. \A t \in TableName : \A mode : MayLock(t, mode)
  BY <1>1, LocksOfOne
<1>3. s.op \in {"CreateTable", "DropTable", "CreateIndex", "Insert", "Select", "Update", "Delete"}
        => s.t \in TableName
  BY StmtsAssumption
<1> QED BY <1>1, <1>2, <1>3 DEF Refused

\* The locks taken by a statement are those of its transaction.
LEMMA LocksOfStatement ==
  ASSUME EngineInv, NEW x, Tracks(x), txn'.id = txn.id,
         \/ locks' = locks
         \/ \E t \in TableName : \E mode \in LockMode : TakesLock(t, mode)
  PROVE  LockedBy(txn.id)'
BY LocksOfOne DEF Tracks, EngineInv

\* CREATE TABLE, in the engine and in the session.
LEMMA CreateTableRan ==
  ASSUME EngineInv, EngineInv', NEW x, Tracks(x), NEW s \in Stmts, CreateTableStmt(s)
  PROVE  Ran(x)'
<1>1. s.op = "CreateTable" /\ s.t \in TableName /\ TakesLock(s.t, "Exclusive") /\ Matters(s)
  BY StmtsAssumption DEF CreateTableStmt, Matters
<1>2. AlikeDb(View, x.db) /\ DOMAIN View = DOMAIN tables
  BY SeenTables DEF Tracks
<1>3. (Permits(x, s) <=> PermitsOn(x.db, s)) /\ (PermitsOn(x.db, s) <=> PermitsOn(View, s))
  BY <1>1, <1>2, AfterOf, PermitsAlike
<1>4. PermitsOn(View, s) <=> s.t \notin DOMAIN tables
  BY <1>1, <1>2 DEF PermitsOn, OnTable
<1>5. txn'.id = txn.id => LockedBy(txn.id)'
  BY <1>1, LocksOfStatement DEF LockMode
<1>6. CASE s.t \in DOMAIN tables /\ Fails(s)
  BY <1>3, <1>4, <1>5, <1>6, FailsRan DEF Fails
<1>7. CASE /\ s.t \notin DOMAIN tables
           /\ Put(s.t, NewTable(s.schema))
           /\ Records(<<[op |-> "CreateTable", t |-> s.t]>>)
           /\ Ends(s, "ok")
  <2> DEFINE u == [op |-> "CreateTable", t |-> s.t]
  <2>1. Put(s.t, NewTable(s.schema)) /\ Records(<<u>>) /\ Ends(s, "ok")
    BY <1>7
  <2>2. u \in UndoRecord /\ CanBeUndone(View', u)
    BY <1>1 DEF UndoRecord, CanBeUndone
  <2>3. /\ DOMAIN View' = DOMAIN View \cup {s.t} /\ s.t \notin DOMAIN View
        /\ View'[s.t] = TableView(NewTable(s.schema))
        /\ \A q \in DOMAIN View : q # s.t => View'[q] = View[q]
    BY <1>2, <1>7, <2>1, SeenPut
  <2>4. View = [q \in DOMAIN View |-> View[q]] /\ View' = [q \in DOMAIN View' |-> View'[q]]
    BY SeenTables
  <2>5. UndoneView(View', u) = View
    <3>1. UndoneView(View', u) = [q \in DOMAIN View' \ {s.t} |-> View'[q]]
      BY DEF UndoneView, Dropped
    <3> QED BY <2>3, <2>4, <3>1
  <2>6. TableView(NewTable(s.schema)) = NewView(s.schema)
    BY DEF TableView, NewTable, NewView
  <2>7. View' = DbAfter(View, s)
    <3>1. DbAfter(View, s) = Added(View, s.t, NewView(s.schema))
      BY <1>1, EffectOf
    <3> QED BY <2>3, <2>4, <2>6, <3>1 DEF Added
  <2>8. AlikeDb(View', DbAfter(x.db, s))
    BY <1>2, <1>4, <1>7, <2>7, DbAfterAlike
  <2>9. Recorded(x.db, s) = <<Kind(u)>>
    BY <1>1, EffectOf DEF Kind
  <2> HIDE DEF u
  <2>10. LockedBy(txn.id)'
    BY <1>5, <2>1, <2>2, UndoRecorded DEF EngineInv
  <2>11. SoundTables(tables')
    BY DEF EngineInv
  <2>12. Tracks(After(x, s))'
    BY <1>1, <1>3, <1>4, <1>7, <2>1, <2>2, <2>5, <2>8, <2>9, <2>10, <2>11, TracksRecorded
  <2> QED BY <1>1, <1>3, <1>4, <1>7, <2>1, <2>12, SucceedsRan
<1> QED BY <1>6, <1>7 DEF CreateTableStmt

\* DROP TABLE.
LEMMA DropTableRan ==
  ASSUME EngineInv, EngineInv', NEW x, Tracks(x), NEW s \in Stmts, DropTableStmt(s)
  PROVE  Ran(x)'
<1>1. s.op = "DropTable" /\ s.t \in TableName /\ TakesLock(s.t, "Exclusive") /\ Matters(s)
      /\ txn' = txn
  BY StmtsAssumption DEF DropTableStmt, Matters, Fails
<1>2. AlikeDb(View, x.db) /\ DOMAIN View = DOMAIN tables
  BY SeenTables DEF Tracks
<1>3. (Permits(x, s) <=> PermitsOn(x.db, s)) /\ (PermitsOn(x.db, s) <=> PermitsOn(View, s))
  BY <1>1, <1>2, AfterOf, PermitsAlike
<1>4. PermitsOn(View, s) <=> s.t \in DOMAIN tables
  BY <1>1, <1>2 DEF PermitsOn, OnTable
<1>5. LockedBy(txn.id)'
  BY <1>1, LocksOfStatement DEF LockMode
<1>6. CASE s.t \notin DOMAIN tables /\ Fails(s)
  BY <1>3, <1>4, <1>5, <1>6, FailsRan
<1>7. CASE s.t \in DOMAIN tables /\ tables' = Without(s.t) /\ Ends(s, "ok")
  <2>1. View' = Dropped(View, s.t)
    BY <1>7, SeenTables DEF Without, Dropped
  <2>2. View' = DbAfter(View, s)
    BY <1>1, <2>1, EffectOf
  <2>3. Tracks(After(x, s))'
    BY <1>1, <1>3, <1>4, <1>5, <1>7, <2>2, TracksDropped
  <2> QED BY <1>1, <1>3, <1>4, <1>7, <2>3, SucceedsRan
<1> QED BY <1>6, <1>7 DEF DropTableStmt

\* DROP INDEX, when a single table has an index of the name.
LEMMA DropIndexRan ==
  ASSUME EngineInv, EngineInv', NEW x, Tracks(x), NEW s \in Stmts, DropIndexStmt(s),
         \A t, q \in DOMAIN tables :
           s.i \in DOMAIN tables[t].idx /\ s.i \in DOMAIN tables[q].idx => t = q
  PROVE  Ran(x)'
<1>1. s.op = "DropIndex" /\ Matters(s) /\ txn' = txn
  BY DEF DropIndexStmt, Matters, Fails
<1>2. AlikeDb(View, x.db) /\ DOMAIN View = DOMAIN tables /\ DOMAIN tables \subseteq TableName
  BY SeenTables DEF Tracks, EngineInv, SoundTables
<1>3. (Permits(x, s) <=> PermitsOn(x.db, s)) /\ (PermitsOn(x.db, s) <=> PermitsOn(View, s))
  BY <1>1, <1>2, AfterOf, PermitsAlike
<1>4. \A t \in DOMAIN tables : View[t] = TableView(tables[t]) /\ DOMAIN View[t].idx = DOMAIN tables[t].idx
  BY SeenTables DEF TableView
<1>5. Owners(View, s.i) = {t \in DOMAIN tables : s.i \in DOMAIN tables[t].idx}
  BY <1>2, <1>4 DEF Owners
<1>6. LockedBy(txn.id)'
  BY <1>1, <1>2, LocksOfStatement DEF LockMode, DropIndexStmt
<1>7. CASE Owners(View, s.i) = {} /\ Fails(s)
  <2>1. ~PermitsOn(View, s)
    BY <1>1, <1>7 DEF PermitsOn
  <2> QED BY <1>3, <1>6, <1>7, <2>1, FailsRan
<1>8. CASE \E t \in Owners(View, s.i) : Put(t, DropIndex(tables[t], s.i)) /\ Ends(s, "ok")
  <2>1. PICK t \in Owners(View, s.i) : Put(t, DropIndex(tables[t], s.i)) /\ Ends(s, "ok")
    BY <1>8
  <2>2. t \in DOMAIN tables /\ Owners(View, s.i) = {t}
    BY <1>5, <2>1
  <2>3. PermitsOn(View, s)
    BY <1>1, <1>2, <2>2 DEF PermitsOn, OnTable
  <2>4. /\ DOMAIN View' = DOMAIN View
        /\ View'[t] = WithIdx(View[t], Dropped(View[t].idx, s.i))
        /\ \A q \in DOMAIN View : q # t => View'[q] = View[q]
    <3>1. /\ DOMAIN View' = DOMAIN View \cup {t} /\ View'[t] = TableView(DropIndex(tables[t], s.i))
          /\ \A q \in DOMAIN View : q # t => View'[q] = View[q]
      BY <2>1, SeenPut
    <3>2. View'[t] = WithIdx(View[t], Dropped(View[t].idx, s.i))
      BY <1>4, <2>2, <3>1, SeenDropIndex
    <3> QED BY <1>2, <2>2, <3>1, <3>2
  <2>5. ASSUME NEW q \in DOMAIN View, q # t
        PROVE  WithIdx(View[q], Dropped(View[q].idx, s.i)) = View[q]
    <3>1. s.i \notin DOMAIN View[q].idx
      BY <2>2, <2>5 DEF Owners
    <3>2. View[q] = TableView(tables[q])
      BY <1>2, <1>4
    <3>3. Dropped(View[q].idx, s.i) = View[q].idx
      BY <3>1, <3>2 DEF Dropped, TableView
    <3>4. WithIdx(View[q], View[q].idx) = View[q]
      BY <3>2 DEF WithIdx, TableView
    <3> QED BY <3>3, <3>4
  <2>6. View' = [q \in DOMAIN View' |-> View'[q]]
    BY SeenTables
  <2>7. View' = WithoutIndex(View, s.i)
    BY <2>4, <2>5, <2>6 DEF WithoutIndex
  <2>8. View' = DbAfter(View, s)
    BY <1>1, <2>7, EffectOf
  <2>9. Tracks(After(x, s))'
    BY <1>1, <1>3, <1>6, <2>3, <2>8, TracksDropped
  <2> QED BY <1>1, <1>3, <2>1, <2>3, <2>9, SucceedsRan
<1> QED BY <1>5, <1>7, <1>8 DEF DropIndexStmt

\* A statement on one table, seen from the table and from the session.
LEMMA OnTableSeen ==
  ASSUME EngineInv, NEW x, Tracks(x), NEW s, s.op \in OnTable
  PROVE  /\ Permits(x, s) <=> PermitsOn(View, s)
         /\ PermitsOn(x.db, s) <=> PermitsOn(View, s)
         /\ PermitsOn(View, s) <=> s.t \in DOMAIN tables /\ Takes(TableView(tables[s.t]), s)
         /\ s.t \in DOMAIN tables =>
              /\ TableInv(tables[s.t]) /\ s.t \in TableName
              /\ View[s.t] = TableView(tables[s.t])
              /\ s.t \in DOMAIN x.db /\ Alike(View[s.t], x.db[s.t])
<1>1. AlikeDb(View, x.db) /\ DOMAIN View = DOMAIN tables
      /\ \A t \in DOMAIN tables : View[t] = TableView(tables[t])
  BY SeenTables DEF Tracks
<1>2. s.op \notin {"Begin", "Commit", "Rollback", "CreateTable", "DropTable", "DropIndex"}
  BY DEF OnTable
<1>3. (Permits(x, s) <=> PermitsOn(x.db, s)) /\ (PermitsOn(x.db, s) <=> PermitsOn(View, s))
  BY <1>1, <1>2, AfterOf, PermitsAlike
<1>4. PermitsOn(View, s) <=> s.t \in DOMAIN tables /\ Takes(TableView(tables[s.t]), s)
  BY <1>1, <1>2 DEF PermitsOn
<1>5. s.t \in DOMAIN tables => s.t \in DOMAIN x.db /\ Alike(View[s.t], x.db[s.t])
  BY <1>1 DEF AlikeDb
<1> QED BY <1>1, <1>3, <1>4, <1>5 DEF EngineInv, SoundTables

\* CREATE INDEX.
LEMMA CreateIndexRan ==
  ASSUME EngineInv, EngineInv', NEW x, Tracks(x), NEW s \in Stmts, CreateIndexStmt(s)
  PROVE  Ran(x)'
<1> DEFINE tab == tables[s.t]
           can == s.t \in DOMAIN tables /\ CanCreateIndex(tab, s.i, s.c, s.unique)
           table == CreateIndex(tab, s.i, s.c, s.unique)
           u == [op |-> "CreateIndex", t |-> s.t, i |-> s.i]
<1>1. /\ s.op = "CreateIndex" /\ s.t \in TableName /\ s.unique \in BOOLEAN
      /\ TakesLock(s.t, "Exclusive") /\ Matters(s) /\ s.op \in OnTable
  BY StmtsAssumption DEF CreateIndexStmt, Matters, OnTable
<1>2. /\ Permits(x, s) <=> PermitsOn(View, s)
      /\ PermitsOn(x.db, s) <=> PermitsOn(View, s)
      /\ PermitsOn(View, s) <=> s.t \in DOMAIN tables /\ Takes(TableView(tab), s)
      /\ s.t \in DOMAIN tables =>
           /\ TableInv(tab) /\ View[s.t] = TableView(tab)
           /\ s.t \in DOMAIN x.db /\ Alike(View[s.t], x.db[s.t])
  BY <1>1, OnTableSeen
<1>3. txn'.id = txn.id => LockedBy(txn.id)'
  BY <1>1, LocksOfStatement DEF LockMode
<1>4. CASE ~can /\ Fails(s)
  <2>1. ~PermitsOn(View, s)
    BY <1>1, <1>2, <1>4, IndexDecided
  <2> QED BY <1>2, <1>3, <1>4, <2>1, FailsRan DEF Fails
<1>5. CASE can /\ Put(s.t, table) /\ Records(<<u>>) /\ Ends(s, "ok")
  <2>1. s.t \in DOMAIN tables /\ TableInv(tab) /\ CanCreateIndex(tab, s.i, s.c, s.unique)
    BY <1>2, <1>5
  <2>2. TableInv(table) /\ Sound(TableView(table))
    BY <1>1, <2>1, CreateIndexInv, SoundIsSeen
  <2>3. TableView(table) = Changed(TableView(tab), s)
    <3>1. Changed(TableView(tab), s) =
            WithIdx(TableView(tab), Added(TableView(tab).idx, s.i, <<s.c, s.unique>>))
      BY <1>1 DEF Changed
    <3> QED BY <3>1, SeenCreateIndex
  <2>4. PermitsOn(View, s)
    <3>1. s.i \notin DOMAIN TableView(tab).idx /\ s.c \in TableView(tab).schema.cols
      BY <2>1 DEF CanCreateIndex, TableView
    <3>2. Takes(TableView(tab), s)
      BY <1>1, <2>2, <2>3, <3>1 DEF Takes
    <3> QED BY <1>2, <2>1, <3>2
  <2>5. /\ DOMAIN View' = DOMAIN View \cup {s.t} /\ View'[s.t] = TableView(table)
        /\ \A q \in DOMAIN View : q # s.t => View'[q] = View[q]
    BY <1>5, SeenPut
  <2>6. View' = DbAfter(View, s)
    <3>1. DbAfter(View, s) = Added(View, s.t, Changed(View[s.t], s))
      BY <1>1, EffectOf
    <3>2. View' = [q \in DOMAIN View' |-> View'[q]]
      BY SeenTables
    <3> QED BY <1>2, <2>1, <2>3, <2>5, <3>1, <3>2 DEF Added
  <2>7. AlikeDb(View', DbAfter(x.db, s))
    BY <2>4, <2>6, DbAfterAlike DEF Tracks
  <2>8. u \in UndoRecord
    BY <1>1 DEF UndoRecord
  <2>9. CanBeUndone(View', u) /\ UndoneView(View', u) = View
    <3>1. s.i \notin DOMAIN tab.idx
      BY <2>1 DEF CanCreateIndex
    <3>2. UndoneIn(TableView(table), u) = TableView(tab) /\ s.i \in DOMAIN table.idx
      BY <3>1, IndexOfRecord
    <3> HIDE DEF table, tab
    <3>3. u.op = "CreateIndex" /\ u.t = s.t /\ u.i = s.i
      OBVIOUS
    <3> HIDE DEF u
    <3> QED BY <1>5, <2>1, <3>2, <3>3, RecordOfChange DEF tab
  <2>10. Recorded(x.db, s) = <<Kind(u)>>
    BY <1>1, EffectOf DEF Kind
  <2> HIDE DEF u, can, table
  <2>11. LockedBy(txn.id)'
    BY <1>3, <1>5, <2>8, UndoRecorded DEF EngineInv
  <2>12. SoundTables(tables')
    BY DEF EngineInv
  <2>13. Tracks(After(x, s))'
    BY <1>1, <1>2, <1>5, <2>4, <2>7, <2>8, <2>9, <2>10, <2>11, <2>12, TracksRecorded
  <2> QED BY <1>1, <1>2, <1>5, <2>4, <2>13, SucceedsRan
<1> QED BY <1>4, <1>5 DEF CreateIndexStmt

\* INSERT: the new row gets an id above all others on both sides.
LEMMA InsertRan ==
  ASSUME EngineInv, EngineInv', NEW x, Tracks(x), NEW s \in Stmts, InsertStmt(s)
  PROVE  Ran(x)'
<1> DEFINE tab == tables[s.t]
           can == s.t \in DOMAIN tables /\ Writable(tab, s.row, NoRow)
           r == tab.next
           table == PutRow(tab, r, s.row)
           u == [op |-> "Insert", t |-> s.t, r |-> r]
<1>1. /\ s.op = "Insert" /\ s.t \in TableName
      /\ TakesLock(s.t, "Exclusive") /\ Matters(s) /\ s.op \in OnTable
  BY StmtsAssumption DEF InsertStmt, Matters, OnTable
<1>2. /\ Permits(x, s) <=> PermitsOn(View, s)
      /\ PermitsOn(x.db, s) <=> PermitsOn(View, s)
      /\ PermitsOn(View, s) <=> s.t \in DOMAIN tables /\ Takes(TableView(tab), s)
      /\ s.t \in DOMAIN tables =>
           /\ TableInv(tab) /\ View[s.t] = TableView(tab)
           /\ s.t \in DOMAIN x.db /\ Alike(View[s.t], x.db[s.t])
  BY <1>1, OnTableSeen
<1>3. txn'.id = txn.id => LockedBy(txn.id)'
  BY <1>1, LocksOfStatement DEF LockMode
<1>4. CASE ~can /\ Fails(s)
  <2>1. ~PermitsOn(View, s)
    BY <1>1, <1>2, <1>4, InsertDecided DEF Takes
  <2> QED BY <1>2, <1>3, <1>4, <2>1, FailsRan DEF Fails
<1>5. CASE can /\ Put(s.t, table) /\ Records(<<u>>) /\ Ends(s, "ok")
  <2>1. s.t \in DOMAIN tables /\ TableInv(tab) /\ Writable(tab, s.row, NoRow)
    BY <1>2, <1>5
  <2>2. r \in RowId /\ r \notin DOMAIN tab.rows /\ Writable(tab, s.row, r)
    BY <2>1, WritableUnderNext
  <2>3. TableInv(table) /\ Sound(TableView(table))
    BY <2>1, <2>2, PutRowInv, SoundIsSeen
  <2>4. TableView(table) = WithRows(TableView(tab), Added(tab.rows, r, s.row))
    BY SeenPutRow
  <2>5. Alike(TableView(table), Changed(x.db[s.t], s))
    <3>1. TableView(tab).rows = tab.rows /\ \A q \in DOMAIN tab.rows : q < r
      BY <2>1 DEF TableView, TableInv, NextIsFresh
    <3>2. Alike(TableView(tab), x.db[s.t])
      BY <1>2, <2>1
    <3> HIDE DEF tab, r, table
    <3>3. Alike(WithRows(TableView(tab), Added(TableView(tab).rows, r, s.row)), Changed(x.db[s.t], s))
      BY <1>1, <2>2, <3>1, <3>2, InsertedAlike
    <3> QED BY <2>4, <3>1, <3>3
  <2>6. PermitsOn(x.db, s)
    <3>1. Sound(Changed(x.db[s.t], s))
      BY <2>3, <2>5, SoundAlike
    <3>2. Takes(x.db[s.t], s)
      BY <1>1, <3>1 DEF Takes
    <3> QED BY <1>1, <1>2, <2>1, <3>2 DEF PermitsOn
  <2>7. /\ DOMAIN View' = DOMAIN View \cup {s.t} /\ View'[s.t] = TableView(table)
        /\ \A q \in DOMAIN View : q # s.t => View'[q] = View[q]
    BY <1>5, SeenPut
  <2> HIDE DEF table
  <2>8. AlikeDb(View', DbAfter(x.db, s))
    <3>1. DbAfter(x.db, s) = Added(x.db, s.t, Changed(x.db[s.t], s))
      BY <1>1, EffectOf
    <3>2. View' = Added(View, s.t, TableView(table))
      <4>1. View' = [q \in DOMAIN View' |-> View'[q]]
        BY SeenTables
      <4> QED BY <2>7, <4>1 DEF Added
    <3>3. AlikeDb(View, x.db)
      BY DEF Tracks
    <3>4. AlikeDb(Added(View, s.t, TableView(table)), Added(x.db, s.t, Changed(x.db[s.t], s)))
      BY <2>5, <3>3, AlikeDbs
    <3> QED BY <3>1, <3>2, <3>4
  <2>9. u \in UndoRecord
    BY <1>1, <2>2 DEF UndoRecord
  <2>10. CanBeUndone(View', u) /\ UndoneView(View', u) = View
    <3>1. u.op = "Insert" /\ u.t = s.t /\ u.r = r
      OBVIOUS
    <3> HIDE DEF u, r, tab
    <3>2. UndoneIn(TableView(table), u) = TableView(tab)
      BY <2>1, <2>2, <3>1, RowOfRecord DEF table
    <3>3. r \in DOMAIN table.rows
      BY DEF table, PutRow, With
    <3> QED BY <1>5, <2>1, <3>1, <3>2, <3>3, RecordOfChange DEF tab
  <2>11. Recorded(x.db, s) = <<Kind(u)>>
    BY <1>1, EffectOf DEF Kind
  <2> HIDE DEF u, can
  <2>12. LockedBy(txn.id)'
    BY <1>3, <1>5, <2>9, UndoRecorded DEF EngineInv
  <2>13. SoundTables(tables')
    BY DEF EngineInv
  <2>14. Tracks(After(x, s))'
    BY <1>1, <1>2, <1>5, <2>6, <2>8, <2>9, <2>10, <2>11, <2>12, <2>13, TracksRecorded
  <2> QED BY <1>1, <1>2, <1>5, <2>6, <2>14, SucceedsRan
<1> QED BY <1>4, <1>5 DEF InsertStmt, AddRow

\* SELECT leaves the session where it is.
LEMMA SelectRan ==
  ASSUME EngineInv, NEW x, Tracks(x), NEW s \in Stmts, SelectStmt(s)
  PROVE  Ran(x)'
<1>1. /\ s.op = "Select" /\ s.t \in TableName /\ TakesLock(s.t, "Shared")
      /\ tables' = tables /\ txn' = txn
  BY StmtsAssumption DEF SelectStmt
<1>2. LockedBy(txn.id)'
  BY <1>1, LocksOfStatement DEF LockMode
<1>3. Tracks(x)'
  BY <1>1, <1>2, TracksUnchanged
<1>4. call'.phase \in {"ok", "error"} /\ call'.stmt = s
  BY EndOf DEF SelectStmt
<1>5. ~Matters(call.stmt)'
  BY <1>1, <1>4 DEF Matters
<1> QED BY <1>3, <1>4, <1>5 DEF Ran

\* The rows of an UPDATE or a DELETE are collected.
LEMMA LoopsRan ==
  ASSUME EngineInv, NEW x, Tracks(x), NEW s \in Stmts, NEW phase \in {"update", "delete"},
         s.op = IF phase = "update" THEN "Update" ELSE "Delete",
         Begins, Loops(s, phase), s.t \in DOMAIN tables, Resolves(s.t, s.where),
         phase = "update" => Resolves(s.t, s.set), LockedBy(txn.id)'
  PROVE  Ran(x)'
<1>1. /\ tables' = tables /\ txn' = txn
      /\ call' = [phase |-> phase, stmt |-> s, todo |-> Matching(s.t, s.where),
                  log |-> <<>>, tx |-> NoTx]
  BY DEF Loops
<1>2. PICK b : b = View
  OBVIOUS
<1>3. LoopSeenFrom(b)'
  BY <1>2, LoopBegins
<1>4. View' = View /\ (Active' <=> Active)
  BY <1>1 DEF View, Active
<1>5. Len(call'.log) = Cardinality(Chosen(b[call'.stmt.t], call'.stmt.where) \ call'.todo)
  <2>1. b[s.t] = TableView(tables[s.t])
    BY <1>2, SeenTables
  <2>2. Matching(s.t, s.where) = Chosen(b[s.t], s.where)
    BY <2>1, MatchingIsChosen
  <2>3. call'.stmt = s /\ call'.todo = Matching(s.t, s.where) /\ call'.log = <<>>
    BY <1>1
  <2>4. Chosen(b[call'.stmt.t], call'.stmt.where) \ call'.todo = {}
    BY <2>2, <2>3
  <2>5. Len(<<>>) = 0 /\ Cardinality({}) = 0
    BY EmptySeq, FS_EmptySet
  <2> QED BY <2>3, <2>4, <2>5
<1>6. txn'.undo \o call'.log = txn.undo
  <2>1. txn.undo \in Seq(UndoRecord) /\ call'.log = <<>>
    BY <1>1 DEF EngineInv, EngineType
  <2> QED BY <1>1, <2>1, ConcatEmptySeq
<1>7. AlikeDb(b, x.db)
  BY <1>2 DEF Tracks
<1>8. call'.phase = phase /\ call'.stmt = s /\ call'.tx = NoTx
  BY <1>1
<1>9. Looping(x)'
  BY <1>1, <1>3, <1>4, <1>5, <1>6, <1>7, <1>8 DEF Looping, Tracks
<1> QED BY <1>8, <1>9 DEF Ran

\* UPDATE and DELETE begin.
LEMMA StartLoopRan ==
  ASSUME EngineInv, NEW x, Tracks(x), NEW s \in Stmts, StartUpdate(s) \/ StartDelete(s)
  PROVE  Ran(x)'
<1> DEFINE can == /\ s.t \in DOMAIN tables /\ Resolves(s.t, s.where)
                  /\ s.op = "Update" => Resolves(s.t, s.set)
<1>1. /\ s.op \in {"Update", "Delete"} /\ s.t \in TableName /\ Begins
      /\ TakesLock(s.t, "Exclusive") /\ s.op \in OnTable /\ Matters(s) /\ txn' = txn
  BY StmtsAssumption DEF StartUpdate, StartDelete, Matters, OnTable, Fails, Loops
<1>2. LockedBy(txn.id)'
  BY <1>1, LocksOfStatement DEF LockMode
<1>3. CASE ~can /\ Fails(s)
  <2>1. Permits(x, s) => s.t \in DOMAIN tables /\ Takes(TableView(tables[s.t]), s)
    BY <1>1, OnTableSeen
  <2>2. TableView(tables[s.t]).schema = tables[s.t].schema
    BY DEF TableView
  <2>3. Permits(x, s) => can
    BY <1>1, <2>1, <2>2 DEF Takes, ResolvedBy, Resolves
  <2> QED BY <1>2, <1>3, <2>3, FailsRan
<1>4. CASE can /\ s.op = "Update" /\ Loops(s, "update")
  BY <1>1, <1>2, <1>4, LoopsRan
<1>5. CASE can /\ s.op = "Delete" /\ Loops(s, "delete")
  BY <1>1, <1>2, <1>5, LoopsRan
<1> QED BY <1>3, <1>4, <1>5 DEF StartUpdate, StartDelete

\* BEGIN.
LEMMA BeginRan ==
  ASSUME EngineInv, NEW x, Tracks(x), NEW s \in Stmts, BeginStmt(s)
  PROVE  Ran(x)'
<1>1. s.op = "Begin" /\ Matters(s) /\ locks' = locks /\ (Active <=> x.open)
  BY DEF BeginStmt, Matters, Fails, Tracks
<1>2. /\ Permits(x, s) <=> ~Active
      /\ After(x, s) = [db |-> x.db, open |-> TRUE, undo |-> <<>>, base |-> x.db]
  BY <1>1 DEF Permits, After
<1>3. CASE Active /\ Fails(s)
  <2>1. LockedBy(txn.id)'
    BY <1>1, <1>3, LocksOfStatement DEF Fails
  <2> QED BY <1>2, <1>3, <2>1, FailsRan
<1>4. CASE ~Active /\ Ends(s, "ok") /\ tables' = tables
           /\ txn' = [id |-> IF nextTx = 0 THEN 1 ELSE nextTx, undo |-> <<>>]
  <2>1. txn'.undo = <<>> /\ txn'.id # NoTx
    BY <1>4 DEF EngineInv, EngineType, NoTx
  <2>2. View' = View /\ Active' /\ AlikeDb(View, x.db)
    BY <1>4, <2>1 DEF View, Active, Tracks
  <2>3. LockedBy(NoTx)
    BY <1>4 DEF Active, Tracks
  <2>4. LockedBy(txn.id)'
    <3>1. \A tx : LockedBy(tx)
      BY <2>3, LocksOfOne DEF EngineInv
    <3>2. \A tx : LockedBy(tx) => LockedBy(tx)'
      BY <1>1 DEF LockedBy
    <3> QED BY <3>1, <3>2 DEF LockedBy
  <2>5. SoundView(View)
    BY SoundTablesAreSeen DEF EngineInv
  <2>6. LeadsTo(txn'.undo, View', x.db)
    BY <2>1, <2>2, <2>5, NothingToUndo DEF LeadsTo
  <2>7. Kinds(txn'.undo) = <<>>
    BY <2>1, EmptySeq, KindsAreRecords
  <2>8. Tracks(After(x, s))'
    BY <1>2, <2>2, <2>4, <2>6, <2>7 DEF Tracks
  <2> QED BY <1>1, <1>2, <1>4, <2>8, SucceedsRan
<1> QED BY <1>3, <1>4 DEF BeginStmt

\* COMMIT.
LEMMA CommitRan ==
  ASSUME EngineInv, NEW x, Tracks(x), NEW s \in Stmts, CommitStmt(s)
  PROVE  Ran(x)'
<1>1. s.op = "Commit" /\ Matters(s) /\ (Active <=> x.open)
  BY DEF CommitStmt, Matters, Tracks
<1>2. /\ Permits(x, s) <=> Active
      /\ After(x, s) = [db |-> x.db, open |-> FALSE, undo |-> <<>>, base |-> x.db]
  BY <1>1 DEF Permits, After
<1>3. CASE ~Active /\ Fails(s) /\ locks' = locks
  <2>1. LockedBy(txn.id)'
    BY <1>3, LocksOfStatement DEF Fails
  <2> QED BY <1>2, <1>3, <2>1, FailsRan
<1>4. CASE Active /\ txn' = NoTxn /\ locks' = Unlocked(txn.id) /\ Ends(s, "ok") /\ tables' = tables
  <2>1. txn'.undo = <<>> /\ txn'.id = NoTx
    BY <1>4 DEF NoTxn
  <2>2. View' = View /\ ~Active' /\ AlikeDb(View, x.db)
    BY <1>4, <2>1 DEF View, Active, Tracks
  <2>3. LockedBy(txn.id)'
    <3>1. LockedBy(NoTx)'
      BY <1>4, LocksOfOne DEF EngineInv, Tracks
    <3> QED BY <2>1, <3>1 DEF LockedBy
  <2>4. Kinds(txn'.undo) = <<>>
    BY <2>1, EmptySeq, KindsAreRecords
  <2>5. Tracks(After(x, s))'
    BY <1>2, <2>2, <2>3, <2>4 DEF Tracks
  <2> QED BY <1>1, <1>2, <1>4, <2>5, SucceedsRan
<1> QED BY <1>3, <1>4 DEF CommitStmt

\* ROLLBACK begins.
LEMMA RollbackRan ==
  ASSUME EngineInv, NEW x, Tracks(x), NEW s \in Stmts, RollbackStmt(s)
  PROVE  Ran(x)'
<1>1. s.op = "Rollback" /\ Matters(s) /\ (Active <=> x.open) /\ locks' = locks
  BY DEF RollbackStmt, Matters, Tracks
<1>2. Permits(x, s) => Active
  BY <1>1 DEF Permits
<1>3. CASE ~Active /\ Fails(s)
  <2>1. LockedBy(txn.id)'
    BY <1>1, <1>3, LocksOfStatement DEF Fails
  <2> QED BY <1>2, <1>3, <2>1, FailsRan
<1>4. CASE /\ Active /\ txn' = NoTxn /\ tables' = tables
           /\ call' = [phase |-> "undo", stmt |-> s, todo |-> {}, log |-> txn.undo, tx |-> txn.id]
  <2>1. call'.phase = "undo" /\ call'.stmt = s /\ call'.log = txn.undo /\ call'.tx = txn.id
    BY <1>4
  <2>2. View' = View /\ AlikeDb(View, x.db) /\ Kinds(txn.undo) = x.undo
    BY <1>4 DEF View, Tracks
  <2>3. LockedBy(call.tx)'
    <3>1. LockedBy(txn.id)
      BY DEF Tracks
    <3> QED BY <1>1, <2>1, <3>1 DEF LockedBy
  <2>4. ~Doomed(x.undo, x.db) => LeadsTo(call'.log, View', x.base)
    BY <1>4, <2>1, <2>2 DEF Tracks
  <2>5. Doomed(x.undo, x.db) => Doomed(Kinds(call'.log), View')
    BY <2>1, <2>2, PermitsAlike
  <2>6. Undoing(x)'
    BY <1>1, <1>4, <2>1, <2>3, <2>4, <2>5 DEF Undoing, Active
  <2> QED BY <2>1, <2>6 DEF Ran
<1> QED BY <1>3, <1>4 DEF RollbackStmt

\* The first step of a statement.
LEMMA StartRan ==
  ASSUME EngineInv, EngineInv', NEW x, Tracks(x), NEW s \in Stmts, Start(s),
         s.op = "DropIndex" =>
           \A t, q \in DOMAIN tables :
             s.i \in DOMAIN tables[t].idx /\ s.i \in DOMAIN tables[q].idx => t = q
  PROVE  Ran(x)'
<1>1. ~Refused(s)
  BY NoneRefused
<1>2. CASE CreateTableStmt(s) \/ DropTableStmt(s)
  BY <1>2, CreateTableRan, DropTableRan
<1>3. CASE CreateIndexStmt(s) \/ InsertStmt(s)
  BY <1>3, CreateIndexRan, InsertRan
<1>4. CASE DropIndexStmt(s)
  <2>1. s.op = "DropIndex"
    BY <1>4 DEF DropIndexStmt
  <2> QED BY <1>4, <2>1, DropIndexRan
<1>5. CASE SelectStmt(s) \/ StartUpdate(s) \/ StartDelete(s)
  BY <1>5, SelectRan, StartLoopRan
<1>6. CASE BeginStmt(s) \/ CommitStmt(s) \/ RollbackStmt(s)
  BY <1>6, BeginRan, CommitRan, RollbackRan
<1> QED BY <1>1, <1>2, <1>3, <1>4, <1>5, <1>6 DEF Start

-----------------------------------------------------------------------------
(* The later steps of a statement.                                         *)

\* How many rows a loop has done.
LEMMA OneMoreDone ==
  ASSUME NEW chosen, IsFiniteSet(chosen), NEW todo, todo \subseteq chosen, NEW r \in todo
  PROVE  /\ Cardinality(chosen \ (todo \ {r})) = Cardinality(chosen \ todo) + 1
         /\ Cardinality(chosen \ todo) \in Nat
<1>1. IsFiniteSet(chosen \ todo)
  BY FS_Subset
<1>2. chosen \ (todo \ {r}) = (chosen \ todo) \cup {r} /\ r \notin chosen \ todo
  OBVIOUS
<1>3. Cardinality((chosen \ todo) \cup {r}) = Cardinality(chosen \ todo) + 1
  BY <1>1, <1>2, FS_AddElement
<1> QED BY <1>1, <1>2, <1>3, FS_CardinalityType

\* One more row of an UPDATE or a DELETE.
LEMMA RowDoneRan ==
  ASSUME EngineInv, EngineInv', NEW x, Looping(x), call.phase \in {"update", "delete"},
         NEW r \in NextRows, NEW table, Put(call.stmt.t, table),
         NEW u \in UndoRecord, u.t = call.stmt.t, u.r = r, u.op \in {"Update", "Delete"},
         call' = [call EXCEPT !.todo = @ \ {r}, !.log = Append(@, u)],
         txn' = txn, locks' = locks,
         UndoneIn(TableView(table), u) = TableView(tables[call.stmt.t]),
         u.op = "Update" => r \in DOMAIN table.rows,
         LET rows == tables[call.stmt.t].rows IN
         TableView(table) =
           WithRows(TableView(tables[call.stmt.t]),
                    IF call.phase = "update"
                    THEN [rows EXCEPT ![r] = AssignedRow(rows[r], call.stmt.set)]
                    ELSE Dropped(rows, r))
  PROVE  Ran(x)'
<1> DEFINE t == call.stmt.t
<1>1. PICK b : /\ AlikeDb(b, x.db) /\ LoopSeenFrom(b)
               /\ Len(call.log) = Cardinality(Chosen(b[t], call.stmt.where) \ call.todo)
  BY DEF Looping
<1>2. /\ t \in DOMAIN tables /\ r \in call.todo
      /\ txn.undo \in Seq(UndoRecord) /\ call.log \in Seq(UndoRecord)
  BY InTheLoop DEF EngineInv, EngineType
<1>3. /\ call'.phase = call.phase /\ call'.stmt = call.stmt /\ call'.tx = call.tx
      /\ call'.todo = call.todo \ {r} /\ call'.log = Append(call.log, u)
  BY DEF EngineInv, EngineType
<1>4. LoopSeenFrom(b)'
  BY <1>1, LoopGoesOn
<1>5. Len(call'.log) = Cardinality(Chosen(b[call'.stmt.t], call'.stmt.where) \ call'.todo)
  <2> DEFINE chosen == Chosen(b[t], call.stmt.where)
  <2>1. t \in DOMAIN b /\ call.todo \subseteq chosen
    BY <1>1, <1>2 DEF LoopSeenFrom
  <2>2. Alike(b[t], x.db[t])
    BY <1>1, <2>1 DEF AlikeDb
  <2>3. IsFiniteSet(chosen)
    BY <2>2, AsManyChosen
  <2>4. Len(Append(call.log, u)) = Len(call.log) + 1
    BY <1>2, AppendProperties
  <2>5. Len(call.log) = Cardinality(chosen \ call.todo)
    BY <1>1
  <2> HIDE DEF chosen
  <2>6. Cardinality(chosen \ (call.todo \ {r})) = Cardinality(chosen \ call.todo) + 1
    BY <1>2, <2>1, <2>3, OneMoreDone
  <2>7. Len(call'.log) = Cardinality(chosen \ call'.todo)
    BY <1>3, <2>4, <2>5, <2>6
  <2> QED BY <1>3, <2>7 DEF chosen
<1>6. CanBeUndone(View', u) /\ UndoneView(View', u) = View
  BY <1>2, RecordOfChange
<1>7. Active /\ ~Doomed(x.undo, x.db) => LeadsTo(txn'.undo \o call'.log, View', x.base)
  <2> SUFFICES ASSUME Active, ~Doomed(x.undo, x.db)
               PROVE  LeadsTo(txn'.undo \o call'.log, View', x.base)
    OBVIOUS
  <2>1. LeadsTo(txn.undo \o call.log, View, x.base)
    BY DEF Looping
  <2>2. txn.undo \o call.log \in Seq(UndoRecord)
    BY <1>2, ConcatProperties
  <2>3. SoundView(View')
    BY SoundTablesAreSeen DEF EngineInv
  <2>4. LeadsTo(Append(txn.undo \o call.log, u), View', x.base)
    BY <1>6, <2>1, <2>2, <2>3, OneMoreLeadsTo
  <2>5. txn.undo \o Append(call.log, u) = Append(txn.undo \o call.log, u)
    BY <1>2, JoinOfAppended
  <2> QED BY <1>3, <2>4, <2>5
<1>8. Looping(x)'
  <2>1. LockedBy(txn.id)' /\ (Active' <=> Active)
    BY DEF Looping, LockedBy, Active
  <2> QED BY <1>1, <1>3, <1>4, <1>5, <1>7, <2>1 DEF Looping
<1> QED BY <1>3, <1>8 DEF Ran

\* A DELETE removes a row.
LEMMA DeleteOneRan ==
  ASSUME EngineInv, EngineInv', NEW x, Ran(x), DeleteOne
  PROVE  Ran(x)'
<1> DEFINE t == call.stmt.t
           u(r) == [op |-> "Delete", t |-> t, r |-> r, row |-> tables[t].rows[r]]
           table(r) == DeleteRow(tables[t], r)
<1>1. call.phase = "delete" /\ txn' = txn /\ locks' = locks
  BY DEF DeleteOne
<1>2. PICK r \in NextRows :
        /\ Put(t, table(r))
        /\ call' = [call EXCEPT !.todo = @ \ {r}, !.log = Append(@, u(r))]
  BY DEF DeleteOne
<1>3. r \in DOMAIN tables[t].rows /\ TableInv(tables[t]) /\ Looping(x)
  BY <1>1, InTheLoop DEF Ran
<1>4. /\ u(r) \in UndoRecord /\ u(r).t = t /\ u(r).r = r /\ u(r).op = "Delete"
      /\ u(r).row = tables[t].rows[r]
  BY <1>1, InTheLoop DEF UndoRecord
<1>5. TableView(table(r)) = WithRows(TableView(tables[t]), Dropped(tables[t].rows, r))
  BY SeenDeleteRow
<1> HIDE DEF u
<1>6. UndoneIn(TableView(table(r)), u(r)) = TableView(tables[t])
  BY <1>3, <1>4, RowOfRecord
<1> HIDE DEF table
<1> QED BY <1>1, <1>2, <1>3, <1>4, <1>5, <1>6, RowDoneRan

\* An UPDATE changes a row, or stops because the session does not permit it.
LEMMA UpdateRowRan ==
  ASSUME EngineInv, EngineInv', NEW x, Ran(x), UpdateRow
  PROVE  Ran(x)'
<1> DEFINE t == call.stmt.t
           s == call.stmt
<1>1. call.phase = "update" /\ Looping(x) /\ s.op = "Update"
  BY DEF UpdateRow, Ran, Looping
<1>2. ASSUME NEW r \in NextRows, RowUpdated(t, r)
      PROVE  Ran(x)'
  <2> DEFINE u == [op |-> "Update", t |-> t, r |-> r, row |-> tables[t].rows[r]]
             table == ReplaceRow(tables[t], r, Assigned(r))
  <2>1. /\ Put(t, table) /\ txn' = txn /\ locks' = locks
        /\ call' = [call EXCEPT !.todo = @ \ {r}, !.log = Append(@, u)]
    BY <1>2 DEF RowUpdated
  <2>2. r \in DOMAIN tables[t].rows /\ TableInv(tables[t])
    BY <1>1, InTheLoop
  <2>3. /\ u \in UndoRecord /\ u.t = t /\ u.r = r /\ u.op = "Update"
        /\ u.row = tables[t].rows[r]
    BY <1>1, InTheLoop DEF UndoRecord
  <2>4. Assigned(r) = AssignedRow(tables[t].rows[r], s.set)
    BY DEF Assigned, AssignedRow
  <2>5. TableView(table) =
          WithRows(TableView(tables[t]),
                   [tables[t].rows EXCEPT ![r] = AssignedRow(tables[t].rows[r], s.set)])
    BY <2>4, SeenReplaceRow
  <2>6. r \in DOMAIN table.rows
    BY <2>2 DEF ReplaceRow, With
  <2> HIDE DEF u
  <2>7. UndoneIn(TableView(table), u) = TableView(tables[t])
    BY <2>2, <2>3, RowOfRecord
  <2> HIDE DEF table
  <2> QED BY <1>1, <2>1, <2>3, <2>5, <2>6, <2>7, RowDoneRan
<1>3. ASSUME NEW r \in NextRows, ~Writable(tables[t], Assigned(r), r),
             call' = [call EXCEPT !.phase = "error", !.todo = {}],
             UNCHANGED <<tables, txn, locks, nextTx>>
      PROVE  Ran(x)'
  <2>1. call'.phase = "error" /\ call'.stmt = s /\ call'.log = call.log
    BY <1>3 DEF EngineInv, EngineType
  <2>2. PICK b : AlikeDb(b, x.db) /\ LoopSeenFrom(b)
    BY <1>1 DEF Looping
  <2>3. t \in DOMAIN b /\ IsSeen(b[t]) /\ Alike(b[t], x.db[t]) /\ t \in DOMAIN x.db
    BY <1>1, <2>2, InTheLoop DEF LoopSeenFrom, AlikeDb
  <2>4. ~Sound(Assign(b[t], Chosen(b[t], s.where), s.set))
    BY <1>1, <1>3, <2>2, ClashIsFinal
  <2>5. Changed(b[t], s) = Assign(b[t], Chosen(b[t], s.where), s.set)
    <3>1. Changed(b[t], s) = WithRows(b[t], AssignedRows(b[t].rows, Chosen(b[t], s.where), s.set))
      BY <1>1 DEF Changed
    <3> QED BY <2>3, <3>1, AssignIsSeen
  <2>6. ~Permits(x, s)
    <3>1. ~Takes(b[t], s)
      BY <2>4, <2>5 DEF Takes
    <3>2. s.op \in OnTable
      BY <1>1 DEF OnTable
    <3>3. ~Takes(x.db[t], s)
      BY <2>3, <3>1, <3>2, TakesAlike
    <3>4. ~PermitsOn(x.db, s)
      BY <3>2, <3>3 DEF PermitsOn
    <3> QED BY <1>1, <3>4, AfterOf
  <2>7. ~Permits(x, call'.stmt)
    BY <2>1, <2>6
  <2>8. ASSUME call.log = <<>>
        PROVE  Tracks(x)'
    <3>1. AlikeDb(View, x.db)
      BY <2>2, <2>8 DEF LoopSeenFrom
    <3>2. txn.undo \o call.log = txn.undo
      BY <2>8, ConcatEmptySeq DEF EngineInv, EngineType
    <3>3. Tracks(x)
      BY <1>1, <3>1, <3>2 DEF Looping, Tracks
    <3>4. LockedBy(txn.id)'
      BY <1>3, <3>3 DEF Tracks, LockedBy
    <3> QED BY <1>3, <3>3, <3>4, TracksUnchanged
  <2> QED BY <2>1, <2>7, <2>8 DEF Ran
<1> QED BY <1>2, <1>3 DEF UpdateRow

\* UPDATE and DELETE end in the session after them.
LEMMA LoopDoneRan ==
  ASSUME EngineInv, EngineInv', NEW x, Ran(x), LoopDone
  PROVE  Ran(x)'
<1> DEFINE t == call.stmt.t
           s == call.stmt
<1>1. /\ call.phase \in {"update", "delete"} /\ call.todo = {} /\ Looping(x)
      /\ Records(call.log) /\ Ends(s, "ok") /\ tables' = tables /\ locks' = locks
  BY DEF LoopDone, Ran
<1>2. /\ s.op = (IF call.phase = "update" THEN "Update" ELSE "Delete")
      /\ s.op \in {"Update", "Delete"} /\ s.op \in OnTable /\ Matters(s)
      /\ (Active <=> x.open) /\ Kinds(txn.undo) = x.undo /\ LockedBy(txn.id)
  BY <1>1 DEF Looping, OnTable, Matters
<1>3. PICK b : /\ AlikeDb(b, x.db) /\ LoopSeenFrom(b)
               /\ Len(call.log) = Cardinality(Chosen(b[t], s.where) \ call.todo)
  BY <1>1 DEF Looping
<1>4. /\ t \in DOMAIN tables /\ txn.undo \in Seq(UndoRecord) /\ call.log \in Seq(UndoRecord)
      /\ \A n \in DOMAIN call.log : call.log[n].t = t /\ call.log[n].op = s.op
  BY <1>1, <1>2 DEF EngineInv, EngineType, LoopInv
<1>5. /\ t \in DOMAIN b /\ IsSeen(b[t]) /\ Alike(b[t], x.db[t]) /\ t \in DOMAIN x.db
      /\ DOMAIN b = DOMAIN tables
  BY <1>3, <1>4 DEF LoopSeenFrom, AlikeDb
<1>6. View[t] = Changed(b[t], s)
  <2>1. Chosen(b[t], s.where) \ call.todo = Chosen(b[t], s.where)
    BY <1>1
  <2>2. View[t] = SeenAfter(b[t], Chosen(b[t], s.where))
    BY <1>3, <2>1 DEF LoopSeenFrom
  <2> QED BY <1>1, <1>2, <2>2 DEF SeenAfter, Changed
<1>7. View = DbAfter(b, s)
  <2>1. DbAfter(b, s) = Added(b, t, Changed(b[t], s))
    BY <1>2, EffectOf
  <2>2. View = [q \in DOMAIN tables |-> View[q]]
    BY SeenTables
  <2>3. \A q \in DOMAIN tables : q # t => b[q] = View[q]
    BY <1>3 DEF LoopSeenFrom
  <2>4. DOMAIN b \cup {t} = DOMAIN tables
    BY <1>4, <1>5
  <2>5. DbAfter(b, s) = [q \in DOMAIN tables |-> IF q = t THEN Changed(b[t], s) ELSE b[q]]
    BY <2>1, <2>4 DEF Added
  <2> QED BY <1>6, <2>2, <2>3, <2>5
<1>8. PermitsOn(b, s)
  <2>1. TableInv(tables[t]) /\ View[t] = TableView(tables[t])
    BY <1>4, SeenTables DEF EngineInv, SoundTables
  <2>2. Sound(Changed(b[t], s))
    BY <1>6, <2>1, SoundIsSeen
  <2>3. tables[t].schema = b[t].schema
    <3>1. TableView(tables[t]).schema = tables[t].schema
      BY DEF TableView
    <3>2. Changed(b[t], s).schema = b[t].schema
      BY <1>2 DEF Changed, WithRows
    <3> QED BY <1>6, <2>1, <3>1, <3>2
  <2>4. ResolvedBy(b[t].schema, s.where) /\ (s.op = "Update" => ResolvedBy(b[t].schema, s.set))
    BY <1>1, <1>2, <1>3, <2>3 DEF LoopSeenFrom, Resolves, ResolvedBy
  <2>5. Takes(b[t], s)
    BY <1>2, <2>2, <2>4 DEF Takes
  <2> QED BY <1>2, <1>5, <2>5 DEF PermitsOn
<1>9. PermitsOn(x.db, s) /\ AlikeDb(View, DbAfter(x.db, s))
  BY <1>3, <1>7, <1>8, PermitsAlike, DbAfterAlike
<1>10. Recorded(x.db, s) = Kinds(call.log) /\ Kinds(call.log) \in Seq(KindRecord)
  <2>1. Recorded(b, s) = Recorded(x.db, s)
    BY <1>2, <1>3, <1>5, PermitsAlike
  <2>2. Chosen(b[t], s.where) \ call.todo = Chosen(b[t], s.where)
    BY <1>1
  <2>3. Recorded(b, s) = [n \in 1..Len(call.log) |-> [op |-> s.op, t |-> t]]
    <3>1. Recorded(b, s) = [n \in 1..Cardinality(Chosen(b[t], s.where)) |-> [op |-> s.op, t |-> t]]
      BY <1>2 DEF Recorded
    <3>2. Len(call.log) = Cardinality(Chosen(b[t], s.where))
      BY <1>3, <2>2
    <3> QED BY <3>1, <3>2
  <2>4. /\ DOMAIN Kinds(call.log) = 1..Len(call.log) /\ DOMAIN call.log = 1..Len(call.log)
        /\ Kinds(call.log) \in Seq(KindRecord)
    BY <1>4, KindsAreRecords
  <2>5. Kinds(call.log) = [n \in 1..Len(call.log) |-> Kind(call.log[n])]
    BY <2>4 DEF Kinds
  <2>6. \A n \in 1..Len(call.log) : Kind(call.log[n]) = [op |-> s.op, t |-> t]
    BY <1>2, <1>4, <2>4 DEF Kind
  <2> QED BY <2>1, <2>3, <2>4, <2>5, <2>6
<1> PICK c : c = s
  OBVIOUS
<1> DEFINE y == After(x, c)
<1>11. /\ y.db = DbAfter(x.db, s) /\ y.open = x.open /\ y.base = x.base
       /\ y.undo = IF x.open THEN x.undo \o Kinds(call.log) ELSE x.undo
       /\ Permits(x, c)
  <2>1. BaseAfter(x.base, s) = x.base
    BY <1>2 DEF BaseAfter
  <2> QED BY <1>2, <1>9, <1>10, <2>1, AfterOf
<1> HIDE DEF y
<1>12. /\ txn'.id = txn.id /\ (Active' <=> Active) /\ View' = View
       /\ txn'.undo = IF Active THEN txn.undo \o call.log ELSE txn.undo
  BY <1>1, <1>4 DEF Records, Active, View, EngineInv, EngineType
<1>13. Kinds(txn'.undo) = y.undo
  <2>1. Kinds(txn.undo \o call.log) = x.undo \o Kinds(call.log)
    BY <1>2, <1>4, KindsJoined
  <2> QED BY <1>2, <1>11, <1>12, <2>1
<1>14. LockedBy(txn.id)'
  BY <1>1, <1>2, <1>12 DEF LockedBy
<1>15. ASSUME Active, ~Doomed(y.undo, y.db)
       PROVE  LeadsTo(txn'.undo, View', y.base)
  <2>1. x.undo \in Seq(KindRecord)
    BY <1>2, <1>4, KindsAreRecords
  <2>2. ~Doomed(x.undo, x.db)
    BY <1>2, <1>9, <1>10, <1>11, <1>15, <2>1, DoomedAfter
  <2> QED BY <1>1, <1>11, <1>12, <1>15, <2>2 DEF Looping
<1>16. Tracks(y)'
  BY <1>2, <1>9, <1>11, <1>12, <1>13, <1>14, <1>15 DEF Tracks
<1> QED BY <1>1, <1>2, <1>11, <1>16, SucceedsRan DEF y

\* A ROLLBACK that cannot get to the end does not get there by undoing the
\* last record.
LEMMA DoomedUndone ==
  ASSUME NEW log \in Seq(UndoRecord), log # <<>>, NEW u, u = Last(log), NEW now,
         CanBeUndone(now, u), Doomed(Kinds(log), now)
  PROVE  Doomed(Kinds(Front(log)), UndoneView(now, u))
<1> DEFINE new == UndoneView(now, u)
           front == Front(log)
           last == Len(log)
<1>1. /\ front \in Seq(UndoRecord) /\ last \in Nat \ {0} /\ DOMAIN log = 1..last
      /\ DOMAIN front = 1..(last - 1) /\ \A n \in 1..(last - 1) : front[n] = log[n]
      /\ u = log[last]
  BY ShortenedLog
<1>2. /\ DOMAIN Kinds(log) = 1..last /\ \A n \in 1..last : Kinds(log)[n] = Kind(log[n])
      /\ DOMAIN Kinds(front) = 1..(last - 1)
      /\ \A n \in 1..(last - 1) : Kinds(front)[n] = Kind(log[n])
  BY <1>1, KindsAreRecords
<1> HIDE DEF front, last
<1>3. /\ DOMAIN new \subseteq DOMAIN now
      /\ \A t \in DOMAIN new : DOMAIN new[t].idx \subseteq DOMAIN now[t].idx
      /\ u.op = "CreateTable" => u.t \notin DOMAIN new
      /\ u.op = "CreateIndex" /\ u.t \in DOMAIN new => u.i \notin DOMAIN new[u.t].idx
  BY DEF UndoneView, UndoneIn, Dropped, WithIdx, WithRows
<1> HIDE DEF new
<1>4. \A k : Lost(k, now) => Lost(k, new)
  BY <1>3 DEF Lost
<1>5. \A k : Remakes(Kind(u), k) => Lost(k, new)
  BY <1>3 DEF Remakes, Lost, Kind
<1>6. ~Lost(Kind(u), now)
  BY DEF CanBeUndone, Lost, Kind
<1>7. PICK n \in 1..last : \/ Lost(Kind(log[n]), now)
                           \/ \E m \in 1..last : m > n /\ Remakes(Kind(log[m]), Kind(log[n]))
  BY <1>2 DEF Doomed
<1>8. n \in 1..(last - 1)
  <2>1. CASE n = last
    <3>1. ~ \E m \in 1..last : m > last
      BY <1>1
    <3> QED BY <1>1, <1>6, <1>7, <2>1, <3>1
  <2> QED BY <1>1, <2>1
<1>9. CASE Lost(Kind(log[n]), new)
  BY <1>2, <1>8, <1>9 DEF Doomed, front, new
<1>10. ASSUME NEW m \in 1..last, m > n, Remakes(Kind(log[m]), Kind(log[n])), m # last
       PROVE  Doomed(Kinds(front), new)
  <2>1. m \in 1..(last - 1)
    BY <1>1, <1>10
  <2> QED BY <1>2, <1>8, <1>10, <2>1 DEF Doomed
<1> QED BY <1>1, <1>4, <1>5, <1>7, <1>9, <1>10 DEF front, new

\* A ROLLBACK undoes a record, or fails because it was bound to.
LEMMA UndoLastRan ==
  ASSUME EngineInv, EngineInv', NEW x, Ran(x), UndoLast
  PROVE  Ran(x)'
<1> DEFINE u == Last(call.log)
<1>1. /\ call.phase = "undo" /\ call.log # <<>> /\ Undoing(x)
      /\ txn' = txn /\ locks' = locks
  BY DEF UndoLast, Ran
<1>2. call.log \in Seq(UndoRecord) /\ u \in UndoRecord
  <2>1. call.log \in Seq(UndoRecord)
    BY DEF EngineInv, EngineType
  <2> QED BY <1>1, <2>1, ShortenedLog
<1> HIDE DEF u
<1>3. \A b : CanBeRestored(call.log, View, b) =>
        /\ CanBeUndone(View, u) /\ SoundView(UndoneView(View, u))
        /\ CanBeRestored(Front(call.log), UndoneView(View, u), b)
  BY <1>1, <1>2, OneLessToUndo DEF u
<1>4. CASE CanUndo(u) /\ Undoes(u) /\ call' = [call EXCEPT !.log = Front(@)]
  <2>1. View' = UndoneView(View, u)
    BY <1>2, <1>4, SeenUndo
  <2>2. CanBeUndone(View, u)
    <3>1. \A t \in DOMAIN tables : /\ t \in DOMAIN View /\ DOMAIN View[t].rows = DOMAIN tables[t].rows
                                   /\ DOMAIN View[t].idx = DOMAIN tables[t].idx
      BY SeenTables DEF TableView
    <3> QED BY <1>4, <3>1 DEF CanUndo, CanBeUndone
  <2>3. /\ call'.phase = "undo" /\ call'.stmt = call.stmt /\ call'.tx = call.tx
        /\ call'.log = Front(call.log)
    BY <1>1, <1>4 DEF EngineInv, EngineType
  <2>4. ~Doomed(x.undo, x.db) => LeadsTo(call'.log, View', x.base)
    <3>1. ~Doomed(x.undo, x.db) => LeadsTo(call.log, View, x.base)
      BY <1>1 DEF Undoing
    <3> QED BY <1>3, <2>1, <2>3, <3>1 DEF LeadsTo
  <2>5. Doomed(x.undo, x.db) => Doomed(Kinds(call'.log), View')
    <3>1. Doomed(x.undo, x.db) => Doomed(Kinds(call.log), View)
      BY <1>1 DEF Undoing
    <3>2. Doomed(Kinds(call.log), View) => Doomed(Kinds(Front(call.log)), UndoneView(View, u))
      BY <1>1, <1>2, <2>2, DoomedUndone DEF u
    <3> QED BY <2>1, <2>3, <3>1, <3>2
  <2>6. LockedBy(call.tx)'
    BY <1>1, <2>3 DEF Undoing, LockedBy
  <2>7. Undoing(x)'
    BY <1>1, <2>3, <2>4, <2>5, <2>6 DEF Undoing
  <2> QED BY <2>3, <2>7 DEF Ran
<1>5. CASE ~CanUndo(u) /\ call' = [call EXCEPT !.phase = "error"] /\ UNCHANGED tables
  <2>1. call'.phase = "error" /\ call'.stmt = call.stmt /\ call'.tx = call.tx
    BY <1>5 DEF EngineInv, EngineType
  <2>2. Doomed(x.undo, x.db)
    <3>1. ~Doomed(x.undo, x.db) => \E b : CanBeRestored(call.log, View, b)
      BY <1>1 DEF Undoing, LeadsTo
    <3>2. CanBeUndone(View, u) /\ SoundView(UndoneView(View, u)) => CanUndo(u)
      BY <1>2, SeenCanUndo
    <3> QED BY <1>3, <1>5, <3>1, <3>2
  <2>3. call.stmt.op = "Rollback" /\ call.tx # NoTx
    BY <1>1 DEF Undoing
  <2>4. ~Permits(x, call'.stmt)
    BY <2>1, <2>2, <2>3 DEF Permits
  <2> QED BY <2>1, <2>3, <2>4 DEF Ran
<1> QED BY <1>4, <1>5 DEF UndoLast, u

\* A ROLLBACK gets to the end, and to where the session goes back to.
LEMMA UndoDoneRan ==
  ASSUME EngineInv, EngineInv', NEW x, Ran(x), UndoDone
  PROVE  Ran(x)'
<1>1. /\ call.phase = "undo" /\ call.log = <<>> /\ Undoing(x) /\ locks' = Unlocked(call.tx)
      /\ tables' = tables /\ txn' = txn /\ call'.phase = "ok" /\ call'.stmt = call.stmt
  BY DEF UndoDone, Ran, EngineInv, EngineType
<1>2. PICK s : s = call.stmt
  OBVIOUS
<1>3. s.op = "Rollback" /\ x.open /\ txn = NoTxn
  BY <1>1, <1>2 DEF Undoing
<1>4. ~Doomed(x.undo, x.db)
  <2>1. Kinds(call.log) = <<>>
    BY <1>1, EmptySeq, KindsAreRecords
  <2>2. ~Doomed(<<>>, View)
    BY DEF Doomed
  <2> QED BY <1>1, <2>1, <2>2 DEF Undoing
<1>5. AlikeDb(View, x.base)
  <2>1. PICK b : CanBeRestored(<<>>, View, b) /\ AlikeDb(b, x.base)
    BY <1>1, <1>4 DEF Undoing, LeadsTo
  <2> QED BY <2>1, NothingToUndo
<1>6. /\ Permits(x, s)
      /\ After(x, s) = [db |-> x.base, open |-> FALSE, undo |-> <<>>, base |-> x.base]
  BY <1>3, <1>4 DEF Permits, After
<1>7. txn'.undo = <<>> /\ txn'.id = NoTx /\ ~Active' /\ View' = View
  BY <1>1, <1>3 DEF NoTxn, Active, View
<1>8. LockedBy(txn.id)'
  <2>1. LockedBy(NoTx)'
    BY <1>1, LocksOfOne DEF EngineInv, Undoing
  <2> QED BY <1>7, <2>1 DEF LockedBy
<1>9. Kinds(txn'.undo) = <<>>
  BY <1>7, EmptySeq, KindsAreRecords
<1>10. Tracks(After(x, s))'
  BY <1>5, <1>6, <1>7, <1>8, <1>9 DEF Tracks
<1>11. Tracks(After(x, call.stmt))'
  BY <1>1, <1>2, <1>10 DEF Tracks
<1>12. Permits(x, call'.stmt)
  BY <1>1, <1>2, <1>6
<1>13. Matters(call.stmt)'
  BY <1>1, <1>2, <1>3 DEF Matters
<1> QED BY <1>1, <1>11, <1>12, <1>13 DEF Ran

\* A later step of a statement.
LEMMA ContinuesRan ==
  ASSUME EngineInv, EngineInv', NEW x, Ran(x), Continues
  PROVE  Ran(x)'
BY UpdateRowRan, DeleteOneRan, LoopDoneRan, UndoLastRan, UndoDoneRan DEF Continues

\* The statement is over.
LEMMA ReturnsRan ==
  ASSUME NEW x, Tracks(x), Returns
  PROVE  Ran(x)' /\ Tracks(x)'
<1>1. tables' = tables /\ txn' = txn /\ locks' = locks /\ call'.phase = "ready"
  BY DEF Returns, Ready
<1>2. LockedBy(txn.id)'
  BY <1>1 DEF Tracks, LockedBy
<1>3. Tracks(x)'
  BY <1>1, <1>2, TracksUnchanged
<1> QED BY <1>1, <1>3 DEF Ran

=============================================================================
