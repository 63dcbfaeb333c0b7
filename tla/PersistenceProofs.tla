------------------------- MODULE PersistenceProofs -------------------------
(***************************************************************************)
(* The engine on a data directory keeps its tables sound, whatever is      *)
(* lost: deaths between any two writes, writes that fail, snapshots left   *)
(* half written, logs with glued records, and reading all of them again.   *)
(* And as long as the log tells everything that was done, opening the      *)
(* directory succeeds and shows what the log promises.                     *)
(*                                                                         *)
(* The rows of a snapshot are stored under the ids they had, and           *)
(* insert_with_row_id does not look whether an id is in use.  So it        *)
(* matters that no snapshot, finished or not, tells a row id twice: this   *)
(* ties the file to the tables for as long as it is being written, and the *)
(* tables to the file for as long as it is being read.                     *)
(*                                                                         *)
(* The second part follows two executions of the same statements, the one  *)
(* that wrote the log and the one that reads it.  Both are compared with   *)
(* the sessions of the log (module Sessions), one for each of its          *)
(* prefixes, up to the ids of the rows.                                    *)
(***************************************************************************)
EXTENDS Persistence, EngineProofs

\* A file is a sequence of lines.
Lines(lines) == lines \in Seq(Range(lines))

\* A line that `open` may read: what it tells of has the right type.
LineFits(l) ==
  /\ l.kind \in {"table", "index", "row"}
  /\ l.kind = "table" => l.t \in TableName /\ l.schema \in Schema
  /\ l.kind = "index" => l.unique \in BOOLEAN
  /\ l.kind = "row" => l.r \in RowId

\* The snapshot, however much of it was written: after the header no line has
\* a wrong type, and no row of a table is told twice.
SnapshotInv ==
  /\ Lines(snap.lines)
  /\ \A n \in DOMAIN snap.lines :
       IF n = 1 THEN snap.lines[n].kind = "header" ELSE LineFits(snap.lines[n])
  /\ \A n, m \in DOMAIN snap.lines :
       /\ n # m /\ snap.lines[n].kind = "row" /\ snap.lines[m].kind = "row"
       /\ snap.lines[n].t = snap.lines[m].t
       => snap.lines[n].r # snap.lines[m].r

\* The log: the statements in it are statements.
LogInv ==
  /\ Lines(wal.lines)
  /\ wal.open => wal.lines # <<>>
  /\ \A n \in DOMAIN wal.lines : wal.lines[n].kind = "sql" => wal.lines[n].stmt \in Stmts

\* Where the process is, and what the memory holds there.
ModeInv ==
  /\ pos \in Nat \ {0}
  /\ mode \in {"down", "snapshot"} => call = Ready /\ txn = NoTxn
  /\ mode = "down" => DOMAIN tables = {}
  /\ mode # "up" => io = "none"
  /\ io = "newline" => call.phase = "ok"
  /\ io \in {"snapshot", "marker", "truncate"} => call.phase = "checkpoint"
  /\ call.phase # "ready" => call.stmt \in Stmts

\* While the snapshot is read, each row comes from a line that was read.
LoadInv ==
  mode = "snapshot" =>
    /\ pos > 1
    /\ \A t \in DOMAIN tables : \A r \in DOMAIN tables[t].rows :
         \E n \in DOMAIN snap.lines :
           /\ n < pos /\ snap.lines[n].kind = "row"
           /\ snap.lines[n].t = t /\ snap.lines[n].r = r

\* While it is written, each line after the header tells of the tables as they are.
WriteInv ==
  io = "snapshot" =>
    \A n \in DOMAIN snap.lines :
      n # 1 => \E t \in DOMAIN tables : snap.lines[n] \in SnapshotLines(t)

DiskInv == SnapshotInv /\ LogInv /\ ModeInv /\ LoadInv /\ WriteInv

-----------------------------------------------------------------------------
(* Files.                                                                  *)

\* Every sequence is one of lines.
LEMMA SequencesAreLines ==
  ASSUME NEW S, NEW lines \in Seq(S)
  PROVE  Lines(lines)
<1>1. Len(lines) \in Nat /\ DOMAIN lines = 1..Len(lines) /\ lines \in [1..Len(lines) -> S]
  BY LenProperties
<1>2. lines \in [1..Len(lines) -> Range(lines)]
  BY <1>1 DEF Range
<1> QED BY <1>1, <1>2, SeqDef DEF Lines

\* A line is written at the end of a file.
LEMMA LineAppended ==
  ASSUME NEW lines, Lines(lines), NEW l
  PROVE  /\ Lines(Append(lines, l))
         /\ Len(lines) \in Nat /\ DOMAIN lines = 1..Len(lines)
         /\ DOMAIN Append(lines, l) = 1..(Len(lines) + 1)
         /\ \A n \in 1..Len(lines) : Append(lines, l)[n] = lines[n]
         /\ Append(lines, l)[Len(lines) + 1] = l
<1> DEFINE S == Range(lines) \cup {l}
<1>1. lines \in [1..Len(lines) -> Range(lines)] /\ Len(lines) \in Nat /\ DOMAIN lines = 1..Len(lines)
  BY LenProperties DEF Lines
<1>2. lines \in [1..Len(lines) -> S]
  BY <1>1
<1>3. lines \in Seq(S) /\ l \in S
  BY <1>1, <1>2, SeqDef
<1> HIDE DEF S
<1>4. /\ Append(lines, l) \in Seq(S)
      /\ Len(Append(lines, l)) = Len(lines) + 1
      /\ \A n \in 1..Len(lines) : Append(lines, l)[n] = lines[n]
      /\ Append(lines, l)[Len(lines) + 1] = l
  BY <1>3, AppendProperties
<1>5. DOMAIN Append(lines, l) = 1..(Len(lines) + 1)
  BY <1>4, LenProperties
<1>6. Lines(Append(lines, l))
  BY <1>4, SequencesAreLines
<1> QED BY <1>1, <1>4, <1>5, <1>6

\* The last line of a file is taken away.
LEMMA LineCut ==
  ASSUME NEW lines, Lines(lines), lines # <<>>
  PROVE  /\ Lines(Front(lines))
         /\ Len(lines) \in Nat \ {0} /\ DOMAIN lines = 1..Len(lines)
         /\ DOMAIN Front(lines) = 1..(Len(lines) - 1)
         /\ \A n \in 1..(Len(lines) - 1) : Front(lines)[n] = lines[n]
<1> DEFINE S == Range(lines)
<1>1. lines \in Seq(S)
  BY DEF Lines
<1> HIDE DEF S
<1>2. Len(lines) \in Nat \ {0} /\ DOMAIN lines = 1..Len(lines)
  BY <1>1, EmptySeq, LenProperties
<1>3. \A n \in 1..Len(lines) : lines[n] \in S
  BY <1>1, <1>2, ElementOfSeq
<1>4. 1 \in Int /\ Len(lines) - 1 \in Int /\ \A n \in 1..(Len(lines) - 1) : lines[n] \in S
  BY <1>2, <1>3
<1>5. /\ Front(lines) \in Seq(S)
      /\ Len(Front(lines)) = IF 1 <= Len(lines) - 1 THEN Len(lines) - 1 - 1 + 1 ELSE 0
      /\ \A n \in 1..(Len(lines) - 1 - 1 + 1) : Front(lines)[n] = lines[1 + n - 1]
  BY <1>4, SubSeqProperties DEF Front
<1> HIDE DEF Front
<1>6. \A k \in Nat \ {0} : k - 1 - 1 + 1 = k - 1 /\ (IF 1 <= k - 1 THEN k - 1 - 1 + 1 ELSE 0) = k - 1
  OBVIOUS
<1>7. \A n \in 1..(Len(lines) - 1) : 1 + n - 1 = n
  BY <1>2
<1>8. Len(Front(lines)) = Len(lines) - 1 /\ \A n \in 1..(Len(lines) - 1) : Front(lines)[n] = lines[n]
  BY <1>2, <1>5, <1>6, <1>7
<1>9. DOMAIN Front(lines) = 1..(Len(lines) - 1)
  BY <1>5, <1>8, LenProperties
<1>10. Lines(Front(lines))
  BY <1>5, SequencesAreLines
<1> QED BY <1>2, <1>8, <1>9, <1>10

\* append_record: a record joins the log, or is glued to a line without end.
LEMMA LogAppended ==
  ASSUME LogInv, NEW line, line.kind = "sql" => line.stmt \in Stmts, wal' = Appended(line)
  PROVE  LogInv'
<1>1. CASE wal.open
  <2> DEFINE front == Front(wal.lines)
             glued == [kind |-> "glued"]
  <2>1. wal'.lines = Append(front, glued)
    BY <1>1 DEF Appended
  <2>2. Lines(front) /\ \A n \in DOMAIN front : n \in DOMAIN wal.lines /\ front[n] = wal.lines[n]
    BY <1>1, LineCut DEF LogInv
  <2> HIDE DEF front
  <2>3. /\ Lines(Append(front, glued))
        /\ DOMAIN Append(front, glued) = 1..(Len(front) + 1) /\ Len(front) \in Nat
        /\ DOMAIN front = 1..Len(front)
        /\ \A n \in 1..Len(front) : Append(front, glued)[n] = front[n]
        /\ Append(front, glued)[Len(front) + 1] = glued
    BY <2>2, LineAppended
  <2>4. Append(front, glued) # <<>>
    BY <2>3
  <2>5. \A n \in DOMAIN Append(front, glued) : n \in DOMAIN front \/ n = Len(front) + 1
    BY <2>3
  <2>6. \A n \in DOMAIN Append(front, glued) :
          Append(front, glued)[n].kind = "sql" => Append(front, glued)[n].stmt \in Stmts
    BY <2>2, <2>3, <2>5 DEF LogInv
  <2> QED BY <2>1, <2>3, <2>4, <2>6 DEF LogInv
<1>2. CASE ~wal.open
  <2> DEFINE new == Append(wal.lines, line)
  <2>1. wal'.lines = new
    BY <1>2 DEF Appended
  <2>2. /\ Lines(new)
        /\ DOMAIN new = 1..(Len(wal.lines) + 1) /\ Len(wal.lines) \in Nat
        /\ DOMAIN wal.lines = 1..Len(wal.lines)
        /\ \A n \in 1..Len(wal.lines) : new[n] = wal.lines[n]
        /\ new[Len(wal.lines) + 1] = line
    BY LineAppended DEF LogInv
  <2> HIDE DEF new
  <2>3. new # <<>>
    BY <2>2
  <2>4. \A n \in DOMAIN new : n \in DOMAIN wal.lines \/ n = Len(wal.lines) + 1
    BY <2>2
  <2>5. \A n \in DOMAIN new : new[n].kind = "sql" => new[n].stmt \in Stmts
    BY <2>2, <2>4 DEF LogInv
  <2> QED BY <2>1, <2>2, <2>3, <2>5 DEF LogInv
<1> QED BY <1>1, <1>2

-----------------------------------------------------------------------------
(* Statements.                                                             *)

\* After its first step a statement runs, and it is the one that was sent.
LEMMA StartRuns ==
  ASSUME NEW s \in Stmts, Start(s)
  PROVE  call'.phase # "ready" /\ call'.stmt = s
<1>1. \A result \in {"ok", "error"} : Ends(s, result) => call'.phase = result /\ call'.stmt = s
  BY DEF Ends, Ready
<1>2. \A phase \in {"update", "delete"} : Loops(s, phase) => call'.phase = phase /\ call'.stmt = s
  BY DEF Loops
<1>3. CASE Refused(s)
  BY <1>1, <1>3 DEF Refused, Fails
<1>4. CASE CreateTableStmt(s) \/ DropTableStmt(s) \/ CreateIndexStmt(s) \/ DropIndexStmt(s)
  BY <1>1, <1>4 DEF CreateTableStmt, DropTableStmt, CreateIndexStmt, DropIndexStmt, Fails
<1>5. CASE InsertStmt(s) \/ SelectStmt(s)
  BY <1>1, <1>5 DEF InsertStmt, SelectStmt, Fails
<1>6. CASE StartUpdate(s) \/ StartDelete(s)
  BY <1>1, <1>2, <1>6 DEF StartUpdate, StartDelete, Fails
<1>7. CASE BeginStmt(s) \/ CommitStmt(s) \/ RollbackStmt(s)
  BY <1>1, <1>7 DEF BeginStmt, CommitStmt, RollbackStmt, Fails
<1> QED BY <1>3, <1>4, <1>5, <1>6, <1>7 DEF Start

\* A later step of a statement leaves it the same statement, still running.
LEMMA ContinuesRuns ==
  ASSUME EngineInv, Continues
  PROVE  /\ call.phase \in {"update", "delete", "undo"}
         /\ call'.phase # "ready" /\ call'.stmt = call.stmt
<1>1. call \in [phase : Phase, stmt : Stmts \cup {Ready.stmt}, todo : SUBSET RowId,
                log : Seq(UndoRecord), tx : Nat]
  BY DEF EngineInv, EngineType
<1>2. CASE UpdateRow
  BY <1>1, <1>2 DEF UpdateRow, RowUpdated
<1>3. CASE DeleteOne
  BY <1>1, <1>3 DEF DeleteOne
<1>4. CASE LoopDone
  BY <1>1, <1>4 DEF LoopDone, Ends, Ready
<1>5. CASE UndoLast
  BY <1>1, <1>5 DEF UndoLast
<1>6. CASE UndoDone
  BY <1>1, <1>6 DEF UndoDone
<1> QED BY <1>2, <1>3, <1>4, <1>5, <1>6 DEF Continues

\* CHECKPOINT begins or ends: only the phase of the call changes.
LEMMA CheckpointPhase ==
  ASSUME EngineInv, UNCHANGED <<tables, txn, locks, nextTx>>,
         call.phase \in {"ready", "checkpoint"}, call'.phase \in {"checkpoint", "ok", "error"},
         call' \in [phase : Phase, stmt : Stmts \cup {Ready.stmt}, todo : SUBSET RowId,
                    log : Seq(UndoRecord), tx : Nat]
  PROVE  EngineInv'
<1>1. Pending = txn.undo /\ Pending' = txn.undo
  BY DEF Pending
<1>2. EngineType'
  BY DEF EngineInv, EngineType
<1>3. LoopInv' /\ TxnInv'
  BY DEF EngineInv, LoopInv, TxnInv, Active
<1> QED BY <1>1, <1>2, <1>3 DEF EngineInv

-----------------------------------------------------------------------------
(* The session: statements, the log, CHECKPOINT.                           *)

\* What is left to show of a step of the open database that leaves the
\* snapshot alone.
LEMMA UpStep ==
  ASSUME EngineInv', DiskInv, LogInv', snap' = snap, mode' = "up", pos' = pos,
         call'.phase # "ready" => call'.stmt \in Stmts,
         io' \in {"none", "newline", "marker", "truncate"},
         io' = "newline" => call'.phase = "ok",
         io' \in {"marker", "truncate"} => call'.phase = "checkpoint"
  PROVE  EngineInv' /\ DiskInv'
<1>1. SnapshotInv'
  BY DEF DiskInv, SnapshotInv
<1>2. ModeInv'
  BY DEF DiskInv, ModeInv
<1>3. LoadInv' /\ WriteInv'
  BY DEF LoadInv, WriteInv
<1> QED BY <1>1, <1>2, <1>3 DEF DiskInv

\* Statements are executed, and the log is none of their business.
LEMMA ExecuteStep ==
  ASSUME EngineInv, DiskInv, Execute
  PROVE  EngineInv' /\ DiskInv'
<1>1. /\ snap' = snap /\ wal' = wal /\ mode' = "up" /\ pos' = pos /\ io' = "none"
  BY DEF Execute, diskVars
<1>2. EngineInv' /\ (call'.phase # "ready" => call'.stmt \in Stmts)
  <2>1. CASE \E s \in Stmts : Start(s)
    BY <2>1, StartInv, StartRuns
  <2>2. CASE Continues
    BY <2>2, ContinuesInv, ContinuesRuns DEF DiskInv, ModeInv
  <2> QED BY <2>1, <2>2 DEF Execute
<1>3. LogInv'
  BY <1>1 DEF DiskInv, LogInv
<1> QED BY <1>1, <1>2, <1>3, UpStep

\* The text of a statement reaches the log.
LEMMA LogTextStep ==
  ASSUME EngineInv, DiskInv, LogText
  PROVE  EngineInv' /\ DiskInv'
<1>1. /\ call.phase = "ok" /\ UNCHANGED engineVars
      /\ snap' = snap /\ mode' = "up" /\ pos' = pos /\ io' = "newline"
      /\ wal' = Appended([kind |-> "sql", stmt |-> call.stmt])
  BY DEF LogText
<1>2. EngineInv' /\ call' = call
  BY <1>1, EngineNextInv DEF engineVars
<1>3. call.stmt \in Stmts
  BY <1>1 DEF DiskInv, ModeInv
<1>4. LogInv'
  BY <1>1, <1>3, LogAppended DEF DiskInv
<1> QED BY <1>1, <1>2, <1>3, <1>4, UpStep

\* A statement returns, logged or not, or with the error of a log that
\* cannot be written.
LEMMA ReturnStep ==
  ASSUME EngineInv, DiskInv, Return \/ LogNewline \/ LogFails
  PROVE  EngineInv' /\ DiskInv'
<1>1. Returns /\ snap' = snap /\ mode' = "up" /\ pos' = pos /\ io' = "none"
  BY DEF Return, LogNewline, LogFails, diskVars
<1>2. EngineInv' /\ call'.phase = "ready"
  BY <1>1, ReturnsStep DEF Returns, Ready
<1>3. wal'.lines = wal.lines /\ (wal'.open => wal.open)
  <2>1. CASE wal' = wal
    BY <2>1
  <2>2. CASE wal' = [wal EXCEPT !.open = FALSE]
    BY <2>2
  <2> QED BY <2>1, <2>2 DEF Return, LogNewline, LogFails, diskVars
<1>4. LogInv'
  BY <1>3 DEF DiskInv, LogInv
<1> QED BY <1>1, <1>2, <1>4, UpStep

\* CHECKPOINT empties the snapshot.
LEMMA StartCheckpointStep ==
  ASSUME EngineInv, DiskInv, StartCheckpoint
  PROVE  EngineInv' /\ DiskInv'
<1>1. /\ call.phase = "ready" /\ UNCHANGED <<tables, txn, locks, nextTx>>
      /\ snap' = [exists |-> TRUE, lines |-> <<>>] /\ wal' = wal
      /\ mode' = "up" /\ pos' = pos /\ io' = "snapshot"
  BY DEF StartCheckpoint, Begins
<1>2. PICK s \in Stmts : call' = [phase |-> "checkpoint", stmt |-> s, todo |-> {},
                                  log |-> <<>>, tx |-> NoTx]
  BY DEF StartCheckpoint, Ready
<1>3. call' \in [phase : Phase, stmt : Stmts \cup {Ready.stmt}, todo : SUBSET RowId,
                 log : Seq(UndoRecord), tx : Nat]
  BY <1>2, EmptySeq DEF Phase, NoTx
<1>4. EngineInv'
  BY <1>1, <1>2, <1>3, CheckpointPhase
<1>5. Lines(<<>>) /\ DOMAIN <<>> = {}
  <2>1. <<>> \in Seq({})
    BY EmptySeq
  <2>2. Lines(<<>>)
    BY <2>1, SequencesAreLines
  <2> QED BY <2>2
<1>6. SnapshotInv' /\ WriteInv'
  BY <1>1, <1>5 DEF SnapshotInv, WriteInv
<1>7. LogInv' /\ LoadInv'
  BY <1>1 DEF DiskInv, LogInv, LoadInv
<1>8. ModeInv'
  BY <1>1, <1>2 DEF DiskInv, ModeInv
<1> QED BY <1>4, <1>6, <1>7, <1>8 DEF DiskInv

\* What the lines of a table are like.
LEMMA LinesOfTable ==
  ASSUME SoundTables(tables), NEW t \in DOMAIN tables, NEW l \in SnapshotLines(t)
  PROVE  LineFits(l) /\ l.t = t /\ (l.kind = "row" => l.row = tables[t].rows[l.r])
<1>1. t \in TableName /\ TableType(tables[t])
  BY DEF SoundTables, TableInv
<1>2. CASE l = TableLine(t)
  BY <1>1, <1>2 DEF TableLine, LineFits, TableType
<1>3. CASE l \in IndexLines(t)
  BY <1>1, <1>3 DEF IndexLines, LineFits, TableType
<1>4. CASE l \in RowLines(t)
  BY <1>1, <1>4 DEF RowLines, LineFits, TableType
<1> QED BY <1>2, <1>3, <1>4 DEF SnapshotLines

\* Two lines about one row of a table are the same line.
LEMMA RowLineIsUnique ==
  ASSUME SoundTables(tables), NEW t \in DOMAIN tables, NEW q \in DOMAIN tables,
         NEW l \in SnapshotLines(t), NEW m \in SnapshotLines(q),
         l.kind = "row", m.kind = "row", l.t = m.t, l.r = m.r
  PROVE  l = m
<1>1. l.t = t /\ m.t = q
  BY LinesOfTable
<1>2. l \in RowLines(t)
  BY DEF SnapshotLines, TableLine, IndexLines
<1>3. m \in RowLines(q)
  BY DEF SnapshotLines, TableLine, IndexLines
<1>4. PICK r \in DOMAIN tables[t].rows :
        l = [kind |-> "row", t |-> t, r |-> r, row |-> tables[t].rows[r]]
  BY <1>2 DEF RowLines
<1>5. PICK p \in DOMAIN tables[q].rows :
        m = [kind |-> "row", t |-> q, r |-> p, row |-> tables[q].rows[p]]
  BY <1>3 DEF RowLines
<1>6. l.r = r /\ m.r = p /\ t = q
  <2>1. l.r = r
    BY <1>4
  <2>2. m.r = p
    BY <1>5
  <2> QED BY <1>1, <2>1, <2>2
<1> QED BY <1>4, <1>5, <1>6

\* One more line of the snapshot is on disk.
LEMMA SnapshotLineStep ==
  ASSUME EngineInv, DiskInv, NEW t \in DOMAIN tables, NEW l \in Due(t),
         snap.lines # <<>>, io = "snapshot", mode = "up", UNCHANGED <<engineVars, wal, io, mode, pos>>,
         snap' = [snap EXCEPT !.lines = Append(@, l)]
  PROVE  EngineInv' /\ DiskInv'
<1> DEFINE new == Append(snap.lines, l)
<1>1. snap'.lines = new \/ snap'.lines = snap.lines
  OBVIOUS
<1>2. EngineInv' /\ tables' = tables /\ call' = call /\ txn' = txn
  BY EngineNextInv DEF engineVars
<1>3. /\ Lines(new)
      /\ Len(snap.lines) \in Nat /\ DOMAIN snap.lines = 1..Len(snap.lines)
      /\ DOMAIN new = 1..(Len(snap.lines) + 1)
      /\ \A n \in 1..Len(snap.lines) : new[n] = snap.lines[n]
      /\ new[Len(snap.lines) + 1] = l
  BY LineAppended DEF DiskInv, SnapshotInv
<1>4. Len(snap.lines) # 0
  BY EmptySeq, LenProperties DEF DiskInv, SnapshotInv, Lines
<1> HIDE DEF new
<1>5. l \in SnapshotLines(t) /\ \A n \in DOMAIN snap.lines : l # snap.lines[n]
  BY DEF Due, Range
<1>6. LineFits(l)
  BY <1>5, LinesOfTable DEF EngineInv
<1>7. \A n \in DOMAIN new : n \in DOMAIN snap.lines \/ n = Len(snap.lines) + 1
  BY <1>3
<1>8. \A n \in DOMAIN new : IF n = 1 THEN new[n].kind = "header" ELSE LineFits(new[n])
  BY <1>3, <1>4, <1>6, <1>7 DEF DiskInv, SnapshotInv
<1>9. \A n \in DOMAIN new : n # 1 => \E q \in DOMAIN tables : new[n] \in SnapshotLines(q)
  BY <1>3, <1>5, <1>7 DEF DiskInv, WriteInv
<1>10. ASSUME NEW n \in DOMAIN snap.lines, snap.lines[n].kind = "row", l.kind = "row",
              snap.lines[n].t = l.t
       PROVE  snap.lines[n].r # l.r
  <2>1. snap.lines[n].kind # "header"
    BY <1>10
  <2>2. PICK q \in DOMAIN tables : snap.lines[n] \in SnapshotLines(q)
    BY <2>1 DEF DiskInv, SnapshotInv, WriteInv
  <2> QED BY <1>5, <1>10, <2>2, RowLineIsUnique DEF EngineInv
<1>11. ASSUME NEW n \in DOMAIN new, NEW m \in DOMAIN new, n # m,
              new[n].kind = "row", new[m].kind = "row", new[n].t = new[m].t
       PROVE  new[n].r # new[m].r
  <2>1. CASE n \in DOMAIN snap.lines /\ m \in DOMAIN snap.lines
    BY <1>3, <1>11, <2>1 DEF DiskInv, SnapshotInv
  <2>2. CASE n \in DOMAIN snap.lines /\ m = Len(snap.lines) + 1
    BY <1>3, <1>10, <1>11, <2>2
  <2>3. CASE n = Len(snap.lines) + 1 /\ m \in DOMAIN snap.lines
    BY <1>3, <1>10, <1>11, <2>3
  <2> QED BY <1>7, <1>11, <2>1, <2>2, <2>3
<1>12. SnapshotInv'
  <2>1. CASE snap'.lines = new
    <3>1. Lines(snap'.lines)
      BY <1>3, <2>1
    <3>2. \A n \in DOMAIN snap'.lines :
            IF n = 1 THEN snap'.lines[n].kind = "header" ELSE LineFits(snap'.lines[n])
      BY <1>8, <2>1
    <3>3. \A n, m \in DOMAIN snap'.lines :
            /\ n # m /\ snap'.lines[n].kind = "row" /\ snap'.lines[m].kind = "row"
            /\ snap'.lines[n].t = snap'.lines[m].t
            => snap'.lines[n].r # snap'.lines[m].r
      BY <1>11, <2>1
    <3> QED BY <3>1, <3>2, <3>3 DEF SnapshotInv
  <2>2. CASE snap'.lines = snap.lines
    BY <2>2 DEF DiskInv, SnapshotInv
  <2> QED BY <1>1, <2>1, <2>2
<1>13. \A q : SnapshotLines(q)' = SnapshotLines(q)
  BY <1>2 DEF SnapshotLines, TableLine, IndexLines, RowLines
<1>14. WriteInv'
  <2>1. CASE snap'.lines = new
    BY <1>2, <1>9, <1>13, <2>1 DEF WriteInv
  <2>2. CASE snap'.lines = snap.lines
    BY <1>2, <1>13, <2>2 DEF DiskInv, WriteInv
  <2> QED BY <1>1, <2>1, <2>2
<1>15. LogInv' /\ ModeInv'
  BY <1>2 DEF DiskInv, LogInv, ModeInv
<1>16. LoadInv'
  BY DEF LoadInv
<1> QED BY <1>2, <1>12, <1>14, <1>15, <1>16 DEF DiskInv

\* The header, any other line, or the record in the log when all are written.
LEMMA WriteSnapshotStep ==
  ASSUME EngineInv, DiskInv, WriteSnapshot
  PROVE  EngineInv' /\ DiskInv'
<1>1. /\ mode = "up" /\ io = "snapshot" /\ call.phase = "checkpoint"
      /\ UNCHANGED engineVars /\ mode' = mode /\ pos' = pos
  BY DEF WriteSnapshot, DiskInv, ModeInv
<1>2. EngineInv' /\ call' = call /\ txn' = txn
  BY <1>1, EngineNextInv DEF engineVars
<1>3. CASE /\ snap' = [snap EXCEPT !.lines = <<[kind |-> "header"]>>] /\ wal' = wal /\ io' = io
           /\ snap.lines = <<>>
  <2> DEFINE header == [kind |-> "header"]
             new == <<header>>
  <2>1. new \in Seq({header}) /\ DOMAIN new = {1} /\ new[1] = header
    OBVIOUS
  <2> HIDE DEF new
  <2>2. Lines(new)
    BY <2>1, SequencesAreLines
  <2>3. snap'.lines = new \/ snap'.lines = snap.lines
    BY <1>3 DEF new
  <2>4. SnapshotInv'
    <3>1. CASE snap'.lines = new
      BY <2>1, <2>2, <3>1 DEF SnapshotInv
    <3>2. CASE snap'.lines = snap.lines
      BY <3>2 DEF DiskInv, SnapshotInv
    <3> QED BY <2>3, <3>1, <3>2
  <2>5. WriteInv'
    <3>1. CASE snap'.lines = new
      BY <2>1, <3>1 DEF WriteInv
    <3>2. CASE snap'.lines = <<>>
      BY <3>2 DEF WriteInv
    <3> QED BY <1>3, <2>3, <3>1, <3>2
  <2>6. LogInv' /\ ModeInv'
    BY <1>1, <1>2, <1>3 DEF DiskInv, LogInv, ModeInv
  <2>7. LoadInv'
    BY <1>1 DEF LoadInv
  <2> QED BY <1>2, <2>4, <2>5, <2>6, <2>7 DEF DiskInv
<1>4. CASE /\ snap.lines # <<>> /\ wal' = wal /\ io' = io
           /\ \E t \in NextTables : \E l \in Due(t) :
                snap' = [snap EXCEPT !.lines = Append(@, l)]
  <2>1. NextTables \subseteq DOMAIN tables
    BY DEF NextTables
  <2>2. PICK t \in DOMAIN tables : \E l \in Due(t) : snap' = [snap EXCEPT !.lines = Append(@, l)]
    BY <1>4, <2>1
  <2>3. PICK l \in Due(t) : snap' = [snap EXCEPT !.lines = Append(@, l)]
    BY <2>2
  <2> QED BY <1>1, <1>4, <2>3, SnapshotLineStep
<1>5. CASE wal' = Appended([kind |-> "checkpoint"]) /\ io' = "marker" /\ snap' = snap
  <2>1. LogInv'
    BY <1>5, LogAppended DEF DiskInv
  <2>2. call'.phase # "ready" => call'.stmt \in Stmts
    BY <1>2 DEF DiskInv, ModeInv
  <2> QED BY <1>1, <1>2, <1>5, <2>1, <2>2, UpStep
<1> QED BY <1>3, <1>4, <1>5 DEF WriteSnapshot

\* The newline after the record of CHECKPOINT.
LEMMA MarkerNewlineStep ==
  ASSUME EngineInv, DiskInv, MarkerNewline
  PROVE  EngineInv' /\ DiskInv'
<1>1. /\ mode' = "up" /\ io = "marker" /\ io' = "truncate" /\ pos' = pos /\ snap' = snap
      /\ wal' = [wal EXCEPT !.open = FALSE] /\ UNCHANGED engineVars
  BY DEF MarkerNewline
<1>2. EngineInv' /\ call' = call
  BY <1>1, EngineNextInv DEF engineVars
<1>3. wal'.lines = wal.lines /\ (wal'.open => wal.open)
  BY <1>1
<1>4. LogInv'
  BY <1>3 DEF DiskInv, LogInv
<1>5. call'.phase = "checkpoint" /\ call'.stmt \in Stmts
  BY <1>1, <1>2 DEF DiskInv, ModeInv
<1> QED BY <1>1, <1>2, <1>4, <1>5, UpStep

\* CHECKPOINT ends: the log is emptied, or one of the writes has failed.
LEMMA EndCheckpointStep ==
  ASSUME EngineInv, DiskInv, TruncateWal \/ CheckpointFails
  PROVE  EngineInv' /\ DiskInv'
<1>1. /\ mode' = "up" /\ io' = "none" /\ pos' = pos /\ snap' = snap
      /\ UNCHANGED <<tables, txn, locks, nextTx>>
      /\ wal' = wal \/ wal' = EmptyWal
  BY DEF TruncateWal, CheckpointFails, diskVars
<1>2. PICK end \in {"ok", "error"} : call' = [call EXCEPT !.phase = end]
  BY DEF TruncateWal, CheckpointFails
<1>3. call.phase = "checkpoint" /\ call.stmt \in Stmts
  BY DEF DiskInv, ModeInv, TruncateWal, CheckpointFails
<1>4. call \in [phase : Phase, stmt : Stmts \cup {Ready.stmt}, todo : SUBSET RowId,
                log : Seq(UndoRecord), tx : Nat]
  BY DEF EngineInv, EngineType
<1>5. /\ call' \in [phase : Phase, stmt : Stmts \cup {Ready.stmt}, todo : SUBSET RowId,
                    log : Seq(UndoRecord), tx : Nat]
      /\ call'.phase = end /\ call'.stmt = call.stmt
  BY <1>2, <1>4 DEF Phase
<1>6. EngineInv'
  BY <1>1, <1>3, <1>5, CheckpointPhase
<1>7. LogInv'
  <2>1. CASE wal' = wal
    BY <2>1 DEF DiskInv, LogInv
  <2>2. CASE wal' = EmptyWal
    <3>1. <<>> \in Seq({})
      BY EmptySeq
    <3>2. Lines(<<>>)
      BY <3>1, SequencesAreLines
    <3> QED BY <2>2, <3>2 DEF LogInv, EmptyWal
  <2> QED BY <1>1, <2>1, <2>2
<1> QED BY <1>1, <1>3, <1>5, <1>6, <1>7, UpStep

-----------------------------------------------------------------------------
(* Death of the process, and open.                                         *)

\* What is left to show of a step that writes nothing.
LEMMA FilesAreKept ==
  ASSUME DiskInv, UNCHANGED diskVars
  PROVE  SnapshotInv' /\ LogInv' /\ snap' = snap /\ wal' = wal
BY DEF diskVars, DiskInv, SnapshotInv, LogInv

\* The process dies: the memory is gone, the files are as they were.
LEMMA CrashStep ==
  ASSUME EngineInv, DiskInv, Crash
  PROVE  EngineInv' /\ DiskInv'
<1>1. ForgetsMemory /\ mode' = "down" /\ pos' = 1 /\ io' = "none" /\ UNCHANGED diskVars
  BY DEF Crash
<1>2. (EmptyDatabase => EngineInv)'
  BY EmptyDatabaseInv, PTL
<1>3. EngineInv'
  BY <1>1, <1>2 DEF ForgetsMemory, EmptyDatabase
<1>4. ModeInv'
  BY <1>1 DEF ModeInv, ForgetsMemory, Ready
<1>5. LoadInv' /\ WriteInv'
  BY <1>1 DEF LoadInv, WriteInv
<1> QED BY <1>1, <1>3, <1>4, <1>5, FilesAreKept DEF DiskInv

\* open begins, with the snapshot or at once with the log.
LEMMA OpenStep ==
  ASSUME EngineInv, DiskInv, Open
  PROVE  EngineInv' /\ DiskInv'
<1>1. /\ mode = "down" /\ mode' \in {"replay", "failed", "snapshot"} /\ pos' \in {1, 2}
      /\ (mode' = "snapshot" => pos' = 2) /\ io' = io
      /\ UNCHANGED engineVars /\ UNCHANGED diskVars
  BY DEF Open
<1>2. EngineInv' /\ tables' = tables /\ txn' = txn /\ call' = call
  BY <1>1, EngineNextInv DEF engineVars
<1>3. ModeInv'
  BY <1>1, <1>2 DEF DiskInv, ModeInv
<1>4. LoadInv'
  BY <1>1, <1>2 DEF DiskInv, ModeInv, LoadInv
<1>5. WriteInv'
  BY <1>1 DEF DiskInv, ModeInv, WriteInv
<1> QED BY <1>1, <1>2, <1>3, <1>4, <1>5, FilesAreKept DEF DiskInv

\* A line of the snapshot that is accepted: the table it makes or changes is
\* sound, and its rows are those there were and, at most, the one of the line.
LEMMA LineLoaded ==
  ASSUME SoundTables(tables), NEW l, LineFits(l), Loads(l),
         \/ l.kind = "table" /\ Put(l.t, NewTable(l.schema))
         \/ l.kind = "index" /\ Put(l.t, CreateIndex(tables[l.t], l.i, l.c, l.unique))
         \/ l.kind = "row" /\ Put(l.t, PutRow(tables[l.t], l.r, l.row)),
         l.kind = "row" /\ l.t \in DOMAIN tables => l.r \notin DOMAIN tables[l.t].rows
  PROVE  /\ SoundTables(tables')
         /\ \A t \in DOMAIN tables' : \A r \in DOMAIN tables'[t].rows :
              \/ t \in DOMAIN tables /\ r \in DOMAIN tables[t].rows
              \/ l.kind = "row" /\ t = l.t /\ r = l.r
<1>1. ASSUME NEW t \in TableName, NEW table, TableInv(table), Put(t, table),
             \A r \in DOMAIN table.rows :
               \/ t \in DOMAIN tables /\ r \in DOMAIN tables[t].rows
               \/ l.kind = "row" /\ t = l.t /\ r = l.r
      PROVE  /\ SoundTables(tables')
             /\ \A q \in DOMAIN tables' : \A r \in DOMAIN tables'[q].rows :
                  \/ q \in DOMAIN tables /\ r \in DOMAIN tables[q].rows
                  \/ l.kind = "row" /\ q = l.t /\ r = l.r
  <2>1. /\ SoundTables(tables')
        /\ DOMAIN tables' = DOMAIN tables \cup {t}
        /\ tables'[t] = table
        /\ \A q \in DOMAIN tables : q # t => tables'[q] = tables[q]
    BY <1>1, PutTable
  <2>2. \A q \in DOMAIN tables' : q = t \/ (q \in DOMAIN tables /\ tables'[q] = tables[q])
    BY <2>1
  <2> QED BY <1>1, <2>1, <2>2
<1>2. CASE l.kind = "table"
  <2>1. l.t \in TableName /\ TableInv(NewTable(l.schema)) /\ Put(l.t, NewTable(l.schema))
    BY <1>2, NewTableInv DEF LineFits
  <2>2. DOMAIN NewTable(l.schema).rows = {}
    BY DEF NewTable
  <2> QED BY <1>1, <2>1, <2>2
<1>3. CASE l.kind # "table"
  <2>1. l.t \in DOMAIN tables /\ l.t \in TableName /\ TableInv(tables[l.t])
    BY <1>3 DEF Loads, SoundTables
  <2>2. CASE l.kind = "index"
    <3> DEFINE table == CreateIndex(tables[l.t], l.i, l.c, l.unique)
    <3>1. TableInv(table) /\ Put(l.t, table)
      BY <2>1, <2>2, CreateIndexInv DEF Loads, LineFits
    <3>2. table.rows = tables[l.t].rows
      BY DEF CreateIndex, With
    <3> HIDE DEF table
    <3> QED BY <1>1, <2>1, <3>1, <3>2
  <2>3. CASE l.kind = "row"
    <3> DEFINE table == PutRow(tables[l.t], l.r, l.row)
    <3>1. TableInv(table) /\ Put(l.t, table)
      BY <2>1, <2>3, PutRowInv DEF Loads, LineFits
    <3>2. DOMAIN table.rows = DOMAIN tables[l.t].rows \cup {l.r}
      BY DEF PutRow, With
    <3> HIDE DEF table
    <3> QED BY <1>1, <2>1, <2>3, <3>1, <3>2
  <2> QED BY <1>3, <2>2, <2>3 DEF LineFits
<1> QED BY <1>2, <1>3

\* The tables of an idle engine without transaction are replaced.
LEMMA TablesReplaced ==
  ASSUME EngineInv, call = Ready, txn = NoTxn, SoundTables(tables'),
         UNCHANGED <<txn, locks, nextTx, call>>
  PROVE  EngineInv'
<1>1. call'.phase = "ready" /\ txn'.undo = <<>> /\ Pending' = <<>>
  BY DEF Ready, NoTxn, Pending
<1>2. EngineType' /\ LoopInv' /\ TxnInv'
  BY <1>1 DEF EngineInv, EngineType, LoopInv, TxnInv
<1> QED BY <1>1, <1>2, NothingPending DEF EngineInv

\* One line of the snapshot is read and stored, or refused.
LEMMA LoadLineStep ==
  ASSUME EngineInv, DiskInv, LoadLine
  PROVE  EngineInv' /\ DiskInv'
<1> DEFINE l == snap.lines[pos]
<1>1. /\ mode = "snapshot" /\ pos <= Len(snap.lines) /\ pos > 1 /\ pos \in Nat
      /\ call = Ready /\ txn = NoTxn /\ io' = "none"
      /\ UNCHANGED <<txn, locks, nextTx, call>> /\ UNCHANGED diskVars
  BY DEF LoadLine, DiskInv, ModeInv, LoadInv
<1>2. pos \in DOMAIN snap.lines
  <2>1. Len(snap.lines) \in Nat /\ DOMAIN snap.lines = 1..Len(snap.lines)
    BY LenProperties DEF DiskInv, SnapshotInv, Lines
  <2> QED BY <1>1, <2>1
<1>3. LineFits(l)
  BY <1>1, <1>2 DEF DiskInv, SnapshotInv
<1>4. WriteInv'
  BY <1>1 DEF WriteInv
<1>5. CASE Loads(l) /\ pos' = pos + 1 /\ mode' = mode
  <2>1. l.kind = "row" /\ l.t \in DOMAIN tables => l.r \notin DOMAIN tables[l.t].rows
    <3> SUFFICES ASSUME l.kind = "row", l.t \in DOMAIN tables, l.r \in DOMAIN tables[l.t].rows
                 PROVE  FALSE
      OBVIOUS
    <3>1. PICK n \in DOMAIN snap.lines :
            /\ n < pos /\ snap.lines[n].kind = "row"
            /\ snap.lines[n].t = l.t /\ snap.lines[n].r = l.r
      BY <1>1 DEF DiskInv, LoadInv
    <3>2. n # pos
      BY <1>1, <3>1
    <3> QED BY <1>2, <3>1, <3>2 DEF DiskInv, SnapshotInv
  <2>2. \/ l.kind = "table" /\ Put(l.t, NewTable(l.schema))
        \/ l.kind = "index" /\ Put(l.t, CreateIndex(tables[l.t], l.i, l.c, l.unique))
        \/ l.kind = "row" /\ Put(l.t, PutRow(tables[l.t], l.r, l.row))
    BY <1>5 DEF LoadLine
  <2> HIDE DEF l
  <2>3. /\ SoundTables(tables')
        /\ \A t \in DOMAIN tables' : \A r \in DOMAIN tables'[t].rows :
             \/ t \in DOMAIN tables /\ r \in DOMAIN tables[t].rows
             \/ l.kind = "row" /\ t = l.t /\ r = l.r
    BY <1>3, <1>5, <2>1, <2>2, LineLoaded DEF EngineInv
  <2>4. EngineInv'
    BY <1>1, <2>3, TablesReplaced
  <2>5. ModeInv'
    BY <1>1, <1>5 DEF ModeInv, Ready
  <2>6. ASSUME NEW t \in DOMAIN tables', NEW r \in DOMAIN tables'[t].rows
        PROVE  \E n \in DOMAIN snap.lines :
                 /\ n < pos + 1 /\ snap.lines[n].kind = "row"
                 /\ snap.lines[n].t = t /\ snap.lines[n].r = r
    <3>1. CASE t \in DOMAIN tables /\ r \in DOMAIN tables[t].rows
      <4>1. PICK n \in DOMAIN snap.lines :
              /\ n < pos /\ snap.lines[n].kind = "row"
              /\ snap.lines[n].t = t /\ snap.lines[n].r = r
        BY <1>1, <3>1 DEF DiskInv, LoadInv
      <4>2. n \in Nat
        BY LenProperties DEF DiskInv, SnapshotInv, Lines
      <4>3. n < pos + 1
        BY <1>1, <4>1, <4>2
      <4> QED BY <4>1, <4>3
    <3>2. CASE l.kind = "row" /\ t = l.t /\ r = l.r
      <4>1. pos < pos + 1
        BY <1>1
      <4> QED BY <1>2, <3>2, <4>1 DEF l
    <3> QED BY <2>3, <3>1, <3>2
  <2>7. LoadInv'
    <3>1. snap' = snap /\ pos' = pos + 1 /\ pos' > 1
      BY <1>1, <1>5, FilesAreKept
    <3> QED BY <2>6, <3>1 DEF LoadInv
  <2> QED BY <1>1, <1>4, <2>4, <2>5, <2>7, FilesAreKept DEF DiskInv
<1>6. CASE mode' = "failed" /\ tables' = tables /\ pos' = pos
  <2>1. EngineInv'
    BY <1>1, <1>6, TablesReplaced DEF EngineInv
  <2>2. ModeInv' /\ LoadInv'
    BY <1>1, <1>6 DEF ModeInv, LoadInv, Ready
  <2> QED BY <1>1, <1>4, <2>1, <2>2, FilesAreKept DEF DiskInv
<1> QED BY <1>5, <1>6 DEF LoadLine

\* Replay executes the log, and ends.
LEMMA ReplayStep ==
  ASSUME EngineInv, DiskInv, SnapshotLoaded \/ Replay \/ Replayed \/ ReplayEnds
  PROVE  EngineInv' /\ DiskInv'
<1>1. mode' \in {"replay", "up", "failed"} /\ io = "none" /\ io' = "none" /\ UNCHANGED diskVars
  BY DEF SnapshotLoaded, Replay, Replayed, ReplayEnds, DiskInv, ModeInv
<1>2. pos' \in Nat \ {0}
  BY DEF SnapshotLoaded, Replay, Replayed, ReplayEnds, DiskInv, ModeInv
<1>3. EngineInv' /\ (call'.phase # "ready" => call'.stmt \in Stmts)
  <2>1. CASE SnapshotLoaded \/ ReplayEnds
    <3>1. UNCHANGED engineVars
      BY <2>1 DEF SnapshotLoaded, ReplayEnds
    <3>2. call' = call
      BY <3>1 DEF engineVars
    <3> QED BY <3>1, <3>2, EngineNextInv DEF DiskInv, ModeInv
  <2>2. CASE Replayed
    <3>1. Returns
      BY <2>2 DEF Replayed
    <3>2. call'.phase = "ready"
      BY <3>1 DEF Returns, Ready
    <3> QED BY <3>1, <3>2, ReturnsStep
  <2>3. CASE Replay
    <3>1. CASE Continues
      BY <3>1, ContinuesInv, ContinuesRuns DEF DiskInv, ModeInv
    <3>2. CASE ~Continues
      <4>1. pos <= Len(wal.lines) /\ wal.lines[pos].kind = "sql" /\ Start(wal.lines[pos].stmt)
        BY <2>3, <3>2 DEF Replay
      <4>2. Len(wal.lines) \in Nat /\ DOMAIN wal.lines = 1..Len(wal.lines)
        BY LenProperties DEF DiskInv, LogInv, Lines
      <4>3. pos \in DOMAIN wal.lines
        BY <4>1, <4>2 DEF DiskInv, ModeInv
      <4>4. wal.lines[pos].stmt \in Stmts
        BY <4>1, <4>3 DEF DiskInv, LogInv
      <4> QED BY <4>1, <4>4, StartInv, StartRuns
    <3> QED BY <3>1, <3>2
  <2> QED BY <2>1, <2>2, <2>3
<1>4. ModeInv'
  BY <1>1, <1>2, <1>3 DEF ModeInv
<1>5. LoadInv' /\ WriteInv'
  BY <1>1 DEF LoadInv, WriteInv
<1> QED BY <1>1, <1>3, <1>4, <1>5, FilesAreKept DEF DiskInv

-----------------------------------------------------------------------------
(* The engine on a data directory.                                         *)

\* A directory without files, and no process.
LEMMA EmptyDirectory ==
  ASSUME Init
  PROVE  EngineInv /\ DiskInv
<1>1. /\ EmptyDatabase /\ snap = NoSnapshot /\ wal = EmptyWal
      /\ mode = "down" /\ pos = 1 /\ io = "none"
  BY DEF Init
<1>2. <<>> \in Seq({})
  BY EmptySeq
<1>3. Lines(<<>>)
  BY <1>2, SequencesAreLines
<1>4. SnapshotInv /\ LogInv
  BY <1>1, <1>3 DEF SnapshotInv, LogInv, NoSnapshot, EmptyWal
<1>5. ModeInv /\ LoadInv /\ WriteInv
  BY <1>1 DEF ModeInv, LoadInv, WriteInv, EmptyDatabase, Ready
<1> QED BY <1>1, <1>4, <1>5, EmptyDatabaseInv DEF DiskInv

\* Every step of the process, its death included.
LEMMA PersistenceStep ==
  ASSUME EngineInv /\ DiskInv, [Next]_vars
  PROVE  EngineInv' /\ DiskInv'
<1>1. CASE Execute \/ StartCheckpoint
  BY <1>1, ExecuteStep, StartCheckpointStep
<1>2. CASE Finishes
  BY <1>2, ReturnStep, LogTextStep, WriteSnapshotStep, MarkerNewlineStep, EndCheckpointStep
     DEF Finishes
<1>3. CASE LogFails \/ CheckpointFails
  BY <1>3, ReturnStep, EndCheckpointStep
<1>4. CASE Crash \/ Open
  BY <1>4, CrashStep, OpenStep
<1>5. CASE Loading
  BY <1>5, LoadLineStep, ReplayStep DEF Loading
<1>6. CASE UNCHANGED vars
  <2>1. /\ UNCHANGED engineVars /\ UNCHANGED diskVars
        /\ mode' = mode /\ pos' = pos /\ io' = io
    BY <1>6 DEF vars
  <2>2. EngineInv' /\ tables' = tables /\ txn' = txn /\ call' = call
    BY <2>1, EngineNextInv DEF engineVars
  <2>3. SnapshotInv' /\ LogInv' /\ snap' = snap
    BY <2>1, FilesAreKept
  <2>4. ModeInv' /\ LoadInv'
    BY <2>1, <2>2, <2>3 DEF DiskInv, ModeInv, LoadInv
  <2>5. \A t : SnapshotLines(t)' = SnapshotLines(t)
    BY <2>2 DEF SnapshotLines, TableLine, IndexLines, RowLines
  <2>6. WriteInv'
    BY <2>1, <2>2, <2>3, <2>5 DEF DiskInv, WriteInv
  <2> QED BY <2>2, <2>3, <2>4, <2>6 DEF DiskInv
<1> QED BY <1>1, <1>2, <1>3, <1>4, <1>5, <1>6 DEF Next

\* The inductive invariant of the engine on a data directory: that of the
\* engine, with what the files hold in every state, and how they and the
\* memory agree while one is made from the other.
THEOREM PersistenceInductive == Spec => [](EngineInv /\ DiskInv)
<1>1. Init => EngineInv /\ DiskInv
  BY EmptyDirectory
<1>2. (EngineInv /\ DiskInv) /\ [Next]_vars => (EngineInv /\ DiskInv)'
  BY PersistenceStep
<1> QED BY <1>1, <1>2, PTL DEF Spec

\* The tables keep their schema, UNIQUE columns and indexes whenever the
\* process has died, whatever was half written then, and in the middle of
\* open, which stores the rows of the snapshot under the ids they had
\* (persistence.rs:57, storage.rs insert_with_row_id).
THEOREM SoundWhenReopened == Spec => []TablesAreSound
<1>1. EngineInv /\ DiskInv => TablesAreSound
  BY DEF EngineInv, SoundTables, TablesAreSound
<1> QED BY <1>1, PersistenceInductive, PTL

-----------------------------------------------------------------------------
(* What clients see of a session.                                          *)

\* How many of `S` come before `r`.
Rank(S, r) == Cardinality({q \in S : q < r})

\* The rows in the order of their ids.
Listed(rows) == LET ids == InOrder(DOMAIN rows) IN [n \in DOMAIN ids |-> rows[ids[n]]]

\* Of the numbers of a finite set exactly one comes after `k` others.
LEMMA RanksAreUnique ==
  ASSUME NEW S, S \subseteq RowId, IsFiniteSet(S)
  PROVE  /\ \A k \in 1..Cardinality(S) : \E r \in S : Rank(S, r) = k - 1
         /\ \A r, q \in S : Rank(S, r) = Rank(S, q) => r = q
<1> DEFINE size == Cardinality(S)
           before(r) == {q \in S : q < r}
           f == [r \in S |-> Rank(S, r) + 1]
<1>1. size \in Nat
  BY FS_CardinalityType
<1>2. \A a, b \in RowId : (a < b \/ b < a \/ a = b) /\ ~(a < a)
  BY DEF RowId
<1>3. \A a, b, c \in RowId : a < b /\ b < c => a < c
  BY DEF RowId
<1>4. \A r \in S : /\ before(r) \in SUBSET S /\ IsFiniteSet(before(r))
                   /\ Cardinality(before(r)) \in Nat /\ Cardinality(before(r)) <= size
                   /\ Cardinality(before(r)) # size
  <2> SUFFICES ASSUME NEW r \in S
               PROVE  /\ before(r) \in SUBSET S /\ IsFiniteSet(before(r))
                      /\ Cardinality(before(r)) \in Nat /\ Cardinality(before(r)) <= size
                      /\ Cardinality(before(r)) # size
    OBVIOUS
  <2>1. before(r) \in SUBSET S /\ r \notin before(r)
    BY <1>2
  <2> HIDE DEF before
  <2>2. /\ IsFiniteSet(before(r)) /\ Cardinality(before(r)) <= size
        /\ size = Cardinality(before(r)) => S = before(r)
    BY <2>1, FS_Subset
  <2>3. Cardinality(before(r)) \in Nat
    BY <2>2, FS_CardinalityType
  <2> QED BY <2>1, <2>2, <2>3
<1>5. ASSUME NEW r \in S, NEW q \in S, r < q
      PROVE  Cardinality(before(r)) < Cardinality(before(q))
  <2>1. before(r) \in SUBSET before(q) /\ r \in before(q) /\ r \notin before(r)
    BY <1>2, <1>3, <1>5
  <2> HIDE DEF before
  <2>2. /\ Cardinality(before(r)) <= Cardinality(before(q))
        /\ Cardinality(before(q)) = Cardinality(before(r)) => before(q) = before(r)
    BY <1>4, <2>1, FS_Subset
  <2>3. Cardinality(before(q)) # Cardinality(before(r))
    BY <2>1, <2>2
  <2>4. \A a, b \in Nat : a <= b /\ b # a => a < b
    OBVIOUS
  <2> QED BY <1>4, <2>2, <2>3, <2>4
<1>6. \A r \in S : Rank(S, r) = Cardinality(before(r))
  BY DEF Rank
<1> HIDE DEF before
<1>7. \A r \in S : f[r] \in 1..size
  BY <1>1, <1>4, <1>6
<1>8. \A r, q \in S : Rank(S, r) = Rank(S, q) => r = q
  <2>1. \A a \in Nat : ~(a < a)
    OBVIOUS
  <2> QED BY <1>2, <1>4, <1>5, <1>6, <2>1
<1>9. f \in Injection(S, 1..size)
  <2>1. f \in [S -> 1..size]
    BY <1>7
  <2>2. \A a, b \in Nat : a + 1 = b + 1 => a = b
    OBVIOUS
  <2>3. \A r, q \in S : f[r] = f[q] => r = q
    BY <1>4, <1>6, <1>8, <2>2
  <2> HIDE DEF f
  <2> QED BY <2>1, <2>3 DEF Injection, IsInjective
<1>10. IsFiniteSet(1..size) /\ Cardinality(1..size) = size
  <2>1. /\ IsFiniteSet(1..size)
        /\ Cardinality(1..size) = IF 1 > size THEN 0 ELSE size - 1 + 1
    BY <1>1, FS_Interval
  <2>2. \A n \in Nat : (IF 1 > n THEN 0 ELSE n - 1 + 1) = n
    OBVIOUS
  <2> QED BY <1>1, <2>1, <2>2
<1>11. f \in Surjection(S, 1..size)
  BY <1>9, <1>10, FS_Injection
<1>12. ASSUME NEW k \in 1..size
       PROVE  \E r \in S : Rank(S, r) = k - 1
  <2>1. PICK r \in S : f[r] = k
    BY <1>11 DEF Surjection
  <2>2. Rank(S, r) + 1 = k /\ Rank(S, r) \in Nat
    BY <1>4, <1>6, <2>1
  <2> QED BY <2>2
<1> QED BY <1>8, <1>12

\* Rows that are the same under other ids are listed the same.
LEMMA ListedAlike ==
  ASSUME NEW p, NEW q, SameRows(p, q)
  PROVE  Listed(p) = Listed(q)
<1> DEFINE P == DOMAIN p
           Q == DOMAIN q
<1>1. HasIds(p) /\ HasIds(q)
  BY DEF SameRows
<1>2. PICK f : Renames(f, p, q)
  BY DEF SameRows
<1>3. /\ P \subseteq RowId /\ IsFiniteSet(P)
      /\ Q \subseteq RowId /\ IsFiniteSet(Q)
  BY <1>1, IdsAreFinite
<1>4. /\ \A a \in P : f[a] \in Q /\ q[f[a]] = p[a]
      /\ \A a, b \in P : a < b <=> f[a] < f[b]
      /\ \A a, b \in P : f[a] = f[b] => a = b
      /\ \A z \in Q : \E a \in P : f[a] = z
  BY <1>1, <1>2, RenamedRows
<1>5. ASSUME NEW S, NEW T, IsFiniteSet(S), S \subseteq P, T \subseteq Q,
             \A a \in P : a \in S <=> f[a] \in T
      PROVE  Cardinality(S) = Cardinality(T)
  <2> DEFINE g == [a \in S |-> f[a]]
  <2>1. g \in [S -> T]
    BY <1>5
  <2>2. \A a, b \in S : g[a] = g[b] => a = b
    BY <1>4, <1>5
  <2>3. \A z \in T : \E a \in S : g[a] = z
    BY <1>4, <1>5
  <2> HIDE DEF g
  <2>4. g \in Bijection(S, T)
    BY <2>1, <2>2, <2>3 DEF Bijection, Injection, Surjection, IsInjective
  <2> QED BY <1>5, <2>4, FS_Bijection DEF ExistsBijection
<1>6. Cardinality(P) = Cardinality(Q)
  BY <1>3, <1>4, <1>5
<1>7. ASSUME NEW a \in P
      PROVE  Rank(P, a) = Rank(Q, f[a])
  <2> DEFINE S == {b \in P : b < a}
             T == {z \in Q : z < f[a]}
  <2>1. S \in SUBSET P /\ T \subseteq Q /\ \A b \in P : b \in S <=> f[b] \in T
    BY <1>4
  <2> HIDE DEF S, T
  <2>2. IsFiniteSet(S)
    BY <1>3, <2>1, FS_Subset
  <2>3. Cardinality(S) = Cardinality(T)
    BY <1>5, <2>1, <2>2
  <2> QED BY <2>3 DEF Rank, S, T
<1> DEFINE size == Cardinality(P)
           ids == InOrder(P)
           jds == InOrder(Q)
<1>8. ids = [n \in 1..size |-> CHOOSE r \in P : Rank(P, r) = n - 1]
  BY DEF InOrder, Rank
<1>9. jds = [n \in 1..size |-> CHOOSE r \in Q : Rank(Q, r) = n - 1]
  BY <1>6 DEF InOrder, Rank
<1> HIDE DEF P, Q
<1>10. ASSUME NEW n \in 1..size
       PROVE  p[ids[n]] = q[jds[n]]
  <2>1. ids[n] \in P /\ Rank(P, ids[n]) = n - 1
    BY <1>3, <1>8, RanksAreUnique
  <2>2. jds[n] \in Q /\ Rank(Q, jds[n]) = n - 1
    BY <1>3, <1>6, <1>9, RanksAreUnique
  <2>3. f[ids[n]] \in Q /\ Rank(Q, f[ids[n]]) = n - 1
    BY <1>4, <1>7, <2>1
  <2>4. f[ids[n]] = jds[n]
    BY <1>3, <2>2, <2>3, RanksAreUnique
  <2> QED BY <1>4, <2>1, <2>4
<1>11. Listed(p) = [n \in 1..size |-> p[ids[n]]]
  BY <1>8 DEF Listed, P
<1>12. Listed(q) = [n \in 1..size |-> q[jds[n]]]
  BY <1>9 DEF Listed, Q
<1> HIDE DEF ids, jds
<1> QED BY <1>10, <1>11, <1>12

\* What clients see of a session.
Promised(x) ==
  [db |-> [t \in DOMAIN x.db |->
             [schema |-> x.db[t].schema, rows |-> Listed(x.db[t].rows), idx |-> x.db[t].idx]],
   active |-> x.open,
   undo |-> [n \in DOMAIN x.undo |-> x.undo[n].op]]

\* Sessions that differ in row ids only look the same.
LEMMA PromisedAlike ==
  ASSUME NEW x, NEW y, AlikeDb(x.db, y.db), x.open = y.open, x.undo = y.undo
  PROVE  Promised(x) = Promised(y)
<1>1. DOMAIN x.db = DOMAIN y.db /\ \A t \in DOMAIN x.db : Alike(x.db[t], y.db[t])
  BY DEF AlikeDb
<1>2. \A t \in DOMAIN x.db :
        /\ x.db[t].schema = y.db[t].schema /\ x.db[t].idx = y.db[t].idx
        /\ Listed(x.db[t].rows) = Listed(y.db[t].rows)
  BY <1>1, ListedAlike DEF Alike
<1> QED BY <1>1, <1>2 DEF Promised

\* An engine that is where a session is shows what clients see of it.
LEMMA TracksShows ==
  ASSUME EngineType, NEW x, Tracks(x), x.open \in BOOLEAN
  PROVE  Shown = Promised(x)
<1> DEFINE seen == [db |-> View, open |-> Active, undo |-> Kinds(txn.undo), base |-> View]
<1>1. Promised(seen) = Promised(x)
  BY PromisedAlike DEF Tracks, Active
<1>2. /\ DOMAIN View = DOMAIN tables
      /\ \A t \in DOMAIN tables : View[t] = TableView(tables[t])
  BY SeenTables
<1>3. \A t \in DOMAIN tables :
        /\ View[t].schema = tables[t].schema /\ View[t].rows = tables[t].rows
        /\ View[t].idx = [i \in DOMAIN tables[t].idx |->
                            <<tables[t].idx[i].col, tables[t].idx[i].unique>>]
  BY <1>2 DEF TableView
<1>4. \A t \in DOMAIN tables : Listed(tables[t].rows) = RowsInOrder(t)
  BY DEF Listed, RowsInOrder
<1>5. Promised(seen).db = Shown.db
  BY <1>2, <1>3, <1>4 DEF Promised, Shown
<1>6. [n \in DOMAIN Kinds(txn.undo) |-> Kinds(txn.undo)[n].op] =
        [n \in DOMAIN txn.undo |-> txn.undo[n].op]
  <2>1. /\ DOMAIN Kinds(txn.undo) = DOMAIN txn.undo
        /\ \A n \in DOMAIN txn.undo : Kinds(txn.undo)[n] = Kind(txn.undo[n])
    BY KindsAreRecords DEF EngineType
  <2>2. \A u : Kind(u).op = u.op
    BY DEF Kind
  <2> QED BY <2>1, <2>2
<1>7. Promised(seen).active = Shown.active /\ Promised(seen).undo = Shown.undo
  BY <1>6 DEF Promised, Shown
<1>8. Promised(seen) = Shown
  BY <1>5, <1>7 DEF Promised, Shown
<1> QED BY <1>1, <1>8

-----------------------------------------------------------------------------
(* What a snapshot tells.                                                  *)

\* The lines of a snapshot about the table `t`, of which clients see `x`.
SchemaLine(x, t) == [kind |-> "table", t |-> t, schema |-> x.schema]
IndexLine(x, t, i) ==
  [kind |-> "index", t |-> t, i |-> i, c |-> x.idx[i][1], unique |-> x.idx[i][2]]
RowLine(x, t, r) == [kind |-> "row", t |-> t, r |-> r, row |-> x.rows[r]]

SeenLines(x, t) ==
  {SchemaLine(x, t)} \cup {IndexLine(x, t, i) : i \in DOMAIN x.idx}
    \cup {RowLine(x, t, r) : r \in DOMAIN x.rows}

LinesOf(v) == UNION {SeenLines(v[t], t) : t \in DOMAIN v}

\* A table with no other rows and indexes than `x` has.
Part(y, x) ==
  /\ y.schema = x.schema
  /\ \A i \in DOMAIN y.idx :
       i \in DOMAIN x.idx /\ y.idx[i][1] = x.idx[i][1] /\ y.idx[i][2] = x.idx[i][2]
  /\ \A r \in DOMAIN y.rows : r \in DOMAIN x.rows /\ y.rows[r] = x.rows[r]

\* What is seen of tables has no more to it than the lines tell.
Shape(v) ==
  v = [t \in DOMAIN v |->
         [schema |-> v[t].schema, rows |-> KeptRows(v[t].rows, {}),
          idx |-> [i \in DOMAIN v[t].idx |-> <<v[t].idx[i][1], v[t].idx[i][2]>>]]]

\* A line of a snapshot tells of a table, and what it tells is there.
LEMMA LineTells ==
  ASSUME NEW v, NEW l \in LinesOf(v)
  PROVE  /\ l.t \in DOMAIN v /\ l \in SeenLines(v[l.t], l.t)
         /\ l.kind \in {"table", "index", "row"}
         /\ l.kind = "table" => l = SchemaLine(v[l.t], l.t) /\ l.schema = v[l.t].schema
         /\ l.kind = "index" =>
              /\ l.i \in DOMAIN v[l.t].idx /\ l = IndexLine(v[l.t], l.t, l.i)
              /\ l.c = v[l.t].idx[l.i][1] /\ l.unique = v[l.t].idx[l.i][2]
         /\ l.kind = "row" =>
              /\ l.r \in DOMAIN v[l.t].rows /\ l = RowLine(v[l.t], l.t, l.r)
              /\ l.row = v[l.t].rows[l.r]
<1>1. PICK t \in DOMAIN v : l \in SeenLines(v[t], t)
  BY DEF LinesOf
<1>2. CASE l = SchemaLine(v[t], t)
  BY <1>1, <1>2 DEF SchemaLine
<1>3. CASE \E i \in DOMAIN v[t].idx : l = IndexLine(v[t], t, i)
  BY <1>1, <1>3 DEF IndexLine
<1>4. CASE \E r \in DOMAIN v[t].rows : l = RowLine(v[t], t, r)
  BY <1>1, <1>4 DEF RowLine
<1> QED BY <1>1, <1>2, <1>3, <1>4 DEF SeenLines

\* The lines of the tables: their schema, and each of their indexes and rows.
LEMMA AllIsTold ==
  ASSUME NEW v, NEW t \in DOMAIN v
  PROVE  /\ SchemaLine(v[t], t) \in LinesOf(v)
         /\ \A i \in DOMAIN v[t].idx : IndexLine(v[t], t, i) \in LinesOf(v)
         /\ \A r \in DOMAIN v[t].rows : RowLine(v[t], t, r) \in LinesOf(v)
BY DEF LinesOf, SeenLines

\* If no more is told of some tables than of others, there is no more of them.
LEMMA PartIsTold ==
  ASSUME NEW w, NEW v, LinesOf(w) \subseteq LinesOf(v)
  PROVE  \A t \in DOMAIN w : t \in DOMAIN v /\ Part(w[t], v[t])
<1> SUFFICES ASSUME NEW t \in DOMAIN w PROVE t \in DOMAIN v /\ Part(w[t], v[t])
  OBVIOUS
<1>1. t \in DOMAIN v /\ w[t].schema = v[t].schema
  <2> DEFINE l == SchemaLine(w[t], t)
  <2>1. l \in LinesOf(v) /\ l.kind = "table" /\ l.t = t /\ l.schema = w[t].schema
    BY AllIsTold DEF SchemaLine
  <2> HIDE DEF l
  <2> QED BY <2>1, LineTells
<1>2. ASSUME NEW i \in DOMAIN w[t].idx
      PROVE  i \in DOMAIN v[t].idx /\ w[t].idx[i][1] = v[t].idx[i][1] /\ w[t].idx[i][2] = v[t].idx[i][2]
  <2> DEFINE l == IndexLine(w[t], t, i)
  <2>1. /\ l \in LinesOf(v) /\ l.kind = "index" /\ l.t = t /\ l.i = i
        /\ l.c = w[t].idx[i][1] /\ l.unique = w[t].idx[i][2]
    BY AllIsTold DEF IndexLine
  <2> HIDE DEF l
  <2> QED BY <2>1, LineTells
<1>3. ASSUME NEW r \in DOMAIN w[t].rows
      PROVE  r \in DOMAIN v[t].rows /\ w[t].rows[r] = v[t].rows[r]
  <2> DEFINE l == RowLine(w[t], t, r)
  <2>1. l \in LinesOf(v) /\ l.kind = "row" /\ l.t = t /\ l.r = r /\ l.row = w[t].rows[r]
    BY AllIsTold DEF RowLine
  <2> HIDE DEF l
  <2> QED BY <2>1, LineTells
<1> QED BY <1>1, <1>2, <1>3 DEF Part

\* What tells the same is the same.
LEMMA SameIsTold ==
  ASSUME NEW v, NEW w, Shape(v), Shape(w), LinesOf(v) = LinesOf(w)
  PROVE  v = w
<1>1. DOMAIN v = DOMAIN w /\ \A t \in DOMAIN v : Part(v[t], w[t]) /\ Part(w[t], v[t])
  BY PartIsTold
<1>2. ASSUME NEW t \in DOMAIN v
      PROVE  /\ v[t].schema = w[t].schema
             /\ KeptRows(v[t].rows, {}) = KeptRows(w[t].rows, {})
             /\ [i \in DOMAIN v[t].idx |-> <<v[t].idx[i][1], v[t].idx[i][2]>>] =
                  [i \in DOMAIN w[t].idx |-> <<w[t].idx[i][1], w[t].idx[i][2]>>]
  BY <1>1 DEF Part, KeptRows
<1> DEFINE table(x) == [schema |-> x.schema, rows |-> KeptRows(x.rows, {}),
                        idx |-> [i \in DOMAIN x.idx |-> <<x.idx[i][1], x.idx[i][2]>>]]
<1>3. \A t \in DOMAIN v : table(v[t]) = table(w[t])
  BY <1>2
<1>4. v = [t \in DOMAIN v |-> table(v[t])] /\ w = [t \in DOMAIN w |-> table(w[t])]
  BY DEF Shape
<1> HIDE DEF table
<1> QED BY <1>1, <1>3, <1>4

\* Part of what is sound is sound.
LEMMA SoundPart ==
  ASSUME NEW x, Sound(x), NEW y, Part(y, x)
  PROVE  Sound(y)
<1>1. \A r \in DOMAIN y.rows : r \in DOMAIN x.rows /\ y.rows[r] = x.rows[r]
  BY DEF Part
<1>2. \A r \in DOMAIN y.rows : RowFits(y.schema, y.rows[r])
  BY <1>1 DEF Part, Sound
<1> DEFINE keys(z) == z.schema.unique \cup {k[1] : k \in {e \in Range(z.idx) : e[2]}}
<1>3. keys(y) \subseteq keys(x)
  <2> SUFFICES ASSUME NEW c \in keys(y) PROVE c \in keys(x)
    OBVIOUS
  <2>1. CASE c \in y.schema.unique
    BY <2>1 DEF Part
  <2>2. CASE \E i \in DOMAIN y.idx : y.idx[i][2] /\ c = y.idx[i][1]
    BY <2>2 DEF Part, Range
  <2> QED BY <2>1, <2>2 DEF Range
<1>4. \A c \in keys(x) : \A r, q \in DOMAIN x.rows :
        r # q /\ x.rows[r][c] # Null => x.rows[r][c] # x.rows[q][c]
  BY DEF Sound
<1>5. \A c \in keys(y) : \A r, q \in DOMAIN y.rows :
        r # q /\ y.rows[r][c] # Null => y.rows[r][c] # y.rows[q][c]
  <2> HIDE DEF keys
  <2> QED BY <1>1, <1>3, <1>4
<1> QED BY <1>2, <1>5 DEF Sound

\* A line more: what it is about is there from then on.
LEMMA LinesWithOneMore ==
  ASSUME NEW v, NEW t, NEW y, t \in DOMAIN v => SeenLines(v[t], t) \subseteq SeenLines(y, t)
  PROVE  LinesOf(Added(v, t, y)) = LinesOf(v) \cup SeenLines(y, t)
<1> DEFINE w == Added(v, t, y)
<1>1. DOMAIN w = DOMAIN v \cup {t} /\ w[t] = y /\ \A q \in DOMAIN v : q # t => w[q] = v[q]
  BY DEF Added
<1> HIDE DEF w
<1>2. \A q \in DOMAIN w : SeenLines(w[q], q) \subseteq LinesOf(v) \cup SeenLines(y, t)
  BY <1>1 DEF LinesOf
<1>3. \A q \in DOMAIN v : SeenLines(v[q], q) \subseteq LinesOf(w)
  <2> SUFFICES ASSUME NEW q \in DOMAIN v PROVE SeenLines(v[q], q) \subseteq LinesOf(w)
    OBVIOUS
  <2>1. CASE q = t
    BY <1>1, <2>1 DEF LinesOf
  <2>2. CASE q # t
    <3>1. q \in DOMAIN w /\ w[q] = v[q]
      BY <1>1, <2>2
    <3> QED BY <3>1 DEF LinesOf
  <2> QED BY <2>1, <2>2
<1>4. SeenLines(y, t) \subseteq LinesOf(w)
  BY <1>1 DEF LinesOf
<1> QED BY <1>2, <1>3, <1>4 DEF LinesOf, w

\* The lines of a table with an index more.
LEMMA IndexLineAdded ==
  ASSUME NEW t, NEW x, NEW i, NEW c, NEW unique, i \notin DOMAIN x.idx
  PROVE  SeenLines(WithIdx(x, Added(x.idx, i, <<c, unique>>)), t) =
           SeenLines(x, t) \cup
             {[kind |-> "index", t |-> t, i |-> i, c |-> c, unique |-> unique]}
<1> DEFINE y == WithIdx(x, Added(x.idx, i, <<c, unique>>))
<1>1. /\ y.schema = x.schema /\ y.rows = x.rows /\ DOMAIN y.idx = DOMAIN x.idx \cup {i}
      /\ \A j \in DOMAIN x.idx : y.idx[j] = x.idx[j]
      /\ y.idx[i][1] = c /\ y.idx[i][2] = unique
  BY DEF WithIdx, Added
<1> HIDE DEF y
<1>2. SchemaLine(y, t) = SchemaLine(x, t) /\ \A r : RowLine(y, t, r) = RowLine(x, t, r)
  BY <1>1 DEF SchemaLine, RowLine
<1>3. \A j \in DOMAIN x.idx : IndexLine(y, t, j) = IndexLine(x, t, j)
  BY <1>1 DEF IndexLine
<1>4. IndexLine(y, t, i) = [kind |-> "index", t |-> t, i |-> i, c |-> c, unique |-> unique]
  BY <1>1 DEF IndexLine
<1>5. {IndexLine(y, t, j) : j \in DOMAIN y.idx} =
        {IndexLine(x, t, j) : j \in DOMAIN x.idx} \cup {IndexLine(y, t, i)}
  BY <1>1, <1>3
<1> QED BY <1>1, <1>2, <1>4, <1>5 DEF SeenLines, y

\* The lines of a new table, and those of a table with a row more.
LEMMA LineOfTheChange ==
  ASSUME NEW t
  PROVE  /\ \A schema : SeenLines(NewView(schema), t) = {[kind |-> "table", t |-> t, schema |-> schema]}
         /\ \A x, r, row : r \notin DOMAIN x.rows =>
              SeenLines(WithRows(x, Added(x.rows, r, row)), t) =
                SeenLines(x, t) \cup {[kind |-> "row", t |-> t, r |-> r, row |-> row]}
<1>1. ASSUME NEW schema
      PROVE  SeenLines(NewView(schema), t) = {[kind |-> "table", t |-> t, schema |-> schema]}
  BY DEF SeenLines, NewView, SchemaLine
<1>2. ASSUME NEW x, NEW r, NEW row, r \notin DOMAIN x.rows
      PROVE  SeenLines(WithRows(x, Added(x.rows, r, row)), t) =
               SeenLines(x, t) \cup {[kind |-> "row", t |-> t, r |-> r, row |-> row]}
  <2> DEFINE y == WithRows(x, Added(x.rows, r, row))
  <2>1. /\ y.schema = x.schema /\ y.idx = x.idx /\ DOMAIN y.rows = DOMAIN x.rows \cup {r}
        /\ \A q \in DOMAIN x.rows : y.rows[q] = x.rows[q]
        /\ y.rows[r] = row
    BY <1>2 DEF WithRows, Added
  <2> HIDE DEF y
  <2>2. SchemaLine(y, t) = SchemaLine(x, t) /\ \A i : IndexLine(y, t, i) = IndexLine(x, t, i)
    BY <2>1 DEF SchemaLine, IndexLine
  <2>3. \A q \in DOMAIN x.rows : RowLine(y, t, q) = RowLine(x, t, q)
    BY <2>1 DEF RowLine
  <2>4. RowLine(y, t, r) = [kind |-> "row", t |-> t, r |-> r, row |-> row]
    BY <2>1 DEF RowLine
  <2>5. {RowLine(y, t, q) : q \in DOMAIN y.rows} =
          {RowLine(x, t, q) : q \in DOMAIN x.rows} \cup {RowLine(y, t, r)}
    BY <2>1, <2>3
  <2> QED BY <2>1, <2>2, <2>4, <2>5 DEF SeenLines, y
<1> QED BY <1>1, <1>2

\* The columns of the indexes are columns of their tables.
Indexed(v) ==
  \A t \in DOMAIN v : \A i \in DOMAIN v[t].idx : v[t].idx[i][1] \in v[t].schema.cols

\* CHECKPOINT writes what is seen of the tables.
LEMMA LinesOfTheTables ==
  ASSUME SoundTables(tables)
  PROVE  /\ DOMAIN View = DOMAIN tables
         /\ \A t \in DOMAIN tables : SnapshotLines(t) = SeenLines(View[t], t)
         /\ \A t \in DOMAIN tables : TableLine(t) = SchemaLine(View[t], t)
         /\ Shape(View) /\ SoundView(View) /\ Indexed(View) /\ AlikeDb(View, View)
<1>1. DOMAIN View = DOMAIN tables /\ \A t \in DOMAIN tables : View[t] = TableView(tables[t])
  BY SeenTables
<1>2. ASSUME NEW t \in DOMAIN tables
      PROVE  /\ SnapshotLines(t) = SeenLines(View[t], t) /\ TableLine(t) = SchemaLine(View[t], t)
             /\ View[t] = [schema |-> View[t].schema, rows |-> KeptRows(View[t].rows, {}),
                  idx |-> [i \in DOMAIN View[t].idx |-> <<View[t].idx[i][1], View[t].idx[i][2]>>]]
             /\ \A i \in DOMAIN View[t].idx : View[t].idx[i][1] \in View[t].schema.cols
             /\ Alike(View[t], View[t])
  <2> DEFINE x == TableView(tables[t])
  <2>1. /\ x.schema = tables[t].schema /\ x.rows = tables[t].rows
        /\ DOMAIN x.idx = DOMAIN tables[t].idx
        /\ \A i \in DOMAIN x.idx : x.idx[i][1] = tables[t].idx[i].col /\ x.idx[i][2] = tables[t].idx[i].unique
    BY DEF TableView
  <2>2. x = [schema |-> x.schema, rows |-> x.rows,
             idx |-> [i \in DOMAIN x.idx |-> <<x.idx[i][1], x.idx[i][2]>>]]
    BY DEF TableView
  <2>3. TableInv(tables[t])
    BY DEF SoundTables
  <2>4. HasIds(x.rows)
    BY <2>3, RowsHaveIds
  <2> HIDE DEF x
  <2>5. x.rows = KeptRows(x.rows, {})
    BY <2>4 DEF HasIds
  <2>6. TableLine(t) = SchemaLine(x, t)
    BY <2>1 DEF TableLine, SchemaLine
  <2>7. IndexLines(t) = {IndexLine(x, t, i) : i \in DOMAIN x.idx}
    BY <2>1 DEF IndexLines, IndexLine
  <2>8. RowLines(t) = {RowLine(x, t, r) : r \in DOMAIN x.rows}
    BY <2>1 DEF RowLines, RowLine
  <2>9. SnapshotLines(t) = SeenLines(x, t)
    BY <2>6, <2>7, <2>8 DEF SnapshotLines, SeenLines
  <2>10. \A i \in DOMAIN x.idx : x.idx[i][1] \in x.schema.cols
    BY <2>1, <2>3 DEF TableInv, TableType
  <2>11. Alike(x, x)
    BY <2>4, SameAsThemselves DEF Alike
  <2>12. x = [schema |-> x.schema, rows |-> KeptRows(x.rows, {}),
              idx |-> [i \in DOMAIN x.idx |-> <<x.idx[i][1], x.idx[i][2]>>]]
    BY <2>2, <2>5
  <2>13. View[t] = x
    BY <1>1 DEF x
  <2> QED BY <2>6, <2>9, <2>10, <2>11, <2>12, <2>13
<1>3. View = [t \in DOMAIN View |-> View[t]]
  BY DEF View
<1> DEFINE table(x) == [schema |-> x.schema, rows |-> KeptRows(x.rows, {}),
                        idx |-> [i \in DOMAIN x.idx |-> <<x.idx[i][1], x.idx[i][2]>>]]
<1>4. Shape(View)
  <2>1. \A t \in DOMAIN View : View[t] = table(View[t])
    BY <1>1, <1>2
  <2>2. View = [t \in DOMAIN View |-> table(View[t])]
    <3> HIDE DEF table
    <3> QED BY <1>3, <2>1
  <2> QED BY <2>2 DEF Shape
<1> HIDE DEF table
<1>5. Indexed(View) /\ AlikeDb(View, View)
  BY <1>1, <1>2 DEF Indexed, AlikeDb
<1> QED BY <1>1, <1>2, <1>4, <1>5, SoundTablesAreSeen

\* A line of a snapshot of sound tables that was not read yet, and after that
\* of its table, is accepted, and what it tells is then in the memory.
LEMMA LineIsLoaded ==
  ASSUME SoundTables(tables), NEW v, SoundView(v), Indexed(v), LinesOf(View) \subseteq LinesOf(v),
         NEW l \in LinesOf(v), LineFits(l), l \notin LinesOf(View),
         l.kind # "table" => SchemaLine(v[l.t], l.t) \in LinesOf(View)
  PROVE  /\ Loads(l)
         /\ \/ l.kind = "table" /\ Put(l.t, NewTable(l.schema))
            \/ l.kind = "index" /\ Put(l.t, CreateIndex(tables[l.t], l.i, l.c, l.unique))
            \/ l.kind = "row" /\ Put(l.t, PutRow(tables[l.t], l.r, l.row))
            => LinesOf(View') = LinesOf(View) \cup {l}
<1> DEFINE t == l.t
           x == View[t]
<1>1. /\ DOMAIN View = DOMAIN tables /\ \A q \in DOMAIN tables : View[q] = TableView(tables[q])
      /\ View = [q \in DOMAIN View |-> View[q]]
  BY SeenTables
<1>2. /\ t \in DOMAIN v /\ l \in SeenLines(v[t], t) /\ l.kind \in {"table", "index", "row"}
      /\ l.kind = "table" => l = SchemaLine(v[t], t) /\ l.schema = v[t].schema
      /\ l.kind = "index" =>
           /\ l.i \in DOMAIN v[t].idx /\ l = IndexLine(v[t], t, l.i)
           /\ l.c = v[t].idx[l.i][1] /\ l.unique = v[t].idx[l.i][2]
      /\ l.kind = "row" =>
           /\ l.r \in DOMAIN v[t].rows /\ l = RowLine(v[t], t, l.r) /\ l.row = v[t].rows[l.r]
  BY LineTells
<1>3. \A q \in DOMAIN View : q \in DOMAIN v /\ Part(View[q], v[q])
  BY PartIsTold
<1>4. ASSUME l.kind # "table"
      PROVE  t \in DOMAIN tables
  <2> DEFINE m == SchemaLine(v[t], t)
  <2>1. m \in LinesOf(View) /\ m.t = t
    BY <1>4 DEF SchemaLine
  <2> HIDE DEF m
  <2> QED BY <1>1, <2>1, LineTells
<1>5. \A new : Put(t, new) => View' = Added(View, t, TableView(new))
  <2> SUFFICES ASSUME NEW new, Put(t, new) PROVE View' = Added(View, t, TableView(new))
    OBVIOUS
  <2>1. /\ DOMAIN View' = DOMAIN View \cup {t} /\ View'[t] = TableView(new)
        /\ \A q \in DOMAIN View : q # t => View'[q] = View[q]
    BY SeenPut
  <2>2. View' = [q \in DOMAIN View' |-> View'[q]]
    BY SeenTables
  <2> QED BY <2>1, <2>2 DEF Added
<1>6. ASSUME NEW y, t \in DOMAIN View => SeenLines(x, t) \subseteq SeenLines(y, t)
      PROVE  LinesOf(Added(View, t, y)) = LinesOf(View) \cup SeenLines(y, t)
  BY <1>6, LinesWithOneMore
<1>7. CASE l.kind = "table"
  <2>1. l = SchemaLine(v[t], t) /\ l = [kind |-> "table", t |-> t, schema |-> l.schema]
    BY <1>2, <1>7 DEF SchemaLine
  <2>2. t \notin DOMAIN tables
    <3> SUFFICES ASSUME t \in DOMAIN tables PROVE FALSE
      OBVIOUS
    <3>1. x.schema = v[t].schema
      BY <1>1, <1>3 DEF Part
    <3>2. SchemaLine(x, t) = l
      BY <2>1, <3>1 DEF SchemaLine
    <3> QED BY <1>1, <3>2, AllIsTold
  <2>3. TableView(NewTable(l.schema)) = NewView(l.schema)
    BY DEF TableView, NewTable, NewView
  <2>4. LinesOf(Added(View, t, NewView(l.schema))) = LinesOf(View) \cup {l}
    <3>1. SeenLines(NewView(l.schema), t) = {l}
      BY <2>1, LineOfTheChange
    <3> QED BY <1>1, <1>6, <2>2, <3>1
  <2> QED BY <1>5, <1>7, <2>2, <2>3, <2>4 DEF Loads
<1>8. CASE l.kind = "index"
  <2> DEFINE s == [op |-> "CreateIndex", t |-> t, i |-> l.i, c |-> l.c, unique |-> l.unique]
             y == WithIdx(x, Added(x.idx, l.i, <<l.c, l.unique>>))
  <2>1. t \in DOMAIN tables /\ TableInv(tables[t]) /\ x = TableView(tables[t])
    BY <1>1, <1>4, <1>8 DEF SoundTables
  <2>2. Part(x, v[t])
    BY <1>1, <1>3, <2>1
  <2>3. l.i \notin DOMAIN x.idx
    <3> SUFFICES ASSUME l.i \in DOMAIN x.idx PROVE FALSE
      OBVIOUS
    <3>1. IndexLine(x, t, l.i) = l
      BY <1>2, <1>8, <2>2 DEF IndexLine, Part
    <3> QED BY <1>1, <2>1, <3>1, AllIsTold
  <2>4. Part(y, v[t])
    <3>1. /\ y.schema = x.schema /\ y.rows = x.rows /\ DOMAIN y.idx = DOMAIN x.idx \cup {l.i}
          /\ \A j \in DOMAIN x.idx : y.idx[j] = x.idx[j]
          /\ y.idx[l.i][1] = l.c /\ y.idx[l.i][2] = l.unique
      BY <2>3 DEF WithIdx, Added
    <3> HIDE DEF y
    <3> QED BY <1>2, <1>8, <2>2, <3>1 DEF Part
  <2>5. Sound(y) /\ l.c \in x.schema.cols
    <3>1. Sound(y)
      BY <1>2, <2>4, SoundPart DEF SoundView
    <3>2. l.c \in v[t].schema.cols
      BY <1>2, <1>8 DEF Indexed
    <3> QED BY <2>2, <3>1, <3>2 DEF Part
  <2>6. CanCreateIndex(tables[t], l.i, l.c, l.unique)
    <3>1. /\ s.op = "CreateIndex" /\ s.i = l.i /\ s.c = l.c /\ s.unique = l.unique
          /\ s.unique \in BOOLEAN
      BY <1>8 DEF LineFits
    <3> HIDE DEF s
    <3>2. Changed(x, s) = y
      BY <3>1 DEF Changed
    <3>3. Takes(x, s)
      BY <2>3, <2>5, <3>1, <3>2 DEF Takes
    <3> QED BY <2>1, <3>1, <3>3, IndexDecided
  <2>7. TableView(CreateIndex(tables[t], l.i, l.c, l.unique)) = y
    BY <2>1, SeenCreateIndex
  <2>8. LinesOf(Added(View, t, y)) = LinesOf(View) \cup {l}
    <3>1. l = [kind |-> "index", t |-> t, i |-> l.i, c |-> l.c, unique |-> l.unique]
      BY <1>2, <1>8 DEF IndexLine
    <3>2. SeenLines(y, t) = SeenLines(x, t) \cup {l}
      <4>1. PICK i, c, unique : i = l.i /\ c = l.c /\ unique = l.unique
        OBVIOUS
      <4>2. SeenLines(WithIdx(x, Added(x.idx, i, <<c, unique>>)), t) =
              SeenLines(x, t) \cup
                {[kind |-> "index", t |-> t, i |-> i, c |-> c, unique |-> unique]}
        BY <2>3, <4>1, IndexLineAdded
      <4> QED BY <3>1, <4>1, <4>2
    <3>3. SeenLines(x, t) \subseteq LinesOf(View)
      BY <1>1, <2>1 DEF LinesOf
    <3> HIDE DEF y
    <3> QED BY <1>6, <3>2, <3>3
  <2> QED BY <1>5, <1>8, <2>1, <2>6, <2>7, <2>8 DEF Loads
<1>9. CASE l.kind = "row"
  <2> DEFINE u == [op |-> "Delete", t |-> t, r |-> l.r, row |-> l.row]
             y == WithRows(x, Added(x.rows, l.r, l.row))
  <2>1. t \in DOMAIN tables /\ TableInv(tables[t]) /\ x = TableView(tables[t])
    BY <1>1, <1>4, <1>9 DEF SoundTables
  <2>2. Part(x, v[t])
    BY <1>1, <1>3, <2>1
  <2>3. l.r \notin DOMAIN x.rows
    <3> SUFFICES ASSUME l.r \in DOMAIN x.rows PROVE FALSE
      OBVIOUS
    <3>1. RowLine(x, t, l.r) = l
      BY <1>2, <1>9, <2>2 DEF RowLine, Part
    <3> QED BY <1>1, <2>1, <3>1, AllIsTold
  <2>4. Part(y, v[t])
    <3>1. /\ y.schema = x.schema /\ y.idx = x.idx /\ DOMAIN y.rows = DOMAIN x.rows \cup {l.r}
          /\ \A q \in DOMAIN x.rows : y.rows[q] = x.rows[q]
          /\ y.rows[l.r] = l.row
      BY <2>3 DEF WithRows, Added
    <3> HIDE DEF y
    <3> QED BY <1>2, <1>9, <2>2, <3>1 DEF Part
  <2>5. Sound(y)
    BY <1>2, <2>4, SoundPart DEF SoundView
  <2>6. Writable(tables[t], l.row, l.r)
    <3>1. u.op = "Delete" /\ u.r = l.r /\ u.row = l.row
      OBVIOUS
    <3> HIDE DEF u
    <3>2. UndoneIn(x, u) = y
      BY <3>1 DEF UndoneIn
    <3> QED BY <2>1, <2>5, <3>1, <3>2, WritableWhenSound
  <2>7. TableView(PutRow(tables[t], l.r, l.row)) = y
    <3>1. tables[t].rows = x.rows
      BY <2>1 DEF TableView
    <3> QED BY <2>1, <3>1, SeenPutRow
  <2>8. LinesOf(Added(View, t, y)) = LinesOf(View) \cup {l}
    <3>1. l = [kind |-> "row", t |-> t, r |-> l.r, row |-> l.row]
      BY <1>2, <1>9 DEF RowLine
    <3>2. SeenLines(y, t) = SeenLines(x, t) \cup {l}
      <4>1. PICK r, row : r = l.r /\ row = l.row
        OBVIOUS
      <4>2. /\ y = WithRows(x, Added(x.rows, r, row)) /\ r \notin DOMAIN x.rows
            /\ l = [kind |-> "row", t |-> t, r |-> r, row |-> row]
        BY <2>3, <3>1, <4>1
      <4> HIDE DEF t, x, y
      <4>3. \A z, q, w : q \notin DOMAIN z.rows =>
              SeenLines(WithRows(z, Added(z.rows, q, w)), t) =
                SeenLines(z, t) \cup {[kind |-> "row", t |-> t, r |-> q, row |-> w]}
        BY LineOfTheChange
      <4>4. SeenLines(WithRows(x, Added(x.rows, r, row)), t) =
              SeenLines(x, t) \cup {[kind |-> "row", t |-> t, r |-> r, row |-> row]}
        BY <4>2, <4>3
      <4> QED BY <4>2, <4>4, Zenon
    <3>3. SeenLines(x, t) \subseteq LinesOf(View)
      BY <1>1, <2>1 DEF LinesOf
    <3> HIDE DEF y
    <3> QED BY <1>6, <3>2, <3>3
  <2> QED BY <1>5, <1>9, <2>1, <2>6, <2>7, <2>8 DEF Loads
<1> QED BY <1>2, <1>7, <1>8, <1>9

-----------------------------------------------------------------------------
(* What the files promise.  As long as the log tells everything, there is  *)
(* a session for each of its prefixes: the first one is that of the tables *)
(* of the snapshot, each statement of the log succeeds in its session and  *)
(* leads to the next one, and the last one is promised.  The engine is in  *)
(* the last one while it is up, and goes through all of them in open.      *)

\* The lines of a snapshot before the one at `k`, without the header.
Told(lines, k) == {lines[n] : n \in 2..(k - 1)}

\* A snapshot of `v`, as far as it is written: no line is told twice, and none
\* of a table comes before that of its schema.
Written(lines, v) ==
  /\ \A n \in DOMAIN lines : n # 1 =>
       /\ lines[n] \in LinesOf(v)
       /\ lines[n].kind # "table" =>
            \E m \in DOMAIN lines :
              m # 1 /\ m < n /\ lines[m] = SchemaLine(v[lines[n].t], lines[n].t)
  /\ \A n, m \in DOMAIN lines : n # 1 /\ m # 1 /\ n # m => lines[n] # lines[m]

\* A snapshot that is complete.
Tells(lines, v) ==
  /\ lines # <<>> /\ Written(lines, v) /\ LinesOf(v) \subseteq Told(lines, Len(lines) + 1)
  /\ Shape(v) /\ SoundView(v) /\ Indexed(v)

\* The session of tables that were just opened.
SessionOf(v) == [db |-> v, open |-> FALSE, undo |-> <<>>, base |-> v]

\* The sessions `h` are those of the files.
Recounts(h) ==
  /\ \E v : /\ h[0] = SessionOf(v)
            /\ IF snap.exists THEN Tells(snap.lines, v) ELSE v = [t \in {} |-> 0]
  /\ \A n \in 0..Len(wal.lines) : h[n].open \in BOOLEAN
  /\ \A n \in 1..Len(wal.lines) :
       /\ wal.lines[n].kind = "sql" /\ Matters(wal.lines[n].stmt)
       /\ Permits(h[n - 1], wal.lines[n].stmt) /\ h[n] = After(h[n - 1], wal.lines[n].stmt)
  /\ promise = Promised(h[Len(wal.lines)])

\* The memory is where they are.
Follows(h) ==
  /\ mode \in {"down", "snapshot"} => LockedBy(NoTx)
  /\ mode = "snapshot" =>
       snap.exists /\ pos <= Len(snap.lines) + 1 /\ LinesOf(View) = Told(snap.lines, pos)
  /\ mode = "replay" =>
       /\ pos <= Len(wal.lines) + 1 /\ Ran(h[pos - 1])
       /\ call.phase # "ready" => pos <= Len(wal.lines) /\ call.stmt = wal.lines[pos].stmt
  /\ mode = "up" /\ io = "none" =>
       /\ Ran(h[Len(wal.lines)])
       /\ call.phase = "error" => call.log = <<>> /\ call.tx = NoTx
  /\ mode = "up" /\ io = "newline" => Tracks(h[Len(wal.lines)])

\* A CHECKPOINT is under way.
Saving == io \in {"snapshot", "marker", "truncate"}

\* It writes the tables of the session that is promised, outside a transaction.
Saves ==
  /\ snap.exists /\ Written(snap.lines, View)
  /\ io # "snapshot" => Tells(snap.lines, View)
  /\ call.stmt.op = "Checkpoint"
  /\ \E x : Tracks(x) /\ x.open = FALSE /\ promise = Promised(x)

\* What is so as long as nothing happened that the log does not tell.
TrustInv ==
  trusted =>
    /\ mode # "failed"
    /\ IF Saving THEN Saves ELSE \E h : Recounts(h) /\ Follows(h)

\* The log has a line after the other.
LEMMA LinesOfTheLog ==
  ASSUME DiskInv
  PROVE  /\ Len(wal.lines) \in Nat /\ DOMAIN wal.lines = 1..Len(wal.lines)
         /\ Len(snap.lines) \in Nat /\ DOMAIN snap.lines = 1..Len(snap.lines)
         /\ snap.lines \in Seq(Range(snap.lines))
BY LenProperties DEF DiskInv, LogInv, SnapshotInv, Lines

\* Files that stay as they are tell of the same sessions.
LEMMA RecountsKept ==
  ASSUME NEW h, Recounts(h), snap' = snap, wal'.lines = wal.lines, promise' = promise
  PROVE  Recounts(h)'
BY DEF Recounts

\* Tables without a transaction are where their session is.
LEMMA OpenedTracks ==
  ASSUME NEW v, AlikeDb(View, v), txn = NoTxn, LockedBy(NoTx)
  PROVE  Tracks(SessionOf(v))
<1>1. txn.id = NoTx /\ txn.undo = <<>>
  BY DEF NoTxn
<1>2. Kinds(txn.undo) = <<>>
  BY <1>1, EmptySeq, KindsAreRecords
<1>3. LockedBy(txn.id)
  BY <1>1 DEF LockedBy
<1> QED BY <1>1, <1>2, <1>3 DEF Tracks, SessionOf, Active

\* Memory that is empty, and what little there is to say of it.
LEMMA NothingIsThere ==
  ASSUME DOMAIN tables = {}
  PROVE  /\ LinesOf(View) = {} /\ \A lines : Told(lines, 2) = {}
         /\ AlikeDb(View, [t \in {} |-> 0])
<1>1. DOMAIN View = {}
  BY SeenTables
<1> QED BY <1>1 DEF LinesOf, Told, AlikeDb

\* No process, no files: nothing is promised, and nothing is there.
LEMMA NothingPromised ==
  ASSUME Init
  PROVE  TrustInv
<1>1. /\ EmptyDatabase /\ snap = NoSnapshot /\ wal = EmptyWal
      /\ mode = "down" /\ io = "none" /\ promise = Shown
  BY DEF Init
<1>2. EngineInv
  BY EmptyDirectory
<1>3. DOMAIN tables = {} /\ txn = NoTxn /\ LockedBy(NoTx)
  BY <1>1 DEF EmptyDatabase, LockedBy, FreeLock
<1> DEFINE v == [t \in {} |-> 0]
           h == [n \in {0} |-> SessionOf(v)]
<1>4. h[0] = SessionOf(v) /\ h[0].open \in BOOLEAN
  BY DEF SessionOf
<1>5. Tracks(h[0])
  BY <1>3, <1>4, OpenedTracks, NothingIsThere
<1>6. promise = Promised(h[0])
  BY <1>1, <1>2, <1>4, <1>5, TracksShows DEF EngineInv
<1>7. Len(wal.lines) = 0 /\ ~snap.exists
  BY <1>1 DEF EmptyWal, NoSnapshot
<1>8. 0..0 = {0} /\ 1..0 = {}
  OBVIOUS
<1> HIDE DEF h
<1>9. Recounts(h)
  BY <1>4, <1>6, <1>7, <1>8 DEF Recounts
<1>10. Follows(h)
  BY <1>1, <1>3 DEF Follows
<1> QED BY <1>1, <1>9, <1>10 DEF TrustInv, Saving

-----------------------------------------------------------------------------
(* The promise: statements and the log.                                    *)

\* A statement that fails in its first step has done nothing.
LEMMA StartFails ==
  ASSUME NEW s \in Stmts, Start(s), call'.phase = "error"
  PROVE  call'.log = <<>> /\ call'.tx = NoTx
<1>1. \A result \in {"ok", "error"} : Ends(s, result) => call'.log = <<>> /\ call'.tx = NoTx
  BY DEF Ends, Ready
<1>2. \A phase \in {"update", "delete"} : ~Loops(s, phase)
  BY DEF Loops
<1>3. CASE Refused(s)
  BY <1>1, <1>3 DEF Refused, Fails
<1>4. CASE CreateTableStmt(s) \/ DropTableStmt(s) \/ CreateIndexStmt(s) \/ DropIndexStmt(s)
  BY <1>1, <1>4 DEF CreateTableStmt, DropTableStmt, CreateIndexStmt, DropIndexStmt, Fails
<1>5. CASE InsertStmt(s) \/ SelectStmt(s)
  BY <1>1, <1>5 DEF InsertStmt, SelectStmt, Fails
<1>6. CASE StartUpdate(s) \/ StartDelete(s)
  BY <1>1, <1>2, <1>6 DEF StartUpdate, StartDelete, Fails
<1>7. CASE BeginStmt(s) \/ CommitStmt(s) \/ RollbackStmt(s)
  BY <1>1, <1>7 DEF BeginStmt, CommitStmt, RollbackStmt, Fails
<1> QED BY <1>3, <1>4, <1>5, <1>6, <1>7 DEF Start

\* A loop or a ROLLBACK that fails now, and does not leave the log behind,
\* has done nothing.
LEMMA ContinuesFails ==
  ASSUME EngineInv, NEW x, Ran(x), Continues, call'.phase = "error", ~LeavesLog(call.stmt)
  PROVE  call'.log = <<>> /\ call'.tx = NoTx
<1>1. call \in [phase : Phase, stmt : Stmts \cup {Ready.stmt}, todo : SUBSET RowId,
                log : Seq(UndoRecord), tx : Nat]
  BY DEF EngineInv, EngineType
<1>2. CASE UpdateRow
  <2>1. call.phase = "update" /\ call'.log = call.log /\ call'.tx = call.tx
    BY <1>1, <1>2 DEF UpdateRow, RowUpdated
  <2>2. call.tx = NoTx
    BY <2>1 DEF Ran, Looping
  <2> QED BY <2>1, <2>2 DEF LeavesLog
<1>3. ~DeleteOne
  BY <1>1 DEF DeleteOne
<1>4. ~LoopDone
  BY <1>1 DEF LoopDone, Ends, Ready
<1>5. ~UndoLast
  BY <1>1 DEF UndoLast, LeavesLog
<1>6. ~UndoDone
  BY <1>1 DEF UndoDone
<1> QED BY <1>2, <1>3, <1>4, <1>5, <1>6 DEF Continues

\* A statement starts when none is running.
LEMMA StartsWhenReady ==
  ASSUME NEW s, Start(s)
  PROVE  call.phase = "ready"
<1>1. CASE Refused(s) \/ CreateTableStmt(s) \/ DropTableStmt(s) \/ CreateIndexStmt(s) \/ DropIndexStmt(s)
  BY <1>1 DEF Refused, CreateTableStmt, DropTableStmt, CreateIndexStmt, DropIndexStmt, Begins
<1>2. CASE InsertStmt(s) \/ SelectStmt(s) \/ StartUpdate(s) \/ StartDelete(s)
  BY <1>2 DEF InsertStmt, SelectStmt, StartUpdate, StartDelete, Begins
<1>3. CASE BeginStmt(s) \/ CommitStmt(s) \/ RollbackStmt(s)
  BY <1>3 DEF BeginStmt, CommitStmt, RollbackStmt, Begins
<1> QED BY <1>1, <1>2, <1>3 DEF Start

\* A statement runs, and the log says nothing of it yet.
LEMMA ExecuteTrust ==
  ASSUME EngineInv, DiskInv, EngineInv', TrustInv, Execute
  PROVE  TrustInv'
<1> SUFFICES ASSUME trusted' PROVE TrustInv'
  BY DEF TrustInv
<1>1. /\ mode = "up" /\ io = "none" /\ trusted
      /\ snap' = snap /\ wal' = wal /\ promise' = promise /\ mode' = "up" /\ io' = "none"
  BY DEF Execute, diskVars
<1>2. PICK h : Recounts(h) /\ Follows(h)
  BY <1>1 DEF TrustInv, Saving
<1> DEFINE x == h[Len(wal.lines)]
<1>3. Ran(x)
  BY <1>1, <1>2 DEF Follows
<1>4. PICK k : k = Len(wal.lines)
  OBVIOUS
<1>5. Ran(h[k])' /\ (call'.phase = "error" => call'.log = <<>> /\ call'.tx = NoTx)
  <2>1. CASE \E s \in Stmts : Start(s) /\ ~LeavesLog(s)
    <3>1. PICK s \in Stmts : Start(s) /\ ~LeavesLog(s)
      BY <2>1
    <3>2. call.phase = "ready"
      BY <3>1, StartsWhenReady
    <3>3. Tracks(h[k])
      BY <1>3, <1>4, <3>2 DEF Ran
    <3>4. s.op = "DropIndex" =>
            \A t, q \in DOMAIN tables :
              s.i \in DOMAIN tables[t].idx /\ s.i \in DOMAIN tables[q].idx => t = q
      BY <3>1, <3>2 DEF LeavesLog
    <3>5. Ran(h[k])'
      BY <3>1, <3>3, <3>4, StartRan
    <3> QED BY <3>1, <3>5, StartFails
  <2>2. CASE Continues /\ ~LeavesLog(call.stmt)
    <3>1. Ran(h[k])
      BY <1>3, <1>4
    <3> QED BY <2>2, <3>1, ContinuesRan, ContinuesFails
  <2> QED BY <2>1, <2>2 DEF Execute
<1>6. Ran(h[Len(wal.lines)])'
  BY <1>1, <1>4, <1>5 DEF Ran
<1>7. Recounts(h)'
  BY <1>1, <1>2, RecountsKept
<1>8. Follows(h)'
  BY <1>1, <1>5, <1>6 DEF Follows
<1> QED BY <1>1, <1>7, <1>8 DEF TrustInv, Saving

\* A statement that failed, or is not logged, returns.
LEMMA ReturnTrust ==
  ASSUME EngineInv, DiskInv, EngineInv', TrustInv, Return
  PROVE  TrustInv'
<1> SUFFICES ASSUME trusted' PROVE TrustInv'
  BY DEF TrustInv
<1>1. /\ mode = "up" /\ io = "none" /\ trusted /\ Returns
      /\ call.phase = "error" \/ ~Logged(call.stmt)
      /\ snap' = snap /\ wal' = wal /\ promise' = promise /\ mode' = "up" /\ io' = "none"
  BY DEF Return, diskVars, histVars
<1>2. PICK h : Recounts(h) /\ Follows(h)
  BY <1>1 DEF TrustInv, Saving
<1>3. PICK k : k = Len(wal.lines)
  OBVIOUS
<1>4. Tracks(h[k])
  <2>1. Ran(h[k]) /\ (call.phase = "error" => call.log = <<>> /\ call.tx = NoTx)
    BY <1>1, <1>2, <1>3 DEF Follows
  <2>2. CASE call.phase = "error"
    BY <2>1, <2>2 DEF Ran
  <2>3. CASE call.phase = "ok"
    BY <1>1, <2>1, <2>3 DEF Ran, Logged, Matters
  <2> QED BY <1>1, <2>2, <2>3 DEF Returns
<1>5. Ran(h[k])' /\ call'.phase # "error"
  BY <1>1, <1>4, ReturnsRan DEF Returns, Ready
<1>6. Ran(h[Len(wal.lines)])'
  BY <1>1, <1>3, <1>5 DEF Ran
<1>7. Recounts(h)'
  BY <1>1, <1>2, RecountsKept
<1>8. Follows(h)'
  BY <1>1, <1>5, <1>6 DEF Follows
<1> QED BY <1>1, <1>7, <1>8 DEF TrustInv, Saving

\* A statement that succeeded is written to the log: the session after it is
\* promised from then on.
LEMMA LogTextTrust ==
  ASSUME EngineInv, DiskInv, EngineInv', TrustInv, LogText
  PROVE  TrustInv'
<1> SUFFICES ASSUME trusted' PROVE TrustInv'
  BY DEF TrustInv
<1>1. PICK s : s = call.stmt
  OBVIOUS
<1>2. /\ mode = "up" /\ io = "none" /\ trusted /\ ~wal.open /\ call.phase = "ok" /\ Matters(s)
      /\ snap' = snap /\ mode' = "up" /\ io' = "newline" /\ promise' = Shown
      /\ wal'.lines = Append(wal.lines, [kind |-> "sql", stmt |-> s])
      /\ UNCHANGED engineVars
  BY <1>1 DEF LogText, Appended, Logged, Matters
<1>3. PICK h : Recounts(h) /\ Follows(h)
  BY <1>2 DEF TrustInv, Saving
<1>4. PICK k \in Nat : k = Len(wal.lines)
  BY LinesOfTheLog
<1>5. /\ Len(wal'.lines) = k + 1 /\ wal'.lines[k + 1] = [kind |-> "sql", stmt |-> s]
      /\ \A n \in 1..k : wal'.lines[n] = wal.lines[n]
  <2> DEFINE new == Append(wal.lines, [kind |-> "sql", stmt |-> s])
  <2>1. /\ Lines(new) /\ DOMAIN new = 1..(k + 1) /\ \A n \in 1..k : new[n] = wal.lines[n]
        /\ new[k + 1] = [kind |-> "sql", stmt |-> s]
    BY <1>4, LineAppended DEF DiskInv, LogInv
  <2> HIDE DEF new
  <2>2. Len(new) = k + 1
    <3>1. DOMAIN new = 1..Len(new) /\ Len(new) \in Nat
      BY <2>1, LenProperties DEF Lines
    <3>2. \A n, m \in Nat : 1..n = 1..m => n = m
      OBVIOUS
    <3> QED BY <2>1, <3>1, <3>2
  <2> QED BY <1>2, <2>1, <2>2 DEF new
<1> DEFINE y == After(h[k], s)
           g == [n \in 0..(k + 1) |-> IF n = k + 1 THEN y ELSE h[n]]
<1>6. /\ Permits(h[k], s) /\ Tracks(y)
  BY <1>1, <1>2, <1>3, <1>4 DEF Follows, Ran
<1>7. /\ g[k + 1] = y /\ \A n \in 0..k : g[n] = h[n] /\ n # k + 1
  BY <1>4
<1>8. y.open \in BOOLEAN
  <2>1. h[k].open \in BOOLEAN
    BY <1>3, <1>4 DEF Recounts
  <2> QED BY <2>1 DEF After
<1> HIDE DEF g, y
<1>9. Tracks(y)' /\ Shown = Promised(y)
  <2>1. tables' = tables /\ txn' = txn /\ locks' = locks
    BY <1>2 DEF engineVars
  <2>2. LockedBy(txn.id)'
    BY <1>6, <2>1 DEF Tracks, LockedBy
  <2> QED BY <1>6, <1>8, <2>1, <2>2, TracksUnchanged, TracksShows DEF EngineInv
<1>10. Recounts(g)'
  <2>1. \E v : /\ g[0] = SessionOf(v)
               /\ IF snap'.exists THEN Tells(snap'.lines, v) ELSE v = [t \in {} |-> 0]
    BY <1>2, <1>3, <1>4, <1>7 DEF Recounts
  <2>2. \A n \in 0..(k + 1) : g[n].open \in BOOLEAN
    <3>1. \A n \in 0..(k + 1) : n \in 0..k \/ n = k + 1
      BY <1>4
    <3> QED BY <1>3, <1>4, <1>7, <1>8, <3>1 DEF Recounts
  <2>3. ASSUME NEW n \in 1..(k + 1)
        PROVE  /\ wal'.lines[n].kind = "sql" /\ Matters(wal'.lines[n].stmt)
               /\ Permits(g[n - 1], wal'.lines[n].stmt)
               /\ g[n] = After(g[n - 1], wal'.lines[n].stmt)
    <3>1. CASE n \in 1..k
      <4>1. n \in 0..k /\ n - 1 \in 0..k
        BY <1>4, <3>1
      <4>2. g[n] = h[n] /\ g[n - 1] = h[n - 1] /\ wal'.lines[n] = wal.lines[n]
        BY <1>5, <1>7, <3>1, <4>1
      <4> QED BY <1>3, <1>4, <3>1, <4>2 DEF Recounts
    <3>2. CASE n = k + 1
      <4>1. n - 1 = k /\ k \in 0..k
        BY <1>4, <3>2
      <4>2. g[n] = y /\ g[n - 1] = h[k] /\ wal'.lines[n].kind = "sql" /\ wal'.lines[n].stmt = s
        BY <1>5, <1>7, <3>2, <4>1
      <4> QED BY <1>2, <1>6, <4>2 DEF y
    <3>3. n \in 1..k \/ n = k + 1
      BY <1>4
    <3> QED BY <3>1, <3>2, <3>3
  <2>4. promise' = Promised(g[k + 1])
    BY <1>2, <1>7, <1>9
  <2> QED BY <1>5, <2>1, <2>2, <2>3, <2>4 DEF Recounts
<1>11. Follows(g)'
  <2>1. Tracks(g[Len(wal.lines)])'
    BY <1>5, <1>7, <1>9 DEF Tracks
  <2> QED BY <1>2, <2>1 DEF Follows
<1> QED BY <1>2, <1>10, <1>11 DEF TrustInv, Saving

\* The newline of a record is written, or is not.
LEMMA LogNewlineTrust ==
  ASSUME EngineInv, DiskInv, EngineInv', TrustInv, LogNewline \/ LogFails
  PROVE  TrustInv'
<1> SUFFICES ASSUME trusted' PROVE TrustInv'
  BY DEF TrustInv
<1>1. /\ mode = "up" /\ io = "newline" /\ trusted /\ Returns
      /\ snap' = snap /\ wal'.lines = wal.lines /\ promise' = promise
      /\ mode' = "up" /\ io' = "none"
  <2>1. CASE LogNewline
    <3>1. wal' = [wal EXCEPT !.open = FALSE]
      BY <2>1 DEF LogNewline
    <3>2. wal'.lines = wal.lines
      BY <3>1
    <3> QED BY <2>1, <3>2 DEF LogNewline, histVars
  <2>2. CASE LogFails
    BY <2>2 DEF LogFails, diskVars
  <2> QED BY <2>1, <2>2
<1>2. PICK h : Recounts(h) /\ Follows(h)
  BY <1>1 DEF TrustInv, Saving
<1>3. PICK k : k = Len(wal.lines)
  OBVIOUS
<1>4. Tracks(h[k])
  BY <1>1, <1>2, <1>3 DEF Follows
<1>5. Ran(h[k])' /\ call'.phase # "error"
  BY <1>1, <1>4, ReturnsRan DEF Returns, Ready
<1>6. Ran(h[Len(wal.lines)])'
  BY <1>1, <1>3, <1>5 DEF Ran
<1>7. Recounts(h)'
  BY <1>1, <1>2, RecountsKept
<1>8. Follows(h)'
  BY <1>1, <1>5, <1>6 DEF Follows
<1> QED BY <1>1, <1>7, <1>8 DEF TrustInv, Saving

-----------------------------------------------------------------------------
(* The promise: CHECKPOINT.                                                *)

\* Outside a transaction CHECKPOINT begins: the session is the promised one.
LEMMA StartCheckpointTrust ==
  ASSUME EngineInv, DiskInv, EngineInv', TrustInv, StartCheckpoint
  PROVE  TrustInv'
<1> SUFFICES ASSUME trusted' PROVE TrustInv'
  BY DEF TrustInv
<1>1. /\ mode = "up" /\ io = "none" /\ trusted /\ ~Active /\ call.phase = "ready"
      /\ tables' = tables /\ txn' = txn /\ locks' = locks
      /\ snap' = [exists |-> TRUE, lines |-> <<>>]
      /\ mode' = "up" /\ io' = "snapshot" /\ promise' = promise
  BY DEF StartCheckpoint, Begins
<1>2. PICK h : Recounts(h) /\ Follows(h)
  BY <1>1 DEF TrustInv, Saving
<1>3. PICK k \in Nat : k = Len(wal.lines)
  BY LinesOfTheLog
<1>4. PICK x : x = h[k]
  OBVIOUS
<1>5. Tracks(x) /\ promise = Promised(x) /\ x.open \in BOOLEAN
  BY <1>1, <1>2, <1>3, <1>4 DEF Recounts, Follows, Ran
<1>6. x.open = FALSE
  BY <1>1, <1>5 DEF Tracks
<1>7. Tracks(x)'
  <2>1. LockedBy(txn.id)'
    BY <1>1, <1>5 DEF Tracks, LockedBy
  <2> QED BY <1>1, <1>5, <2>1, TracksUnchanged
<1>8. call'.stmt.op = "Checkpoint"
  BY DEF StartCheckpoint, Ready
<1>9. Written(snap.lines, View)'
  <2>1. snap'.lines = <<>>
    BY <1>1
  <2>2. DOMAIN <<>> = {}
    OBVIOUS
  <2> QED BY <2>1, <2>2 DEF Written
<1>10. Saves'
  BY <1>1, <1>5, <1>6, <1>7, <1>8, <1>9 DEF Saves
<1> QED BY <1>1, <1>10 DEF TrustInv, Saving

\* While CHECKPOINT writes, the session is the same.
LEMMA SessionIsKept ==
  ASSUME NEW x, Tracks(x), UNCHANGED engineVars
  PROVE  Tracks(x)' /\ View' = View /\ call' = call
<1>1. tables' = tables /\ txn' = txn /\ locks' = locks /\ call' = call
  BY DEF engineVars
<1>2. LockedBy(txn.id)'
  BY <1>1 DEF Tracks, LockedBy
<1> QED BY <1>1, <1>2, TracksUnchanged DEF View

\* A line more is written: the next one in its table.
LEMMA WrittenWithOneMore ==
  ASSUME EngineInv, DiskInv, Written(snap.lines, View), snap.lines # <<>>,
         NEW t \in DOMAIN tables, NEW l \in Due(t), \A m \in Due(t) : ~Precedes(m, l)
  PROVE  Written(Append(snap.lines, l), View)
<1> DEFINE lines == snap.lines
           new == Append(lines, l)
           k == Len(lines)
<1>1. SoundTables(tables)
  BY DEF EngineInv
<1>2. /\ k \in Nat /\ DOMAIN lines = 1..k /\ DOMAIN new = 1..(k + 1)
      /\ \A n \in 1..k : new[n] = lines[n]
      /\ new[k + 1] = l
  BY LineAppended DEF DiskInv, SnapshotInv
<1>3. k # 0
  BY EmptySeq, LenProperties DEF DiskInv, SnapshotInv, Lines
<1>4. l \in SnapshotLines(t) /\ \A n \in DOMAIN lines : l # lines[n]
  BY DEF Due, Range
<1> HIDE DEF new
<1>5. l \in LinesOf(View) /\ l.t = t
  <2>1. l \in SeenLines(View[t], t) /\ t \in DOMAIN View
    BY <1>1, <1>4, LinesOfTheTables
  <2> QED BY <1>1, <1>4, <2>1, LinesOfTable DEF LinesOf
<1>6. ASSUME l.kind # "table"
      PROVE  \E m \in DOMAIN lines : m # 1 /\ lines[m] = SchemaLine(View[t], t)
  <2>1. TableLine(t) \in SnapshotLines(t) /\ TableLine(t).kind = "table"
    BY DEF SnapshotLines, TableLine
  <2>2. TableLine(t) \notin Due(t)
    BY <1>6, <2>1 DEF Precedes
  <2>3. PICK m \in DOMAIN lines : lines[m] = TableLine(t)
    BY <2>1, <2>2 DEF Due, Range
  <2>4. m # 1
    BY <2>1, <2>3 DEF DiskInv, SnapshotInv
  <2> QED BY <1>1, <2>3, <2>4, LinesOfTheTables
<1> HIDE DEF lines
<1>7. \A n \in DOMAIN new : n \in 1..k \/ n = k + 1
  BY <1>2
<1>8. /\ \A n \in 1..k : n < k + 1 /\ n \in DOMAIN new
      /\ \A n \in 1..k : n # k + 1
  BY <1>2
<1>9. /\ \A n \in DOMAIN lines : n # 1 =>
           /\ lines[n] \in LinesOf(View)
           /\ lines[n].kind # "table" =>
                \E m \in DOMAIN lines :
                  m # 1 /\ m < n /\ lines[m] = SchemaLine(View[lines[n].t], lines[n].t)
      /\ \A n, m \in DOMAIN lines : n # 1 /\ m # 1 /\ n # m => lines[n] # lines[m]
  BY DEF Written, lines
<1>10. ASSUME NEW n \in DOMAIN new, n # 1
       PROVE  /\ new[n] \in LinesOf(View)
              /\ new[n].kind # "table" =>
                   \E m \in DOMAIN new :
                     m # 1 /\ m < n /\ new[m] = SchemaLine(View[new[n].t], new[n].t)
  <2>1. CASE n \in 1..k
    BY <1>2, <1>8, <1>9, <1>10, <2>1
  <2>2. CASE n = k + 1
    <3>1. new[n] = l
      BY <1>2, <2>2
    <3>2. \A m \in DOMAIN lines : m \in DOMAIN new /\ m < n /\ new[m] = lines[m]
      BY <1>2, <1>8, <2>2
    <3> QED BY <1>5, <1>6, <3>1, <3>2
  <2> QED BY <1>7, <2>1, <2>2
<1>11. ASSUME NEW n \in DOMAIN new, NEW m \in DOMAIN new, n # 1, m # 1, n # m
       PROVE  new[n] # new[m]
  <2>1. CASE n \in 1..k /\ m \in 1..k
    BY <1>2, <1>9, <1>11, <2>1
  <2>2. CASE n \in 1..k /\ m = k + 1
    BY <1>2, <1>4, <2>2 DEF lines
  <2>3. CASE n = k + 1 /\ m \in 1..k
    BY <1>2, <1>4, <2>3 DEF lines
  <2> QED BY <1>7, <1>11, <2>1, <2>2, <2>3
<1>12. Written(new, View)
  BY <1>10, <1>11 DEF Written
<1> QED BY <1>12 DEF new, lines

\* When no line is due, all are written.
LEMMA NothingDue ==
  ASSUME EngineInv, DiskInv, Written(snap.lines, View), snap.lines # <<>>, NextTables = {}
  PROVE  Tells(snap.lines, View)
<1>1. SoundTables(tables)
  BY DEF EngineInv
<1>2. \A t \in DOMAIN tables : Due(t) = {}
  BY DEF NextTables
<1>3. ASSUME NEW l \in LinesOf(View)
      PROVE  l \in Told(snap.lines, Len(snap.lines) + 1)
  <2>1. l.t \in DOMAIN tables /\ l \in SnapshotLines(l.t) /\ l.kind # "header"
    BY <1>1, LineTells, LinesOfTheTables
  <2>2. PICK n \in DOMAIN snap.lines : snap.lines[n] = l
    BY <1>2, <2>1 DEF Due, Range
  <2>3. n # 1
    BY <2>1, <2>2 DEF DiskInv, SnapshotInv
  <2>4. n \in 2..(Len(snap.lines) + 1 - 1)
    BY <2>3, LinesOfTheLog
  <2> QED BY <2>2, <2>4 DEF Told
<1> QED BY <1>1, <1>3, LinesOfTheTables DEF Tells

\* CHECKPOINT writes a line of the snapshot, or its record in the log.
LEMMA WriteSnapshotTrust ==
  ASSUME EngineInv, DiskInv, EngineInv', TrustInv, WriteSnapshot
  PROVE  TrustInv'
<1> SUFFICES ASSUME trusted' PROVE TrustInv'
  BY DEF TrustInv
<1>1. /\ io = "snapshot" /\ trusted /\ mode = "up" /\ mode' = "up"
      /\ UNCHANGED engineVars /\ promise' = promise
  BY DEF WriteSnapshot
<1>2. PICK x : Tracks(x) /\ x.open = FALSE /\ promise = Promised(x)
  BY <1>1 DEF TrustInv, Saving, Saves
<1>3. snap.exists /\ Written(snap.lines, View) /\ call.stmt.op = "Checkpoint"
  BY <1>1 DEF TrustInv, Saving, Saves
<1>4. Tracks(x)' /\ View' = View /\ call' = call
  BY <1>1, <1>2, SessionIsKept
<1>5. ASSUME io' \in {"snapshot", "marker"}, snap'.exists, Written(snap'.lines, View),
             io' = "marker" => Tells(snap'.lines, View)
      PROVE  TrustInv'
  <2>1. Written(snap.lines, View)' /\ (io' = "marker" => Tells(snap.lines, View)')
    BY <1>4, <1>5
  <2>2. Saves'
    BY <1>1, <1>2, <1>3, <1>4, <1>5, <2>1 DEF Saves
  <2> QED BY <1>1, <1>5, <2>2 DEF TrustInv, Saving
<1>6. \A lines : snap' = [snap EXCEPT !.lines = lines] =>
        (snap'.lines = lines \/ snap'.lines = snap.lines) /\ (snap'.exists <=> snap.exists)
  OBVIOUS
<1>7. CASE snap' = [snap EXCEPT !.lines = <<[kind |-> "header"]>>] /\ io' = io
  <2> DEFINE new == <<[kind |-> "header"]>>
  <2>1. DOMAIN new = {1}
    OBVIOUS
  <2>2. Written(new, View)
    <3> HIDE DEF new
    <3> QED BY <2>1 DEF Written
  <2> HIDE DEF new
  <2>3. (snap'.lines = new \/ snap'.lines = snap.lines) /\ snap'.exists
    BY <1>3, <1>7 DEF new
  <2> QED BY <1>1, <1>3, <1>5, <1>7, <2>2, <2>3
<1>8. CASE /\ snap.lines # <<>> /\ io' = io
           /\ \E t \in NextTables : \E l \in Due(t) :
                /\ \A m \in Due(t) : ~Precedes(m, l)
                /\ snap' = [snap EXCEPT !.lines = Append(@, l)]
  <2>1. NextTables \subseteq DOMAIN tables
    BY DEF NextTables
  <2>2. PICK t \in DOMAIN tables : \E l \in Due(t) :
                /\ \A m \in Due(t) : ~Precedes(m, l)
                /\ snap' = [snap EXCEPT !.lines = Append(@, l)]
    BY <1>8, <2>1
  <2>3. PICK l \in Due(t) : /\ \A m \in Due(t) : ~Precedes(m, l)
                            /\ snap' = [snap EXCEPT !.lines = Append(@, l)]
    BY <2>2
  <2> DEFINE new == Append(snap.lines, l)
  <2>4. Written(new, View)
    BY <1>3, <1>8, <2>3, WrittenWithOneMore
  <2>5. (snap'.lines = new \/ snap'.lines = snap.lines) /\ snap'.exists
    BY <1>3, <2>3
  <2> HIDE DEF new
  <2> QED BY <1>1, <1>3, <1>5, <1>8, <2>4, <2>5
<1>9. CASE snap.lines # <<>> /\ NextTables = {} /\ io' = "marker" /\ snap' = snap
  <2>1. Tells(snap.lines, View)
    BY <1>3, <1>9, NothingDue
  <2> QED BY <1>3, <1>5, <1>9, <2>1
<1> QED BY <1>7, <1>8, <1>9 DEF WriteSnapshot

\* The newline after the record of CHECKPOINT.
LEMMA MarkerNewlineTrust ==
  ASSUME EngineInv, DiskInv, EngineInv', TrustInv, MarkerNewline
  PROVE  TrustInv'
<1> SUFFICES ASSUME trusted' PROVE TrustInv'
  BY DEF TrustInv
<1>1. /\ io = "marker" /\ io' = "truncate" /\ trusted /\ mode' = "up"
      /\ UNCHANGED engineVars /\ promise' = promise /\ snap' = snap
  BY DEF MarkerNewline, histVars
<1>2. PICK x : Tracks(x) /\ x.open = FALSE /\ promise = Promised(x)
  BY <1>1 DEF TrustInv, Saving, Saves
<1>3. Tracks(x)' /\ View' = View /\ call' = call
  BY <1>1, <1>2, SessionIsKept
<1>4. /\ snap.exists /\ Written(snap.lines, View) /\ Tells(snap.lines, View)
      /\ call.stmt.op = "Checkpoint"
  BY <1>1 DEF TrustInv, Saving, Saves
<1>5. Written(snap.lines, View)' /\ Tells(snap.lines, View)'
  BY <1>1, <1>3, <1>4
<1>6. Saves'
  BY <1>1, <1>2, <1>3, <1>4, <1>5 DEF Saves
<1> QED BY <1>1, <1>6 DEF TrustInv, Saving

\* The log is emptied: what it promised is what the snapshot tells.
LEMMA TruncateTrust ==
  ASSUME EngineInv, DiskInv, EngineInv', TrustInv, TruncateWal
  PROVE  TrustInv'
<1> SUFFICES ASSUME trusted' PROVE TrustInv'
  BY DEF TrustInv
<1>1. /\ io = "truncate" /\ io' = "none" /\ trusted /\ mode' = "up"
      /\ tables' = tables /\ txn' = txn /\ locks' = locks /\ promise' = promise /\ snap' = snap
      /\ wal' = EmptyWal /\ call' = [call EXCEPT !.phase = "ok"]
  BY DEF TruncateWal, histVars
<1>2. PICK x : Tracks(x) /\ x.open = FALSE /\ promise = Promised(x)
  BY <1>1 DEF TrustInv, Saving, Saves
<1>3. snap.exists /\ Tells(snap.lines, View) /\ call.stmt.op = "Checkpoint"
  BY <1>1 DEF TrustInv, Saving, Saves
<1>4. PICK v : v = View
  OBVIOUS
<1> DEFINE y == SessionOf(v)
           h == [n \in {0} |-> y]
<1>5. y.db = v /\ y.open = FALSE /\ y.undo = <<>> /\ h[0] = y
  BY DEF SessionOf
<1>6. AlikeDb(View, x.db) /\ x.undo = <<>> /\ txn = NoTxn /\ LockedBy(NoTx)
  <2>1. ~Active
    BY <1>2 DEF Tracks
  <2>2. txn.id = NoTx /\ txn.undo = <<>>
    BY <2>1 DEF Active, EngineInv, TxnInv
  <2>3. txn = NoTxn
    BY <2>2 DEF EngineInv, EngineType, NoTxn
  <2>4. x.undo = <<>>
    BY <1>2, <2>2, EmptySeq, KindsAreRecords DEF Tracks
  <2>5. LockedBy(NoTx)
    BY <1>2, <2>2 DEF Tracks, LockedBy
  <2> QED BY <1>2, <2>3, <2>4, <2>5 DEF Tracks
<1>7. Tracks(y)
  <2>1. AlikeDb(View, View)
    BY LinesOfTheTables DEF EngineInv
  <2> QED BY <1>4, <1>6, <2>1, OpenedTracks
<1>8. promise = Promised(y)
  BY <1>2, <1>4, <1>5, <1>6, PromisedAlike
<1>9. Tracks(y)'
  <2>1. LockedBy(txn.id)'
    BY <1>1, <1>7 DEF Tracks, LockedBy
  <2> QED BY <1>1, <1>7, <2>1, TracksUnchanged
<1> HIDE DEF y, h
<1>10. call'.phase = "ok" /\ call'.stmt = call.stmt
  BY <1>1 DEF EngineInv, EngineType
<1>11. Ran(y)'
  <2>1. ~Matters(call'.stmt)
    BY <1>3, <1>10 DEF Matters
  <2> QED BY <1>9, <1>10, <2>1 DEF Ran
<1>12. Len(wal'.lines) = 0 /\ 1..0 = {} /\ 0..0 = {0}
  BY <1>1 DEF EmptyWal
<1>13. Recounts(h)'
  <2>1. h[0] = SessionOf(v) /\ h[0].open \in BOOLEAN
    BY <1>5 DEF y
  <2>2. snap'.exists /\ Tells(snap'.lines, v)
    BY <1>1, <1>3, <1>4
  <2> QED BY <1>1, <1>5, <1>8, <1>12, <2>1, <2>2 DEF Recounts
<1>14. Follows(h)'
  <2>1. Ran(h[Len(wal.lines)])'
    BY <1>5, <1>11, <1>12 DEF Ran
  <2> QED BY <1>1, <1>10, <2>1 DEF Follows
<1> QED BY <1>1, <1>13, <1>14 DEF TrustInv, Saving

-----------------------------------------------------------------------------
(* The promise: death of the process, and open.                            *)

\* The process dies, but not in a CHECKPOINT: the files tell what they told.
LEMMA CrashTrust ==
  ASSUME EngineInv, DiskInv, EngineInv', TrustInv, Crash
  PROVE  TrustInv'
<1> SUFFICES ASSUME trusted' PROVE TrustInv'
  BY DEF TrustInv
<1>1. /\ trusted /\ CrashPoint # "checkpoint" /\ ForgetsMemory
      /\ snap' = snap /\ wal' = wal /\ promise' = promise /\ mode' = "down" /\ io' = "none"
  BY DEF Crash, diskVars
<1>2. ~Saving
  BY <1>1 DEF Saving, CrashPoint, DiskInv, ModeInv
<1>3. PICK h : Recounts(h)
  BY <1>1, <1>2 DEF TrustInv
<1>4. LockedBy(NoTx)'
  BY <1>1 DEF ForgetsMemory, LockedBy, FreeLock
<1>5. Recounts(h)' /\ Follows(h)'
  BY <1>1, <1>3, <1>4, RecountsKept DEF Follows
<1> QED BY <1>1, <1>5 DEF TrustInv, Saving

\* open begins, with a snapshot that is complete or at once with the log.
LEMMA OpenTrust ==
  ASSUME EngineInv, DiskInv, EngineInv', TrustInv, Open
  PROVE  TrustInv'
<1> SUFFICES ASSUME trusted' PROVE TrustInv'
  BY DEF TrustInv
<1>1. /\ trusted /\ mode = "down" /\ io = "none" /\ io' = "none" /\ UNCHANGED engineVars
      /\ snap' = snap /\ wal' = wal /\ promise' = promise
      /\ mode' = IF ~snap.exists THEN "replay" ELSE IF snap.lines = <<>> THEN "failed" ELSE "snapshot"
      /\ pos' = IF ~snap.exists THEN 1 ELSE 2
  BY DEF Open, diskVars, histVars, DiskInv, ModeInv
<1>2. PICK h : Recounts(h) /\ Follows(h)
  BY <1>1 DEF TrustInv, Saving
<1>3. PICK v : /\ h[0] = SessionOf(v)
               /\ IF snap.exists THEN Tells(snap.lines, v) ELSE v = [t \in {} |-> 0]
  BY <1>2 DEF Recounts
<1>4. call = Ready /\ txn = NoTxn /\ DOMAIN tables = {} /\ LockedBy(NoTx)
  BY <1>1, <1>2 DEF DiskInv, ModeInv, Follows
<1>5. Tracks(SessionOf([t \in {} |-> 0])) /\ LinesOf(View) = {} /\ Told(snap.lines, 2) = {}
  BY <1>4, NothingIsThere, OpenedTracks
<1>6. View' = View /\ LockedBy(NoTx)' /\ call' = call
  BY <1>1, <1>4 DEF engineVars, View, LockedBy
<1>7. Recounts(h)'
  BY <1>1, <1>2, RecountsKept
<1>8. CASE ~snap.exists
  <2>1. Tracks(h[0])
    BY <1>3, <1>5, <1>8
  <2>2. Tracks(h[0])'
    BY <1>1, <2>1, SessionIsKept
  <2>3. mode' = "replay" /\ pos' = 1 /\ call'.phase = "ready"
    BY <1>1, <1>4, <1>6, <1>8 DEF Ready
  <2>4. pos' - 1 = 0 /\ pos' <= Len(wal'.lines) + 1
    BY <1>1, <2>3, LinesOfTheLog
  <2>5. Ran(h[0])'
    BY <2>2, <2>3 DEF Ran
  <2>6. Ran(h[pos - 1])'
    BY <2>4, <2>5 DEF Ran
  <2>7. Follows(h)'
    BY <2>3, <2>4, <2>6 DEF Follows
  <2> QED BY <1>1, <1>7, <2>3, <2>7 DEF TrustInv, Saving
<1>9. CASE snap.exists
  <2>1. mode' = "snapshot" /\ pos' = 2
    BY <1>1, <1>3, <1>9 DEF Tells
  <2>2. pos' <= Len(snap'.lines) + 1
    <3>1. Len(snap.lines) \in Nat \ {0}
      BY <1>3, <1>9, LinesOfTheLog, EmptySeq DEF Tells
    <3> QED BY <1>1, <2>1, <3>1
  <2>3. LinesOf(View)' = Told(snap.lines, pos)'
    BY <1>1, <1>5, <1>6, <2>1
  <2>4. Follows(h)'
    BY <1>1, <1>6, <1>9, <2>1, <2>2, <2>3 DEF Follows
  <2> QED BY <1>1, <1>7, <2>1, <2>4 DEF TrustInv, Saving
<1> QED BY <1>8, <1>9

\* A line of the snapshot is read and accepted: what was read is what is there.
LEMMA LoadLineTrust ==
  ASSUME EngineInv, DiskInv, EngineInv', TrustInv, LoadLine
  PROVE  TrustInv'
<1> SUFFICES ASSUME trusted' PROVE TrustInv'
  BY DEF TrustInv
<1> DEFINE l == snap.lines[pos]
<1>1. /\ trusted /\ mode = "snapshot" /\ io = "none" /\ io' = "none"
      /\ pos > 1 /\ pos \in Nat /\ pos <= Len(snap.lines)
      /\ snap' = snap /\ wal' = wal /\ promise' = promise /\ locks' = locks
  BY DEF LoadLine, diskVars, histVars, DiskInv, ModeInv, LoadInv
<1>2. PICK h : Recounts(h) /\ Follows(h)
  BY <1>1 DEF TrustInv, Saving
<1>3. LinesOf(View) = Told(snap.lines, pos) /\ snap.exists /\ LockedBy(NoTx)
  BY <1>1, <1>2 DEF Follows
<1>4. PICK v : Tells(snap.lines, v)
  BY <1>2, <1>3 DEF Recounts
<1>5. Written(snap.lines, v) /\ SoundView(v) /\ Indexed(v)
  BY <1>4 DEF Tells
<1>6. pos \in DOMAIN snap.lines /\ pos # 1 /\ \A n \in 2..(pos - 1) : n \in DOMAIN snap.lines /\ n # 1 /\ n # pos
  BY <1>1, LinesOfTheLog
<1>7. l \in LinesOf(v) /\ LineFits(l)
  BY <1>5, <1>6 DEF Written, DiskInv, SnapshotInv
<1>8. LinesOf(View) \subseteq LinesOf(v)
  BY <1>3, <1>5, <1>6 DEF Told, Written
<1>9. l \notin LinesOf(View)
  BY <1>3, <1>5, <1>6 DEF Told, Written
<1>10. ASSUME l.kind # "table"
       PROVE  SchemaLine(v[l.t], l.t) \in LinesOf(View)
  <2>1. PICK m \in DOMAIN snap.lines :
          m # 1 /\ m < pos /\ snap.lines[m] = SchemaLine(v[l.t], l.t)
    BY <1>5, <1>6, <1>10 DEF Written
  <2>2. m \in 2..(pos - 1)
    BY <1>1, <2>1, LinesOfTheLog
  <2> QED BY <1>3, <2>1, <2>2 DEF Told
<1>11. SoundTables(tables)
  BY DEF EngineInv
<1>12. /\ Loads(l)
       /\ \/ l.kind = "table" /\ Put(l.t, NewTable(l.schema))
          \/ l.kind = "index" /\ Put(l.t, CreateIndex(tables[l.t], l.i, l.c, l.unique))
          \/ l.kind = "row" /\ Put(l.t, PutRow(tables[l.t], l.r, l.row))
          => LinesOf(View') = LinesOf(View) \cup {l}
  <2> HIDE DEF l
  <2> QED BY <1>5, <1>7, <1>8, <1>9, <1>10, <1>11, LineIsLoaded
<1>13. LinesOf(View') = LinesOf(View) \cup {l} /\ pos' = pos + 1 /\ mode' = mode
  BY <1>12 DEF LoadLine
<1>14. Told(snap.lines, pos + 1) = Told(snap.lines, pos) \cup {l}
  <2>1. 2..(pos + 1 - 1) = 2..(pos - 1) \cup {pos}
    BY <1>1
  <2> QED BY <2>1 DEF Told
<1> HIDE DEF l
<1>15. LinesOf(View)' = Told(snap.lines, pos)'
  BY <1>1, <1>3, <1>13, <1>14
<1>16. pos' <= Len(snap'.lines) + 1
  BY <1>1, <1>13, LinesOfTheLog
<1>17. LockedBy(NoTx)'
  BY <1>1, <1>3 DEF LockedBy
<1>18. Recounts(h)' /\ Follows(h)'
  BY <1>1, <1>2, <1>3, <1>13, <1>15, <1>16, <1>17, RecountsKept DEF Follows
<1> QED BY <1>1, <1>13, <1>18 DEF TrustInv, Saving

\* The whole snapshot is in the memory: it is where the first session is.
LEMMA SnapshotLoadedTrust ==
  ASSUME EngineInv, DiskInv, EngineInv', TrustInv, SnapshotLoaded
  PROVE  TrustInv'
<1> SUFFICES ASSUME trusted' PROVE TrustInv'
  BY DEF TrustInv
<1>1. /\ trusted /\ mode = "snapshot" /\ io = "none" /\ io' = "none" /\ mode' = "replay"
      /\ call = Ready /\ txn = NoTxn /\ pos \in Nat /\ pos > Len(snap.lines) /\ pos' = 1
      /\ snap' = snap /\ wal' = wal /\ promise' = promise /\ UNCHANGED engineVars
  BY DEF SnapshotLoaded, diskVars, histVars, DiskInv, ModeInv
<1>2. PICK h : Recounts(h) /\ Follows(h)
  BY <1>1 DEF TrustInv, Saving
<1>3. /\ snap.exists /\ pos <= Len(snap.lines) + 1 /\ LinesOf(View) = Told(snap.lines, pos)
      /\ LockedBy(NoTx)
  BY <1>1, <1>2 DEF Follows
<1>4. PICK v : h[0] = SessionOf(v) /\ Tells(snap.lines, v)
  BY <1>2, <1>3 DEF Recounts
<1>5. pos = Len(snap.lines) + 1
  BY <1>1, <1>3, LinesOfTheLog
<1>6. LinesOf(View) = LinesOf(v)
  <2>1. LinesOf(v) \subseteq Told(snap.lines, pos)
    BY <1>4, <1>5 DEF Tells
  <2>2. Told(snap.lines, pos) \subseteq LinesOf(v)
    <3>1. \A n \in 2..(pos - 1) : n \in DOMAIN snap.lines /\ n # 1
      BY <1>5, LinesOfTheLog
    <3> QED BY <1>4, <3>1 DEF Tells, Written, Told
  <2> QED BY <1>3, <2>1, <2>2
<1>7. View = v /\ AlikeDb(View, View)
  <2>1. Shape(View) /\ AlikeDb(View, View)
    BY LinesOfTheTables DEF EngineInv
  <2> QED BY <1>4, <1>6, <2>1, SameIsTold DEF Tells
<1>8. Tracks(h[0])
  BY <1>1, <1>3, <1>4, <1>7, OpenedTracks
<1>9. Tracks(h[0])' /\ call' = call
  BY <1>1, <1>8, SessionIsKept
<1>10. call'.phase = "ready" /\ pos' - 1 = 0 /\ pos' <= Len(wal'.lines) + 1
  BY <1>1, <1>9, LinesOfTheLog DEF Ready
<1>11. Ran(h[0])'
  BY <1>9, <1>10 DEF Ran
<1>12. Ran(h[pos - 1])'
  BY <1>10, <1>11 DEF Ran
<1>13. Recounts(h)' /\ Follows(h)'
  BY <1>1, <1>2, <1>10, <1>12, RecountsKept DEF Follows
<1> QED BY <1>1, <1>13 DEF TrustInv, Saving

\* A statement of the log is executed again, in the session it was logged in.
LEMMA ReplayTrust ==
  ASSUME EngineInv, DiskInv, EngineInv', TrustInv, Replay
  PROVE  TrustInv'
<1> SUFFICES ASSUME trusted' PROVE TrustInv'
  BY DEF TrustInv
<1>1. /\ trusted /\ mode = "replay" /\ io = "none" /\ io' = "none" /\ mode' = "replay"
      /\ pos \in Nat \ {0} /\ pos' = pos
      /\ snap' = snap /\ wal' = wal /\ promise' = promise
  BY DEF Replay, diskVars, histVars, DiskInv, ModeInv
<1>2. PICK h : Recounts(h) /\ Follows(h)
  BY <1>1 DEF TrustInv, Saving
<1>3. PICK x : x = h[pos - 1]
  OBVIOUS
<1>4. /\ pos <= Len(wal.lines) + 1 /\ Ran(x)
      /\ call.phase # "ready" => pos <= Len(wal.lines) /\ call.stmt = wal.lines[pos].stmt
  BY <1>1, <1>2, <1>3 DEF Follows
<1>5. /\ Ran(x)' /\ pos <= Len(wal.lines)
      /\ call'.stmt = wal.lines[pos].stmt
  <2>1. CASE Continues
    BY <1>4, <2>1, ContinuesRan, ContinuesRuns
  <2>2. CASE call.phase = "ready" /\ pos <= Len(wal.lines) /\ Start(wal.lines[pos].stmt)
    <3>1. PICK s : s = wal.lines[pos].stmt
      OBVIOUS
    <3>2. pos \in 1..Len(wal.lines)
      BY <1>1, <2>2, LinesOfTheLog
    <3>3. Permits(x, s) /\ s \in Stmts
      BY <1>2, <1>3, <3>1, <3>2, LinesOfTheLog DEF Recounts, DiskInv, LogInv
    <3>4. Tracks(x)
      BY <1>4, <2>2 DEF Ran
    <3>5. ASSUME s.op = "DropIndex"
          PROVE  \A t, q \in DOMAIN tables :
                   s.i \in DOMAIN tables[t].idx /\ s.i \in DOMAIN tables[q].idx => t = q
      <4>1. PICK t : Owners(x.db, s.i) = {t}
        BY <3>3, <3>5 DEF Permits, PermitsOn
      <4>2. Owners(View, s.i) = Owners(x.db, s.i)
        BY <3>4, AlikeDbs DEF Tracks
      <4>3. \A q \in DOMAIN tables : q \in DOMAIN View /\ DOMAIN View[q].idx = DOMAIN tables[q].idx
        BY SeenTables DEF TableView
      <4> QED BY <4>1, <4>2, <4>3 DEF Owners
    <3>6. Ran(x)' /\ call'.stmt = s
      BY <2>2, <3>1, <3>3, <3>4, <3>5, StartRan, StartRuns
    <3> QED BY <2>2, <3>1, <3>6
  <2> QED BY <2>1, <2>2 DEF Replay
<1>6. Ran(h[pos - 1])'
  BY <1>1, <1>3, <1>5 DEF Ran
<1>7. Recounts(h)' /\ Follows(h)'
  BY <1>1, <1>2, <1>4, <1>5, <1>6, RecountsKept DEF Follows
<1> QED BY <1>1, <1>7 DEF TrustInv, Saving

\* It succeeds again, and leads to the session it led to.
LEMMA ReplayedTrust ==
  ASSUME EngineInv, DiskInv, EngineInv', TrustInv, Replayed
  PROVE  TrustInv'
<1> SUFFICES ASSUME trusted' PROVE TrustInv'
  BY DEF TrustInv
<1>1. /\ trusted /\ mode = "replay" /\ io = "none" /\ io' = "none" /\ Returns
      /\ pos \in Nat \ {0}
      /\ snap' = snap /\ wal' = wal /\ promise' = promise
  BY DEF Replayed, diskVars, histVars, DiskInv, ModeInv
<1>2. PICK h : Recounts(h) /\ Follows(h)
  BY <1>1 DEF TrustInv, Saving
<1>3. PICK s : s = call.stmt
  OBVIOUS
<1>4. PICK x : x = h[pos - 1]
  OBVIOUS
<1>5. PICK k : k = pos
  OBVIOUS
<1>6. Ran(x) /\ k <= Len(wal.lines) /\ s = wal.lines[k].stmt /\ call.phase \in {"ok", "error"}
  BY <1>1, <1>2, <1>3, <1>4, <1>5 DEF Follows, Returns
<1>7. k \in 1..Len(wal.lines) /\ k \in Nat \ {0}
  BY <1>1, <1>5, <1>6, LinesOfTheLog
<1>8. Matters(s) /\ Permits(x, s) /\ h[k] = After(x, s)
  BY <1>2, <1>4, <1>5, <1>6, <1>7 DEF Recounts
<1>9. call.phase = "ok"
  BY <1>3, <1>6, <1>8 DEF Ran
<1>10. Tracks(h[k])
  BY <1>3, <1>6, <1>8, <1>9 DEF Ran
<1>11. Ran(h[k])' /\ call'.phase = "ready"
  BY <1>1, <1>10, ReturnsRan DEF Returns, Ready
<1>12. pos' = k + 1 /\ mode' = "replay"
  BY <1>1, <1>5, <1>9 DEF Replayed
<1>13. Ran(h[pos - 1])'
  <2>1. pos' - 1 = k
    BY <1>7, <1>12
  <2> QED BY <1>11, <2>1 DEF Ran
<1>14. pos' <= Len(wal'.lines) + 1
  BY <1>1, <1>6, <1>7, <1>12, LinesOfTheLog
<1>15. Recounts(h)' /\ Follows(h)'
  BY <1>1, <1>2, <1>11, <1>12, <1>13, <1>14, RecountsKept DEF Follows
<1> QED BY <1>1, <1>12, <1>15 DEF TrustInv, Saving

\* The log was replayed to its end: the database is open, in the last session.
LEMMA ReplayEndsTrust ==
  ASSUME EngineInv, DiskInv, EngineInv', TrustInv, ReplayEnds
  PROVE  TrustInv'
<1> SUFFICES ASSUME trusted' PROVE TrustInv'
  BY DEF TrustInv
<1>1. /\ trusted /\ mode = "replay" /\ io = "none" /\ io' = "none" /\ call.phase = "ready"
      /\ pos \in Nat \ {0}
      /\ snap' = snap /\ wal' = wal /\ promise' = promise /\ UNCHANGED engineVars
  BY DEF ReplayEnds, diskVars, histVars, DiskInv, ModeInv
<1>2. PICK h : Recounts(h) /\ Follows(h)
  BY <1>1 DEF TrustInv, Saving
<1>3. pos <= Len(wal.lines) + 1 /\ Ran(h[pos - 1])
  BY <1>1, <1>2 DEF Follows
<1>4. PICK k : k = Len(wal.lines)
  OBVIOUS
<1>5. pos > k /\ mode' = "up"
  <2>1. \A n \in 1..k : wal.lines[n].kind = "sql"
    BY <1>2, <1>4 DEF Recounts
  <2>2. pos <= k => pos \in 1..k
    BY <1>1, <1>4, LinesOfTheLog
  <2>3. pos <= k \/ pos > k
    BY <1>1, <1>4, LinesOfTheLog
  <2> QED BY <1>4, <2>1, <2>2, <2>3 DEF ReplayEnds
<1>6. pos - 1 = k
  BY <1>1, <1>3, <1>4, <1>5, LinesOfTheLog
<1>7. Tracks(h[k])
  BY <1>1, <1>3, <1>6 DEF Ran
<1>8. Tracks(h[k])' /\ call' = call
  BY <1>1, <1>7, SessionIsKept
<1>9. Ran(h[k])'
  BY <1>1, <1>8 DEF Ran
<1>10. Ran(h[Len(wal.lines)])'
  BY <1>1, <1>4, <1>9 DEF Ran
<1>11. Recounts(h)' /\ Follows(h)'
  BY <1>1, <1>2, <1>5, <1>8, <1>10, RecountsKept DEF Follows
<1> QED BY <1>1, <1>5, <1>11 DEF TrustInv, Saving

\* What the files promise stays as it is as long as nothing happens.
LEMMA IdleTrust ==
  ASSUME TrustInv, UNCHANGED vars
  PROVE  TrustInv'
<1>1. /\ tables' = tables /\ txn' = txn /\ locks' = locks /\ call' = call
      /\ snap' = snap /\ wal' = wal /\ mode' = mode /\ pos' = pos /\ io' = io
      /\ promise' = promise /\ trusted' = trusted
  BY DEF vars, engineVars, diskVars, histVars
<1>2. View' = View /\ (Active' <=> Active) /\ (Saving' <=> Saving)
  BY <1>1 DEF View, Active, Saving
<1>3. \A tx : LockedBy(tx) <=> LockedBy(tx)'
  BY <1>1 DEF LockedBy
<1>4. \A x : Tracks(x) <=> Tracks(x)'
  BY <1>1, <1>2, <1>3 DEF Tracks, LockedBy
<1>5. Saves => Saves'
  BY <1>1, <1>2, <1>4 DEF Saves
<1>6. ASSUME NEW h, Recounts(h), Follows(h)
      PROVE  Recounts(h)' /\ Follows(h)'
  <2>1. PICK k, p : k = Len(wal.lines) /\ p = pos - 1
    OBVIOUS
  <2>2. \A b : LoopSeenFrom(b) <=> LoopSeenFrom(b)'
    BY <1>1, <1>2 DEF LoopSeenFrom, SeenAfter, Resolves
  <2>3. \A x : Looping(x) => Looping(x)'
    BY <1>1, <1>2, <1>3, <2>2 DEF Looping, LockedBy
  <2>4. \A x : Undoing(x) => Undoing(x)'
    BY <1>1, <1>2, <1>3 DEF Undoing, LockedBy
  <2>5. \A x : Ran(x) => Ran(x)'
    BY <1>1, <1>4, <2>3, <2>4 DEF Ran
  <2>6. Recounts(h)'
    BY <1>1, <1>6, RecountsKept
  <2>7. (Ran(h[k]) => Ran(h[k])') /\ (Ran(h[p]) => Ran(h[p])') /\ (Tracks(h[k]) => Tracks(h[k])')
    BY <1>4, <2>5
  <2>8. /\ Ran(h[Len(wal.lines)]) => Ran(h[Len(wal.lines)])'
        /\ Ran(h[pos - 1]) => Ran(h[pos - 1])'
        /\ Tracks(h[Len(wal.lines)]) => Tracks(h[Len(wal.lines)])'
    BY <1>1, <2>1, <2>7 DEF Ran, Tracks
  <2> QED BY <1>1, <1>2, <1>3, <1>6, <2>6, <2>8 DEF Follows
<1> QED BY <1>1, <1>2, <1>5, <1>6 DEF TrustInv

-----------------------------------------------------------------------------
(* What open shows.                                                        *)

\* Every step of the process keeps the log true, or ends the trust in it.
LEMMA TrustStep ==
  ASSUME EngineInv, DiskInv, TrustInv, [Next]_vars
  PROVE  TrustInv'
<1>1. EngineInv'
  BY PersistenceStep
<1>2. CASE Execute \/ StartCheckpoint
  BY <1>1, <1>2, ExecuteTrust, StartCheckpointTrust
<1>3. CASE Return \/ LogText \/ LogNewline \/ LogFails
  BY <1>1, <1>3, ReturnTrust, LogTextTrust, LogNewlineTrust
<1>4. CASE WriteSnapshot \/ MarkerNewline \/ TruncateWal
  BY <1>1, <1>4, WriteSnapshotTrust, MarkerNewlineTrust, TruncateTrust
<1>5. CASE CheckpointFails
  BY <1>5 DEF CheckpointFails, TrustInv
<1>6. CASE Crash \/ Open
  BY <1>1, <1>6, CrashTrust, OpenTrust
<1>7. CASE LoadLine \/ SnapshotLoaded
  BY <1>1, <1>7, LoadLineTrust, SnapshotLoadedTrust
<1>8. CASE Replay \/ Replayed \/ ReplayEnds
  BY <1>1, <1>8, ReplayTrust, ReplayedTrust, ReplayEndsTrust
<1>9. CASE UNCHANGED vars
  BY <1>9, IdleTrust
<1> QED BY <1>2, <1>3, <1>4, <1>5, <1>6, <1>7, <1>8, <1>9 DEF Next, Finishes, Loading

\* The second inductive invariant, on top of the first: the files tell of one
\* session after the other, and the engine is where the last one is, or, in
\* the middle of open, where the one is that it has come to.
THEOREM TrustInductive == Spec => []TrustInv
<1>1. Init => TrustInv
  BY NothingPromised
<1>2. (EngineInv /\ DiskInv) /\ TrustInv /\ [Next]_vars => TrustInv'
  BY TrustStep
<1> QED BY <1>1, <1>2, PersistenceInductive, PTL DEF Spec

\* After any number of deaths, CHECKPOINTs and reopenings the open database
\* shows what the log promises: nothing acknowledged is lost, nothing is
\* there twice, and a transaction that was open is open again with its changes
\* and its undo log (db.rs:51-60, persistence.rs:36, :47, :124), against
\* docs/MILESTONES.md:622 (see UncommittedDisappear of Persistence).  It does
\* so whichever statements were sent, with row ids that may be others than
\* before: what is proved of a session holds for any ids in the same order.
THEOREM OpensAsPromised == Spec => []OpenShowsPromise
<1>1. ASSUME EngineInv, DiskInv, TrustInv
      PROVE  OpenShowsPromise
  <2> SUFFICES ASSUME mode = "up", io = "none", call.phase = "ready", trusted
               PROVE  Shown = promise
    BY DEF OpenShowsPromise
  <2>1. PICK h : Recounts(h) /\ Follows(h)
    BY <1>1 DEF TrustInv, Saving
  <2>2. PICK x : x = h[Len(wal.lines)]
    OBVIOUS
  <2>3. Tracks(x) /\ promise = Promised(x) /\ x.open \in BOOLEAN
    BY <1>1, <2>1, <2>2, LinesOfTheLog DEF Recounts, Follows, Ran
  <2> QED BY <1>1, <2>3, TracksShows DEF EngineInv
<1> QED BY <1>1, PersistenceInductive, TrustInductive, PTL

\* And it opens: the snapshot is complete, each of its lines is accepted, and
\* each statement of the log succeeds again (persistence.rs:57, :132,
\* db.rs:56).
THEOREM OpenNeverFails == Spec => []OpenSucceeds
<1>1. TrustInv => OpenSucceeds
  BY DEF TrustInv, OpenSucceeds
<1> QED BY <1>1, TrustInductive, PTL

=============================================================================
