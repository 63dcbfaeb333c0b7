---------------------------- MODULE Persistence ----------------------------
(***************************************************************************)
(* The engine opened on a data directory (src/src/persistence.rs and the   *)
(* logging half of Database::execute): the snapshot file, the log of SQL   *)
(* statements, CHECKPOINT, `Database::open`, and the death of the process  *)
(* between any two of its writes.                                          *)
(*                                                                         *)
(* A write that returned is on disk (the process dies, not the machine:    *)
(* the code never syncs).  `writeln!` on a File is two writes, the text    *)
(* and the newline.  A line of the log is a record with its `kind`: "sql", *)
(* "checkpoint", or "glued" for two texts without a newline between them,  *)
(* which WalRecord::decode, the parser or the executor refuses (that a     *)
(* first text which ends in a comment would swallow the second is left     *)
(* out).  A line of the snapshot is one of the texts `checkpoint` writes.  *)
(***************************************************************************)
EXTENDS Engine

CONSTANTS
  CrashAt,     \* where the process may die: see CrashPoint
  FailAt,      \* which writes may return an error: "append" and "newline" of a
               \* record, "snapshot", "marker" and "truncate" of CHECKPOINT
  MaxFaults,   \* bound of the model: no more deaths of the process and failed writes
  MaxWal       \* bound of the model: clients send nothing that would make the log longer

VARIABLES
  snap,     \* database.snapshot: whether it exists, and its lines
  wal,      \* wal.log: its lines, and whether the last one has no newline yet
  mode,     \* "down", "snapshot" and "replay" inside open, "up", or "failed"
  pos,      \* the next line open reads from the file it is at
  io,       \* the next write of the running statement, "none" if none is due
  faults,   \* how often the process died or a write failed
  promise,  \* history: what the log promises: the database at its last record
  trusted   \* history: nothing happened after which the log promises too much

diskVars == <<snap, wal>>
histVars == <<promise, trusted>>
vars == <<engineVars, diskVars, mode, pos, io, faults, histVars>>

NoSnapshot == [exists |-> FALSE, lines |-> <<>>]
EmptyWal == [lines |-> <<>>, open |-> FALSE]

-----------------------------------------------------------------------------
(* What clients can see of the database: rows in the order of their ids,   *)
(* for the ids themselves are not visible, and whether a transaction is    *)
(* open and what it would undo.                                            *)

InOrder(S) ==
  [n \in 1..Cardinality(S) |-> CHOOSE r \in S : Cardinality({q \in S : q < r}) = n - 1]

RowsInOrder(t) ==
  LET ids == InOrder(DOMAIN tables[t].rows) IN
  [n \in DOMAIN ids |-> tables[t].rows[ids[n]]]

Shown ==
  [db |-> [t \in DOMAIN tables |->
             [schema |-> tables[t].schema, rows |-> RowsInOrder(t),
              idx |-> [i \in DOMAIN tables[t].idx |->
                         <<tables[t].idx[i].col, tables[t].idx[i].unique>>]]],
   active |-> Active,
   undo |-> [n \in DOMAIN txn.undo |-> txn.undo[n].op]]

Init ==
  /\ EmptyDatabase
  /\ snap = NoSnapshot /\ wal = EmptyWal
  /\ mode = "down" /\ pos = 1 /\ io = "none" /\ faults = 0
  /\ promise = Shown /\ trusted = TRUE

\* A death or a failed write, of which there are at most MaxFaults.
Fault == faults < MaxFaults /\ faults' = faults + 1

-----------------------------------------------------------------------------
(* Running statements.                                                     *)

\* should_log_sql
Logged(s) == s.op \notin {"Select", "Checkpoint"}

\* An UPDATE that fails after it changed a row, a ROLLBACK that fails, and a
\* DROP INDEX that finds the name on two tables: the memory goes a way that
\* the log does not tell.
LeavesLog(s) ==
  \/ call.phase = "update" /\ call'.phase = "error" /\ call.log # <<>>
  \/ call.phase = "undo" /\ call'.phase = "error"
  \/ /\ call.phase = "ready" /\ s.op = "DropIndex"
     /\ \E t, q \in DOMAIN tables : t # q /\ s.i \in DOMAIN tables[t].idx \cap DOMAIN tables[q].idx

Execute ==
  /\ mode = "up" /\ io = "none"
  /\ \/ \E s \in Stmts :
          /\ WithinBounds(s) /\ (Logged(s) => Len(wal.lines) < MaxWal)
          /\ Start(s)
          /\ trusted' = (trusted /\ ~LeavesLog(s))
     \/ Continues /\ trusted' = (trusted /\ ~LeavesLog(call.stmt))
  /\ UNCHANGED <<diskVars, mode, pos, io, faults, promise>>

\* A statement that failed, or is not logged, returns at once.
Return ==
  /\ mode = "up" /\ io = "none"
  /\ call.phase = "error" \/ ~Logged(call.stmt)
  /\ Returns
  /\ UNCHANGED <<diskVars, mode, pos, io, faults, histVars>>

\* The log once the text of a record is written, its newline still due.
Appended(line) ==
  [lines |-> IF wal.open THEN Append(Front(wal.lines), [kind |-> "glued"])
                         ELSE Append(wal.lines, line),
   open |-> TRUE]

\* append_sql, of a statement that succeeded.
LogText ==
  /\ mode = "up" /\ io = "none"
  /\ call.phase = "ok" /\ Logged(call.stmt)
  /\ wal' = Appended([kind |-> "sql", stmt |-> call.stmt])
  /\ io' = "newline"
  /\ promise' = Shown
  /\ trusted' = (trusted /\ ~wal.open)
  /\ UNCHANGED <<engineVars, snap, mode, pos, faults>>

LogNewline ==
  /\ mode = "up" /\ io = "newline"
  /\ wal' = [wal EXCEPT !.open = FALSE]
  /\ io' = "none"
  /\ Returns
  /\ UNCHANGED <<snap, mode, pos, faults, histVars>>

\* The log cannot be written: the client gets an error for a statement that
\* stays executed, and whose record may be in the log without its newline.
LogFails ==
  /\ Fault
  /\ mode = "up"
  /\ \/ /\ "append" \in FailAt
        /\ io = "none" /\ call.phase = "ok" /\ Logged(call.stmt)
        /\ trusted' = FALSE
     \/ "newline" \in FailAt /\ io = "newline" /\ UNCHANGED trusted
  /\ io' = "none"
  /\ Returns
  /\ UNCHANGED <<diskVars, mode, pos, promise>>

-----------------------------------------------------------------------------
(* CHECKPOINT.                                                             *)

TableLine(t) == [kind |-> "table", t |-> t, schema |-> tables[t].schema]

IndexLines(t) ==
  {[kind |-> "index", t |-> t, i |-> i, c |-> tables[t].idx[i].col,
    unique |-> tables[t].idx[i].unique] : i \in DOMAIN tables[t].idx}

RowLines(t) ==
  {[kind |-> "row", t |-> t, r |-> r, row |-> tables[t].rows[r]] : r \in DOMAIN tables[t].rows}

\* Bug: the definitions of the indexes are not saved.
SnapshotLinesNoIndex(t) == {TableLine(t)} \cup RowLines(t)

\* What `checkpoint` writes of the table `t`.
SnapshotLines(t) == {TableLine(t)} \cup IndexLines(t) \cup RowLines(t)

\* The lines of one table: its schema, its indexes, its rows by their ids.
Precedes(m, l) ==
  \/ m.kind = "table" /\ l.kind # "table"
  \/ m.kind = "index" /\ l.kind = "row"
  \/ m.kind = "row" /\ l.kind = "row" /\ m.r < l.r

Due(t) == SnapshotLines(t) \ Range(snap.lines)

\* The tables whose lines come next: the one that is half written, or any of
\* those not yet begun (names, by which tables and indexes are sorted, have
\* no order in the model).
NextTables ==
  LET due == {t \in DOMAIN tables : Due(t) # {}}
      begun == {t \in due : TableLine(t) \notin Due(t)}
  IN  IF begun # {} THEN begun ELSE due

\* File::create empties the snapshot there was.
StartCheckpoint ==
  /\ mode = "up" /\ io = "none" /\ Begins
  /\ \E s \in Stmts :
       s.op = "Checkpoint" /\ call' = [Ready EXCEPT !.phase = "checkpoint", !.stmt = s]
  /\ snap' = [exists |-> TRUE, lines |-> <<>>]
  /\ io' = "snapshot"
  /\ trusted' = (trusted /\ ~Active)
  /\ UNCHANGED <<tables, txn, locks, nextTx, wal, mode, pos, faults, promise>>

\* Line by line, and after the last one the record in the log.
WriteSnapshot ==
  /\ mode = "up" /\ io = "snapshot"
  /\ \/ /\ \/ snap.lines = <<>> /\ snap' = [snap EXCEPT !.lines = <<[kind |-> "header"]>>]
           \/ /\ snap.lines # <<>>
              /\ \E t \in NextTables : \E l \in Due(t) :
                   /\ \A m \in Due(t) : ~Precedes(m, l)
                   /\ snap' = [snap EXCEPT !.lines = Append(@, l)]
        /\ UNCHANGED <<wal, io, trusted>>
     \/ /\ snap.lines # <<>> /\ NextTables = {}
        /\ wal' = Appended([kind |-> "checkpoint"])
        /\ io' = "marker"
        /\ trusted' = (trusted /\ ~wal.open)
        /\ UNCHANGED snap
  /\ UNCHANGED <<engineVars, mode, pos, faults, promise>>

MarkerNewline ==
  /\ mode = "up" /\ io = "marker"
  /\ wal' = [wal EXCEPT !.open = FALSE]
  /\ io' = "truncate"
  /\ UNCHANGED <<engineVars, snap, mode, pos, faults, histVars>>

\* Bug: CHECKPOINT leaves the log as it is.
TruncateNothing ==
  /\ mode = "up" /\ io = "truncate"
  /\ io' = "none"
  /\ call' = [call EXCEPT !.phase = "ok"]
  /\ UNCHANGED <<tables, txn, locks, nextTx, diskVars, mode, pos, faults, histVars>>

TruncateWal ==
  /\ mode = "up" /\ io = "truncate"
  /\ wal' = EmptyWal
  /\ io' = "none"
  /\ call' = [call EXCEPT !.phase = "ok"]
  /\ UNCHANGED <<tables, txn, locks, nextTx, snap, mode, pos, faults, histVars>>

\* A write of CHECKPOINT fails: the snapshot is left without its end, or the
\* log with the record but not emptied, and the session goes on.
CheckpointFails ==
  /\ Fault
  /\ mode = "up" /\ io \in {"snapshot", "marker", "truncate"} \cap FailAt
  /\ io' = "none"
  /\ call' = [call EXCEPT !.phase = "error"]
  /\ trusted' = FALSE
  /\ UNCHANGED <<tables, txn, locks, nextTx, diskVars, mode, pos, promise>>

-----------------------------------------------------------------------------
(* Death of the process, and open.                                         *)

CrashPoint ==
  CASE mode \in {"snapshot", "replay"}               -> "open"
    [] io \in {"snapshot", "marker", "truncate"}     -> "checkpoint"
    [] io = "newline"                                -> "append"
    [] OTHER -> IF call.phase = "ready" THEN "idle" ELSE "statement"

ForgetsMemory ==
  /\ tables' = [t \in {} |-> 0]
  /\ txn' = NoTxn
  /\ locks' = [t \in TableName |-> FreeLock]
  /\ nextTx' = 0
  /\ call' = Ready

Crash ==
  /\ mode \in {"snapshot", "replay", "up"}
  /\ CrashPoint \in CrashAt
  /\ Fault
  /\ mode' = "down" /\ pos' = 1 /\ io' = "none"
  /\ ForgetsMemory
  /\ trusted' = (trusted /\ CrashPoint # "checkpoint")
  /\ UNCHANGED <<diskVars, promise>>

\* load_or_empty: an empty snapshot file is refused.
Open ==
  /\ mode = "down"
  /\ mode' = IF ~snap.exists THEN "replay" ELSE IF snap.lines = <<>> THEN "failed" ELSE "snapshot"
  /\ pos' = IF ~snap.exists THEN 1 ELSE 2
  /\ UNCHANGED <<engineVars, diskVars, io, faults, histVars>>

\* Whether apply_schema_block and apply_row_line accept a line.
Loads(l) ==
  IF l.kind = "table" THEN l.t \notin DOMAIN tables
  ELSE /\ l.t \in DOMAIN tables
       /\ l.kind = "index" => CanCreateIndex(tables[l.t], l.i, l.c, l.unique)
       /\ l.kind = "row" => Writable(tables[l.t], l.row, l.r)

LoadLine ==
  /\ mode = "snapshot" /\ pos <= Len(snap.lines)
  /\ LET l == snap.lines[pos] IN
     \/ /\ Loads(l)
        /\ \/ l.kind = "table" /\ Put(l.t, NewTable(l.schema))
           \/ l.kind = "index" /\ Put(l.t, CreateIndex(tables[l.t], l.i, l.c, l.unique))
           \/ l.kind = "row" /\ Put(l.t, PutRow(tables[l.t], l.r, l.row))
        /\ pos' = pos + 1
        /\ UNCHANGED mode
     \/ /\ ~Loads(l)
        /\ mode' = "failed"
        /\ UNCHANGED <<tables, pos>>
  /\ UNCHANGED <<txn, locks, nextTx, call, diskVars, io, faults, histVars>>

SnapshotLoaded ==
  /\ mode = "snapshot" /\ pos > Len(snap.lines)
  /\ mode' = "replay" /\ pos' = 1
  /\ UNCHANGED <<engineVars, diskVars, io, faults, histVars>>

\* replay_wal executes a record, or goes on with its execution.
Replay ==
  /\ mode = "replay"
  /\ \/ /\ call.phase = "ready" /\ pos <= Len(wal.lines) /\ wal.lines[pos].kind = "sql"
        /\ Start(wal.lines[pos].stmt)
     \/ Continues
  /\ UNCHANGED <<diskVars, mode, pos, io, faults, histVars>>

\* A statement of the log was executed: it must succeed again.
Replayed ==
  /\ mode = "replay" /\ Returns
  /\ \/ call.phase = "ok" /\ pos' = pos + 1 /\ UNCHANGED mode
     \/ call.phase = "error" /\ mode' = "failed" /\ UNCHANGED pos
  /\ UNCHANGED <<diskVars, io, faults, histVars>>

\* Bug: the replay waits for a CHECKPOINT record.
ReplayEndsAtCheckpoint ==
  /\ mode = "replay" /\ call.phase = "ready"
  /\ pos <= Len(wal.lines)
  /\ \/ wal.lines[pos].kind = "checkpoint" /\ mode' = "up"
     \/ wal.lines[pos].kind = "glued" /\ mode' = "failed"
  /\ UNCHANGED <<engineVars, diskVars, pos, io, faults, histVars>>

\* The end of the log, or the first CHECKPOINT in it, ends open; a line that
\* is no record fails it.
ReplayEnds ==
  /\ mode = "replay" /\ call.phase = "ready"
  /\ \/ pos > Len(wal.lines) /\ mode' = "up"
     \/ pos <= Len(wal.lines) /\ wal.lines[pos].kind = "checkpoint" /\ mode' = "up"
     \/ pos <= Len(wal.lines) /\ wal.lines[pos].kind = "glued" /\ mode' = "failed"
  /\ UNCHANGED <<engineVars, diskVars, pos, io, faults, histVars>>

-----------------------------------------------------------------------------
Loading == LoadLine \/ SnapshotLoaded \/ Replay \/ Replayed \/ ReplayEnds

Finishes ==
  Return \/ LogText \/ LogNewline \/ WriteSnapshot \/ MarkerNewline \/ TruncateWal

Next ==
  \/ Execute \/ StartCheckpoint \/ Finishes \/ LogFails \/ CheckpointFails
  \/ Crash \/ Open \/ Loading

\* Once called, open goes on reading the files.
Spec == Init /\ [][Next]_vars /\ WF_vars(Loading)

-----------------------------------------------------------------------------
(* Properties.                                                             *)

\* Between two statements the open database shows exactly what the log
\* promises: after any number of deaths, CHECKPOINTs and reopenings, each
\* acknowledged change is there once, one whose record was not written is
\* gone, and rows keep their order although their ids may change (db.rs:51-60,
\* persistence.rs:36, :47, :124), as long as nothing that leaves the log behind
\* has happened.  The promise is what the code makes, not all that the docs ask
\* for: a transaction that was open is open again with its changes and its undo
\* log, although docs/MILESTONES.md:622 wants uncommitted changes to disappear
\* (see UncommittedDisappear, which fails).
OpenShowsPromise ==
  mode = "up" /\ io = "none" /\ call.phase = "ready" /\ trusted => Shown = promise

\* Under the same condition open never fails: every statement that was
\* logged because it succeeded succeeds again on the reconstructed tables.
OpenSucceeds == mode = "failed" => ~trusted

\* The tables are sound in every state, in the middle of open too.
TablesAreSound == \A t \in DOMAIN tables : TableInv(tables[t])

\* open ends, in a database or in an error, unless the process dies in it:
\* no record of the log keeps the replay busy.
OpenEnds == mode \in {"snapshot", "replay"} ~> mode \in {"up", "failed", "down"}

-----------------------------------------------------------------------------
(* Statements of the documentation that the code does not keep.            *)

\* README.md: "`Database::open(path)` and `cargo run -- <data-dir>` for
\* durable sessions": a session that was closed between two statements can
\* be opened again.
SessionsReopen == mode # "failed"

\* docs/MILESTONES.md, on recovery: "Make committed transactions survive crashes
\* and uncommitted transactions disappear after restart": when open has replayed
\* the log, no change is there that a transaction made and did not commit.
UncommittedDisappear == [][mode = "replay" /\ mode' = "up" => txn'.undo = <<>>]_vars

\* README.md, the same line: when a database is opened again it is what the log
\* promised, row by row and index by index, and it does open.  Each of these
\* breaks it: a CHECKPOINT that emptied the only snapshot and could not fill it
\* (persistence.rs:92), one that could not truncate the log, whose records are
\* then executed twice (:114) or never read (:138), a statement that stayed in
\* memory when its append failed (db.rs:56), a record without its newline
\* (persistence.rs:187), and a DROP INDEX of a name two tables use (db.rs:176).
SessionsAreDurable ==
  [][/\ mode' # "failed"
     /\ mode # "up" /\ mode' = "up" => (Shown.db = promise.db)']_vars

=============================================================================
