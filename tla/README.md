# Formal models of relational-db-from-scratch

TLA+ specifications of the in-memory relational database in `src/`, of its
transactions, and of its snapshot and log, with the TLC instances that check
them and the TLAPS proofs of the parts that hold for every instance.
`PROJECT.json` lists the parts, the runs, the lines each definition stands for
and the hazards the properties aim at.

## 1. The system

| Component | State | Operations | Hard behaviour | What makes it correct |
|---|---|---|---|---|
| Row storage (`storage.rs`) | rows by row id, `next_row_id`, indexes by name | insert, insert under an id, replace, delete, create and drop index | rows and indexes are written in separate loops with early returns | indexes mirror the rows, UNIQUE holds, row ids are not reused |
| Secondary index (`index.rs`) | row ids by key | insert, remove, update, probe | a unique index may refuse in the middle of a write | as above |
| Schema, values (`schema.rs`, `value.rs`, `row.rs`) | none | validation | NULL | only fitting rows are stored |
| Lock manager (`concurrency.rs`) | shared and exclusive holders by table | acquire, release all | upgrade, re-acquisition, many holders | exclusion, strict two-phase locking |
| Database and transactions (`db.rs`, `transaction.rs`) | tables, the active transaction with its undo log, locks | BEGIN, COMMIT, ROLLBACK, catalogue | ROLLBACK applies undo records one by one and may stop | ROLLBACK restores the state before BEGIN |
| Execution (`execution.rs`) | none | one function per statement | UPDATE and DELETE loop over rows and may stop | tables stay sound, changes are locked and undoable |
| Persistence (`persistence.rs`, `wal.rs`, `codec.rs`) | snapshot file, log file | open, append, CHECKPOINT | the process dies between writes, writes fail, replay must succeed again | reopening shows what was logged |
| Text formats (`wal.rs`, `codec.rs`) | none | encode and decode | escapes, and readers that work line by line | what is written is read back |
| Parser (`parser.rs`) | none | characters to tokens, tokens to statement | precedence, quoting, comments, keywords that are names | nothing of a statement is ignored, predicates mean what they say |
| SELECT (`execution.rs`) | none | predicate, index probe or scan, ORDER BY, LIMIT | NULL, an index that gives another order | the rows three-valued logic asks for |
| Statistics (`optimizer.rs`) | row and distinct counts by table | ANALYZE, EXPLAIN | stale counts | they fit their table; nothing is chosen by them |
| B+ tree (`bplus_tree.rs`) | a tree | insert, get, range, height | splits of several levels at once | a balanced tree, a sorted map; used by no other part |
| Slotted page (`pager.rs`) | slots | insert, get, delete | space accounting, reuse of slots | handles stay with their records; used by no other part |
| REPL (`main.rs`) | none | reads and prints | none | none |

`Database::execute` takes `&mut self`: one statement runs at a time, and there
is at most one active transaction. A statement calls the lock manager first,
then the tables, then records undo information; `execute` appends its text to
the log after it succeeded. `Database::open` loads the snapshot by the same
table operations and then executes every statement of the log. So the
concurrency of the system is not between statements: what a model has to
explore is long sequences of calls, statements and rollbacks that stop half
way, locks left behind, and the death of the process between two writes.

## 2. The modules

Operators on one value are kept apart from the machines that use them, so that
the executor and the recovery use the very definitions the storage proofs are
about.

- `Table`: one table as a value; each operation of `storage.rs` is a guard
  (`Writable`, `CanCreateIndex`) and a function from tables to tables
  (`PutRow`, `ReplaceRow`, ...). A row is a function from columns to data, an
  index a function from keys to sets of row ids. Absent keys are empty sets.
- `Storage`: every sequence of those operations on one table. An operation
  that returns an error changes nothing and is no step; that this is so in the
  code is `IndexNeverRejects`. `used` is a history variable.
- `Locks`, `LockManager`: `acquire` and `release_all`, on one lock and as a
  machine. `ReaderWriter` is the abstract lock manager: a level of access for
  every transaction and table.
- `Engine`: tables, transaction, locks and the running statement. A statement
  that works in one piece is one action (`InsertStmt`, `CreateIndexStmt`, ...);
  UPDATE, DELETE and ROLLBACK are loops (`StartUpdate`, `UpdateRow`, `LoopDone`;
  `RollbackStmt`, `UndoLast`, `UndoDone`), because they may stop in the middle
  and the state they stop in is what matters. The error paths are disjuncts of
  the actions. `call` is the statement with the rows still to do and the undo
  records still local to the Rust function.
- `EngineHistory`: `Engine` with the history its properties need: the view of
  the database at BEGIN and at the start of a statement, whether the
  transaction was broken, and which transactions lost their locks.
- `Persistence`: `Engine` with the two files. A statement is executed, its text
  is appended, its newline is appended, each a step; CHECKPOINT empties the
  snapshot, writes it line by line, appends its record and truncates the log;
  `open` reads both files line by line and executes the log. `Crash` and failed
  writes (`LogFails`, `CheckpointFails`) come between any two of them; `CrashAt` and
  `FailAt` say where an instance allows them. The lines
  a CHECKPOINT owes for a table are a set: the next is one that no other line
  due must precede (table, indexes, rows by id). Names have no order in the
  model, so the order among tables, and among the indexes of one, is left open.
- `SqlStore`: the abstract store, of which a client sees tables with schemas,
  rows and index definitions, and in which a statement takes place at once, on
  all its rows or not at all. `EngineHistory` implements it: the database the
  store shows is the view of the tables, held at what it was `before` while a
  statement runs; `saved` is `base`, the view at BEGIN; a transaction is open
  until its ROLLBACK has ended. An UPDATE that fails half way is the one
  exception the store must allow, and then it is `broken`.
- `Views`: what clients see of a table, as a value, with what the statements and
  the undo records do to it. `SqlStore` and the proofs use it.
- `Sessions`: what the statements of a log mean. A session is a database as clients
  see it, whether a transaction is open, the kinds of its undo records, and the
  database that ROLLBACK goes back to; `Permits` says whether a statement
  succeeds in a session and `After` what it leaves. It has no action: the proofs
  about `Persistence` compare the writer of the log and its reader with it.
- `Statistics`: `Engine` with the statistics ANALYZE makes, DROP TABLE and the
  undo of CREATE TABLE forget, and everything else leaves stale; the arithmetic
  of the estimates, and EXPLAIN. `fresh` is a history variable.
- `Query`: SELECT as a function of a table (predicates with AND, OR and ranges,
  `index_probe`, the candidates of an index in any order, ORDER BY, LIMIT).
- `Planner`: both together. Every query of a fixed set is asked in every state
  between two statements.
- `TextCodec`: the text of the SQL records of the log and of the ROW lines of
  the snapshot, with their escapes, and how `lines`, `split` and `trim` take
  them apart again.
- `Lexer`: `tokenize`. `Parser`: `parse_sql`, one operator for each method of the
  recursive descent, which returns a value with the tokens left, or an error.
- `BPlusTree`, with `SortedMap` as its abstraction: the recursive insertion
  returns a node and possibly a separator and a right sibling, as in the code.
- `SlottedPage`: the slots under their budget of bytes (the bytes taken are the
  pairs of a slot and a byte of it, so that used space is how many there are);
  `answer` is the result of the last call, `peak` a history variable.
- `MCStorage`, `MCEngine`, `MCPersistence`, `MCPlanner`, `MCStructures`,
  `MCFrontEnd`: small instances. Three of them put independent parts side by
  side: in `MCStorage` a behaviour uses a table or the lock manager, in
  `MCStructures` the page or the tree,
  in `MCFrontEnd` it types for the log, the snapshot, the tokenizer or the
  parser, and the other parts stay as they were at the start.
- `TableProofs`, `StorageProofs`, `LockManagerProofs`, `SlottedPageProofs`,
  `EngineProofs`, `HistoryProofs`, `StatisticsProofs`, `PersistenceProofs`: the
  proofs. `EngineProofs` holds what every step of `Engine` preserves, as lemmas
  about steps; the three others use them for the specifications those steps
  are part of.

The operators whose comment begins with "Bug:" are variants of the definition
that follows them, used in no action: they are the mutations under which
the properties are known to fail (`mutants` in `PROJECT.json`).

### What is abstracted

Names are model values, already normalised. Data are a few model values and
NULL (naturals where their order matters, in `Planner`); each column accepts a
set of them, which stands for its type. The columns of a table are a set: only
projection and layout, left out, use their order. In `Engine` WHERE is a
conjunction of equalities: which rows an UPDATE or DELETE chooses changes nothing
else, and predicates in full are the business of `Query`. The order in which an
index probe returns rows is left open, which includes every order in which a
HashMap built the index.

In `Persistence` text formats are records; the gluing of two log records is kept
because it changes what open does. `TextCodec` has the characters, for SQL records
and for rows of NULL and TEXT values: the texts of INT and BOOL and of the other
snapshot lines need no escape. Integer literals that overflow and the wording
of errors are left out of `Lexer` and `Parser`; tokens are their texts, with
keywords in capitals.

## 3. The runs

| Run | Shows | Bounds |
|---|---|---|
| `storage_and_locks` | a table stays consistent under every sequence of its operations, and validation accepts nothing that an index refuses; exclusion, two-phase locking, refinement of `ReaderWriter` | table: 2 columns, 2 data and one of a wrong type, 2 index names, row ids to 3, a plain and a keyed schema; locks: 3 transactions, 2 tables |
| `engine` | tables stay sound in every state; ROLLBACK restores and succeeds unless broken; undo never overwrites a row; locks follow the transaction and cover each change; every statement returns; an UPDATE is refused only if its result would be unsound; refinement of `SqlStore` | world "rows": 1 table with a UNIQUE and a NOT NULL column, row ids to 3, 1 transaction, 3 undo records; world "schema": 2 tables, 1 column, row ids to 2, 2 transactions, 2 undo records |
| `recovery` | what the log promises is shown after any reopening as long as it is trusted, the changes of an open transaction included; open ends and builds sound tables always | worlds "rows" (1 keyed table, row ids to 3, 3 log records, 2 faults), "schema" (2 tables, row ids to 2, 3 records, 1 fault), "open" (1 table, row ids to 2, 3 records, 2 faults, trusted or not) |
| `planner` | SELECT by probe and by scan, COUNT(*), EXPLAIN and ANALYZE | 1 table with 1 or 2 nullable columns, 2 data, row ids to 3, 1 index, 9 predicates, 3 orders, 2 limits; 3 WHERE clauses to EXPLAIN |
| `structures` | the page and the B+ tree, refinement of `SortedMap` | 32 bytes with 4 a slot, records of 0, 1, 5 and 9 bytes; 12 keys, order 3, two keys overwritten |
| `front_end` | texts written are read back; quoting, comments and trimming; accepted statements print back, with the constraints of their columns; precedence | log: 5 characters in 2 records over 5 characters; rows: 3 characters in 2 rows of 2 values over 8; tokenizer: 5 characters over 10; parser: 9 scripts of 5 to 13 tokens after their opening |
| `broken_rollback` | findings 1 and 2: after ROLLBACK the rows of an UPDATE that failed half way, or rows of another table than the one dropped, are not as at BEGIN | worlds "rows", and "drops": 2 tables, row ids to 2, 2 undo records |
| `sessions` | finding 3: CHECKPOINT inside a transaction makes the directory unopenable | 1 table, no failed writes, deaths between statements only |
| `uncommitted` | finding 4: the changes of a transaction that was never committed are there after a restart | 1 table, row ids to 2, no failed writes |
| `durable` | finding 5: an opened database is not what the log promised, or does not open | 2 tables with indexes of one name, row ids to 2, 5 log records, no transactions; any write fails, 2 faults |
| `order_by_nulls` | finding 6: ORDER BY a column with NULL gives no order | as `planner` |
| `multi_line_sql` | finding 7: a statement of two lines cannot be replayed | 6 characters in 2 records, over 2 |

In `engine` and `recovery` all statements at once would make an instance too
large. Their behaviours stay in one of a few *worlds*, chosen at the start, each
with statements and bounds of its own (`World` in `MCEngine` and
`MCPersistence`). In `MCEngine` a world limits what clients send. In
`MCPersistence` it is a CONSTRAINT, which also ends a behaviour outside world
"open" when trust is lost; no state in which `open` is reading is cut off,
so that `OpenEnds` is not weakened.

Why the bounds are enough. A clash of keys needs two rows, and a clash that an
UPDATE meets at its second row needs two that match and one datum; three row
ids add a row inserted after a delete. Two transactions are enough for locks
that outlive their owner to refuse a successor; three on the lock manager let a
reader upgrade against one and against two others. Two undo records are enough
for their order to matter, three let an UPDATE, a DELETE and an INSERT meet on
one row. Two faults let the process die again while it recovers from the first.
`WithinBounds` (`MaxRowId`, `MaxTx`, `MaxUndo`) and `MaxWal` bound what clients
send, never what a statement does once it runs; the log may therefore outgrow
`MaxWal` by a CHECKPOINT record, and an UPDATE may push more than the bound.
`MaxFaults` counts deaths and failed writes together. Three rows and two data
give every answer of a query ties, NULLs and a row that LIMIT leaves out. Twelve
keys at order 3 make a tree of three levels, in which a leaf, an inner node and
the root split in one insertion. Five characters hold a comment with its newline
and a token on each side, or a quoted quote; thirteen tokens hold three
comparisons with AND, OR and brackets, and two different comparisons are enough to
tell the ways of grouping apart.

Two properties hold only up to an event, and the models name these events
instead of leaving out the actions that cause them:

- `broken` (for `RollbackRestores`, `RollbackSucceeds`): the transaction
  dropped a table or an index, of which no undo record is kept, or an UPDATE in
  it failed after it had changed a row. The run `broken_rollback` shows what
  each costs.
- `trusted` (for `OpenShowsPromise`, `OpenSucceeds`): lost by a death or failed
  write inside a CHECKPOINT, a CHECKPOINT inside a transaction, a statement
  that stays executed although its append failed, an append to a log whose last
  record has no newline, an UPDATE or ROLLBACK that fails half way, and a DROP
  INDEX of a name two tables use. World "open" of `recovery` goes on after
  that, and checks what is left to be checked; the runs `sessions` and `durable`
  show what the events cost. While the log is trusted, reopening shows each logged change once and nothing else. "Each" is what the
  code does, not what the docs ask for: a transaction that was open is replayed
  with its BEGIN, and is open again with its changes and its undo log.
  `docs/MILESTONES.md:622` wants "uncommitted transactions disappear after restart";
  that they do not is finding 4, of the run `uncommitted`.

Three more properties name what the code leaves out. `LimitKeepsTheFirst` speaks of
queries whose rows have no NULL in the column of ORDER BY (the run
`order_by_nulls` shows the others), and `OneLineStatementsReplay` leaves out what
`multi_line_sql` shows. `RowsRoundTrip` says what becomes of every row, and that is
not always the row: `escape_text` (`codec.rs:183`) lets a carriage return pass and
`lines` takes one before a newline away, so that a text at the end of a row comes
back without the carriage return at its end. The property admits this loss,
a defect of the code, and no other.

`NothingIsIgnored` compares an accepted statement with the words it was made of, a
column with the constraints its words ask for. There the parser does ignore
something, which the property takes as the code does: constraints may be
repeated, and of NULL and NOT NULL the last one wins (`parser.rs:385-389`), so `a
INT NOT NULL NULL` is a column that may be NULL; PRIMARY KEY asks for NOT NULL and
UNIQUE.

Deadlock checking is off where the system may stop: in the `Persistence` runs,
where mode "failed" is an end (`open` has returned an error), and in
`front_end` and `multi_line_sql`, where a text ends when it is long enough or
refused.

Fairness. `EngineHistory!Spec` is weakly fair to the continuation and the
return of the statement that runs: `execute` is a function call that nothing
preempts. Clients are never forced to send anything. `Persistence!Spec` is
weakly fair to the steps of `open`, for the same reason; neither deaths nor
new calls of `open` are.

## 4. The findings

`README.md:167-169` does not claim durable crash recovery as complete. None of
these needs a crash: the runs about the files end a session between two
statements, or let a write return an error, after which the session goes on.

1. `execution.rs:304`: UPDATE writes row by row, and when a later row clashes
   the undo records of the rows changed are dropped with the error. ROLLBACK
   leaves them changed, or stops in the middle and keeps its locks.
   `docs/ROADMAP.md:164`: "Rollback reliably undoes inserts, updates, and deletes."
   (The tables stay sound: `TablesAreSound` holds in the states after it.)
2. `execution.rs:112`: DROP TABLE records no undo. The ROLLBACK stops at the record
   of an earlier change of that table, and what was inserted into another table
   before it stays. The same line of the roadmap. The shortest traces of 1
   and 2 are equally long; TLC gives either.
3. `persistence.rs:91`: CHECKPOINT inside a transaction truncates the log with
   the BEGIN. The COMMIT or ROLLBACK that follows is logged and cannot be
   replayed: `Database::open` returns an error from then on. `README.md:37`:
   "`Database::open(path)` ... for durable sessions".
4. `persistence.rs:140`: statements are logged as they are executed, and all are
   replayed: the changes of a transaction that was not committed are there after
   a restart, inside a transaction open again. `docs/MILESTONES.md:622`: "uncommitted
   transactions disappear after restart"; `:665`: "Crash before commit loses
   change".
5. `persistence.rs:92`: CHECKPOINT empties the only snapshot before it writes the
   new one. When a write of it fails, what was saved is lost; if it is the first
   write, `open` refuses the empty file from then on, which is the trace of the
   run. `README.md:37`. `SessionsAreDurable` names the other ways in which a failed
   write or a DROP INDEX breaks the same promise; with `FailAt` cut down to
   `"truncate"`, `"append"`, `"newline"` or nothing TLC finds each: the old log
   executed over the new snapshot, a statement that relies on one whose append
   failed, two records on one line, and the index of another table dropped.
6. `execution.rs:226`: ORDER BY takes NULL for equal to every value, which is no
   order: 2, NULL, 1 stays as it is. `docs/MILESTONES.md:421`: "Sorting mixed
   values should be rejected or defined".
7. `wal.rs:70`: `encode_sql` escapes no newline. A statement with a newline in
   it becomes several lines of the log, the second of which is no record, and
   the directory does not open any more. `README.md:36`: "Persistent storage with
   snapshot files + append-only WAL replay"; `README.md:54` shows a CREATE TABLE of
   several lines.

Three hazards have no property. A reused slot of a page is charged its overhead
again (`pager.rs:32`), so that a page may refuse a record that would fit: nothing
says when a page is full, and the charge errs on the safe side. Statistics grow
stale (`execution.rs:394`): nothing is chosen by them and nothing says that EXPLAIN
shows current numbers, so that there is no wrong state to exclude. Without ORDER BY
the rows that LIMIT keeps depend on the indexes (`execution.rs:522`): SQL leaves
that open, the model keeps every order an index may give, and
`WhereIsThreeValued` says what all the answers have in common.

## 5. The proofs

`TableProofs` holds lemmas about the operators: each operation, applied under its
guard, keeps `TableInv`, the conjunction of `TableType`, `RowsFit`,
`NextIsFresh`, `UniqueHolds` and `IndexExact`. `StorageProofs` proves
`Spec => []IInv` where `IInv` is `TableInv` with the freshness of row ids, and
from it the five properties of tables of the run `storage_and_locks`, for every set of columns,
data, rows, schemas and index names. `IInv` is needed as a whole: an
automatic row id is fresh only if the counter is above the used ids; the entries
of an index stay exact only if the id was not live; and validation, which looks
at the rows, speaks about what the indexes refuse only if they are exact.

`LockManagerProofs` proves, for any tables and any number of transactions, the type of
the state, `ExclusiveIsAlone` (the two are the inductive invariant), that no
step weakens a lock except the release of all locks of its transaction
(`StrictTwoPhase`), and that the lock manager implements `ReaderWriter` under
`level` (`Refinement`): `Acquire` maps to `Grant` or `Refuse`, `ReleaseAll` to
`GiveUp`.

`SlottedPageProofs` proves, for any records, sizes, page size and overhead, the
type of the page, `SlotsArePeak` (with "there are never more records than the
peak" it is inductive: a new slot is made only when every slot is live, and then
the peak rises with it), `HandlesStay` and `NeverOverfull`. The last needs no
sum over the slots: the bytes taken are a set, a call that takes bytes takes an
interval of one slot (`BytesOfSlot`), and what `Fits` tests is how many bytes
are added to it (`RoomForBytes`).

### The engine

`TablesAreSound` is not inductive. The undo of a DELETE puts a row back under its
id (`insert_with_row_id`) without looking whether the id is in use: it is free
because of every record that is still to be undone, those of the running
statement included, and of every table dropped or created since. `EngineInv` says
so. `Pending` is the undo log in the order in which it would be undone, and
`DeletesAreFinal` says of it that the row of a DELETE whose table is still the
same is gone with its id below `next`, and that no row is deleted twice. With it
go the type of the state, the soundness of all tables, the rows a running loop
still has to do (`LoopInv`) and where an undo log can be (`TxnInv`). `EngineProofs`
shows that every step of `Engine` keeps `EngineInv`, one lemma for each action,
from the lemmas of `TableProofs` and from lemmas about how a log grows, is cut
and joined (`FinalWhen...`).

`HistoryProofs` adds what holds in `EngineHistory` only: `CallInv` (the running
statement belongs to the transaction and has its locks), `BoundsInv` (ids, undo
logs and locks stay within the bounds) and `LockInv` (each table a pending record
would change is locked exclusively by its transaction, and only the rightful
hold locks). `HistoryInductive` is the conjunction; from it follow `TypeOK`,
`TablesAreSound`, `UndoNeverOverwrites`, `LocksFollowTransaction` and the action
property `WritesAreLocked`.

ROLLBACK is proved by a chain of databases. `LeadsBack(h, log, now, then)` says that
`h` goes from `then` to `now` in as many steps as the log has records, that undoing
the n-th record leads from the n-th database to the one before it, that it can be
undone there, and that all of them are sound. `RestoreInv` says that as long as
the transaction is not broken there is such a chain from `base`, the view at
BEGIN, to the present view along `Pending`. A statement that records an undo makes
the chain one longer (`OneMoreToUndo`), an undo one shorter (`OneLessToUndo`), and a
chain of length zero says `View = base`: `RollbackRestores`. That its last record can
be undone is `RollbackSucceeds`. Soundness is part of the chain because undoing an
UPDATE or a DELETE validates the old row against the UNIQUE columns: it passes
because the table that held it was sound. No induction over the log is needed,
for the chain is carried along by the steps that make it.

The last part of `HistoryProofs` proves `Spec => ImplementsStore`, step by step.
INSERT and the statements on the catalogue are one action of `SqlStore` each.
The steps of a loop stutter, and the one that ends it is the step of the store
(`StoreAfterLoop`, or `StoreInTheLoop` when it fails half way). What has to be
shown of a loop is that the rows it ends with are those the store computes at
once, and that it fails only where the store fails too. `LoopSeen` in `StoreInv`
ties the view of the table, at every row of the loop, to the view the statement
began with. `ClashIsFinal` is the second half: if validation finds a clash at some
row, the rows the statement would end with clash too, since all chosen rows get
the same values. `RefusalsAreRight` states it of the code alone, as the action property
`RefusedUpdatesClash`: an UPDATE that stops at a row would have left its table
unsound. (`SqlStore` says nothing of results, so the refinement by itself would
admit refusals without need.)

### The files

`PersistenceProofs` proves `TablesAreSound` of `Persistence` for any number of
deaths, failed writes and reopenings. `open` stores the rows of the snapshot with
`insert_with_row_id`, so the danger is a snapshot that tells a row id twice, and
which may be cut anywhere. `DiskInv` says that none does (`SnapshotInv`), that
while a CHECKPOINT runs every line written tells of the tables as they are
(`WriteInv`: this is why a line of a row already told is never due), and that while
`open` runs every row in memory comes from a line already read (`LoadInv`), so that
the next line brings a row id not yet in use. `LogInv` says that the records of the
log are statements: replay then takes steps of `Engine`, for which `EngineInv` was
proved with any history. `ModeInv` says what is in memory in each mode.

### What open shows

The promise is the one the code makes, changes of an open transaction included
(finding 4).
`OpensAsPromised` and `OpenNeverFails` prove `OpenShowsPromise` and `OpenSucceeds`
for any tables, statements and bounds. The two properties relate two executions of the
same statements, the one that wrote the log and the one that reads it, and these
need not agree on row ids: `next_row_id` is not in the snapshot, so after rows were
deleted and the tables saved, `open` gives new rows lower ids than the writer did.
Nothing in the state remembers the first execution either. The proof therefore
compares both with a third, the *sessions* of module `Sessions`.

`TrustInv` is the invariant, on top of `EngineInv` and `DiskInv`. As long as the
log is trusted, `open` has not failed, and there are sessions `h`, one for each prefix
of the log, that `Recounts` and `Follows`:

- `h[0]` is the session of the snapshot (`Tells`: its lines are exactly those of
  some sound database, none is told twice, and that of a table comes before
  those of its indexes and rows), or of no table;
- every record of the log is a statement that `h[n - 1]` permits, and `h[n]` is what
  it leaves; `promise` is what the last session shows;
- the engine tracks (`Tracks`) the last session between two statements, and session
  `pos - 1` while `open` is at record `pos`. Inside a statement `Ran` says how far it
  is from there: a loop has assigned the rows it has done, a ROLLBACK has undone
  a suffix of its log, a failed statement has done nothing;
- while the snapshot is read, the memory shows the lines told so far.

While a CHECKPOINT writes, `Saves` takes the place of the sessions: the lines written
so far are of the tables in memory, and these are what is promised. A death
there ends the trust; the truncation of the log makes the saved tables the new
`h[0]`.

`TableProofs` shows of each operation on a table, and `EngineProofs` of each step of a
statement, that it keeps engine and session together (`StartRan`, `ContinuesRan`);
`PersistenceProofs` does the rest, one lemma for each action of `Persistence`.

Three parts of the argument are less obvious.

- *Row ids.* `Tracks` compares tables by `Alike`: an order-preserving bijection of row
  ids (`Renames`). It must preserve the order because an automatic id is above
  all others and `Promised` lists rows in the order of ids. That statements keep
  it (`TableProofs`) is why the model of a session can choose any fresh id.
- *ROLLBACK succeeds again.* Whether a ROLLBACK gets to its end depends on undo records
  whose rows differ between the two executions. `Doomed` says when it does not
  in terms of what both share: a record's table or index is gone, or was made
  again by a later record. `Permits` of a ROLLBACK is `~Doomed`. The chain of databases
  of the engine's proof, from the session's `base` this time, gives what it
  restores; dropped tables and indexes are dropped from `base` too (`BaseAfter`).
- *The snapshot is accepted.* A line is stored although rows of the same table are
  still missing, so that the loader validates tables that never existed. Each is a
  part (`Part`) of one that is sound, and a part of a sound table is sound.

### The statistics

`StatisticsProofs` proves `StatsFitSchema` and `EstimateIsPossible`. `StatsInv` adds
to `EngineInv` that a table still unchanged since its ANALYZE has the statistics
ANALYZE would make of it now. A step of the engine keeps all tables and their
schemas, or it removes one table, and then the statistics of that table with it
(`TablesAndStats`). That the estimate, rows divided by keys and rounded down, is
possible is a fact about averages: if every key had fewer rows than that, the
rows could be put into keys times fewer places (`FewOfEach`), and if every key
had more, as many places could be filled with different rows (`ManyOfEach`);
both are contradicted by the sizes, and neither needs a sum.

### Assumptions

`NullAssumption` (NULL is none of the data), `ColumnTypeAssumption`,
`StorageAssumption` (schemas are schemas),
`StmtsAssumption` (a statement that takes a lock names a table, CREATE TABLE has
a schema, CREATE INDEX says whether it is unique: what the parser returns),
`BoundsAssumption` (the bounds are naturals, and one transaction is allowed), and
for the page `SizeAssumption`, `OverheadAssumption`,
`NoRecordAssumption` and `SlotIdAssumption` (sizes are naturals, slot numbers
positive, the empty slot no record). TLC evaluates all of them in the runs, and
each property was checked there before it was proved. (`TrustInv` itself ranges over
sequences of sessions, which TLC cannot enumerate: its consequences
`OpenShowsPromise` and `OpenSucceeds` are what the run `recovery` checks.)

### Only model-checked

- `StatementsReturn` and `OpenEnds`: liveness under fairness is out of the
  prover's reach.
- `WhereIsThreeValued`, `LimitKeepsTheFirst`: `Query` is recursive over predicates,
  and what a recursive definition computes needs induction.
- The properties of `BPlusTree`, `Lexer` and `Parser`, whose operators are recursive, and
  those of `TextCodec`, which would need induction over texts.

## 6. Plan

Order: what every statement relies on first, then what composes it.

1. Done: `Table`, `Storage`, `LockManager` with `ReaderWriter`, `SlottedPage`, and
   their proofs; `Engine`, `EngineHistory` and its refinement of `SqlStore`;
   `Persistence`; `Query` and `Planner`; `BPlusTree` with `SortedMap`; `TextCodec`,
   `Lexer`, `Parser`.
2. Done: the proofs about `Engine`, `EngineHistory` with its refinement of
   `SqlStore`, `Persistence`, the page's budget and `Statistics`.
3. Open: proofs about `Query`, `BPlusTree` and the text formats would need induction
   over predicates, trees and texts.

## 7. Not modelled

Error texts, formatting and the layout of results, the projection of SELECT, the
REPL (`main.rs`) and the library root; identifier normalisation; the records of
the log no code writes (BEGIN, PAGE, COMMIT, ROLLBACK in `wal.rs`);
`Database::insert` and `create_index` called from outside, without locks or undo;
`fsync` (the code never calls it, so after a power failure it promises nothing);
more than one process on one directory.
