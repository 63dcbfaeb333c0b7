CONSTANTS
  ta = ta
  tb = tb
  k = k
  v1 = v1
  v2 = v2
  ix = ix
  Null = Null
  Column <- MCColumn
  Value <- MCValue
  ColumnType <- MCColumnType
  TableName = {ta, tb}
  Stmts <- MCStmts
  MaxRowId = 3
  MaxTx = 1
  MaxUndo = 2
  CrashAt = {"idle", "statement", "append", "checkpoint", "open"}
  FailAt = {"append", "newline", "snapshot", "marker", "truncate"}
  MaxFaults = 2
  MaxWal = 4
SPECIFICATION MCSpec
CONSTRAINT InWorld
INVARIANTS
  OpenShowsPromise
  OpenSucceeds
  TablesAreSound
PROPERTIES
  OpenEnds
CHECK_DEADLOCK FALSE
