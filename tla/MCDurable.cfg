CONSTANTS
  ta = ta
  tb = tb
  k = k
  v1 = v1
  v2 = v2
  ix = ix
  Null = Null
  Column <- MCColumn
  Value <- MCValue
  ColumnType <- MCColumnType
  TableName = {ta, tb}
  Stmts <- DurableStmts
  MaxRowId = 2
  MaxTx = 1
  MaxUndo = 2
  CrashAt = {"idle"}
  FailAt = {"append", "newline", "snapshot", "marker", "truncate"}
  MaxFaults = 2
  MaxWal = 5
SPECIFICATION MCSpec
PROPERTIES
  SessionsAreDurable
CHECK_DEADLOCK FALSE
