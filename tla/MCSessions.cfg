CONSTANTS
  ta = ta
  tb = tb
  k = k
  v1 = v1
  v2 = v2
  ix = ix
  Null = Null
  Column <- MCColumn
  Value <- MCValue
  ColumnType <- MCColumnType
  TableName = {ta}
  Stmts <- SessionStmts
  MaxRowId = 2
  MaxTx = 1
  MaxUndo = 2
  CrashAt = {"idle"}
  FailAt = {}
  MaxFaults = 2
  MaxWal = 3
SPECIFICATION MCSpec
INVARIANTS
  SessionsReopen
CHECK_DEADLOCK FALSE
