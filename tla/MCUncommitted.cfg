CONSTANTS
  ta = ta
  tb = tb
  k = k
  v1 = v1
  v2 = v2
  ix = ix
  Null = Null
  Column <- MCColumn
  Value <- MCValue
  ColumnType <- MCColumnType
  TableName = {ta}
  Stmts <- RestartStmts
  MaxRowId = 2
  MaxTx = 1
  MaxUndo = 2
  CrashAt = {"idle"}
  FailAt = {}
  MaxFaults = 1
  MaxWal = 3
SPECIFICATION MCSpec
PROPERTIES
  UncommittedDisappear
CHECK_DEADLOCK FALSE
