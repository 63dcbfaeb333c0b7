CONSTANTS
  ta = ta
  tb = tb
  k = k
  w = w
  v1 = v1
  v2 = v2
  ix = ix
  Worlds = {"rows", "drops"}
  Null = Null
  Column <- MCColumn
  Value <- MCValue
  ColumnType <- MCColumnType
  TableName = {ta, tb}
  Stmts <- UndoStmts
  MaxRowId = 3
  MaxTx = 1
  MaxUndo = 4
SPECIFICATION MCSpec
INVARIANTS
  RollbackUndoesRows
