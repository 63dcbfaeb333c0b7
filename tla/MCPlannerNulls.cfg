CONSTANTS
  ta = ta
  k = k
  w = w
  ix = ix
  Null = Null
  Column <- MCColumn
  Value <- MCValue
  ColumnType <- MCColumnType
  TableName = {ta}
  Stmts <- MCStmts
  Queries <- MCQueries
  MaxRowId = 3
  MaxTx = 1
  MaxUndo = 2
SPECIFICATION Spec
INVARIANTS
  OrderIsDefined
