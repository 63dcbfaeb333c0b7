CONSTANTS
  ta = ta
  tb = tb
  k = k
  w = w
  v1 = v1
  v2 = v2
  ix = ix
  Worlds = {"rows", "schema"}
  Null = Null
  Column <- MCColumn
  Value <- MCValue
  ColumnType <- MCColumnType
  TableName = {ta, tb}
  Stmts <- MCStmts
  MaxRowId = 3
  MaxTx = 2
  MaxUndo = 3
SPECIFICATION MCSpec
INVARIANTS
  TypeOK
  TablesAreSound
  RollbackRestores
  RollbackSucceeds
  UndoNeverOverwrites
  LocksFollowTransaction
PROPERTIES
  WritesAreLocked
  ImplementsStore
  RefusedUpdatesClash
  StatementsReturn
