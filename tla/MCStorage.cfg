CONSTANTS
  k = k
  w = w
  v1 = v1
  v2 = v2
  other = other
  ix1 = ix1
  ix2 = ix2
  ta = ta
  tb = tb
  Resource = {ta, tb}
  MaxTx = 3
  Null = Null
  Column <- MCColumn
  Value <- MCValue
  ColumnType <- MCColumnType
  Schemas <- MCSchemas
  Rows <- MCRows
  IndexName = {ix1, ix2}
  MaxRowId = 3
SPECIFICATION MCSpec
SYMMETRY Symmetry
INVARIANTS
  TypeOK
  IndexMirrorsRows
  KeysAreUnique
  IndexNeverRejects
  RowIdsAreNeverReused
  ExclusiveIsAlone
PROPERTIES
  LocksAreKeptToTheEnd
  ImplementsReaderWriter
