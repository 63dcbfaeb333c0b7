CONSTANTS
  Null = Null
  SqlChar <- LongChars
  ValueChar <- ValueChars
  Width = 2
  MaxSql = 6
  MaxText = 3
  MaxRecords = 2
  MaxRows = 2
  Char <- LexerChars
  MaxLen = 5
SPECIFICATION MCSpec
CHECK_DEADLOCK FALSE
INVARIANTS
  StatementsReplay
