CONSTANTS
  Null = Null
  SqlChar <- LineChars
  ValueChar <- ValueChars
  Width = 2
  MaxSql = 5
  MaxText = 3
  MaxRecords = 2
  MaxRows = 2
  Char <- LexerChars
  MaxLen = 5
SPECIFICATION MCSpec
CHECK_DEADLOCK FALSE
INVARIANTS
  OneLineStatementsReplay
  RowsRoundTrip
  EveryTextCanBeQuoted
  LoggedTextMeansTheSame
  LinesAreIndependent
  NothingIsIgnored
  PredicatesMeanWhatTheySay
