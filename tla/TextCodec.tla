------------------------------ MODULE TextCodec -----------------------------
(***************************************************************************)
(* The texts of the two files of a data directory, character by character: *)
(* the lines of the log (src/src/wal.rs) hold the SQL of a statement, the  *)
(* rows of the snapshot (src/src/codec.rs) hold TEXT values, and both are  *)
(* read back line by line (src/src/persistence.rs).  A statement or a      *)
(* value is typed, written, and must be read as it was.                    *)
(*                                                                         *)
(* A text is a sequence of the names of its characters: "bs" is the        *)
(* backslash, "nl" the newline, "cr" the carriage return, "bar" is `|`;    *)
(* "SQL", "ROW", "T" and "N" stand for the words and tags the files use,   *)
(* "id" for a table name or a row id.  INT and BOOL values, whose texts    *)
(* need no escape, are left out, and so are the other lines of the files.  *)
(***************************************************************************)
EXTENDS Naturals, SequencesExt

CONSTANTS
  Null,        \* SQL NULL
  SqlChar,     \* the characters of the statements clients send
  ValueChar,   \* the characters of the TEXT values they store
  Width,       \* the number of columns of a row
  MaxSql,      \* bound of the model: clients type no more characters of SQL
  MaxText,     \* bound of the model: the values they store have no more in all
  MaxRecords,  \* bound of the model: the log has no more records
  MaxRows      \* bound of the model: the snapshot has no more rows

VARIABLES
  sql,       \* the statement being typed
  wal,       \* the text of wal.log
  logged,    \* history: the statements it was written for
  row,       \* the values of a row, the last of them being typed
  snapshot,  \* the text of the rows of database.snapshot
  saved,     \* history: the rows it was written for
  typed      \* how many characters were typed

vars == <<sql, wal, logged, row, snapshot, saved, typed>>

-----------------------------------------------------------------------------
(* Texts.                                                                  *)

\* str::replace of a character by a text.
Replaced(s, c, by) == FlattenSeq([k \in DOMAIN s |-> IF s[k] = c THEN by ELSE <<s[k]>>])

\* str::split: the pieces between the occurrences of a character.
Split(s, c) ==
  FoldLeft(LAMBDA pieces, x : IF x = c THEN Append(pieces, <<>>)
                              ELSE Front(pieces) \o <<Append(Last(pieces), x)>>,
           <<<<>>>>, s)

Joined(pieces, c) == Tail(FlattenSeq([k \in DOMAIN pieces |-> <<c>> \o pieces[k]]))

\* The decoders: a backslash and the character after it stand for codes[that
\* character], or for themselves if it is none of the codes.
Unescaped(s, codes) ==
  LET end == FoldLeft(LAMBDA st, x :
        IF st.pending
        THEN [pending |-> FALSE,
              out |-> st.out \o IF x \in DOMAIN codes THEN <<codes[x]>> ELSE <<"bs", x>>]
        ELSE [pending |-> x = "bs", out |-> IF x = "bs" THEN st.out ELSE Append(st.out, x)],
        [pending |-> FALSE, out |-> <<>>], s)
  IN IF end.pending THEN Append(end.out, "bs") ELSE end.out

WithoutReturn(line) == IF line # <<>> /\ Last(line) = "cr" THEN Front(line) ELSE line

\* str::lines and BufRead::lines: a newline ends a line and takes with it a
\* carriage return before it.
Lines(s) ==
  LET pieces == Split(s, "nl") IN
  [k \in 1..(Len(pieces) - 1) |-> WithoutReturn(pieces[k])]
    \o IF Last(pieces) = <<>> THEN <<>> ELSE <<Last(pieces)>>

\* str::trim
Trimmed(s) ==
  LET inner == {k \in DOMAIN s : s[k] \notin {"nl", "cr", "tab"}} IN
  IF inner = {} THEN <<>> ELSE SubSeq(s, Min(inner), Max(inner))

\* The decoded items, or nothing if one of them is invalid: `decode` gives the
\* set of the results, which is empty for an error.
AllDecoded(items, decode(_)) ==
  IF \E k \in DOMAIN items : decode(items[k]) = {} THEN {}
  ELSE {[k \in DOMAIN items |-> CHOOSE x \in decode(items[k]) : TRUE]}

-----------------------------------------------------------------------------
(* The log.                                                                *)

\* Bug: the bars that separate the fields of a record are not escaped.
EncodeSqlBare(s) == Replaced(s, "bs", <<"bs", "bs">>)

EncodeSql(s) == Replaced(Replaced(s, "bs", <<"bs", "bs">>), "bar", <<"bs", "p">>)

DecodeSql(s) == Unescaped(s, [bs |-> "bs", p |-> "bar"])

\* WalRecord::encode and the newline of append_record.
RecordLine(s) == <<"SQL", "bar">> \o EncodeSql(s) \o <<"nl">>

\* WalRecord::decode
DecodeRecord(line) ==
  LET parts == Split(line, "bar") IN
  IF Len(parts) = 2 /\ parts[1] = <<"SQL">> THEN {DecodeSql(parts[2])} ELSE {}

\* The statements replay_wal executes; blank lines are skipped.
ReadLog(file) == AllDecoded(SelectSeq(Lines(file), LAMBDA l : Trimmed(l) # <<>>), DecodeRecord)

-----------------------------------------------------------------------------
(* The rows of the snapshot.                                               *)

\* Bug: the backslashes are escaped last.
EscapeTextLate(s) ==
  Replaced(Replaced(Replaced(s, "nl", <<"bs", "n">>), "tab", <<"bs", "t">>), "bs", <<"bs", "bs">>)

EscapeText(s) ==
  Replaced(Replaced(Replaced(s, "bs", <<"bs", "bs">>), "nl", <<"bs", "n">>), "tab", <<"bs", "t">>)

UnescapeText(s) == Unescaped(s, [bs |-> "bs", n |-> "nl", t |-> "tab"])

EncodeValue(v) == IF v = Null THEN <<"N">> ELSE <<"T", "colon">> \o EscapeText(v)

\* decode_value: the tag ends at the first colon.
DecodeValue(s) ==
  LET colons == {k \in DOMAIN s : s[k] = "colon"} IN
  IF s = <<"N">> THEN {Null}
  ELSE IF colons # {} /\ SubSeq(s, 1, Min(colons) - 1) = <<"T">>
  THEN {UnescapeText(SubSeq(s, Min(colons) + 1, Len(s)))}
  ELSE {}

\* encode_row_record and the newline of writeln!.
RowLine(r) ==
  <<"ROW", "tab", "id", "tab", "id", "tab">>
    \o Joined([k \in DOMAIN r |-> EncodeValue(r[k])], "tab") \o <<"nl">>

\* decode_row_record and decode_row
DecodeRowLine(line) ==
  LET parts == Split(line, "tab") IN
  IF Len(parts) # Width + 3 \/ parts[1] # <<"ROW">> THEN {}
  ELSE AllDecoded(SubSeq(parts, 4, Len(parts)), DecodeValue)

\* The rows load_snapshot reads; lines of no known kind are skipped.
ReadRows(file) ==
  AllDecoded(SelectSeq(Lines(file), LAMBDA l : Len(l) > 1 /\ SubSeq(l, 1, 2) = <<"ROW", "tab">>),
             DecodeRowLine)

-----------------------------------------------------------------------------

Init ==
  /\ sql = <<>> /\ wal = <<>> /\ logged = <<>>
  /\ row = <<>> /\ snapshot = <<>> /\ saved = <<>>
  /\ typed = 0

TypeSql ==
  /\ typed < MaxSql /\ typed' = typed + 1
  /\ Len(logged) < MaxRecords
  /\ \E c \in SqlChar : sql' = Append(sql, c)
  /\ UNCHANGED <<wal, logged, row, snapshot, saved>>

\* append_sql of a statement that was executed.
LogStatement ==
  /\ Len(logged) < MaxRecords
  /\ Trimmed(sql) # <<>>
  /\ wal' = wal \o RecordLine(Trimmed(sql))
  /\ logged' = Append(logged, Trimmed(sql))
  /\ sql' = <<>>
  /\ UNCHANGED <<row, snapshot, saved, typed>>

TypeValue ==
  /\ typed < MaxText /\ typed' = typed + 1
  /\ row # <<>> /\ Last(row) # Null
  /\ \E c \in ValueChar : row' = Front(row) \o <<Append(Last(row), c)>>
  /\ UNCHANGED <<sql, wal, logged, snapshot, saved>>

\* The next value of the row is NULL or a TEXT, empty so far.
NextValue ==
  /\ Len(row) < Width /\ Len(saved) < MaxRows
  /\ \E v \in {Null, <<>>} : row' = Append(row, v)
  /\ UNCHANGED <<sql, wal, logged, snapshot, saved, typed>>

\* A row of the table goes to the snapshot.
WriteRow ==
  /\ Len(row) = Width
  /\ snapshot' = snapshot \o RowLine(row)
  /\ saved' = Append(saved, row)
  /\ row' = <<>>
  /\ UNCHANGED <<sql, wal, logged, typed>>

Next == TypeSql \/ LogStatement \/ TypeValue \/ NextValue \/ WriteRow

Spec == Init /\ [][Next]_vars

-----------------------------------------------------------------------------
(* Properties.                                                             *)

\* A row whose last value ends in a carriage return, less that one.
WithoutLastReturn(r) ==
  LET value == Last(r) IN
  IF value \in {Null, <<>>} \/ Last(value) # "cr" THEN r
  ELSE Front(r) \o <<Front(value)>>

\* Of statements on one line, replay_wal reads exactly those that were logged:
\* bars, backslashes and the letters of the escapes do not confuse it.
OneLineStatementsReplay ==
  (\A k \in DOMAIN logged : \A j \in DOMAIN logged[k] : logged[k][j] # "nl") => ReadLog(wal) = {logged}

\* The snapshot gives back the rows it was written for, whatever tabs,
\* newlines, backslashes, colons and NULLs their values have.  One thing is
\* lost, which is what the code does and a defect of it: escape_text (codec.rs:183)
\* lets a carriage return pass, and lines() takes the one before a newline
\* away, so that a text at the end of a row loses a carriage return at its end.
RowsRoundTrip == ReadRows(snapshot) = {[k \in DOMAIN saved |-> WithoutLastReturn(saved[k])]}

-----------------------------------------------------------------------------
(* Statements of the documentation that the code does not keep.            *)

\* README.md, "Persistent storage with snapshot files + append-only WAL
\* replay": the statements of the log are read back, those of several lines
\* (like the CREATE TABLE of the README) included.
StatementsReplay == ReadLog(wal) = {logged}

=============================================================================
