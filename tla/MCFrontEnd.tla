----------------------------- MODULE MCFrontEnd -----------------------------
(***************************************************************************)
(* Small instances of what reads and writes texts: TextCodec for the files *)
(* of a data directory, Lexer for the characters of SQL, Parser for its    *)
(* tokens.  The alphabets hold what each of them treats in a way of its    *)
(* own, with the letters the escapes use.  They share no state: a          *)
(* behaviour types a statement for the log, the rows of a snapshot, a text *)
(* for the tokenizer, or tokens for the parser, and leaves the rest new.   *)
(***************************************************************************)
EXTENDS TextCodec

CONSTANTS Char, MaxLen

VARIABLES text, tokens, script

LineChars == {"bs", "bar", "p", "cr", "SQL"}
LongChars == {"nl", "x"}
ValueChars == {"bs", "nl", "n", "tab", "t", "cr", "colon", "N"}
LexerChars == {"sp", "nl", "-", "1", "q", "<", ">", "=", "!", "a"}

\* Each script tries one part of the grammar with few words, of which any may
\* come anywhere.
Opens(opening, then, most) == [opening |-> opening, then |-> then, most |-> most]

Silent == Opens(<<>>, {}, 0)

Grammar ==
  {Opens(<<"SELECT", "*", "FROM", "a", "WHERE">>,
         {"a", "=", "1", "2", "AND", "OR", "(", ")"}, 13),
   Opens(<<"SELECT">>, {"a", "*", "COUNT", "(", ")", ",", "FROM"}, 7),
   Opens(<<"SELECT", "*", "FROM", "a">>,
         {"a", "ORDER", "BY", "ASC", "DESC", "LIMIT", "1", "x", ";"}, 7),
   Opens(<<"UPDATE">>, {"a", "SET", "=", "1", "NULL", ",", "WHERE"}, 11),
   Opens(<<"CREATE">>, {"UNIQUE", "INDEX", "ON", "a", "(", ")"}, 9),
   Opens(<<"CREATE">>, {"UNIQUE", "TABLE", "a", "int", "(", ")", ",", "NULL"}, 8),
   Opens(<<"CREATE", "TABLE", "a", "(">>,
         {"a", "int", ")", ",", "UNIQUE", "PRIMARY", "KEY", "NOT", "NULL"}, 9),
   Opens(<<>>, {"EXPLAIN", "BEGIN", "COMMIT", "ROLLBACK", "ANALYZE", "CHECKPOINT", "DROP",
                "TABLE", "INDEX", "DELETE", "FROM", "a", ";"}, 5),
   Opens(<<"INSERT">>, {"INTO", "a", "VALUES", "(", ")", ",", "1", "x", "NULL", ";"}, 8)}

Lex == INSTANCE Lexer WITH Letter <- {"a"}, Digit <- {"1"}

Grammatical == INSTANCE Parser
  WITH Name <- {"a"}, Type <- {"int"}, Count <- {"1", "2"}, Literal <- {"x"},
       Scripts <- Grammar \cup {Silent}

NoLog == sql = <<>> /\ logged = <<>>
NoRows == row = <<>> /\ saved = <<>>
NoText == text = <<>>
NoTokens == script = Silent

MCInit == Init /\ Lex!Init /\ Grammatical!Init

MCNext ==
  \/ NoRows /\ NoText /\ NoTokens /\ (TypeSql \/ LogStatement) /\ UNCHANGED <<text, tokens, script>>
  \/ NoLog /\ NoText /\ NoTokens /\ (TypeValue \/ NextValue \/ WriteRow)
       /\ UNCHANGED <<text, tokens, script>>
  \/ NoLog /\ NoRows /\ NoTokens /\ Lex!TypeChar /\ UNCHANGED <<vars, tokens, script>>
  \/ NoLog /\ NoRows /\ NoText /\ Grammatical!TypeToken /\ UNCHANGED <<vars, text>>

MCSpec == MCInit /\ [][MCNext]_<<vars, text, tokens, script>>

-----------------------------------------------------------------------------
(* The properties of Lexer and Parser, under names a configuration can list. *)

\* Every text can be written as a string literal.
EveryTextCanBeQuoted == Lex!EveryTextCanBeQuoted

\* The trimmed text that is logged has the tokens of the text executed.
LoggedTextMeansTheSame == Lex!LoggedTextMeansTheSame

\* A comment hides nothing but the rest of its line.
LinesAreIndependent == Lex!LinesAreIndependent

\* Nothing of an accepted statement is dropped, doubled or reordered, but a NULL
\* or NOT NULL that a later one in the same column contradicts.
NothingIsIgnored == Grammatical!NothingIsIgnored

\* A parsed WHERE clause is true of the rows the written one is true of.
PredicatesMeanWhatTheySay == Grammatical!PredicatesMeanWhatTheySay

=============================================================================
