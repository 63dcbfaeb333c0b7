-------------------------------- MODULE Lexer -------------------------------
(***************************************************************************)
(* The tokenizer of SQL (`tokenize` in src/src/parser.rs), from characters *)
(* to tokens, with the two ways in which texts meet it: a client writes a  *)
(* string literal, and the log keeps the trimmed text of a statement.      *)
(*                                                                         *)
(* Characters are named: "q" is the quote, "nl" the newline.  A token is a *)
(* pair of its kind and its characters.  Integers that do not fit in i64,  *)
(* which the code refuses, are left out.                                   *)
(***************************************************************************)
EXTENDS Naturals, SequencesExt

CONSTANTS
  Char,    \* the characters clients type
  Letter,  \* those that begin an identifier
  Digit,
  MaxLen   \* bound of the model: no longer texts

VARIABLE text  \* what a client has typed

Space == {"sp", "nl", "cr", "tab"}

Init == text = <<>>

TypeChar ==
  /\ Len(text) < MaxLen
  /\ \E c \in Char : text' = Append(text, c)

Spec == Init /\ [][TypeChar]_text

-----------------------------------------------------------------------------

\* The length of the longest beginning of `in` with characters of `S` only.
Span(in, S) == Min({k - 1 : k \in {j \in DOMAIN in : in[j] \notin S}} \cup {Len(in)})

\* The length of the longest beginning of `in` without the character `c`.
Before(in, c) == Min({k - 1 : k \in {j \in DOMAIN in : in[j] = c}} \cup {Len(in)})

From(in, k) == SubSeq(in, k, Len(in))

\* Bug: a quote ends the string, doubled or not.
StringLexedShort(value, in) ==
  IF \A k \in DOMAIN in : in[k] # "q" THEN {}
  ELSE LET n == Before(in, "q") IN {<<SubSeq(in, 1, n), From(in, n + 2)>>}

\* The string whose opening quote has been read, and what follows it, or
\* nothing if it has no end: two quotes are one quote of the value.
RECURSIVE StringLexed(_, _)
StringLexed(value, in) ==
  CASE in = <<>> -> {}
    [] in # <<>> /\ Head(in) # "q" -> StringLexed(Append(value, Head(in)), Tail(in))
    [] Len(in) > 1 /\ in[1] = "q" /\ in[2] = "q" -> StringLexed(Append(value, "q"), From(in, 3))
    [] OTHER -> {<<value, Tail(in)>>}

\* The operators, the longest first.
Operators == <<<<"!", "=">>, <<"<", "=">>, <<"<", ">">>, <<">", "=">>, <<"<">>, <<">">>, <<"=">>,
               <<"(">>, <<")">>, <<",">>, <<"*">>, <<";">>>>

OperatorOf(in) ==
  LET fits == {k \in DOMAIN Operators : IsPrefix(Operators[k], in)} IN
  IF fits = {} THEN {} ELSE {Operators[Min(fits)]}

\* Bug: a comment that no newline ends is an error.
CommentLexedWhole(in) ==
  IF Before(in, "nl") = Len(in) THEN {} ELSE {From(in, Before(in, "nl") + 1)}

\* Bug: a comment does not end with its line.
CommentLexedToEnd(in) == {<<>>}

\* What follows the comment at the beginning of `in`.
CommentLexed(in) == {From(in, Before(in, "nl") + 1)}

\* The set of the tokens of a text after those in `done`; empty for an error.
RECURSIVE Lexed(_, _)
Lexed(done, in) ==
  IF in = <<>> THEN {done}
  ELSE LET c == Head(in)
           next == IF Len(in) > 1 THEN in[2] ELSE "end"
           more(kind, n) == Lexed(Append(done, <<kind, SubSeq(in, 1, n)>>), From(in, n + 1)) IN
  CASE c \in Space -> Lexed(done, Tail(in))
    [] c = "-" /\ next = "-" -> UNION {Lexed(done, rest) : rest \in CommentLexed(in)}
    [] c = "-" /\ next \in Digit -> more("number", 1 + Span(Tail(in), Digit))
    [] c \in Digit -> more("number", Span(in, Digit))
    [] c = "q" -> UNION {Lexed(Append(done, <<"string", s[1]>>), s[2]) : s \in StringLexed(<<>>, Tail(in))}
    [] c \in Letter -> more("ident", Span(in, Letter \cup Digit))
    [] OTHER -> UNION {more("op", Len(op)) : op \in OperatorOf(in)}

Tokenize(in) == Lexed(<<>>, in)

\* str::trim, which append_sql applies to the text of a statement.
Trimmed(in) ==
  LET inner == {k \in DOMAIN in : in[k] \notin Space} IN
  IF inner = {} THEN <<>> ELSE SubSeq(in, Min(inner), Max(inner))

-----------------------------------------------------------------------------
(* Properties.                                                             *)

Quoted(in) ==
  <<"q">> \o FlattenSeq([k \in DOMAIN in |-> IF in[k] = "q" THEN <<"q", "q">> ELSE <<in[k]>>]) \o <<"q">>

\* Every text can be written as a string literal: with its quotes doubled,
\* whatever else is in it (comments, newlines, operators, blanks at its ends),
\* it is one token with exactly that value, before and after other tokens.
EveryTextCanBeQuoted ==
  /\ Tokenize(Quoted(text)) = {<<<<"string", text>>>>}
  /\ Tokenize(<<"(">> \o Quoted(text) \o <<",">>)
       = {<<<<"op", <<"(">>>>, <<"string", text>>, <<"op", <<",">>>>>>}

\* The text that is logged has the tokens of the text that was executed, so
\* that trimming it never takes a blank of a string or the end of a comment.
LoggedTextMeansTheSame == Tokenize(Trimmed(text)) = Tokenize(text)

\* A text that ends a line with no string open has its own tokens, whatever
\* comes on the next line: a comment of it reaches to the newline and no further.
LinesAreIndependent ==
  \A k \in DOMAIN text :
    LET first == SubSeq(text, 1, k - 1)
        second == From(text, k + 1) IN
    text[k] = "nl" /\ Tokenize(first) # {} =>
      Tokenize(text) = {a \o b : a \in Tokenize(first), b \in Tokenize(second)}

=============================================================================
