------------------------------- MODULE Lexer -------------------------------
(***************************************************************************)
(* The lexer of Kaleidoscope (lexer.cpp): tokens from characters, with one *)
(* character of lookahead.                                                 *)
(*                                                                         *)
(* A text is a sequence of characters, except that the letters of a        *)
(* keyword and the digits of a number stand together: a word of that one   *)
(* piece is the keyword, a word with more pieces is an identifier.  The    *)
(* parser asks for one token after the other; what it does with them does  *)
(* not reach the lexer, so the tokens are collected in input.              *)
(***************************************************************************)
EXTENDS Integers, Sequences, SequencesExt

CONSTANTS
  Texts,       \* the texts to read, with the tokens they were written from
  Letters,     \* isalpha
  Digits,      \* isdigit
  Spaces,      \* isspace
  LineEnds,    \* newline and carriage return
  Keywords,    \* the pieces of Letters that getTok compares a word with
  Strtod(_)    \* the number token for the characters of a number

ASSUME LexerAssumption ==
  /\ Keywords \subseteq Letters
  /\ LineEnds \subseteq Spaces
  /\ Letters \cap Digits = {} /\ Spaces \cap (Letters \cup Digits \cup {"#"}) = {}
  /\ "eof" \notin Letters \cup Digits \cup Spaces
  /\ \A t \in Texts : t.text \in Seq(STRING)

VARIABLES
  source,      \* the text, and the tokens it was written from
  lastChar_,   \* the position of lastChar_, 0 for the blank it starts with
  input,       \* the tokens delivered
  gap          \* history: lastChar_ before the last one, and where it began

lexVars == <<source, lastChar_, input, gap>>

text == source.text
Unknown == <<"unknown">>     \* a text not written from tokens
Char(i) == IF i = 0 THEN " " ELSE IF i <= Len(text) THEN text[i] ELSE "eof"
\* The first position from i on whose character is not in S.
After(S, i) ==
  CHOOSE j \in i .. Len(text) + 1 :
    Char(j) \notin S /\ \A k \in i .. j - 1 : Char(k) \in S

\* Where the line ends, or the input.
LineEndNewline(i) ==            \* mutant: a carriage return does not end it
  CHOOSE j \in i .. Len(text) + 1 :
    Char(j) \in {"\n", "eof"} /\ \A k \in i .. j - 1 : Char(k) \notin {"\n", "eof"}
LineEnd(i) == CHOOSE j \in i .. Len(text) + 1 :
  LET end(k) == Char(k) \in LineEnds \cup {"eof"}
  IN end(j) /\ \A k \in i .. j - 1 : ~end(k)
\* Where the next token begins: behind white space and comments.  A comment
\* ends before the end of its line or of the input, and getTok starts again.
BeginOnce(i) ==                 \* mutant: it does not start again
  LET j == After(Spaces, i) IN IF Char(j) = "#" THEN LineEnd(j) ELSE j
Begin(i) ==
  LET begin[k \in 0 .. Len(text) + 1] ==
        LET j == After(Spaces, k) IN IF Char(j) = "#" THEN begin[LineEnd(j)] ELSE j
  IN begin[i]

Alphanumeric == Letters \cup Digits
Numeric == Digits \cup {"."}
\* The position behind the word, or the number, that begins at i.
Word(i) == After(Alphanumeric, i + 1)
Number(i) == After(Numeric, i + 1)

\* A token that begins at i and ends before j.
Deliver(i, j, tok) ==
  /\ lastChar_' = j
  /\ input' = Append(input, tok)
  /\ gap' = <<lastChar_, i>>
  /\ UNCHANGED source

getTok ==
  LET i == Begin(lastChar_)
  IN \/ /\ Char(i) \in Letters
        /\ Deliver(i, Word(i),
                   IF Word(i) = i + 1 /\ Char(i) \in Keywords THEN Char(i)
                                                              ELSE "id")
     \/ /\ Char(i) \in Numeric
        /\ Deliver(i, Number(i), Strtod(SubSeq(text, i, Number(i) - 1)))
     \/ /\ Char(i) = "eof"
        /\ Deliver(i, i, "eof")
     \/ /\ Char(i) \notin Alphanumeric \cup Numeric \cup {"eof"}
        /\ Deliver(i, i + 1, Char(i))

LexInit ==
  /\ source \in Texts
  /\ lastChar_ = 0
  /\ input = <<>>
  /\ gap = <<0, 0>>

\* The lexer alone, asked for one token after the other.
LexSpec == LexInit /\ [][getTok]_lexVars

\* The parser has seen the end; it is delivered again to whoever asks.
AtEof == input # <<>> /\ Last(input) = "eof"
-----------------------------------------------------------------------------
(* Properties.                                                             *)

\* Whatever white space and comments stand between the tokens of a program,
\* or nothing where two tokens can do without, the parser gets those tokens.
LexedAsWritten ==
  AtEof /\ source.tokens # Unknown => Front(input) = source.tokens

\* No character is lost: between two tokens there are only white space and
\* comments, which begin there and end with their lines, and no token begins
\* inside of a comment.
EveryCharacter ==
  LET Comment(p) == \E h \in gap[1] .. p :
        Char(h) = "#" /\ \A k \in h .. p : Char(k) \notin LineEnds
  IN /\ \A p \in gap[1] .. gap[2] - 1 : Char(p) \in Spaces \/ Comment(p)
     /\ Char(gap[2]) # "eof" => ~Comment(gap[2])
=============================================================================
