------------------------------ MODULE MCParser ------------------------------
(***************************************************************************)
(* Inputs for the parser: every sequence over a small alphabet, and items  *)
(* derived from the grammar.                                               *)
(***************************************************************************)
EXTENDS Parser

CONSTANTS Alphabet, Longest

Characters == {"(", ")", ",", "=", "<", "+", "-", "*", ":", ";"}
KeywordPieces == {"def", "extern", "if", "then", "else", "for", "in",
                  "binary", "unary", "var"}
LetterPieces == KeywordPieces \cup {"a"}
DigitPieces == {"n5", "n200"}
LineEndCharacters == {"\n", "\r"}
SpaceCharacters == LineEndCharacters \cup {" ", "\t"}
Values == [n0 |-> 0, n5 |-> 5, n55 |-> 55, n200 |-> 200]
\* strtod stops at a second ".".  Precedences are whole numbers; n200 stands
\* for all above 100.
Whole(s) == IF Contains(s, ".") THEN SubSeq(s, 1, SelectInSeq(s, LAMBDA c : c = ".") - 1)
                                ELSE s
NumberToken(s) ==
  CASE Whole(s) = <<>>           -> "n0"
    [] Whole(s) = <<"n5">>       -> "n5"
    [] Whole(s) = <<"n5", "n5">> -> "n55"
    [] OTHER                     -> "n200"
\* binopPrecedence as main sets it up.
MainPrecedence ==
  [op \in {"=", "<", "+", "-", "*"} |->
     CASE op = "=" -> 2 [] op = "<" -> 10 [] op = "*" -> 40 [] OTHER -> 20]

AnyInput(n) == UNION {[1 .. k -> Alphabet] : k \in 0 .. n}

Operators == {"=", "<", "+", ":"}
\* Expressions with subexpressions from the sets L and R.
Grow(L, R) ==
  {l \o <<op>> \o r : op \in Operators, l \in L, r \in R}
    \cup UNION {{<<"-">> \o r, <<"(">> \o r \o <<")">>,
                 <<"id", "(">> \o r \o <<")">>} : r \in R}
    \cup UNION {{<<"id", "(">> \o l \o <<",">> \o r \o <<")">>,
                 <<"if", "id", "then">> \o l \o <<"else">> \o r,
                 <<"for", "id", "=">> \o l \o <<",", "id", "in">> \o r,
                 <<"for", "id", "=", "n5", ",">> \o l \o <<",", "n5", "in">> \o r,
                 <<"var", "id", ",", "id", "=">> \o l \o <<"in">> \o r} :
                l \in L, r \in R}
Small == {<<"id">>, <<"id", "(", ")">>} \cup Grow({<<"id">>}, {<<"n5">>})
Medium == Grow(Small, {<<"id">>}) \cup Grow({<<"id">>}, Small)
Large == Grow(Small, Small)

\* The programs of the grammar end with an extern, no other input does.
Ending == <<"extern", "id", "(", "id", ")">>
Grammatical(s) == IsSuffix(Ending, s)

Prec(p) == IF p = "none" THEN <<>> ELSE <<p>>
Definition(p) ==
  <<"def", "binary", ":">> \o Prec(p) \o <<"(", "id", ",", "id", ")", "id">>
Program(p, e) == Definition(p) \o <<";">> \o e \o <<";">> \o Ending

\* Definitions with a token left out or replaced, and a use.
Edit(s, k, t) == SubSeq(s, 1, k - 1) \o t \o SubSeq(s, k + 1, Len(s))
Prototypes == {Definition("n5"), Definition("n200"),
                 <<"def", "unary", "-", "(", "id", ")", "id">>}
Edited == {Edit(d, k, t) \o <<";", "id", ":", "id", "+", "id">> :
             d \in Prototypes, k \in 1 .. 7,
             t \in {<<>>} \cup {<<c>> : c \in Characters \cup {"id", "then"}}}
\* The tokens written down: close together; with odd names, numbers and line
\* ends; or with comments everywhere, the last of which ends with the input.
Styles == {"close", "odd", "comments"}
Wordlike == LetterPieces \cup DigitPieces \cup {"id"}
Spelled(t, style) ==
  CASE t = "id" -> IF style = "odd" THEN <<"def", "n5">> ELSE <<"a">>
    [] t \in DigitPieces -> IF style = "odd" THEN <<t, ".", "n5", ".">> ELSE <<t>>
    [] OTHER -> <<t>>
Separator(s, k, style) ==
  CASE style = "comments" -> <<"\n", "#", "a", "#", ")">>
                               \o IF k = Len(s) THEN <<>> ELSE <<"\r">>
    [] k = Len(s) -> <<>>
    [] s[k] \in Wordlike /\ s[k + 1] \in Wordlike ->
         IF style = "odd" THEN <<"\t", "\n">> ELSE <<" ">>
    [] OTHER -> <<>>
Written(s, style) ==
  [text |-> FlattenSeq([k \in DOMAIN s |->
              Spelled(s[k], style) \o Separator(s, k, style)]),
   tokens |-> s]
\* Any short text, any short sequence of tokens, definitions and programs.
Raw == {[text |-> t, tokens |-> Unknown] :
          t \in UNION {[1 .. n -> {"a", "in", "n5", ".", "#", "\n", " ", "="}] :
                        n \in 0 .. Longest - 1}}
Close == {Written(s, "close") : s \in AnyInput(Longest)}
Styled == {Written(s, style) : s \in AnyInput(Longest - 1),
                               style \in {"odd", "comments"}}
Broken == {Written(s, "close") : s \in Edited}
Odd == {Written(Program("n5", e), "odd") : e \in Large}
Commented == {Written(Program("none", e), "comments") : e \in Medium}
AllTexts == Close \cup (Raw \cup (Styled \cup (Odd \cup (Broken \cup Commented))))
=============================================================================
