------------------------------- MODULE Parser -------------------------------
(***************************************************************************)
(* The parser of Kaleidoscope (parser.cpp) and the loop that drives it.    *)
(*                                                                         *)
(* The input is the sequence of tokens that the lexer delivered.  A token  *)
(* is a character (an ASCII one is in Ascii), a number, "id", a keyword,   *)
(* or "eof", which ends the input and is delivered again beyond it.  The   *)
(* lexer does not depend on the parser, so it is run first.  A parse       *)
(* function maps the position of its first token to the position of the    *)
(* token it leaves as the current one, with the trees it built; ok is      *)
(* FALSE when it threw a ParserException.  Names are not told apart.       *)
(***************************************************************************)
EXTENDS Lexer

CONSTANTS
  WellFormed(_),   \* which token sequences follow the grammar
  Ascii,           \* the tokens that are an ASCII character
  NumberValue,     \* the number tokens and their values
  BuiltinPrecedence \* the operators main installs

ASSUME OperatorAssumption ==
  /\ \A op \in DOMAIN BuiltinPrecedence :
       op \in Ascii /\ BuiltinPrecedence[op] \in 1 .. 100
  /\ {"=", "<", "+", "-", "*"} = DOMAIN BuiltinPrecedence

VARIABLES
  at,               \* the position of currentToken_
  binopPrecedence,  \* the binary operators and their precedences
  defined,          \* the operators with an accepted definition
  item,             \* the last item handled
  pc                \* "run" or "done"

parserVars == <<at, binopPrecedence, defined, item, pc>>
vars == <<lexVars, parserVars>>

Tok(i) == IF i <= Len(input) THEN input[i] ELSE "eof"
Numbers == DOMAIN NumberValue

\* A tree knows the tokens it was parsed from (parentheses around it not
\* included) and the token that says what it is.
Node(node, from, to, tok, kids) ==
  [node |-> node, from |-> from, to |-> to, tok |-> tok, kids |-> kids]
Leaf(node, i) == Node(node, i, i, i, <<>>)

Fail(i) == [ok |-> FALSE, at |-> i, kids |-> <<>>]
Parsed(i, kids) == [ok |-> TRUE, at |-> i, kids |-> kids]
\* F of the result r, unless r is a failure.  (From the set, TLC takes r as a
\* value, where it would else evaluate its definition at every use.)
OnSuccess(r, F(_)) == CHOOSE y \in {IF x.ok THEN F(x) ELSE x : x \in {r}} : TRUE
-----------------------------------------------------------------------------
Expr == "expression"   \* in a pattern, an expression is expected

RECURSIVE parseUnary(_), parseBinOpRHS(_, _, _), parseArgs(_, _, _),
          parseVarNames(_, _), parseAll(_, _, _)

parseExpression(i) ==
  OnSuccess(parseUnary(i), LAMBDA lhs : parseBinOpRHS(0, i, lhs))

\* The tokens and expressions of pattern, one after the other.
parseAll(i, pattern, kids) ==
  IF pattern = <<>> THEN Parsed(i, kids)
  ELSE IF Head(pattern) = Expr
  THEN OnSuccess(parseExpression(i),
         LAMBDA r : parseAll(r.at, Tail(pattern), kids \o r.kids))
  ELSE IF Tok(i) # Head(pattern) THEN Fail(i)
  ELSE parseAll(i + 1, Tail(pattern),
                IF Tok(i) = "id" THEN Append(kids, Leaf("name", i)) ELSE kids)

\* The tree of what began at token i.
Made(node, i, result) ==
  OnSuccess(result,
    LAMBDA r : Parsed(r.at, <<Node(node, i, r.at - 1, i, r.kids)>>))

parseParenExpr(i) == parseAll(i, <<"(", Expr, ")">>, <<>>)

parseArgsOverwritten(i, j, args) ==      \* mutant: only the last is kept
  OnSuccess(parseExpression(j), LAMBDA r :
    CASE Tok(r.at) = ")" -> Made("call", i, Parsed(r.at + 1, r.kids))
      [] Tok(r.at) = "," -> parseArgs(i, r.at + 1, r.kids)
      [] OTHER           -> Fail(r.at))
parseArgs(i, j, args) ==
  OnSuccess(parseExpression(j), LAMBDA r :
    CASE Tok(r.at) = ")" -> Made("call", i, Parsed(r.at + 1, args \o r.kids))
      [] Tok(r.at) = "," -> parseArgs(i, r.at + 1, args \o r.kids)
      [] OTHER           -> Fail(r.at))

parseIdentifierExpr(i) ==
  IF Tok(i + 1) # "(" THEN Parsed(i + 1, <<Leaf("var", i)>>)
  ELSE IF Tok(i + 2) = ")" THEN Made("call", i, Parsed(i + 3, <<>>))
  ELSE parseArgs(i, i + 2, <<>>)

parseIfExpr(i) ==
  Made("if", i,
       parseAll(i + 1, <<Expr, "then", Expr, "else", Expr>>, <<>>))

parseForExpr(i) ==
  Made("for", i,
    OnSuccess(parseAll(i + 1, <<"id", "=", Expr, ",", Expr>>, <<>>),
      LAMBDA r : parseAll(r.at,
        IF Tok(r.at) = "," THEN <<",", Expr, "in", Expr>> ELSE <<"in", Expr>>,
        r.kids)))

\* The names of a var expression, each with an initial value if it has one.
parseVarNames(i, kids) ==
  OnSuccess(
    IF Tok(i + 1) = "=" THEN parseAll(i, <<"id", "=", Expr>>, kids)
                        ELSE parseAll(i, <<"id">>, kids),
    LAMBDA r : IF Tok(r.at) = "," THEN parseVarNames(r.at + 1, r.kids) ELSE r)

parseVarExpr(i) ==
  Made("varin", i,
    OnSuccess(parseVarNames(i + 1, <<>>),
      LAMBDA r : parseAll(r.at, <<"in", Expr>>, r.kids)))

parsePrimary(i) ==
  CASE Tok(i) \in Numbers -> Parsed(i + 1, <<Leaf("number", i)>>)
    [] Tok(i) = "id"  -> parseIdentifierExpr(i)
    [] Tok(i) = "("   -> parseParenExpr(i)
    [] Tok(i) = "if"  -> parseIfExpr(i)
    [] Tok(i) = "for" -> parseForExpr(i)
    [] Tok(i) = "var" -> parseVarExpr(i)
    [] OTHER          -> Fail(i)

\* Every character begins a unary expression, except "(" and ",".
PrefixAny == Ascii                       \* mutant
Prefix == Ascii \ {"(", ","}

parseUnary(i) ==
  IF Tok(i) \notin Prefix THEN parsePrimary(i)
  ELSE Made("unary", i, parseUnary(i + 1))

\* The code's operator[] enters 0 for a character that is not in the table;
\* an entry of 0 is treated as none, and is left out.
getTokPrecedence(i) ==
  IF Tok(i) \in DOMAIN binopPrecedence THEN binopPrecedence[Tok(i)] ELSE -1

\* The least precedence of an operator inside the right operand.
TighterOrSame(prec) == prec            \* mutant
Tighter(prec) == prec + 1

\* lhs, which began at token i, and what follows it with at least prec.
parseBinOpRHS(prec, i, lhs) ==
  LET op == lhs.at
      extended(rhs) == IF getTokPrecedence(op) < getTokPrecedence(rhs.at)
                       THEN parseBinOpRHS(Tighter(getTokPrecedence(op)),
                                          op + 1, rhs)
                       ELSE rhs
      binary(rhs) == Parsed(rhs.at,
        <<Node("binary", i, rhs.at - 1, op, lhs.kids \o rhs.kids)>>)
  IN IF getTokPrecedence(op) < prec THEN lhs
     ELSE OnSuccess(
            OnSuccess(OnSuccess(parseUnary(op + 1), extended), binary),
            LAMBDA r : parseBinOpRHS(prec, i, r))
-----------------------------------------------------------------------------
(* Prototypes.  The result has, instead of trees, what kind of name it is   *)
(* (0 a function, 1 or 2 an operator of that many operands), the token of   *)
(* the operator, and its precedence.                                       *)

Named(i, kind, op, prec) ==
  [ok |-> TRUE, at |-> i, kids |-> <<[kind |-> kind, op |-> op, prec |-> prec]>>]

ValidPrecedenceAny(v) == TRUE           \* mutant
ValidPrecedence(v) == v \in 1 .. 100

parsePrototypeName(i) ==
  CASE Tok(i) = "id" -> Named(i + 1, 0, 0, 30)
    [] Tok(i) = "unary" /\ Tok(i + 1) \in Ascii -> Named(i + 2, 1, i + 1, 30)
    [] Tok(i) = "binary" /\ Tok(i + 1) \in Ascii ->
         IF Tok(i + 2) \notin Numbers THEN Named(i + 2, 2, i + 1, 30)
         ELSE IF ~ValidPrecedence(NumberValue[Tok(i + 2)]) THEN Fail(i + 2)
         ELSE Named(i + 3, 2, i + 1, NumberValue[Tok(i + 2)])
    [] Tok(i) \in {"unary", "binary"} -> Fail(i + 1)
    [] OTHER -> Fail(i)

\* From the first token after "(": the names, and how many there are.  A
\* comma after the last one is let pass.
RECURSIVE parseParameters(_, _)
parseParameters(i, n) ==
  CASE Tok(i) = "id" /\ Tok(i + 1) = "," -> parseParameters(i + 2, n + 1)
    [] Tok(i) = "id" /\ Tok(i + 1) = ")" -> Parsed(i + 2, <<n + 1>>)
    [] Tok(i) = ")"  -> Parsed(i + 1, <<n>>)
    [] Tok(i) = "id" -> Fail(i + 1)
    [] OTHER         -> Fail(i)

parsePrototype(i) ==
  OnSuccess(parsePrototypeName(i), LAMBDA p :
    IF Tok(p.at) # "(" THEN Fail(p.at)
    ELSE OnSuccess(parseParameters(p.at + 1, 0), LAMBDA r :
      IF p.kids[1].kind \notin {0, r.kids[1]} THEN Fail(r.at)
      ELSE Parsed(r.at, p.kids)))

parseExtern(i) == parsePrototype(i + 1)
parseTopLevelExpr(i) == parseExpression(i)
\* The prototype, then the tree of the body.
parseDefinition(i) ==
  OnSuccess(parsePrototype(i + 1), LAMBDA p :
    OnSuccess(parseExpression(p.at), LAMBDA b : Parsed(b.at, p.kids \o b.kids)))
-----------------------------------------------------------------------------
NoItem == [kind |-> "none", from |-> 1, to |-> 0, tree |-> Leaf("none", 0),
           table |-> BuiltinPrecedence]

Init ==
  /\ LexInit
  /\ at = 1
  /\ binopPrecedence = BuiltinPrecedence
  /\ defined = {}
  /\ item = NoItem
  /\ pc = "run"

\* parser_.getNextToken() in a handler's catch: at the end there is no next.
NotSkipped(i) == i               \* mutant
Skipped(i) == IF Tok(i) = "eof" THEN i ELSE i + 1

\* A handler: what the parser delivered, or an error.  CodegenExceptions
\* change nothing here.
Handle(kind, result, tree) ==
  /\ at' = IF result.ok THEN result.at ELSE Skipped(result.at)
  /\ item' = [kind |-> IF result.ok THEN kind ELSE "error",
              from |-> at, to |-> result.at - 1, tree |-> tree,
              table |-> binopPrecedence]
  /\ UNCHANGED <<lexVars, pc>>

\* A new operator is installed before its body is generated; a later
\* definition of it is either refused as a redefinition or replaces it.
handleDefinition ==
  /\ pc = "run" /\ Tok(at) = "def"
  /\ \E r \in {parseDefinition(at)} :
       LET p == r.kids[1]
           binary == r.ok /\ p.kind = 2
       IN /\ Handle("def", r, IF r.ok THEN r.kids[2] ELSE NoItem.tree)
          /\ \/ /\ binary => Tok(p.op) \in defined
                /\ UNCHANGED <<binopPrecedence, defined>>
             \/ /\ binary
                /\ binopPrecedence' =
                     [op \in DOMAIN binopPrecedence \cup {Tok(p.op)} |->
                        IF op = Tok(p.op) THEN p.prec ELSE binopPrecedence[op]]
                /\ defined' = defined \cup {Tok(p.op)}

handleExtern ==
  /\ pc = "run" /\ Tok(at) = "extern"
  /\ \E r \in {parseExtern(at)} : Handle("extern", r, NoItem.tree)
  /\ UNCHANGED <<binopPrecedence, defined>>

handleTopLevelExpression ==
  /\ pc = "run" /\ Tok(at) \notin {"eof", ";", "def", "extern"}
  /\ \E r \in {parseTopLevelExpr(at)} :
       Handle("expr", r, IF r.ok THEN r.kids[1] ELSE NoItem.tree)
  /\ UNCHANGED <<binopPrecedence, defined>>

Semicolon ==
  /\ pc = "run" /\ Tok(at) = ";"
  /\ at' = at + 1
  /\ item' = NoItem
  /\ UNCHANGED <<lexVars, binopPrecedence, defined, pc>>

Eof ==
  /\ pc = "run" /\ Tok(at) = "eof"
  /\ pc' = "done"
  /\ UNCHANGED <<lexVars, at, binopPrecedence, defined, item>>

mainLoop == \/ handleDefinition \/ handleExtern \/ handleTopLevelExpression
            \/ Semicolon \/ Eof

Next == IF AtEof THEN mainLoop ELSE getTok /\ UNCHANGED parserVars

\* Lexer and loop are sequential code: they go on as long as they can.
Spec == Init /\ [][Next]_vars /\ WF_vars(Next)
-----------------------------------------------------------------------------
(* Properties.                                                             *)

RECURSIVE Nodes(_), Leaves(_)
Nodes(tree) == {tree} \cup UNION {Nodes(tree.kids[k]) : k \in DOMAIN tree.kids}
BinaryNodes(tree) == {n \in Nodes(tree) : n.node = "binary"}
\* The tokens for numbers and names in a tree, from left to right.
Leaves(tree) ==
  (IF tree.node \in {"number", "var", "name", "call"} THEN <<tree.tok>>
                                                      ELSE <<>>)
    \o FlattenSeq([k \in DOMAIN tree.kids |-> Leaves(tree.kids[k])])

\* The table has its type: what enters it is a precedence that getTokPrecedence
\* can tell from "no operator" and that Tighter can exceed.
TypeOK ==
  /\ at = 1 \/ at \in DOMAIN input
  /\ DOMAIN binopPrecedence \subseteq Ascii
  /\ \A op \in DOMAIN binopPrecedence : binopPrecedence[op] \in 1 .. 100
  /\ pc \in {"run", "done"}

\* In every tree an operator binds its operands by the precedences in force
\* when it was parsed and operators of one precedence group to the left,
\* unless parentheses say otherwise.
OperatorsBind ==
  \A n \in BinaryNodes(item.tree) :
    LET prec(m) == item.table[Tok(m.tok)]
        l == n.kids[1]
        r == n.kids[2]
    IN /\ l.node = "binary" /\ l.to = n.tok - 1 => prec(l) >= prec(n)
       /\ r.node = "binary" /\ r.from = n.tok + 1 => prec(r) > prec(n)

\* What the parser accepts it has kept: the names and numbers of the item are
\* those of the tree, in their order.
NothingDropped ==
  item.kind \in {"def", "expr"} =>
    Leaves(item.tree) =
      SelectSeq([k \in 1 .. item.to |-> k],
                LAMBDA k : k >= item.tree.from /\ Tok(k) \in Numbers \cup {"id"})

\* Items that follow the grammar are accepted, and up to their end.
ItemsWhole ==
  item.kind # "none" /\ WellFormed(source.tokens) =>
    item.kind # "error" /\ Tok(at) \in {";", "eof"}

\* The session ends with its input, whatever errors it holds: no path through
\* the loop leaves the token it began with, at the end of the input either.
Termination == <>(pc = "done")
=============================================================================
