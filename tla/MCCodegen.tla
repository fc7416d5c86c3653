----------------------------- MODULE MCCodegen -----------------------------
(***************************************************************************)
(* Functions for the code generator: all small combinations of the kinds   *)
(* of expression, some larger ones, and those of examples/fib.kaleidoscope.*)
(***************************************************************************)
EXTENDS Codegen

Num(v)       == Node("number", <<>>, v, <<>>)
V(n)         == Node("variable", <<n>>, 0, <<>>)
Bin(op, l, r) == Node("binary", <<op>>, 0, <<l, r>>)
Not(e)       == Node("unary", <<"!">>, 0, <<e>>)
IfE(c, t, e) == Node("if", <<>>, 0, <<c, t, e>>)
ForE(n, start, end, step, body) ==
  Node("for", <<n>>, 0, <<start, end, step, body>>)
VarE(names, kids) == Node("varin", names, 0, kids)
CallE(f, args) == Node("call", <<f>>, 0, args)

\* ":" and "!" are defined, and so is "-", in vain; f and fib are functions.
Signatures ==
  [f \in {<<"binary", ":">>, <<"binary", "-">>, <<"unary", "!">>,
          <<"fn", "f">>, <<"fn", "fib">>} |->
     IF f[1] = "binary" THEN 2 ELSE 1]

Fib[n \in Nat] == IF n < 3 THEN 1 ELSE Fib[n - 1] + Fib[n - 2]
Results(f, args) ==
  CASE f = <<"binary", ":">> -> args[2]
    [] f = <<"binary", "-">> -> 100
    [] f = <<"unary", "!">>  -> IF args[1] = 0 THEN 1 ELSE 0
    [] f = <<"fn", "f">>     -> args[1] + 1
    [] f = <<"fn", "fib">>   -> Fib[args[1]]

\* All expressions made of one from L and one from R.
Grow(L, R) ==
  UNION {
    {Bin("=", V("x"), r), Bin("<", l, r), Bin("-", l, r), Bin(":", l, r),
     Not(r), CallE("f", <<r>>), CallE("f", <<l, r>>), CallE("h", <<r>>),
     IfE(l, r, V("x")), IfE(V("x"), l, r),
     ForE("y", l, Bin("<", V("y"), Num(2)), None, r),
     ForE("y", Num(0), Bin("<", V("y"), l), Num(2), r),
     VarE(<<"y">>, <<None, r>>), VarE(<<"x", "y">>, <<l, None, r>>)} :
    l \in L, r \in R}

Leaves == {Num(1), V("x"), V("y")}
Small  == Grow({V("x"), V("y")}, {V("x"), V("y"), Bin("=", V("y"), Num(3))})
\* Two expressions with blocks of their own, or that throw, in a third.
Branching == {e \in Small : e.node \in {"if", "for", "call"}}
Bodies == Small \cup Grow(Small, Leaves) \cup Grow(Leaves, Small)
                \cup Grow(Branching, Branching)

\* A loop whose body updates a variable of its own and one of the function,
\* with every small expression in it.
Loops ==
  {ForE("y", Num(0), Bin("<", V("y"), Num(1)), None,
        VarE(<<"z">>, <<None, Bin(":", Bin("=", V("z"), Bin("-", V("z"), V("x"))),
           Bin(":", Bin("=", V("x"), e), CallE("f", <<V("z")>>)))>>)) :
     e \in Small}

\* fib and fibi.
FibBody ==
  IfE(Bin("<", V("x"), Num(3)), Num(1),
      Bin("+", CallE("fib", <<Bin("-", V("x"), Num(1))>>),
               CallE("fib", <<Bin("-", V("x"), Num(2))>>)))
FibiBody ==
  LET set(n, e) == Bin("=", V(n), e)
  IN VarE(<<"a", "b", "c">>, <<Num(1), Num(1), None,
       Bin(":", ForE("i", Num(3), Bin("<", V("i"), V("x")), None,
                  Bin(":", Bin(":", set("c", Bin("+", V("a"), V("b"))),
                                    set("a", V("b"))),
                           set("b", V("c")))),
                V("b"))>>)

Parameters == <<"x">>
Candidates == {<<Parameters, e, <<v>>>> : e \in Bodies \cup Loops, v \in {0, 2}}
                \cup {<<Parameters, e, <<v>>>> :
                        e \in {FibBody, FibiBody}, v \in {1, 3, 4, 6}}
\* Those that have no meaning at all, or whose loops end.
Chosen == {f \in Candidates : Scoped(f[2], {"x"}) => Meaning(f).ok}

\* The reference itself: fib and fibi compute the same numbers, from 3 on
\* (the loop runs at least once).
ASSUME FibonacciAssumption ==
  \A n \in {3, 4, 6} : \A e \in {FibBody, FibiBody} :
    Meaning(<<Parameters, e, <<n>>>>).val = Fib[n]
=============================================================================
