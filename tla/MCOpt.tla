------------------------------- MODULE MCOpt -------------------------------
(***************************************************************************)
(* A program with additions and subtractions of two widths, one on the     *)
(* result of the other, with every equality comparison and one that is     *)
(* not, a function called twice, one that is never called, and one with    *)
(* optnone.                                                                *)
(***************************************************************************)
EXTENDS OptRuns

V(k) == <<"id", k>>
A(k) == <<"arg", k>>
Cmp(k, pred) == Inst(V(k), "fcmp", "i1", <<A(3), A(4)>>, pred)

MCSource ==
  [main |-> [args |-> 4, optnone |-> FALSE, blocks |-> <<<<
     Inst(V(1), "call", "i8", <<A(1), A(2)>>, "f"),
     Inst(V(2), "call", "i8", <<V(1), A(1)>>, "f"),
     Inst(V(3), "call", "void", <<A(3), A(4)>>, "g"),
     Cmp(4, "oeq"), Cmp(5, "ueq"), Cmp(6, "one"), Cmp(7, "une"), Cmp(8, "olt"),
     Inst(V(9), "call", "void",
          <<A(3), A(4), V(4), V(5), V(6), V(7), V(8)>>, "compare"),
     Inst(V(10), "ret", "i8", <<V(2)>>, "")>>>>],
   f |-> [args |-> 2, optnone |-> FALSE, blocks |-> <<<<
     Inst(V(11), "add", "i8", <<A(1), A(2)>>, ""),
     Inst(V(12), "add", "i8", <<V(11), V(11)>>, ""),
     Inst(V(13), "sub", "i8", <<V(12), A(2)>>, ""),
     Inst(V(14), "sub", "i16", <<A(1), A(2)>>, ""),
     Inst(V(15), "call", "void", <<V(11), V(12), V(13), V(14)>>, "observe"),
     Inst(V(16), "ret", "i8", <<V(13)>>, "")>>>>],
   g |-> [args |-> 2, optnone |-> TRUE, blocks |-> <<<<
     Inst(V(17), "fcmp", "i1", <<A(1), A(2)>>, "oeq"),
     Inst(V(18), "call", "void", <<V(17)>>, "observe"),
     Inst(V(19), "ret", "void", <<>>, "")>>>>],
   h |-> [args |-> 1, optnone |-> FALSE, blocks |-> <<<<
     Inst(V(20), "ret", "void", <<>>, "")>>>>]]
MCOrder == <<"f", "g", "main", "h">>

\* Integers with and without carries and overflow; equal, close, distant,
\* infinite doubles and NaN.
MCInputs ==
  {<<0, 0, NaN, NaN>>, <<255, 1, NaN, 0>>, <<170, 85, Inf, Inf>>,
   <<255, 255, Inf, -Inf>>, <<127, 93, 0, Inf>>, <<128, 128, -Inf, 3>>,
   <<1, 2, 0, 0>>, <<200, 57, 1, 0>>, <<7, 9, 3, 0>>, <<64, 191, -1, 1>>}
=============================================================================
