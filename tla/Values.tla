------------------------------- MODULE Values -------------------------------
(***************************************************************************)
(* What the instructions of Opt compute, and what it means for the code of *)
(* a function to compute the values that its source computes.              *)
(***************************************************************************)
EXTENDS Opt, MBA

\* Doubles: NaN, the infinities and small numbers, in units of epsilon / 2.
Inf == 100
NaN == 1000
IsInf(x) == x \in {Inf, -Inf}
Doubles == -Inf .. Inf \cup {NaN}

Modulus(ty) == IF ty = "i8" THEN 256 ELSE 65536
FSub(x, y) ==
  CASE NaN \in {x, y} \/ (IsInf(x) /\ x = y) -> NaN
    [] ~(NaN \in {x, y}) /\ IsInf(x) /\ x # y -> x
    [] ~(NaN \in {x, y}) /\ ~IsInf(x) /\ IsInf(y) -> -y
    [] OTHER -> x - y
FAbs(x) == IF x < 0 THEN -x ELSE x
FCmp(pred, x, y) ==
  IF NaN \in {x, y} THEN pred \in {"ueq", "une", "ult", "uge"}
  ELSE CASE pred \in {"oeq", "ueq"} -> x = y [] pred \in {"one", "une"} -> x # y
         [] pred \in {"olt", "ult"} -> x < y [] pred \in {"oge", "uge"} -> x >= y

Compute(inst, v) ==
  LET m == Modulus(inst.ty)
  IN CASE inst.op = "add" /\ inst.ty = "i32" -> v[1] + v[2]
       [] inst.op = "add" /\ inst.ty # "i32" -> AddM(m, v[1], v[2])
       [] inst.op = "sub" -> SubM(m, v[1], v[2])
       [] inst.op = "mul" -> MulM(m, v[1], v[2])
       [] inst.op = "xor" -> Xor(v[1], v[2])
       [] inst.op = "and" -> And(v[1], v[2])
       [] inst.op = "not" -> NotM(m, v[1])
       [] inst.op = "fsub" -> FSub(v[1], v[2])
       [] inst.op = "fabs" -> FAbs(v[1])
       [] inst.op = "bitcast" -> v[1]
       [] inst.op = "fcmp" -> IF FCmp(inst.sym, v[1], v[2]) THEN 1 ELSE 0

\* x and y are equal, or epsilon apart: where ConvertFCmpEq's test of their
\* difference decides as the comparison does.  The difference of two equal
\* infinities is NaN, which oeq and une then see.
FarApart(x, y) == FCmp("uge", FAbs(FSub(x, y)), Epsilon)
Decided(pred, x, y) ==
  /\ x = y \/ FarApart(x, y)
  /\ pred \in {"oeq", "une"} => ~(IsInf(x) /\ x = y)
-----------------------------------------------------------------------------
(* One execution of a function: given are the values of its arguments, val *)
(* those of its instructions.                                              *)

ValueOf(given, val, v) ==
  CASE v[1] = "const" -> v[2]
    [] v[1] \in {"arg", "name"} -> given[v]
    [] OTHER -> val[v]
Seen(given, val, inst) ==
  [k \in DOMAIN inst.args |-> ValueOf(given, val, inst.args[k])]

OfType(ty, x) == x \in 0 .. Modulus(ty) - 1

\* The instructions whose result their operands determine, if these are of
\* the type, but for calls, counters in memory, and close comparisons.
IsInteger(inst) == \/ inst.ty = "i8" /\ inst.op \in {"add", "sub", "mul", "xor", "and", "not"}
                   \/ inst.ty = "i16" /\ inst.op \in {"add", "sub", "mul", "not"}
IsDouble(inst) == inst.op \in {"fsub", "fabs", "bitcast", "fcmp"}
Determined(inst, v) ==
  \/ IsInteger(inst) /\ \A k \in DOMAIN v : OfType(inst.ty, v[k])
  \/ IsDouble(inst) /\ ~IsEquality(inst)
  \/ IsEquality(inst) /\ v[1] \in Doubles /\ v[2] \in Doubles /\ Decided(inst.sym, v[1], v[2])
Obeys(given, val, inst) ==
  Determined(inst, Seen(given, val, inst))
    => val[inst.id] = Compute(inst, Seen(given, val, inst))
Computes(given, val, blocks) == \A i \in InstsOf(blocks) : Obeys(given, val, i)

\* What MBAAdd and MBASub take out of the code.
Erasable(inst) == \/ inst.op = "add" /\ inst.ty = "i8"
                  \/ inst.op = "sub" /\ inst.ty \in {"i8", "i16"}

\* Instruction j of one execution is i of another: the same on the same
\* operands, or the same decision for an equality comparison.
Stands(given, was, i, val, j) ==
  /\ j.id = i.id /\ j.op = i.op /\ j.ty = i.ty
  /\ val[j.id] = was[i.id]
  /\ \/ IsEquality(i)
     \/ j.sym = i.sym /\ Seen(given, val, j) = Seen(given, was, i)

Before(blocks, i, j) ==
  \E b \in DOMAIN blocks : \E k, l \in DOMAIN blocks[b] :
    k < l /\ blocks[b][k].id = i.id /\ blocks[b][l].id = j.id
HasEffect(inst) == inst.op \in {"ret", "store"} \/ (inst.op = "call" /\ inst.sym # "printf")
IsCount(inst) == inst.op = "store" /\ inst.id[1] = "new"

\* to keeps the instructions of from in their order, but those that may be
\* erased, and adds none that does more than compute, count or print ...
Keeps(from, to) ==
  /\ \A i \in InstsOf(from) : ~Erasable(i) =>
       \E j \in InstsOf(to) : j.id = i.id /\ j.op = i.op /\ j.ty = i.ty
  /\ \A i, j \in InstsOf(from) :
       ~Erasable(i) /\ ~Erasable(j) /\ Before(from, i, j) => Before(to, i, j)
  /\ \A j \in InstsOf(to) : HasEffect(j) /\ ~IsCount(j) =>
       \E i \in InstsOf(from) : i.id = j.id /\ i.op = j.op /\ i.sym = j.sym

\* ... and whatever to computes, from computes, on the same arguments and
\* the same results of calls.
Implements(from, to) ==
  /\ Keeps(from, to)
  /\ \A given, val : Computes(given, val, to) =>
       \E was : /\ Computes(given, was, from)
                /\ \A i \in InstsOf(from) : ~Erasable(i) =>
                     \E j \in InstsOf(to) : Stands(given, was, i, val, j)

\* Whatever passes ran, the code of every function computes on the same
\* operands what its source does: where MBAAdd and MBASub took a sum or a
\* difference away, its value is still what every use sees, and a comparison
\* that ConvertFCmpEq changed decides as before for operands that are equal
\* or epsilon apart.  Only print_wrapper, if the source defines one, gets a
\* block more.
ValuesKept ==
  \A f \in DOMAIN Source \ {Wrapper} : Implements(Source[f].blocks, code[f])
=============================================================================
