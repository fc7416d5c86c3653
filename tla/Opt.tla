-------------------------------- MODULE Opt --------------------------------
(***************************************************************************)
(* A pipeline of opt over one module: the passes MBAAdd, MBASub and        *)
(* ConvertFCmpEq, the analyses FindFCmpEq, OpcodeCounter and               *)
(* StaticCallCounter with the cache that LLVM's pass manager keeps of      *)
(* them, and the instrumenting passes DynamicCallCounter and               *)
(* InjectFuncCall, in any order.                                           *)
(*                                                                         *)
(* A function is a sequence of blocks of which the first is executed (the  *)
(* source's functions have one block, ending in "ret").  An instruction    *)
(* has an id, an operation, a type, operands and a symbol: the predicate,  *)
(* the callee or the function whose counter it names.  An operand is       *)
(* <<"arg", i>>, <<"const", n>>, <<"name", function>> or an id, <<"id", n>>  *)
(* for an instruction of the source, or what New gives to those of a pass. *)
(***************************************************************************)
EXTENDS Lists, SequencesExt

CONSTANTS Source,     \* name -> [args, optnone, blocks] of its definitions
          Order,      \* the order of the definitions in the module
          MaxPasses   \* bound: the length of a pipeline

Inst(id, op, ty, args, sym) ==
  [id |-> id, op |-> op, ty |-> ty, args |-> args, sym |-> sym]
InstsOf(blocks) == UNION {ToSet(blocks[b]) : b \in DOMAIN blocks}

\* Blocks of instructions whose ids tell them apart.
IsList(s) == s \in Seq(ToSet(s))
IsInst(i) == /\ i = Inst(i.id, i.op, i.ty, i.args, i.sym)
             /\ IsList(i.args)
             /\ i.op \in {"add", "sub"} => Len(i.args) = 2
Shaped(blocks) ==
  /\ IsList(blocks) /\ blocks # <<>>
  /\ \A b \in DOMAIN blocks : IsList(blocks[b])
  /\ \A i \in InstsOf(blocks) : IsInst(i)
  /\ \A i, j \in InstsOf(blocks) : i.id = j.id => i = j

\* An operand is an argument, a constant, a name or an instruction above.
OperandsAbove(block) ==
  \A k \in DOMAIN block : \A v \in ToSet(block[k].args) :
    v[1] \in {"id", "new"} => \E j \in 1 .. k - 1 : block[j].id = v

ASSUME SourceAssumption ==
  /\ IsList(Order) /\ ToSet(Order) = DOMAIN Source
  /\ \A f \in DOMAIN Source :
       /\ Shaped(Source[f].blocks)
       /\ \A i \in InstsOf(Source[f].blocks) : i.id[1] = "id"
       /\ \A b \in DOMAIN Source[f].blocks : OperandsAbove(Source[f].blocks[b])

VARIABLES names,      \* the functions with a body, in the order of the module
          code,       \* their blocks
          format,     \* PrintfFormatStr: the initializer; "none" before it exists
          broken,     \* its initializer is not of the type it was created with
          dtors,      \* how many times print_wrapper is a global destructor
          cache,      \* analysis results the pass manager holds; Miss if none
          silent,     \* the functions changed since their opcodes were counted
                      \* by a pass that reported all analyses preserved
          passes      \* history: the passes run so far

vars == <<names, code, format, broken, dtors, cache, silent, passes>>

Miss == [miss |-> TRUE]
Hit(r) == [result |-> r]
Const(n) == <<"const", n>>

\* Epsilon, in the units that the doubles of a run are given in.
Epsilon == 2

Defs == ToSet(names)
Insts(f) == InstsOf(code[f])
Places(f) == UNION {{b} \X DOMAIN code[f][b] : b \in DOMAIN code[f]}
Wrapper == "print_wrapper"

\* The k-th of the instructions that the running pass makes for another one,
\* or in a function.
New(of, k) == <<"new", Len(passes), of, k>>

NoCache(fs) == [opcodes |-> [f \in fs |-> Miss], fcmps |-> [f \in fs |-> Miss],
                calls |-> Miss]

Init ==
  /\ names = Order
  /\ code = [f \in DOMAIN Source |-> Source[f].blocks]
  /\ format = "none" /\ broken = FALSE /\ dtors = 0
  /\ cache = NoCache(DOMAIN Source) /\ silent = {} /\ passes = <<>>

-----------------------------------------------------------------------------
(* The analyses.                                                           *)

Equalities == {"oeq", "ueq", "one", "une"}
IsEquality(inst) == inst.op = "fcmp" /\ inst.sym \in Equalities
EqualitiesOf(block) ==
  LET found == At(block, {k \in DOMAIN block : IsEquality(block[k])})
  IN [n \in DOMAIN found |-> found[n].id]
FindFCmpEq(f) == FlattenSeq([b \in DOMAIN code[f] |-> EqualitiesOf(code[f][b])])

\* Two operations of the model are an xor or an and with a constant.
OpcodeName(inst) ==
  CASE inst.op = "not" -> "xor" [] inst.op = "fabs" -> "and" [] OTHER -> inst.op
OpcodeCounter(f) ==
  [o \in {OpcodeName(i) : i \in Insts(f)} |->
     Cardinality({p \in Places(f) : OpcodeName(code[f][p[1]][p[2]]) = o})]

CallsIn(f) == {p \in Places(f) : code[f][p[1]][p[2]].op = "call"}
Calls == UNION {{f} \X CallsIn(f) : f \in Defs}
Callee(c) == code[c[1]][c[2][1]][c[2][2]].sym
StaticCallCounter ==
  [g \in {Callee(c) : c \in Calls} |-> Cardinality({c \in Calls : Callee(c) = g})]

Run(p) == Len(passes) < MaxPasses /\ ~broken /\ passes' = Append(passes, p)

\* getResult for every definition: the cached result, or a computed one.
Get(cached, fresh) ==
  [f \in Defs |-> IF cached[f] = Miss THEN Hit(fresh[f]) ELSE cached[f]]
GetFCmpEq == Get(cache.fcmps, [f \in Defs |-> FindFCmpEq(f)])
GetOpcodes == Get(cache.opcodes, [f \in Defs |-> OpcodeCounter(f)])

\* The printers find-fcmp-eq, opcode-counter and static-call-counter.
PrintFCmpEq ==
  /\ Run("find-fcmp-eq")
  /\ cache' = [cache EXCEPT !.fcmps = GetFCmpEq]
  /\ UNCHANGED <<names, code, format, broken, dtors, silent>>
PrintOpcodes ==
  /\ Run("opcode-counter")
  /\ cache' = [cache EXCEPT !.opcodes = GetOpcodes]
  /\ silent' = {f \in silent : cache.opcodes[f] # Miss}
  /\ UNCHANGED <<names, code, format, broken, dtors>>
PrintCalls ==
  /\ Run("static-call-counter")
  /\ cache' = [cache EXCEPT !.calls = IF @ = Miss THEN Hit(StaticCallCounter) ELSE @]
  /\ UNCHANGED <<names, code, format, broken, dtors, silent>>

\* What is left of a cache when a pass over the functions has preserved all
\* but those of the functions in fs, or nothing at all.
Invalidated(c, fs) ==
  IF fs = {} THEN c
  ELSE [opcodes |-> [f \in Defs |-> IF f \in fs THEN Miss ELSE c.opcodes[f]],
        fcmps |-> [f \in Defs |-> IF f \in fs THEN Miss ELSE c.fcmps[f]],
        calls |-> Miss]

-----------------------------------------------------------------------------
(* The passes over functions.                                              *)

\* replaceAllUsesWith: the value of an erased instruction is the last of the
\* instructions emitted for it.
Replaced(v, erased) == IF v \in erased THEN New(v, 0) ELSE v

Operands(inst, erased) == [k \in DOMAIN inst.args |-> Replaced(inst.args[k], erased)]
Ids(insts) == {i.id : i \in insts}

\* The blocks of f, each instruction giving way to a list of instructions.
Expanded(f, emit) ==
  [b \in DOMAIN code[f] |->
     FlattenSeq([k \in DOMAIN code[f][b] |-> emit[code[f][b][k]]])]

\* The instructions in what gives each one that is erased gave way to.
RewriteUnused(f, emitted) ==                     \* mutant: not replaceAllUsesWith
  Expanded(f, [inst \in Insts(f) |->
                 IF inst \in DOMAIN emitted THEN emitted[inst] ELSE <<inst>>])
Rewrite(f, emitted) ==
  Expanded(f, [inst \in Insts(f) |->
                 IF inst \in DOMAIN emitted THEN emitted[inst]
                 ELSE <<[inst EXCEPT !.args = Operands(inst, Ids(DOMAIN emitted))]>>])

Adds8(f) == {i \in Insts(f) : i.op = "add" /\ i.ty = "i8"}
EmitAdd(times, id, a, b) ==
  LET v(k) == New(id, k)
      step(k, op, x, y) == Inst(v(k), op, "i8", <<x, y>>, "")
  IN <<step(1, "xor", a, b), step(2, "and", a, b), step(3, "mul", Const(2), v(2)),
       step(4, "add", v(1), v(3)), step(5, "mul", v(4), Const(39)),
       step(6, "add", v(5), Const(23)), step(7, "mul", v(6), Const(times)),
       step(0, "add", v(7), Const(111))>>
EmitAddInexact(id, a, b) == EmitAdd(153, id, a, b)     \* mutant
EmitMBAAdd(id, a, b) == EmitAdd(151, id, a, b)

\* MBAAdd reports every analysis preserved, whatever it did.
MBAAdd ==
  /\ Run("mba-add")
  /\ code' = [f \in Defs |->
                Rewrite(f, [inst \in Adds8(f) |->
                  LET args == Operands(inst, Ids(Adds8(f)))
                  IN EmitMBAAdd(inst.id, args[1], args[2])])]
  /\ silent' = silent \cup {f \in Defs : code'[f] # code[f]}
  /\ UNCHANGED <<names, format, broken, dtors, cache>>

Subs(f) == {i \in Insts(f) : i.op = "sub" /\ i.ty \in {"i8", "i16"}}
EmitMBASub(id, ty, a, b) ==
  LET step(k, op, args) == Inst(New(id, k), op, ty, args, "")
  IN <<step(1, "not", <<b>>), step(2, "add", <<a, New(id, 1)>>),
       step(0, "add", <<New(id, 2), Const(1)>>)>>

\* The functions for which MBASub returns PreservedAnalyses::none().
NonePreservedNever(changed) == {}                \* mutant
NonePreserved(changed) == changed
MBASub ==
  /\ Run("mba-sub")
  /\ code' = [f \in Defs |->
                Rewrite(f, [inst \in Subs(f) |->
                  LET args == Operands(inst, Ids(Subs(f)))
                  IN EmitMBASub(inst.id, inst.ty, args[1], args[2])])]
  /\ LET changed == {f \in Defs : code'[f] # code[f]}
     IN /\ cache' = Invalidated(cache, NonePreserved(changed))
        /\ silent' = silent \ changed
  /\ UNCHANGED <<names, format, broken, dtors>>

ConvertOrdered(pred) ==                          \* mutant
  CASE pred \in {"oeq", "ueq"} -> "olt" [] OTHER -> "oge"
convertPredicate(pred) ==
  CASE pred = "oeq" -> "olt" [] pred = "ueq" -> "ult"
    [] pred = "one" -> "oge" [] pred = "une" -> "uge"

\* convertFCmpEq: the operands become |x - y| and epsilon, in place.
convertFCmpEq(inst) ==
  LET v(k) == New(inst.id, k)
  IN <<Inst(v(1), "fsub", "double", inst.args, ""),
       Inst(v(2), "bitcast", "i64", <<v(1)>>, ""),
       Inst(v(3), "fabs", "i64", <<v(2)>>, ""),
       Inst(v(4), "bitcast", "double", <<v(3)>>, ""),
       Inst(inst.id, "fcmp", inst.ty, <<v(4), Const(Epsilon)>>,
            convertPredicate(inst.sym))>>

\* The equality comparisons that the analysis lists, cached or not, are
\* converted, except in functions with optnone.
Converted(f) ==
  {i \in Insts(f) : /\ i.id \in ToSet(GetFCmpEq[f].result) /\ IsEquality(i)
                    /\ f \in DOMAIN Source => ~Source[f].optnone}
ConvertFCmpEq ==
  /\ Run("convert-fcmp-eq")
  /\ code' = [f \in Defs |->
                Expanded(f, [inst \in Insts(f) |->
                  IF inst \in Converted(f) THEN convertFCmpEq(inst) ELSE <<inst>>])]
  /\ LET changed == {f \in Defs : Converted(f) # {}}
     IN /\ cache' = Invalidated([cache EXCEPT !.fcmps = GetFCmpEq], changed)
        /\ silent' = silent \ changed
  /\ UNCHANGED <<names, format, broken, dtors>>

-----------------------------------------------------------------------------
(* The instrumenting passes over the module.                               *)

\* getOrInsertGlobal returns a PrintfFormatStr of any type; setInitializer
\* (or the verifier) stops opt when the type is not that of the new string.
SetFormat(str) ==
  /\ broken' = (format \notin {"none", str})
  /\ format' = str

AtEntry(blocks, insts) == [blocks EXCEPT ![1] = insts \o @]
ModuleChanged == cache' = NoCache(ToSet(names')) /\ silent' = {}

CounterOfModule(f) == ""                         \* mutant
Counter(f) == f
Increment(f) ==
  <<Inst(New(f, 1), "load", "i32", <<>>, Counter(f)),
    Inst(New(f, 2), "add", "i32", <<New(f, 1), Const(1)>>, ""),
    Inst(New(f, 3), "store", "i32", <<New(f, 2)>>, Counter(f))>>

\* Every definition counts its entries, those of print_wrapper too once an
\* earlier run has defined it; print_wrapper gets one block more.
DynamicCallCounter ==
  /\ Run("dynamic-call-counter")
  /\ LET show(f) == <<Inst(New(f, 4), "load", "i32", <<>>, Counter(f)),
                      Inst(New(f, 5), "call", "i32",
                           <<<<"name", f>>, New(f, 4)>>, "printf")>>
         enter == FlattenSeq([k \in DOMAIN names |-> show(names[k])])
                    \o <<Inst(New(Wrapper, 6), "ret", "void", <<>>, "")>>
         counted == [f \in Defs |-> AtEntry(code[f], Increment(f))]
     IN /\ names' = IF Wrapper \in Defs THEN names ELSE Append(names, Wrapper)
        /\ code' = [f \in ToSet(names') |->
                      IF f # Wrapper THEN counted[f]
                      ELSE Append(IF f \in Defs THEN counted[f] ELSE <<>>, enter)]
  /\ SetFormat("count")
  /\ dtors' = dtors + 1
  /\ ModuleChanged

Arity(f) == IF f \in DOMAIN Source THEN Source[f].args ELSE 0
arg_size(f) == Arity(f)

InjectFuncCall ==
  /\ Run("injectfunccall")
  /\ code' = [f \in Defs |->
                AtEntry(code[f], <<Inst(New(f, 1), "call", "i32",
                                     <<<<"name", f>>, Const(arg_size(f))>>, "printf")>>)]
  /\ SetFormat("hello")
  /\ UNCHANGED <<names, dtors>>
  /\ ModuleChanged

Next == \/ PrintFCmpEq \/ PrintOpcodes \/ PrintCalls
        \/ MBAAdd \/ MBASub \/ ConvertFCmpEq
        \/ DynamicCallCounter \/ InjectFuncCall

Spec == Init /\ [][Next]_vars
-----------------------------------------------------------------------------
(* Properties.                                                             *)

\* Every operand is still there and above its use: no use of an addition or
\* subtraction that the freeList erased is left anywhere.
NoErasedOperand ==
  \A f \in Defs : \A b \in DOMAIN code[f] : OperandsAbove(code[f][b])

\* A cached analysis is what would be computed now.  Opcode counts alone may
\* be stale, and only where MBAAdd has changed the function since.
CacheFresh ==
  /\ \A f \in Defs : /\ cache.fcmps[f] \in {Miss, Hit(FindFCmpEq(f))}
                     /\ \/ cache.opcodes[f] \in {Miss, Hit(OpcodeCounter(f))}
                        \/ f \in silent
  /\ cache.calls \in {Miss, Hit(StaticCallCounter)}
=============================================================================
