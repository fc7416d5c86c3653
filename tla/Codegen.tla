------------------------------ MODULE Codegen ------------------------------
(***************************************************************************)
(* Code generation of expressions (ast.cpp): the blocks and instructions   *)
(* that FunctionAST::codegen leaves for a body, and their execution.       *)
(*                                                                         *)
(* A function is generated in one step, by operators that pass on the      *)
(* state of the generator: the blocks, which of them belong to the         *)
(* function, the builder's insertion block (cur), NamedValues, and the     *)
(* value of the expression just generated.  An exception is ok = FALSE.    *)
(* The code is then executed, block after block.  Numbers are integers,    *)
(* and constants are not folded.                                           *)
(***************************************************************************)
EXTENDS Integers, Sequences, SequencesExt, FiniteSets

CONSTANTS
  Names,          \* the names of variables
  Functions,      \* <<parameters, body, arguments>>: what is generated and run
  Arities,        \* the functions getFunction finds, and their arities
  Returns(_, _),  \* what a call of a function with some arguments returns
  MaxTrips,       \* bound on the iterations of a loop
  MaxBlocks       \* bound on the blocks executed

VARIABLES
  fn,       \* the function
  code,     \* what the generator made of it
  pc,       \* "codegen", "run", "failed" or "done"
  block,    \* the block to execute
  prev,     \* the block executed before it
  regs,     \* the results of the instructions, <<>> before there is one
  slots,    \* the contents of the stack slots, likewise
  calls,    \* the calls made, with their arguments
  result,   \* the value returned
  undef,    \* history: a value was used before there was one
  ran       \* the number of blocks executed

vars == <<fn, code, pc, block, prev, regs, slots, calls, result, undef, ran>>

\* Expressions.  The kids of a var are the initial values of its names, then
\* its body; those of a for its start, end, step and body.  None stands for
\* an initial value or a step that is not given.
Node(node, names, val, kids) ==
  [node |-> node, names |-> names, val |-> val, kids |-> kids]
None == Node("none", <<>>, 0, <<>>)

\* Blocks: instructions and the terminator's kind, operand and targets.  late:
\* something was appended after the terminator.
NoEnd == [kind |-> "none", args |-> <<>>, to |-> <<>>]
NewBlock == [ins |-> <<>>, end |-> NoEnd, late |-> FALSE]
Const(v) == <<"const", v>>
Reg(r)   == <<"reg", r>>
Arg(k)   == <<"arg", k>>
Unbound == 0

\* F of the generator's state s, unless an exception was thrown.
Then(s, F(_)) == CHOOSE y \in {IF x.ok THEN F(x) ELSE x : x \in {s}} : TRUE
Throw(s) == [s EXCEPT !.ok = FALSE]
-----------------------------------------------------------------------------
(* IRBuilder.                                                              *)

\* An instruction at the insertion point; its result is the value.
Ins(g, op, callee, slot, args, from) ==
  Then(g, LAMBDA s :
    [s EXCEPT
       !.blocks[s.cur].ins = Append(@, [op |-> op, callee |-> callee,
          slot |-> slot, args |-> args, from |-> from, res |-> s.regs + 1]),
       !.blocks[s.cur].late = @ \/ s.blocks[s.cur].end # NoEnd,
       !.regs = s.regs + 1,
       !.val = Reg(s.regs + 1)])
Emit(s, op, args)         == Ins(s, op, <<>>, 0, args, <<>>)
CreateLoad(s, slot)       == Ins(s, "load", <<>>, slot, <<>>, <<>>)
CreateStore(s, v, slot)   == [Ins(s, "store", <<>>, slot, <<v>>, <<>>)
                                EXCEPT !.val = s.val]
CreateCall(s, f, args)    == Ins(s, "call", f, 0, args, <<>>)
CreatePHI(s, args, from)  == Ins(s, "phi", <<>>, 0, args, from)
CreateFCmpONE(s)          == Emit(s, "one", <<s.val, Const(0)>>)
Terminate(g, kind, args, to) ==
  Then(g, LAMBDA s :
    [s EXCEPT
       !.blocks[s.cur].late = @ \/ s.blocks[s.cur].end # NoEnd,
       !.blocks[s.cur].end = [kind |-> kind, args |-> args, to |-> to]])
CreateBr(s, b)            == Terminate(s, "br", <<>>, <<b>>)
CreateCondBr(s, v, b, c)  == Terminate(s, "cond", <<v>>, <<b, c>>)
SetInsertPoint(s, b)      == [s EXCEPT !.cur = b]
Create(s)                 == [s EXCEPT !.blocks = Append(@, NewBlock)]
Insert(s, b)              == [s EXCEPT !.placed = @ \cup {b}]

\* A new slot, allocated in the entry block, holds v and is what n stands for.
createEntryBlockAlloca(s, v) ==
  CreateStore([s EXCEPT !.slots = s.slots + 1], v, s.slots + 1)
Bound(s, n, slot) == [s EXCEPT !.named[n] = slot]
-----------------------------------------------------------------------------
RECURSIVE codegen(_, _), Declare(_, _, _, _), Arguments(_, _, _, _)

Variable(e, s) ==
  IF s.named[e.names[1]] = Unbound THEN Throw(s)
                                   ELSE CreateLoad(s, s.named[e.names[1]])

\* The names of a var from the i-th on, and in old what they stood for.  (The
\* initial value is generated before the name is bound.)
Declare(e, i, s, old) ==
  IF i > Len(e.names) THEN [s EXCEPT !.old = old]
  ELSE Then(IF e.kids[i] = None THEN [s EXCEPT !.val = Const(0)]
                                ELSE codegen(e.kids[i], s), LAMBDA t :
         Declare(e, i + 1,
           Bound(createEntryBlockAlloca(t, t.val), e.names[i], t.slots + 1),
           [old EXCEPT ![e.names[i]] = t.named[e.names[i]]]))

Var(e, s) ==
  Then(Declare(e, 1, s, [n \in Names |-> Unbound]), LAMBDA t :
    Then(codegen(Last(e.kids), t), LAMBDA u :
      [u EXCEPT !.named =
         [n \in Names |-> IF Contains(e.names, n) THEN t.old[n]
                                                  ELSE u.named[n]]]))

Unary(e, s) ==
  Then(codegen(e.kids[1], s), LAMBDA t :
    IF <<"unary", e.names[1]>> \notin DOMAIN Arities THEN Throw(t)
    ELSE CreateCall(t, <<"unary", e.names[1]>>, <<t.val>>))

Assign(e, s) ==
  Then(codegen(e.kids[2], s), LAMBDA t :
    LET slot == t.named[e.kids[1].names[1]]
    IN IF slot = Unbound THEN Throw(t) ELSE CreateStore(t, t.val, slot))

\* The operators that are recognised before any definition of them.
BuiltinUnlessDefined(op) ==     \* mutant
  op \in {"+", "-", "*", "<"} /\ <<"binary", op>> \notin DOMAIN Arities
Builtin(op) == op \in {"+", "-", "*", "<"}

Binary(e, s) ==
  LET op == e.names[1]
  IN IF op = "=" THEN Assign(e, s)
     ELSE Then(codegen(e.kids[1], s), LAMBDA l :
            Then(codegen(e.kids[2], l), LAMBDA r :
              IF Builtin(op) THEN Emit(r, op, <<l.val, r.val>>)
              ELSE IF <<"binary", op>> \notin DOMAIN Arities THEN Throw(r)
              ELSE CreateCall(r, <<"binary", op>>, <<l.val, r.val>>)))

\* The block that a phi names for a branch that began at block b.
BranchBegin(s, b) == b          \* mutant
GetInsertBlock(s, b) == s.cur

\* The second branch is generated in elseBB, which joins the function first.
ElseLate(s, e, elseBB) ==       \* mutant: joins it afterwards
  Then(codegen(e.kids[3], SetInsertPoint(s, elseBB)),
       LAMBDA t : Insert(t, elseBB))
Else(s, e, elseBB) ==
  codegen(e.kids[3], SetInsertPoint(Insert(s, elseBB), elseBB))

If(e, s) ==
  Then(codegen(e.kids[1], s), LAMBDA c :
    LET cond    == CreateFCmpONE(c)
        thenBB  == Len(c.blocks) + 1
        elseBB  == thenBB + 1
        mergeBB == thenBB + 2
        branch  == CreateCondBr(Create(Create(Create(cond))), cond.val,
                                thenBB, elseBB)
    IN Then(codegen(e.kids[2], SetInsertPoint(Insert(branch, thenBB), thenBB)),
         LAMBDA t : Then(Else(CreateBr(t, mergeBB), e, elseBB),
           LAMBDA u : CreatePHI(
             SetInsertPoint(Insert(CreateBr(u, mergeBB), mergeBB), mergeBB),
             <<t.val, u.val>>,
             <<GetInsertBlock(t, thenBB), GetInsertBlock(u, elseBB)>>))))

\* The end of the loop's body: the next value is stored after end is
\* generated, and before the branch on it.
AdvanceNot(s, slot, step) == CreateLoad(s, slot)     \* mutant
Advance(s, slot, step) ==
  LET loaded == CreateLoad(s, slot)
      next   == Emit(loaded, "+", <<loaded.val, step>>)
  IN CreateStore([next EXCEPT !.val = s.val], next.val, slot)
Latch(e, s, slot, step) ==
  Then(codegen(e.kids[2], s), LAMBDA t :
    [Advance(t, slot, step) EXCEPT !.val = t.val])

\* The start of a loop does not see the loop's variable.
ForStart(e, s) == codegen(e.kids[1], [s EXCEPT !.slots = @ + 1])

For(e, s) ==
  LET slot == s.slots + 1
      n    == e.names[1]
  IN Then(ForStart(e, s), LAMBDA t :
       LET loopBB == Len(t.blocks) + 1
           loop   == SetInsertPoint(Insert(Create(CreateBr(
                       CreateStore(t, t.val, slot), loopBB)), loopBB), loopBB)
       IN Then(codegen(e.kids[4], Bound(loop, n, slot)), LAMBDA b :
            Then(IF e.kids[3] = None THEN [b EXCEPT !.val = Const(1)]
                                     ELSE codegen(e.kids[3], b), LAMBDA step :
              Then(Latch(e, step, slot, step.val), LAMBDA u :
                LET cond    == CreateFCmpONE(u)
                    afterBB == Len(u.blocks) + 1
                    after   == SetInsertPoint(CreateCondBr(
                                 Insert(Create(cond), afterBB), cond.val,
                                 loopBB, afterBB), afterBB)
                IN [Bound(after, n, t.named[n]) EXCEPT !.val = Const(0)]))))

\* The arguments from the i-th on, then the call.
Arguments(e, i, s, args) ==
  IF i > Len(e.kids) THEN CreateCall(s, <<"fn", e.names[1]>>, args)
  ELSE Then(codegen(e.kids[i], s),
            LAMBDA t : Arguments(e, i + 1, t, Append(args, t.val)))

CallUnchecked(e, s) ==                               \* mutant
  IF <<"fn", e.names[1]>> \notin DOMAIN Arities THEN Throw(s)
  ELSE Arguments(e, 1, s, <<>>)
Call(e, s) ==
  IF <<"fn", e.names[1]>> \notin DOMAIN Arities THEN Throw(s)
  ELSE IF Arities[<<"fn", e.names[1]>>] # Len(e.kids) THEN Throw(s)
  ELSE Arguments(e, 1, s, <<>>)

codegen(e, s) ==
  CASE e.node = "number"   -> [s EXCEPT !.val = Const(e.val)]
    [] e.node = "variable" -> Variable(e, s)
    [] e.node = "varin"    -> Var(e, s)
    [] e.node = "unary"    -> Unary(e, s)
    [] e.node = "binary"   -> Binary(e, s)
    [] e.node = "if"       -> If(e, s)
    [] e.node = "for"      -> For(e, s)
    [] e.node = "call"     -> Call(e, s)

\* The function with its entry block, where the parameters have their slots.
Entry(params) ==
  FoldLeft(LAMBDA s, k :
             Bound(createEntryBlockAlloca(s, Arg(k)), params[k], s.slots + 1),
           [blocks |-> <<NewBlock>>, placed |-> {1}, cur |-> 1, regs |-> 0,
            slots |-> 0, named |-> [n \in Names |-> Unbound],
            old |-> [n \in Names |-> Unbound], val |-> Const(0), ok |-> TRUE],
           [k \in DOMAIN params |-> k])

FunctionBody(f) ==
  Then(codegen(f[2], Entry(f[1])), LAMBDA s : Terminate(s, "ret", <<s.val>>, <<>>))
-----------------------------------------------------------------------------
Init ==
  /\ fn \in Functions
  /\ code = Entry(fn[1])
  /\ pc = "codegen"
  /\ block = 1 /\ prev = 0
  /\ regs = <<>> /\ slots = <<>>
  /\ calls = <<>> /\ result = 0
  /\ undef = FALSE /\ ran = 0

\* FunctionAST::codegen: the body is generated, or the function erased again.
Generate ==
  /\ pc = "codegen"
  /\ \E c \in {FunctionBody(fn)} :
       /\ code' = c
       /\ pc' = IF c.ok THEN "run" ELSE "failed"
       /\ regs' = [r \in 1 .. c.regs |-> <<>>]
       /\ slots' = [k \in 1 .. c.slots |-> <<>>]
  /\ UNCHANGED <<fn, block, prev, calls, result, undef, ran>>

(* Execution.  A machine has the registers, the slots, and what was done.   *)

Value(m, x) == CASE x[1] = "const" -> <<x[2]>>
                 [] x[1] = "arg"   -> <<fn[3][x[2]]>>
                 [] x[1] = "reg"   -> m.regs[x[2]]
Arith(op, a, b) ==
  CASE op = "+" -> a + b
    [] op = "-" -> a - b
    [] op = "*" -> a * b
    [] op = "<" -> IF a < b THEN 1 ELSE 0
    [] op = "one" -> IF a # b THEN 1 ELSE 0

\* The operands that are read: of a phi, the one for the block we come from.
Operands(m, i) ==
  CASE i.op = "load" -> <<m.slots[i.slot]>>
    [] i.op = "phi"  -> [k \in 1 .. 1 |->
         LET J == {j \in DOMAIN i.from : i.from[j] = prev}
         IN IF J = {} THEN <<>> ELSE Value(m, i.args[CHOOSE j \in J : TRUE])]
    [] OTHER -> [k \in DOMAIN i.args |-> Value(m, i.args[k])]

Execute(machine, i) ==
  Then(machine, LAMBDA m :
    LET x == Operands(m, i)
        v == [k \in DOMAIN x |-> x[k][1]]
    IN IF \E k \in DOMAIN x : x[k] = <<>> THEN Throw(m)
       ELSE CASE i.op \in {"load", "phi"} -> [m EXCEPT !.regs[i.res] = v]
              [] i.op = "store" -> [m EXCEPT !.slots[i.slot] = v]
              [] i.op = "call"  -> [m EXCEPT
                   !.regs[i.res] = <<Returns(i.callee, v)>>,
                   !.calls = Append(@, <<i.callee, v>>)]
              [] OTHER -> [m EXCEPT !.regs[i.res] = <<Arith(i.op, v[1], v[2])>>])

\* One block is executed, and its terminator.
Run ==
  /\ pc = "run" /\ ~undef
  /\ ran < MaxBlocks
  /\ \E m \in {FoldLeft(Execute, [regs |-> regs, slots |-> slots,
                                  calls |-> calls, ok |-> TRUE],
                        code.blocks[block].ins)} :
       LET end == code.blocks[block].end
           v   == IF end.args = <<>> THEN <<>> ELSE Value(m, end.args[1])
       IN /\ regs' = m.regs /\ slots' = m.slots /\ calls' = m.calls
          /\ undef' = (~m.ok \/ (end.kind # "br" /\ v = <<>>))
          /\ \/ undef' /\ UNCHANGED <<pc, block, prev, result>>
             \/ /\ ~undef' /\ end.kind = "ret"
                /\ pc' = "done" /\ result' = v[1]
                /\ UNCHANGED <<block, prev>>
             \/ /\ ~undef' /\ end.kind # "ret"
                /\ block' = IF end.kind = "br" \/ v[1] # 0 THEN end.to[1]
                                                           ELSE end.to[2]
                /\ prev' = block
                /\ UNCHANGED <<pc, result>>
  /\ ran' = ran + 1
  /\ UNCHANGED <<fn, code>>

Next == Generate \/ Run
Spec == Init /\ [][Next]_vars /\ WF_vars(Next)
-----------------------------------------------------------------------------
(* The language.  An expression is evaluated in an environment that maps    *)
(* names to locations of a store; every activation of a var or a for has    *)
(* locations of its own.  ok = FALSE: a loop ran longer than MaxTrips.      *)

RECURSIVE Eval(_, _, _), EvalAll(_, _, _, _), EvalVar(_, _, _, _),
          EvalLoop(_, _, _, _)

Valued(st, v) == [st EXCEPT !.val = v]
Called(st, f, args) ==
  [st EXCEPT !.val = Returns(f, args), !.calls = Append(@, <<f, args>>)]

\* The values of expressions, from left to right, then F of them.
EvalAll(es, env, st, vs) ==
  IF es = <<>> THEN [st EXCEPT !.vals = vs]
  ELSE Then(Eval(Head(es), env, st),
            LAMBDA t : EvalAll(Tail(es), env, t, Append(vs, t.val)))

EvalVar(e, i, env, st) ==
  IF i > Len(e.names) THEN Eval(Last(e.kids), env, st)
  ELSE Then(IF e.kids[i] = None THEN Valued(st, 0)
                                ELSE Eval(e.kids[i], env, st), LAMBDA t :
         EvalVar(e, i + 1, [env EXCEPT ![e.names[i]] = Len(t.mem) + 1],
                 [t EXCEPT !.mem = Append(@, t.val)]))

\* The body runs at least once; end is tested with the value it ran with.
EvalLoop(e, env, st, n) ==
  IF n = 0 THEN Throw(st)
  ELSE Then(EvalAll(<<e.kids[4],
                      IF e.kids[3] = None THEN Node("number", <<>>, 1, <<>>)
                                          ELSE e.kids[3],
                      e.kids[2]>>, env, st, <<>>), LAMBDA t :
         LET loc  == env[e.names[1]]
             step == [t EXCEPT !.mem[loc] = @ + t.vals[2]]
         IN IF t.vals[3] = 0 THEN Valued(step, 0)
            ELSE EvalLoop(e, env, step, n - 1))

Eval(e, env, st) ==
  CASE e.node = "number"   -> Valued(st, e.val)
    [] e.node = "variable" -> Valued(st, st.mem[env[e.names[1]]])
    [] e.node = "varin"    -> EvalVar(e, 1, env, st)
    [] e.node = "if" -> Then(Eval(e.kids[1], env, st), LAMBDA t :
         Eval(IF t.val # 0 THEN e.kids[2] ELSE e.kids[3], env, t))
    [] e.node = "for" -> Then(Eval(e.kids[1], env, st), LAMBDA t :
         EvalLoop(e, [env EXCEPT ![e.names[1]] = Len(t.mem) + 1],
                  [t EXCEPT !.mem = Append(@, t.val)], MaxTrips))
    [] e.node = "binary" /\ e.names[1] = "=" ->
         Then(Eval(e.kids[2], env, st), LAMBDA t :
           [t EXCEPT !.mem[env[e.kids[1].names[1]]] = t.val])
    [] OTHER -> Then(EvalAll(e.kids, env, st, <<>>), LAMBDA t :
         IF e.node = "binary" /\ e.names[1] \in {"+", "-", "*", "<"}
         THEN Valued(t, Arith(e.names[1], t.vals[1], t.vals[2]))
         ELSE Called(t, <<IF e.node = "call" THEN "fn" ELSE e.node,
                          e.names[1]>>, t.vals))

Meaning(f) ==
  Eval(f[2], [n \in Names |-> IF Contains(f[1], n)
                              THEN CHOOSE k \in DOMAIN f[1] : f[1][k] = n
                              ELSE Unbound],
       [mem |-> f[3], val |-> 0, vals |-> <<>>, calls |-> <<>>, ok |-> TRUE])

\* What has a meaning: every variable is in scope, every function known and
\* given as many arguments as it takes.
RECURSIVE Scoped(_, _)
Scoped(e, S) ==
  CASE e.node \in {"number", "none"} -> TRUE
    [] e.node = "variable" -> e.names[1] \in S
    [] e.node = "varin" -> \A k \in DOMAIN e.kids :
         Scoped(e.kids[k], S \cup ToSet(SubSeq(e.names, 1, k - 1)))
    [] e.node = "for" -> /\ Scoped(e.kids[1], S)
                         /\ \A k \in 2 .. 4 :
                              Scoped(e.kids[k], S \cup {e.names[1]})
    [] e.node = "if" -> \A k \in 1 .. 3 : Scoped(e.kids[k], S)
    [] OTHER ->
         LET f == <<IF e.node = "call" THEN "fn" ELSE e.node, e.names[1]>>
         IN /\ \A k \in DOMAIN e.kids : Scoped(e.kids[k], S)
            /\ \/ e.node = "binary" /\ e.names[1] \in {"=", "+", "-", "*", "<"}
               \/ f \in DOMAIN Arities /\ Arities[f] = Len(e.kids)
-----------------------------------------------------------------------------
(* Properties.                                                             *)

\* The bodies for which code is generated are those that have a meaning: no
\* name is in scope too early or too late, no call passes unchecked.
AcceptedExactly ==
  pc # "codegen" => (pc # "failed" <=> Scoped(fn[2], ToSet(fn[1])))

\* The function that is handed on is one that verifyFunction (whose verdict
\* ast.cpp ignores) has nothing to say of: all blocks that are jumped to
\* belong to it and end with their only terminator, and a phi comes first in
\* its block and names the predecessors, each once.
Preds(b) == {p \in code.placed : Contains(code.blocks[p].end.to, b)}
Verified ==
  pc \in {"run", "done"} =>
    \A b \in code.placed :
      LET B == code.blocks[b]
      IN /\ B.end.kind # "none" /\ ~B.late
         /\ ToSet(B.end.to) \subseteq code.placed
         /\ \A k \in DOMAIN B.ins : B.ins[k].op = "phi" =>
              /\ k = 1
              /\ ToSet(B.ins[k].from) = Preds(b)
              /\ Len(B.ins[k].from) = Cardinality(Preds(b))

\* Functions compute what the language says, and make their calls in the
\* order it says, through branches, loops, nested scopes and assignments,
\* and never use the result of an instruction or what is in a slot before
\* there is one.
ResultRight ==
  /\ ~undef
  /\ pc = "done" =>
       \E m \in {Meaning(fn)} : result = m.val /\ calls = m.calls

\* A block that an exception left outside of the function is empty: nothing
\* in it refers to the function that is erased.
DetachedEmpty ==
  pc = "failed" => \A b \in DOMAIN code.blocks \ code.placed :
                     code.blocks[b] = NewBlock

\* Functions whose meaning is a value return.
Termination == <>(pc \in {"failed", "done"})
=============================================================================
