---------------------------- MODULE DuplicateBB ----------------------------
(***************************************************************************)
(* The pass DuplicateBB (DuplicateBB.cpp) on top of the analysis RIV: each *)
(* block becomes a head that tests a reaching integer for zero, two copies *)
(* of the block's instructions and a tail with a phi per duplicated value. *)
(*                                                                         *)
(* A value is <<role, block, index>>; role "orig" is an instruction of the *)
(* source, "then" and "else" are its clones, "phi" is what replaces it.    *)
(* An instruction has its value id, its kind ("phi", "int", "void", "br",  *)
(* "isnull"), its operands ops and, a phi, the blocks they come from.  A   *)
(* block is <<part, block>>: the original block stays the head, as         *)
(* BasicBlock::splitBasicBlock leaves it.  The terminators of head, then   *)
(* and else hold nothing but succ; "br" is the terminator of the source.   *)
(***************************************************************************)
EXTENDS RIV, SequencesExt, Lists

CONSTANTS PassOn(_),   \* whether the function's pipeline asks for duplicate-bb
          Visits       \* the length of the routes that are compared

ASSUME VisitsAssumption == Visits \in Nat

VARIABLES code,        \* the instructions of every block
          succ,        \* the successors of every block
          targets,     \* the value each target is to test: the pass's map
          todo,        \* the targets not duplicated yet
          valueToPhi,  \* the phi that replaced a value
          at           \* the place in the tail being cloned, or Idle

dvars == <<code, succ, targets, todo, valueToPhi, at>>

Idle == <<>>
Unchosen == <<>>
Block(part, b) == <<part, b>>
Original(b) == <<"head", b>>
IsPhi(inst) == inst.kind = "phi"
PhisOf(insts) == {inst \in Elems(insts) : IsPhi(inst)}
\* The place of the first instruction that is no phi, or past the end.
FirstNonPHI(insts) ==
  Min({i \in 1 .. Len(insts) + 1 : i <= Len(insts) => ~IsPhi(insts[i])})
Operands(insts) == UNION {Elems(insts[i].ops) : i \in DOMAIN insts}
Ids(insts) == {insts[i].id : i \in DOMAIN insts}

\* The map m with value for key v, which may have one already.
Set(m, v, value) ==
  [x \in DOMAIN m \cup {v} |-> IF x = v THEN value ELSE m[x]]
Mapped(m, v) == IF v \in DOMAIN m THEN m[v] ELSE v

\* What LLVM promises of a function: a value's id names its instruction, void
\* instructions are nobody's operands, a block begins with its phis, which
\* name its predecessors, and nothing follows its terminator.  RIV is given the
\* instructions of the code.
Roles == {"orig", "then", "else", "phi", "cond"}
Results(fn) == Roles \X fn.blocks \X Nat
Outside(fn) == fn.args \cup fn.globals
Instructions(fn) ==
  [id : {"orig"} \X fn.blocks \X (Nat \ {0}), kind : {"phi", "int", "void", "br"},
   ops : Seq(Outside(fn) \cup Results(fn)), from : Seq({"head"} \X fn.blocks)]
VoidIds(fn) ==
  UNION {{inst.id : inst \in {i \in Elems(fn.code[b]) : i.kind = "void"}} : b \in fn.blocks}
CodeSound(fn) ==
  LET ids == UNION {Ids(fn.code[b]) : b \in fn.blocks}
  IN /\ fn.succ \in [fn.blocks -> SUBSET fn.blocks]
     /\ fn.code \in [fn.blocks -> Seq(Instructions(fn))]
     /\ \A b \in fn.blocks : \A i, j \in DOMAIN fn.code[b] :
          /\ fn.code[b][i].id[2] = b
          /\ fn.code[b][i].id = fn.code[b][j].id => i = j
          /\ i < j /\ IsPhi(fn.code[b][j]) => IsPhi(fn.code[b][i])
          /\ i < j => fn.code[b][i].kind # "br"
     /\ \A b \in fn.blocks :
          /\ fn.insts[b] = Ids(fn.code[b])
          /\ Operands(fn.code[b]) \subseteq Outside(fn) \cup (ids \ VoidIds(fn))
          /\ \A phi \in PhisOf(fn.code[b]) :
               /\ Len(phi.ops) = Len(phi.from)
               /\ Elems(phi.from) = {Original(p) : p \in {q \in fn.blocks : b \in fn.succ[q]}}
     /\ IntegerTyped \cap VoidIds(fn) = {}
     /\ Outside(fn) \cap Results(fn) = {}

ASSUME CodeAssumption == \A fn \in Functions : CodeSound(fn)

\* The entry has no phis, no way leads around a dominator, and what a phi takes
\* from a predecessor is computed there or in a dominator of it.
DominanceSound(fn) ==
  /\ PhisOf(fn.code[fn.entry]) = {}
  /\ \A p \in Reachable(fn) : \A b \in fn.succ[p] :
       /\ b \in Reachable(fn) /\ fn.sdom[b] \subseteq fn.sdom[p] \cup {p}
       /\ \A phi \in PhisOf(fn.code[b]) : \A i \in DOMAIN phi.from :
            phi.from[i] = Original(p) =>
              phi.ops[i] \in Outside(fn)
                              \cup UNION {Ids(fn.code[d]) : d \in fn.sdom[p] \cup {p}}

ASSUME DominanceAssumption == \A fn \in Functions : DominanceSound(fn)

DInit ==
  /\ Init
  /\ code = [x \in {Original(b) : b \in F.blocks} |-> F.code[x[2]]]
  /\ succ = [x \in DOMAIN code |-> {Original(s) : s \in F.succ[x[2]]}]
  /\ targets = Unchosen /\ todo = {} /\ valueToPhi = <<>> /\ at = Idle

-----------------------------------------------------------------------------
\* The first loop: a value that reaches the block, chosen at random, for
\* every block any value reaches, unless an exception lands there.
Targets == {b \in F.blocks \ F.landingPads : result[b] # {}}

Choose ==
  /\ PassOn(F) /\ worklist = <<>> /\ targets = Unchosen
  /\ \E chosen \in [Targets -> UNION {result[b] : b \in Targets}] :
       /\ \A b \in Targets : chosen[b] \in result[b]
       /\ targets' = chosen
  /\ todo' = Targets
  /\ UNCHANGED <<vars, code, succ, valueToPhi, at>>

\* What the inserted test looks at.
CheckedClone(b) ==                               \* mutant
  LET v == targets[b]
  IN IF v \in DOMAIN valueToPhi THEN <<"then", v[2], v[3]>> ELSE v
Checked(b) == Mapped(valueToPhi, targets[b])

\* splitBasicBlock has the successors' phis name the new block.
NewSources(inst, old, new) ==
  [inst EXCEPT !.from = [i \in DOMAIN @ |-> IF @[i] = old THEN new ELSE @[i]]]

\* The second loop takes the targets in the order of a map keyed by address:
\* any order.  SplitBlockAndInsertIfThenElse at the first non-phi.
Split(b) ==
  /\ at = Idle /\ b \in todo
  /\ LET head == Original(b)
         tail == Block("tail", b)
         moved(insts) == [i \in DOMAIN insts |-> NewSources(insts[i], head, tail)]
         phis == FirstNonPHI(code[head]) - 1
         test == [id |-> <<"cond", b, 0>>, kind |-> "isnull",
                  ops |-> <<Checked(b)>>, from |-> <<>>]
         new == [part \in {"then", "else"} |-> Block(part, b)]
     IN /\ code' = [x \in DOMAIN code \cup {tail, new["then"], new["else"]} |->
                     IF x = head
                     THEN Append(moved(SubSeq(code[x], 1, phis)), test)
                     ELSE IF x = tail
                     THEN SubSeq(code[head], phis + 1, Len(code[head]))
                     ELSE IF x \in DOMAIN code THEN moved(code[x]) ELSE <<>>]
        /\ succ' = [x \in DOMAIN code' |->
                     IF x = head THEN {new["then"], new["else"]}
                     ELSE IF x = tail THEN succ[head]
                     ELSE IF x \in DOMAIN code THEN succ[x] ELSE {tail}]
  /\ at' = [b |-> b, k |-> 1, thenVMap |-> <<>>, elseVMap |-> <<>>, freeList |-> {}]
  /\ UNCHANGED <<vars, targets, todo, valueToPhi>>

\* RemapInstruction with RF_IgnoreMissingLocals.
Remapped(inst, vmap) ==
  [inst EXCEPT !.ops = [i \in DOMAIN @ |-> Mapped(vmap, @[i])]]

\* The key of a ValueMap follows replaceAllUsesWith from old to new.
FollowingKey(old, new) == new

\* replaceAllUsesWith in the function.
UsesReplaced(m, old, new, tail) ==
  [x \in DOMAIN m |->
     [i \in DOMAIN m[x] |-> Remapped(m[x][i], Set(<<>>, old, new))]]

\* One iteration over the tail's instructions; its terminator is remapped to
\* what it names already, as tailVMap takes every phi to itself.
Clone ==
  /\ at # Idle
  /\ LET tail == Block("tail", at.b)
         inst == code[tail][at.k]
         void == inst.kind = "void"
         clone(part, vmap) ==
           [Remapped(inst, vmap) EXCEPT !.id = <<part, at.b, inst.id[3]>>]
         copies == [part \in {"then", "else"} |->
                      clone(part, IF part = "then" THEN at.thenVMap ELSE at.elseVMap)]
         phi == [id |-> <<"phi", at.b, inst.id[3]>>, kind |-> "phi",
                 ops |-> <<copies["then"].id, copies["else"].id>>,
                 from |-> <<Block("then", at.b), Block("else", at.b)>>]
         cloned == [x \in DOMAIN code |->
                      IF x[2] = at.b /\ x[1] \in DOMAIN copies
                      THEN Append(code[x], copies[x[1]])
                      ELSE IF x = tail /\ ~void
                      THEN [code[x] EXCEPT ![at.k] = phi] ELSE code[x]]
         key == IF void THEN inst.id ELSE FollowingKey(inst.id, phi.id)
     IN /\ at.k <= Len(code[tail])
        /\ IF inst.kind = "br"
           THEN /\ at' = [at EXCEPT !.k = @ + 1]
                /\ UNCHANGED <<code, valueToPhi>>
           ELSE /\ at' = [b |-> at.b, k |-> at.k + 1,
                          thenVMap |-> Set(at.thenVMap, key, copies["then"].id),
                          elseVMap |-> Set(at.elseVMap, key, copies["else"].id),
                          freeList |-> at.freeList \cup IF void THEN {at.k} ELSE {}]
                /\ code' = IF void THEN cloned
                           ELSE UsesReplaced(cloned, inst.id, phi.id, tail)
                /\ valueToPhi' = IF void THEN valueToPhi
                                 ELSE Set(valueToPhi, inst.id, phi.id)
  /\ UNCHANGED <<vars, succ, targets, todo>>

\* mutants: freeList is never emptied; what is behind its members is erased
FreedNone(insts, freeList) == insts
FreedNext(insts, freeList) ==
  At(insts, {i \in DOMAIN insts : i - 1 \notin freeList})
\* The loop over freeList: the tail without what was cloned and is void.
Freed(insts, freeList) == At(insts, DOMAIN insts \ freeList)

Finish ==
  /\ at # Idle
  /\ at.k > Len(code[Block("tail", at.b)])
  /\ code' = [code EXCEPT ![Block("tail", at.b)] = Freed(@, at.freeList)]
  /\ todo' = todo \ {at.b}
  /\ at' = Idle
  /\ UNCHANGED <<vars, succ, targets, valueToPhi>>

Analyse == Iterate /\ UNCHANGED dvars

DNext == Analyse \/ Choose \/ (\E b \in todo : Split(b)) \/ Clone \/ Finish

DSpec == DInit /\ [][DNext]_<<vars, dvars>> /\ WF_<<vars, dvars>>(DNext)
-----------------------------------------------------------------------------
(* What the code does: the instructions executed along a route.  An        *)
(* instruction is not interpreted; its k-th execution yields a value of its *)
(* own, which its operands' values and its place in the source determine.  *)

Undefined == <<>>
Value(env, v) == IF v \in DOMAIN env THEN env[v] ELSE Undefined

\* Entering a block from prev, its phis take their values at once.
EnterPhis(env, insts, prev) ==
  LET phis == PhisOf(insts)
      ids == {phi.id : phi \in phis}
      incoming(phi) == {i \in DOMAIN phi.from : phi.from[i] = prev}
  IN [v \in DOMAIN env \cup ids |->
        IF v \in ids
        THEN LET phi == CHOOSE p \in phis : p.id = v
             IN IF incoming(phi) = {} THEN Undefined
                ELSE Value(env, phi.ops[Min(incoming(phi))])
        ELSE env[v]]

\* One instruction: the trace gets its place in the source and its operands.
Execute(run, inst) ==
  LET seen == [i \in DOMAIN inst.ops |-> Value(run.env, inst.ops[i])]
  IN [run EXCEPT
        !.trace = Append(@, [block |-> inst.id[2], index |-> inst.id[3], seen |-> seen]),
        !.env = Set(@, inst.id, <<"result", inst.id[2], inst.id[3], run.visit>>)]

EnterBlock(run, step) ==
  LET insts == step.insts
      begun == [run EXCEPT !.env = EnterPhis(@, insts, run.prev)]
      rest == SubSeq(insts, FirstNonPHI(insts), Len(insts))
  IN [FoldLeft(Execute, [begun EXCEPT !.visit = step.visit], rest)
        EXCEPT !.prev = step.name]

Trace(steps) ==
  FoldLeft(EnterBlock,
           [env |-> [v \in Outside(F) |-> <<"outside", v>>], prev |-> Undefined, visit |-> 0,
            trace |-> <<>>], steps).trace

\* The routes through the source, and the same route through the code when
\* the test in the k-th block decides for sides[k].
Routes(n) ==
  {r \in [1 .. n -> F.blocks] :
     r[1] = F.entry /\ \A k \in 1 .. n - 1 : r[k + 1] \in F.succ[r[k]]}
Visit(x, k) == [name |-> x, insts |-> code[x], visit |-> k]
Through(r, sides) ==
  FlattenSeq([k \in DOMAIN r |->
    IF Block("tail", r[k]) \notin DOMAIN code THEN <<Visit(Original(r[k]), k)>>
    ELSE <<Visit(Original(r[k]), k), Visit(Block(sides[k], r[k]), k),
           Visit(Block("tail", r[k]), k)>>])

\* The source, with the test the pass means to make in front of each target.
Meant(b) ==
  LET insts == F.code[b]
      phis == FirstNonPHI(insts) - 1
      test == [id |-> <<"cond", b, 0>>, kind |-> "isnull",
               ops |-> <<targets[b]>>, from |-> <<>>]
  IN IF Block("tail", b) \in DOMAIN code
     THEN SubSeq(insts, 1, phis) \o <<test>> \o SubSeq(insts, phis + 1, Len(insts))
     ELSE insts
Reference(r) ==
  [k \in DOMAIN r |-> [name |-> Original(r[k]), insts |-> Meant(r[k]), visit |-> k]]

Quiet == targets # Unchosen /\ at = Idle
IsTest(e) == e.index = 0
NoTest(e) == ~IsTest(e)
NoTests(trace) == SelectSeq(trace, NoTest)
Tests(trace) == SelectSeq(trace, IsTest)

-----------------------------------------------------------------------------
(* Properties.                                                             *)

\* After each target, whichever copy is taken at each test, the code executes
\* the source's instructions, once each, in the source's order and on the
\* values the source computes (thenVMap, elseVMap and the phis of the tail).
SameBehaviour ==
  Quiet => \A r \in Routes(Visits) : \A source \in {NoTests(Trace(Reference(r)))} :
    \A sides \in [1 .. Visits -> {"then", "else"}] :
      NoTests(Trace(Through(r, sides))) = source

\* The test at the head of a target sees the value that was chosen for it,
\* computed before the test, although an earlier target may have replaced
\* the instruction chosen (valueToPhi, DuplicateBB.cpp:36).
TestsTheChosenValue ==
  Quiet => \A r \in Routes(Visits) : \A source \in {Trace(Reference(r))} :
    /\ \A k \in DOMAIN source : IsTest(source[k]) => source[k].seen # <<Undefined>>
    /\ \A sides \in [1 .. Visits -> {"then", "else"}] :
         Tests(Trace(Through(r, sides))) = Tests(source)

\* At any moment, inside the loops too, the function is well-formed: every
\* operand is an instruction that is still there (ReplaceInstWithInst and
\* eraseFromParent leave no uses of what they erase), and the phis of a block
\* name its predecessors and no other block.
There == Outside(F) \cup UNION {Ids(code[x]) : x \in DOMAIN code}
NoDanglingOperand ==
  \A x \in DOMAIN code : Operands(code[x]) \subseteq There
PhisNamePredecessors ==
  \A x \in DOMAIN code : \A phi \in PhisOf(code[x]) :
    Elems(phi.from) = {p \in DOMAIN code : x \in succ[p]}
WellFormed == NoDanglingOperand /\ PhisNamePredecessors
=============================================================================
