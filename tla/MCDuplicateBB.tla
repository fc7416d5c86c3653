--------------------------- MODULE MCDuplicateBB ---------------------------
(***************************************************************************)
(* DuplicateBB after RIV on small functions: a phi in every join (and in   *)
(* every loop), an integer, a void and another integer instruction in each *)
(* block, with operands from the block itself and from its dominator.  RIV *)
(* alone is run on every graph of four blocks.                             *)
(***************************************************************************)
EXTENDS DuplicateBB, MCRIV

Arg == <<"arg", 0, 0>>
Val(b, i) == <<"orig", b, i>>
Inst(b, i, kind, ops, from) ==
  [id |-> Val(b, i), kind |-> kind, ops |-> ops, from |-> from]

\* The value that reaches b from its immediate dominator, or the argument.
Given(tree, b) ==
  IF tree.sdom[b] = {} THEN Arg
  ELSE Val(CHOOSE d \in tree.sdom[b] :
             tree.sdom[b] = tree.sdom[d] \cup {d}, 4)

CodeOf(tree, n, edges, b) ==
  LET preds == SetToSeq({p \in B(n) : b \in edges[p]})
      first == IF preds = <<>> THEN Arg ELSE Val(b, 1)
      phi == Inst(b, 1, "phi", [k \in DOMAIN preds |-> Val(preds[k], 4)],
                  [k \in DOMAIN preds |-> Original(preds[k])])
  IN (IF preds = <<>> THEN <<>> ELSE <<phi>>)
     \o <<Inst(b, 2, "int", <<first, Given(tree, b)>>, <<>>),
          Inst(b, 3, "void", <<Val(b, 2)>>, <<>>),
          Inst(b, 4, "int", <<Val(b, 2), Given(tree, b)>>, <<>>),
          Inst(b, 5, "br", <<Val(b, 4), Given(tree, b)>>, <<>>)>>

\* What RIV is to know of a function, and its code.
Function(n, edges, tree, insts, body, landingPads) ==
  [blocks |-> B(n), entry |-> 1, sdom |-> tree.sdom, kids |-> tree.kids,
   insts |-> insts, args |-> {Arg}, globals |-> {<<"global", 0, 0>>},
   landingPads |-> landingPads, succ |-> edges, code |-> body]

\* Graphs of three blocks, all within reach; one block may be a landing pad.
WithCode(edges, tree, pads) ==
  LET body == [b \in B(3) |-> CodeOf(tree, 3, edges, b)]
  IN Function(3, edges, tree, [b \in B(3) |-> Ids(body[b])], body, pads)
Duplicated ==
  {WithCode(edges, Tree(3, edges), pads) :
     edges \in {g \in Graphs2(3) : Live(3, g) = B(3) /\ 2 \in g[1]},
     pads \in {{}, {3}}}

\* Any graph of four blocks, for the analysis alone.
Short(b) == <<Inst(b, 2, "int", <<Arg>>, <<>>), Inst(b, 3, "void", <<Val(b, 2)>>, <<>>)>>
Analysed ==
  {Function(4, edges, Tree(4, edges), [b \in B(4) |-> Ids(Short(b))],
            [b \in B(4) |-> Short(b)], {}) : edges \in Graphs2(4)}

MCFunctions == Analysed \cup Duplicated
MCPassOn(fn) == fn.blocks = B(3)
Ints == {Arg} \cup {Val(b, i) : b \in B(4), i \in {1, 2, 4}}
=============================================================================
