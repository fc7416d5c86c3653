-------------------------------- MODULE RIV --------------------------------
(***************************************************************************)
(* The analysis RIV (RIV.cpp): for every basic block, the integer values   *)
(* that reach its beginning.  RIV::run walks the dominator tree with an    *)
(* explicit worklist, passing to every child what its parent receives and  *)
(* what its parent defines.                                                *)
(*                                                                         *)
(* A function F is a record: blocks, entry; kids[b], the children of b in  *)
(* the dominator tree LLVM computed; sdom[b], the strict dominators of b,  *)
(* the entry among them iff b is reachable; insts[b], the values b defines;*)
(* args and globals.                                                       *)
(***************************************************************************)
EXTENDS Integers, Sequences

CONSTANTS Functions,      \* the functions the analysis may be run on
          IntegerTyped    \* the values whose type is an integer type

VARIABLES F,          \* the function analysed
          worklist,   \* dominator tree nodes still to be expanded
          result      \* the analysis result; {} where the map has no key

vars == <<F, worklist, result>>

Elems(s) == {s[i] : i \in 1 .. Len(s)}

Reachable(fn) == {b \in fn.blocks : b = fn.entry \/ fn.entry \in fn.sdom[b]}

(* What DominatorTreeAnalysis delivers: the children of a node have it and  *)
(* its strict dominators as their own, and every strict dominator of a      *)
(* block has a child on the way to that block.                              *)
IsDominatorTree(fn) ==
  /\ fn.entry \in fn.blocks
  /\ fn.kids \in [fn.blocks -> Seq(fn.blocks)]
  /\ fn.sdom \in [fn.blocks -> SUBSET fn.blocks]
  /\ fn.sdom[fn.entry] = {}
  /\ \A n \in Reachable(fn) : \A c \in Elems(fn.kids[n]) :
       fn.sdom[c] = fn.sdom[n] \cup {n}
  /\ \A b \in Reachable(fn) : \A n \in fn.sdom[b] :
       \E c \in Elems(fn.kids[n]) : c = b \/ c \in fn.sdom[b]

ASSUME FunctionsAssumption == \A fn \in Functions : IsDominatorTree(fn)

-----------------------------------------------------------------------------
definedOfAnyType(fn, b) == fn.insts[b]          \* mutant
definedValues(fn, b) == fn.insts[b] \cap IntegerTyped
entryValues(fn) == (fn.globals \cup fn.args) \cap IntegerTyped

Init ==
  /\ F \in Functions
  /\ worklist = <<F.entry>>
  /\ result = [b \in F.blocks |-> IF b = F.entry THEN entryValues(F) ELSE {}]

\* What an iteration at node hands down to each of its children.
PassedOnWithoutDefs(node) == result[node]        \* mutant
PassedOn(node) == definedValues(F, node) \cup result[node]

\* The worklist once its last node was popped and children were pushed.
PushedOverLeaf(children) ==                      \* mutant
  IF children = <<>> THEN worklist
  ELSE SubSeq(worklist, 1, Len(worklist) - 1) \o children
Pushed(children) == SubSeq(worklist, 1, Len(worklist) - 1) \o children

\* One iteration of the loop.
Iterate ==
  /\ worklist # <<>>
  /\ LET node     == worklist[Len(worklist)]
         children == F.kids[node]
     IN /\ worklist' = Pushed(children)
        /\ result' = [b \in F.blocks |->
                        IF b \in Elems(children)
                        THEN result[b] \cup PassedOn(node) ELSE result[b]]
  /\ UNCHANGED F

Spec == Init /\ [][Iterate]_vars

\* The loop is sequential code: it goes on as long as it can.
FairSpec == Spec /\ WF_vars(Iterate)
-----------------------------------------------------------------------------
(* Properties.                                                             *)

\* The reference: what reaches b is what enters the function and what the
\* strict dominators of b define, whatever way led there.
ReachingValues(fn, b) ==
  IF b \in Reachable(fn)
  THEN IntegerTyped \cap (fn.globals \cup fn.args
                             \cup UNION {fn.insts[d] : d \in fn.sdom[b]})
  ELSE {}

\* The worklist holds nodes of the tree and the result maps blocks to values.
TypeOK ==
  /\ IsDominatorTree(F)
  /\ worklist \in Seq(F.blocks)
  /\ DOMAIN result = F.blocks

\* Nothing is ever reported that does not dominate the block: a value that
\* need not have been computed when the block begins never appears.
Sound == \A b \in F.blocks : result[b] \subseteq ReachingValues(F, b)

\* When the worklist is empty the analysis is exact, for unreachable blocks
\* (which it never meets) too.
Exact == worklist = <<>> => \A b \in F.blocks : result[b] = ReachingValues(F, b)

\* While the worklist is not empty, whatever is not final yet is below one
\* of its nodes, and those nodes are final.
Frontier ==
  /\ \A a \in Elems(worklist) :
       a \in Reachable(F) /\ result[a] = ReachingValues(F, a)
  /\ \A b \in F.blocks : \/ result[b] = ReachingValues(F, b)
                         \/ F.sdom[b] \cap Elems(worklist) # {}

\* The loop ends: no node of the tree is expanded again and again.
Termination == <>(worklist = <<>>)
=============================================================================
