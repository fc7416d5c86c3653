------------------------------ MODULE MergeBB ------------------------------
(***************************************************************************)
(* The pass MergeBB (MergeBB.cpp): of two blocks that do the same and jump *)
(* to the same successor, one is deleted and its predecessors jump to the  *)
(* other.                                                                  *)
(*                                                                         *)
(* A function fn is a record over its blocks 1 .. fn.size, in layout order *)
(* with the entry first: term[b] is the kind of terminator, targets[b] the *)
(* blocks among its operands, useList[b] the operands that name b, in the  *)
(* order of LLVM's use list, body[b] the instructions before it.  An       *)
(* instruction has an operation op, its operand values vals (the result    *)
(* <<block, position>> of an instruction, or <<0, number>>), the incoming   *)
(* blocks preds if it is a phi, and where its result has its only use:     *)
(* "none", "local", "phi" of the successor, or "elsewhere".                *)
(***************************************************************************)
EXTENDS Integers, FiniteSets, Sequences, SequencesExt, Lists

CONSTANT Functions     \* the functions the pass may be run on

VARIABLES
  fn,           \* the function before the pass
  targets,      \* the blocks each terminator names now
  useList,      \* the uses <<block, operand>> of each block now
  body,         \* the instructions of each block now
  pc,           \* "visit", "walk" in updateBranchTargets, "delete", "done";
                \* "exit" when an assertion of LLVM has failed
  BB,           \* the block the pass visits
  retained,     \* while walking: the block BB's predecessors shall jump to
  at,           \* while walking: the use the predecessor iterator points to
  DeleteList,
  erased,       \* the blocks of DeleteList that were deleted
  dangling,     \* history: blocks deleted while a terminator names them
  shared        \* history: blocks merged away with several user terminators

vars == <<fn, targets, useList, body, pc, BB, retained, at, DeleteList,
          erased, dangling, shared>>

Entry == 1
End == <<0, 0>>

IsPhi(inst) == inst.preds # <<>>
PhisOf(insts) == At(insts, {k \in DOMAIN insts : IsPhi(insts[k])})
NonDbg(insts) == At(insts, {k \in DOMAIN insts : insts[k].op # "dbg"})

\* PHINode::getIncomingValueForBlock, for a block that the phi names.
IncomingValue(phi, b) == phi.vals[Min({k \in DOMAIN phi.preds : phi.preds[k] = b})]

UsesOf(t, b) == UNION {{<<p, i>> : i \in {j \in DOMAIN t[p] : t[p][j] = b}} :
                        p \in DOMAIN t}
-----------------------------------------------------------------------------
(* The functions LLVM hands to the pass.                                   *)

BlocksOf(f) == 1 .. f.size
Terminators == {"br", "cbr", "switch", "invoke", "ret"}
Instructions ==
  [op : STRING, vals : Seq(Nat \X Nat), preds : Seq(Nat),
   use : {"none", "local", "phi", "elsewhere"}]

Typed(f) ==
  /\ f.size \in Nat \ {0}
  /\ f.term \in [BlocksOf(f) -> Terminators]
  /\ f.targets \in [BlocksOf(f) -> Seq(BlocksOf(f))]
  /\ f.useList \in [BlocksOf(f) -> Seq(BlocksOf(f) \X Nat)]
  /\ f.body \in [BlocksOf(f) -> Seq(Instructions)]
  /\ \A b \in BlocksOf(f) : f.term[b] = "br" => Len(f.targets[b]) = 1

\* A block's use list holds every use of it once.
UseListsComplete(t, lists) ==
  \A b \in DOMAIN t : ToSet(lists[b]) = UsesOf(t, b) /\ IsInjective(lists[b])

\* A phi has a value for each predecessor of its block, and only one.
PhisSound(f) ==
  \A b \in BlocksOf(f) : \A inst \in ToSet(f.body[b]) :
    /\ IsPhi(inst) <=> inst.op = "phi"
    /\ IsPhi(inst) =>
         /\ ToSet(inst.preds) = {u[1] : u \in UsesOf(f.targets, b)}
         /\ Len(inst.vals) = Len(inst.preds)
         /\ \A i, j \in DOMAIN inst.preds :
              inst.preds[i] = inst.preds[j] => inst.vals[i] = inst.vals[j]

\* An operand is a number or the result of an instruction; what a debug
\* instruction names is metadata.
OperandsExist(f) ==
  \A b \in BlocksOf(f) : \A inst \in ToSet(f.body[b]) :
    /\ inst.op = "dbg" => inst.vals = <<>>
    /\ \A v \in ToSet(inst.vals) :
         v[1] # 0 => v[1] \in BlocksOf(f) /\ v[2] \in DOMAIN f.body[v[1]]

\* Every use, <<block, position, operand>>, of the result v.
UsersOf(f, v) ==
  UNION {UNION {{<<b, m, j>> : j \in {i \in DOMAIN f.body[b][m].vals :
                                        f.body[b][m].vals[i] = v}} :
                m \in DOMAIN f.body[b]} : b \in BlocksOf(f)}
UseSound(f, c, k) ==
  LET inst  == f.body[c][k]
      users == UsersOf(f, <<c, k>>)
  IN /\ inst.use = "none" \/ inst.op = "dbg" => users = {}
     /\ inst.use \in {"local", "phi"} => \E u \in users : users = {u}
     /\ inst.use = "local" => \A u \in users : u[1] = c
     /\ inst.use = "phi" => \A u \in users :
          LET user == f.body[u[1]][u[2]]
          IN IsPhi(user) /\ u[1] = f.targets[c][1] /\ user.preds[u[3]] = c

ASSUME FunctionsAssumption ==
  \A f \in Functions :
    /\ Typed(f)
    /\ UseListsComplete(f.targets, f.useList)
    /\ PhisSound(f)
    /\ OperandsExist(f)
    /\ \A c \in BlocksOf(f) : \A k \in DOMAIN f.body[c] : UseSound(f, c, k)
-----------------------------------------------------------------------------
(* The tests that make two blocks mergeable.                               *)

Blocks == BlocksOf(fn)
Predecessors(b) == {u[1] : u \in ToSet(useList[b])}
SuccOf(b) == targets[b][1]
Phis(b) == PhisOf(body[b])

\* The only use is in the block itself, or in a phi of its successor now.
canRemoveInst(inst, b) ==
  \/ inst.use = "local"
  \/ inst.use = "phi" /\ SuccOf(b) = fn.targets[b][1]
identicalInstructions(b, inst1, c, inst2) ==
  /\ inst1.op = inst2.op /\ inst1.vals = inst2.vals
  /\ \/ inst1.use = "none" /\ inst2.use = "none"
     \/ canRemoveInst(inst1, b) /\ canRemoveInst(inst2, c)

\* LockstepReverseIterator meets no difference before both blocks end.
SameInstructions(b, c) ==
  \A k \in DOMAIN NonDbg(body[b]) :
    identicalInstructions(b, NonDbg(body[b])[k], c, NonDbg(body[c])[k])

\* Both hand the phi the same value, or each a value of its own.
SameIncoming(b, c, succ) ==
  \A phi \in ToSet(Phis(succ)) :
    LET v == IncomingValue(phi, b)
        w == IncomingValue(phi, c)
    IN v = w \/ (v[1] = b /\ w[1] = c)

\* An unconditional branch, reached by branches and switches only.
Removable(b) ==
  /\ b # Entry
  /\ fn.term[b] = "br"
  /\ \A p \in Predecessors(b) : fn.term[p] \in {"br", "cbr", "switch"}

\* mergeDuplicatedBlock comes to its loop over the predecessors of succ.
Considered(b) == Removable(b) /\ Len(Phis(SuccOf(b))) <= 1

\* The phi of succ, if there is one, has a value for b.
Named(b, succ) == \A phi \in ToSet(Phis(succ)) : b \in ToSet(phi.preds)

\* The loop body gets as far as the phi with BB2.
TestedIfDeleted(b, BB2) ==        \* mutant: without DeleteList.contains
  /\ Removable(BB2) /\ BB2 # b
  /\ Len(NonDbg(body[b])) = Len(NonDbg(body[BB2]))
Tested(b, BB2) ==
  /\ Removable(BB2)
  /\ BB2 \notin DeleteList /\ BB2 # b
  /\ Len(NonDbg(body[b])) = Len(NonDbg(body[BB2]))

\* BB2 is fit to stand for b.
CandidateAnyPhi(b, BB2) ==        \* mutant: without the incoming values
  Tested(b, BB2) /\ SameInstructions(b, BB2)
Candidate(b, BB2) ==
  /\ Tested(b, BB2)
  /\ SameIncoming(b, BB2, SuccOf(b))
  /\ SameInstructions(b, BB2)

\* The places of the successor's use list at which the loop ends: with a
\* candidate, or with a block that the phi does not name.
Stops(b) ==
  LET succ == SuccOf(b)
      pred(k) == useList[succ][k][1]
  IN {k \in DOMAIN useList[succ] :
        IF Named(pred(k), succ) THEN Candidate(b, pred(k)) ELSE Tested(b, pred(k))}
FirstStop(b) == useList[SuccOf(b)][Min(Stops(b))][1]
-----------------------------------------------------------------------------
Init ==
  /\ fn \in Functions
  /\ targets = fn.targets
  /\ useList = fn.useList
  /\ body = fn.body
  /\ pc = "visit"
  /\ BB = Entry
  /\ retained = 0
  /\ at = End
  /\ DeleteList = {}
  /\ erased = {}
  /\ dangling = {}
  /\ shared = {}

\* run's loop over the blocks moves on from BB.
NextBlockPast == IF BB > fn.size THEN BB' = BB /\ pc' = "delete"   \* mutant
                 ELSE BB' = BB + 1 /\ pc' = "visit"
NextBlock == IF BB = fn.size THEN BB' = BB /\ pc' = "delete"
                             ELSE BB' = BB + 1 /\ pc' = "visit"

Keep ==
  /\ pc = "visit"
  /\ Considered(BB) => Named(BB, SuccOf(BB)) /\ Stops(BB) = {}
  /\ NextBlock
  /\ UNCHANGED <<fn, targets, useList, body, retained, at, DeleteList, erased,
                 dangling, shared>>

\* updateBranchTargets(BB, BB2) for the first candidate in predecessor order.
Merge ==
  /\ pc = "visit"
  /\ Considered(BB) /\ Named(BB, SuccOf(BB))
  /\ Stops(BB) # {} /\ Named(FirstStop(BB), SuccOf(BB))
  /\ retained' = FirstStop(BB)
  /\ pc' = "walk"
  /\ at' = IF useList[BB] = <<>> THEN End ELSE useList[BB][1]
  /\ shared' = IF Cardinality(Predecessors(BB)) > 1 THEN shared \cup {BB}
               ELSE shared
  /\ UNCHANGED <<fn, targets, useList, body, BB, DeleteList, erased, dangling>>

\* getIncomingValueForBlock of BB or of a block compared with it, which an
\* earlier merge made a predecessor: "Invalid basic block argument!"
NotNamed ==
  /\ pc = "visit"
  /\ Considered(BB)
  /\ \/ ~Named(BB, SuccOf(BB))
     \/ Stops(BB) # {} /\ ~Named(FirstStop(BB), SuccOf(BB))
  /\ pc' = "exit"
  /\ UNCHANGED <<fn, targets, useList, body, BB, retained, at, DeleteList,
                 erased, dangling, shared>>

\* The use after u in the list of the block that the operand u names.
NextUse(t, lists, u) ==
  LET list == lists[t[u[1]][u[2]]]
      k    == CHOOSE i \in DOMAIN list : list[i] = u
  IN IF k = Len(list) THEN End ELSE list[k + 1]

\* A use list without the uses by p.
Without(list, p) == At(list, {k \in DOMAIN list : list[k][1] # p})

\* setOperand for each operand of p that is BB.  LLVM takes the use out of
\* BB's use list and puts it at the head of the other block's.
UsesBy(p) == At([i \in DOMAIN targets[p] |-> <<p, i>>],
                {i \in DOMAIN targets[p] : targets[p][i] = BB})
RedirectFirst(p) ==     \* mutant: stops at the first such operand
  IF UsesBy(p) = <<>> THEN UNCHANGED <<targets, useList>>
  ELSE LET u == UsesBy(p)[1]
       IN /\ targets' = [targets EXCEPT ![p][u[2]] = retained]
          /\ useList' = [useList EXCEPT ![BB] = RemoveFirst(@, u),
                                        ![retained] = <<u>> \o @]
Redirect(p) ==
  /\ targets' = [targets EXCEPT ![p] =
                   [i \in DOMAIN @ |-> IF @[i] = BB THEN retained ELSE @[i]]]
  /\ useList' = [useList EXCEPT ![BB] = Without(@, p),
                                ![retained] = Reverse(UsesBy(p)) \o @]

\* An iteration of updateBranchTargets.  The iterator stands on a use that is
\* now in the other block's list, and goes on in that list.
UpdateBranchTargetsFromHead ==           \* mutant: starts over each time
  /\ pc = "walk" /\ at # End
  /\ Redirect(at[1])
  /\ at' = useList'[retained][1]
  /\ UNCHANGED <<fn, body, pc, BB, retained, DeleteList, erased, dangling,
                 shared>>
UpdateBranchTargets ==
  /\ pc = "walk" /\ at # End
  /\ Redirect(at[1])
  /\ at' = NextUse(targets', useList', at)
  /\ UNCHANGED <<fn, body, pc, BB, retained, DeleteList, erased, dangling,
                 shared>>

Merged ==
  /\ pc = "walk" /\ at = End
  /\ DeleteList' = DeleteList \cup {BB}
  /\ NextBlock
  /\ UNCHANGED <<fn, targets, useList, body, retained, at, erased, dangling,
                 shared>>

\* hasConstantValue and DeletePHIIfEmpty: the phis that can go with b's value.
\* One with at most one value left must go and one with two values that no
\* other phi can make equal must stay; what comes from phis is left open.
Foldings(b) ==
  LET succ    == SuccOf(b)
      phis    == {k \in DOMAIN body[succ] : IsPhi(body[succ][k])}
      left(k) == {body[succ][k].vals[j] :
                    j \in {i \in DOMAIN body[succ][k].preds :
                             body[succ][k].preds[i] # b}} \ {<<succ, k>>}
      settled(v) == \/ v[1] = 0
                    \/ /\ v[2] \in DOMAIN body[v[1]]
                       /\ body[v[1]][v[2]].op # "phi"
  IN {folded \in SUBSET phis : \A k \in phis :
        /\ Cardinality(left(k)) <= 1 => k \in folded
        /\ k \in folded => Cardinality({v \in left(k) : settled(v)}) <= 1}

\* A phi that is gone; its place is kept, because places name results.
Folded(phi) == [phi EXCEPT !.preds = <<>>, !.vals = <<>>]

\* BasicBlock::removePredecessor in the blocks that b jumps to.
WithoutIncoming(insts, b, folded) ==
  [k \in DOMAIN insts |->
     LET keep == {j \in DOMAIN insts[k].preds : insts[k].preds[j] # b}
     IN IF k \in folded THEN Folded(insts[k])
        ELSE IF IsPhi(insts[k])
        THEN [insts[k] EXCEPT !.preds = At(@, keep), !.vals = At(@, keep)]
        ELSE insts[k]]

\* The blocks once b is gone.
OnlyErased(b, folded) == [body EXCEPT ![b] = <<>>]  \* mutant: eraseFromParent
DeadBlockDeleted(b, folded) ==
  [c \in Blocks |-> IF c = b THEN <<>>
                    ELSE IF c \in ToSet(targets[b])
                    THEN WithoutIncoming(body[c], b, folded) ELSE body[c]]

\* DeleteDeadBlock(b), in any order of the set.  A phi of the successor that
\* does not name b fails the assertion of removeIncomingValue; if a terminator
\* other than its own still names b, an assertion ends the pass or the name
\* dangles.
Delete(b) ==
  LET live == Predecessors(b) \ {b}
  IN /\ pc = "delete"
     /\ b \in DeleteList \ erased
     /\ \E folded \in Foldings(b) : body' = DeadBlockDeleted(b, folded)
     /\ targets' = [targets EXCEPT ![b] = <<>>]
     /\ useList' = [c \in Blocks |-> Without(useList[c], b)]
     /\ erased' = erased \cup {b}
     /\ dangling' = IF live = {} THEN dangling ELSE dangling \cup {b}
     /\ pc' \in (IF Named(b, SuccOf(b)) THEN {"delete"} ELSE {})
                 \cup (IF Named(b, SuccOf(b)) /\ live = {} THEN {} ELSE {"exit"})
     /\ UNCHANGED <<fn, BB, retained, at, DeleteList, shared>>

Return ==
  /\ pc = "delete"
  /\ DeleteList = erased
  /\ pc' = "done"
  /\ UNCHANGED <<fn, targets, useList, body, BB, retained, at, DeleteList,
                 erased, dangling, shared>>

Next == Keep \/ Merge \/ NotNamed \/ UpdateBranchTargets \/ Merged
          \/ (\E b \in DeleteList : Delete(b)) \/ Return

Spec == Init /\ [][Next]_vars

\* The pass is sequential code: it goes on as long as it can.
FairSpec == Spec /\ WF_vars(Next)
-----------------------------------------------------------------------------
(* Properties.                                                             *)

\* Use lists and operands agree at all times.
TypeOK ==
  /\ pc \in {"visit", "walk", "delete", "done", "exit"}
  /\ BB \in Blocks /\ DeleteList \subseteq Blocks /\ erased \subseteq DeleteList
  /\ targets \in [Blocks -> Seq(Blocks)]
  /\ useList \in [Blocks -> Seq(Blocks \X Nat)]
  /\ UseListsComplete(targets, useList)

(* Two blocks of the function before the pass do the same: the same          *)
(* operations on the same values, no result that others use, and jumps to   *)
(* blocks that do the same, whose phis receive the same.  A block that      *)
(* begins with a phi does the same as no other.                             *)
Steps(f, b) == NonDbg(f.body[b])
\* A result of the block itself is known by its place among the steps.
Slot(f, b, v) ==
  IF v[1] = b
  THEN <<"own", Cardinality({k \in 1 .. v[2] : f.body[b][k].op # "dbg"})>>
  ELSE <<"from", v>>
SameSteps(f, b, c) ==
  /\ Len(Steps(f, b)) = Len(Steps(f, c))
  /\ \A k \in DOMAIN Steps(f, b) :
       LET x == Steps(f, b)[k]
           y == Steps(f, c)[k]
       IN /\ ~IsPhi(x) /\ ~IsPhi(y)
          /\ x.op = y.op /\ Len(x.vals) = Len(y.vals)
          /\ \A j \in DOMAIN x.vals :
               Slot(f, b, x.vals[j]) = Slot(f, c, y.vals[j])
          /\ x.use # "elsewhere" /\ y.use # "elsewhere"
SamePhis(f, b, c, s, t) ==
  LET phis  == PhisOf(f.body[s])
      others == PhisOf(f.body[t])
  IN /\ Len(phis) = Len(others)
     /\ \A k \in DOMAIN phis :
          Slot(f, b, IncomingValue(phis[k], b))
            = Slot(f, c, IncomingValue(others[k], c))
\* The pairs of blocks that do the same and go on to a pair in R.
InStep(f, R) ==
  {pair \in BlocksOf(f) \X BlocksOf(f) :
     LET b == pair[1]
         c == pair[2]
     IN \/ b = c
        \/ /\ f.term[b] = "br" /\ f.term[c] = "br"
           /\ SameSteps(f, b, c)
           /\ <<f.targets[b][1], f.targets[c][1]>> \in R
           /\ SamePhis(f, b, c, f.targets[b][1], f.targets[c][1])}
SameFor(f) ==
  LET same[n \in Nat] == IF n = 0 THEN BlocksOf(f) \X BlocksOf(f)
                         ELSE InStep(f, same[n - 1])
  IN same
Equivalent(f) == SameFor(f)[f.size]

\* An edge is redirected only to a block that does what the block did to
\* which it went before the pass.  (Phis say nothing about a predecessor they
\* do not name: edges to blocks with phis are left out.)
EdgesEquivalent ==
  \A b \in Blocks : \A i \in DOMAIN targets[b] :
    LET was == fn.targets[b][i]
    IN targets[b][i] # was /\ PhisOf(fn.body[was]) = <<>> =>
         <<was, targets[b][i]>> \in Equivalent(fn)

\* No predecessor is sent to a block that is already condemned.
NeverToCondemned ==
  [][\A b \in Blocks : \A i \in DOMAIN targets'[b] :
       targets'[b][i] # targets[b][i] => targets'[b][i] \notin DeleteList]_vars

\* A block merged away while one terminator named it is out of use when it
\* is deleted, whatever other merges came in between.
SoleUserFreed == dangling \subseteq shared

\* When the pass has ended, phis and predecessors agree again in every block
\* to which no edge was redirected.
Redirected ==
  UNION {{targets[b][i] : i \in {j \in DOMAIN targets[b] :
                                    targets[b][j] # fn.targets[b][j]}} :
          b \in Blocks}
PhisComplete ==
  pc = "done" =>
    \A b \in Blocks \ (erased \cup Redirected) :
      \A phi \in ToSet(Phis(b)) : ToSet(phi.preds) = Predecessors(b)

\* The pass ends, although the iterator of updateBranchTargets changes lists
\* under way and the list it goes on in grows.
Termination == <>(pc \in {"done", "exit"})

\* "Rewrite block predecessors to jump to the retained block instead of the
\* erased block": nothing jumps to a block that is erased.
PredecessorsRewritten == dangling = {}
=============================================================================
