# TLA+ models and proofs for llvm-passes

This directory specifies the two halves of the repository: the Kaleidoscope
front end (`kaleidoscope/`: lexer, parser, code generation, JIT session, object
emission) and the out-of-tree LLVM passes (`*.cpp` in the root: RIV, MergeBB,
DuplicateBB and others). The modules are checked with TLC on small instances,
and the most important invariants are proved with TLAPS for every value of the
constants.

To check a model: `tlc -config MCSession.cfg MCSession`. To check the proofs of
a module: `tlapm SessionProofs.tla`. `PROJECT.json` lists every run with its
properties, the source lines behind each definition (`map`), the hazards the
properties are for, and for each property a mutated definition that breaks it.

## 1. The system

| Component | State | Operations | Interacts with |
|---|---|---|---|
| Lexer (`lexer.cpp`) | the last character read | `getTok` | called by the parser |
| Parser (`parser.cpp`) | `currentToken_`, `binopPrecedence_` | one parse function per grammar rule | its precedence table is passed to code generation, which adds operators to it |
| Driver (`parser.cpp`) | the JIT or none | `mainLoop`, `handleDefinition`, `handleExtern`, `handleTopLevelExpression` | parses, generates, hands modules to the JIT, recovers from both kinds of exception |
| Code generation (`ast.cpp`) | `TheModule`, `FunctionProtos`, `NamedValues`, `TheFPM` (globals) | `codegen` of each node | reads and writes the globals that outlive a failed item |
| JIT (`KaleidoscopeJIT.h`) | the symbols of `MainJD` | `addModule`, `addSymbols`, `lookup`, resource trackers | links modules by name only |
| Object emission (`main.cpp`) | `output.o` | the end of `main` | `TheModule` with everything in it |
| RIV (`RIV.cpp`) | worklist, result map | `RIV::run` | dominator tree; used by DuplicateBB |
| MergeBB (`MergeBB.cpp`) | `DeleteList`, the function | `mergeDuplicatedBlock`, `updateBranchTargets`, `run` | LLVM's use lists, which it changes while walking them |
| DuplicateBB (`DuplicateBB.cpp`) | `targets`, `valueToPhi`, random choice | `run` | RIV |
| MBAAdd, MBASub | list of instructions to erase | `run` | the analysis cache |
| FindFCmpEq, ConvertFCmpEq | list of comparisons | `run` | each other |
| DynamicCallCounter, InjectFuncCall | globals they add to the module | `run` | the globals that either finds already there |
| OpcodeCounter, StaticCallCounter, HelloWorld | a count per key | `run` | none |

Everything is single-threaded. What is hard is not interleaving but *history*:
global state that an exception leaves half-changed, state that one item or one
iteration leaves for the next, structures that change while they are walked, and
passes that see what an earlier pass left.

- **Session.** A definition changes `FunctionProtos`, the operator table and
  the module *before* its body is known to compile; a `CodegenException` undoes
  only the function itself. With the JIT every definition is a module of its
  own, so that checks made against `TheModule` see little of what was defined.
  Correctness: definitions stay what they are, calls agree with definitions,
  nothing half-made survives a failure.
- **Environment.** `NamedValues` is saved and restored by `var` and `for`, but
  not on the exception path. Correctness: names mean what lexical scoping says.
- **Lexer.** One character is always read ahead, comments restart the search for
  a token. Correctness: the tokens are those that were written, whatever stands
  between them, and no character is lost.
- **Expressions.** The branches of `if`, the loop and nested scopes move the
  builder's insertion point, blocks join the function at different moments, and
  an exception can leave some outside of it. Correctness: the blocks and phis are
  well-formed, no value is used before there is one, and the code computes what
  the language says, in its order.
- **Parser.** The grammar changes as the program defines operators; errors are
  recovered from by skipping one token. Correctness: operators bind as their
  precedences say, nothing is lost, the loop always ends.
- **RIV.** Correctness: the result is what dominance defines, at the end and,
  as a lower bound, at every moment.
- **MergeBB.** Merges in one run build on each other, deletions come at the
  end, and the predecessor iterator walks a use list that the loop body edits.
  Correctness: control goes only to equivalent blocks, no deleted block is
  still named, phis and predecessors agree, the walk ends.
- **DuplicateBB.** The value to test is chosen for all blocks before the first one
  is changed, and blocks are taken in the order of their addresses; the maps that
  clones are remapped with change their keys while they are used. Correctness:
  whichever copy is taken, the function does what it did, and the tests look at
  the values that were chosen.
- **The other passes.** Rewrites chain (the operand of one is the result of
  another), analyses are cached across passes that may report too much as
  preserved, and two instrumentations share one global and may run twice.
  Correctness: results and comparisons are kept, the cache is fresh, what is
  printed is what happened.

## 2. The modules

| Module | Models | Proofs | Runs |
|---|---|---|---|
| `Session` | Driver, `FunctionAST::codegen`, calls, the JIT, object emission | `SessionProofs` | `session*` |
| `Definitions` | abstract: a write-once environment of definitions | | refinement in `session` |
| `Scope` | `NamedValues` through `var`, `for`, function begin, exceptions | `ScopeProofs` | `scope*` |
| `Lexer` | `getTok` | `LexerProofs` | `front_end` |
| `Parser` (extends `Lexer`) | every parse function, prototypes, main loop, error recovery | | `front_end` |
| `Codegen` | `codegen` of every expression, and the execution of the result | | `codegen` |
| `RIV` | `RIV::run` | `DuplicateBBProofs` | `duplicate_bb` |
| `DuplicateBB` (extends `RIV`, `Lists`) | the pass, on the result of the analysis | `DuplicateBBProofs`, `DuplicateBBRunsProofs` | `duplicate_bb` |
| `MergeBB` (extends `Lists`) | the pass, with use lists | `MergeBBProofs` | `merge_bb*` |
| `Lists` | the members of a list at given places, in their order | `ListsProofs` | with the modules that extend it |
| `MBA` | the arithmetic of MBAAdd and MBASub | `OptProofs` | `opt` |
| `Opt` (extends `Lists`) | pipelines of MBAAdd, MBASub, FindFCmpEq, ConvertFCmpEq, OpcodeCounter, StaticCallCounter, DynamicCallCounter, InjectFuncCall | `OptProofs` | `opt` |
| `Values` (extends `Opt`, `MBA`) | what instructions compute, and what it is for code to compute what its source does | `OptProofs` | `opt` |
| `OptRuns` (extends `Values`) | the execution of the module before and after a pipeline | | `opt` |

`MC<Module>` extends a module with the values of its constants.

### Session

`pc = "loop"` is `mainLoop` before an item, `"body"` the code generation of a
body (`cur` is the function), `"emit"` the rest of `main` after `--compile`,
`"exit"` an `exit(1)` or a failed assertion. `handleDefinition`,
`handleExtern` and `handleTopLevelExpression` are the handlers;
`FunctionCodegen` is `FunctionAST::codegen` up to the body, with the order of
its effects: prototype, lookup, redefinition check, operator. A body is
abstracted to the calls it emits, one action per kind (`CodegenCall` with its
arity check, `CodegenUnary` and `CodegenBinary` without one) until it throws
(`CodegenThrow`, or a call that is refused) or ends in one of the
`Finish...` actions. `Fail` is the catch block: the function is erased, the
prototype and the operator stay. `TheFPM` may drop any calls of the body
(`Optimised`). `MainJD` holds definitions with their calls and bare symbols;
`Linked` is what a lookup of `__anon_expr` pulls in; the process-wide generator
resolves the names in `Process`. Erasing a function that another one still
calls is undefined behaviour: both outcomes (the assertion, a call without a
callee) are behaviours of the model. `failed` and `dangling` are history.

`Definitions` states what a user is promised: accepted definitions only ever
grow, their code never changes, and the answer "Read function definition" means
exactly one more. `Session` implements it in both modes (`Refinement`), with
`accepted` mapped to the definitions in `MainJD` and their code, or to the complete
ones of the only module.

### Scope

`frames` is the stack of open `var` and `for` expressions (the recursion of
`codegen`), each with its `oldValues`. A slot is `<<function, number>>`.
`Means` is the reference: a name means the last slot that the innermost open
expression binding it gave to it, or the parameter. `Throw` leaves the environment as it is, as the code does;
only `NamedValues.clear()` in the next `BeginFunction` repairs it.

### Lexer and Parser

`Lexer` is `getTok`: `lastChar_` is the position of the character read ahead,
`source` the text, `input` the tokens delivered. The letters of a keyword and the
digits of a number are one piece of the text; a word of exactly one keyword
piece is the keyword, a longer one an identifier. Since nothing that the parser
does reaches the lexer, the tokens are collected first and then parsed. `Begin` is
the recursive function that `getTok` is through comments. `LexSpec` is the lexer
alone, asked for ever more tokens; `LexerAssumption` says what is used of the classes
of characters (letters, digits and white space are disjoint, "#" is none of them, the
ends of lines are white space).

Each parse function is an operator from the position of its first token to the
position it stops at, with the tree, or a failure (a `ParserException`) at a
position. Sequential runs of "expect this token, parse an expression" are
patterns (`parseAll`). The handlers are the actions; `Skipped` is the token a
handler drops after an exception. Code generation is reduced to what concerns
the parser: the definition of an operator enters the table, unless the name was
defined before, in which case it may also be refused. Identifiers are not told
apart.

### Codegen

`codegen(e, s)` takes the state of the generator through one expression: the
blocks (`blocks`), those that belong to the function (`placed`), the insertion
block (`cur`), `NamedValues` (`named`), the last value (`val`) and whether an
exception was thrown (`ok`). `Ins`, `Create...`, `SetInsertPoint` and `Insert` are
the calls of `IRBuilder` and of the function's block list; `If`, `For`, `Var`,
`Variable`, `Unary`, `Binary`, `Assign` and `Call` are the nodes. The machine then
executes the code block by block (`regs`, `slots`, `calls`). `Eval` is the
reference: what an expression means, with a store, evaluated from left to right,
a loop testing its end after the body and with the value the body saw. `Scoped`
says which bodies have a meaning.

### RIV

`F` is a function with the dominator tree LLVM computes for it
(`IsDominatorTree` is what is assumed of it); `Iterate` is one round of the
worklist loop. `MCRIV` computes the tree of each control flow graph from the
definition of dominance.

### DuplicateBB

`Analyse` is RIV; `Choose` is the first loop of `run` (a reaching value for every
target, at random), `Split` begins a target, in any order of the addresses, with
`SplitBlockAndInsertIfThenElse`; `Clone` is one iteration over the instructions of
the tail, with `thenVMap`, `elseVMap`, `valueToPhi` and `replaceAllUsesWith`, whose
effect on the keys of a `ValueMap` is part of the action (`FollowingKey`); `Finish`
erases the `freeList`.  The functions are those LLVM's verifier accepts
(`CodeSound`): ids are unique, void instructions are no operands, phis come first
and name the predecessors, the terminator is last, and RIV is given what the blocks
define. `DominanceSound` is what dominance adds to that: the entry has no phis, no edge
leads around a dominator, and what a phi takes from a predecessor is computed there or
in a dominator of it. The reference is the source with the intended tests in front
of the targets: `Trace` executes a route through both and compares what every
instruction sees.

### MergeBB

`useList[b]` is LLVM's use list of block `b`, in order: `Redirect` moves a use
to the head of the retained block's list, as `Use::set` does, and `NextUse`
goes on from there, so that the iterator ends in a list it did not begin in.
Parts of a list (the phis of a block, its instructions that are no debug
instructions, the uses by one terminator) are its members `At` the places that
satisfy a test. `FunctionsAssumption` is what the verifier promises of the
function: use lists and operands agree (`UseListsComplete`), phis name the
predecessors (`PhisSound`), an operand is an instruction (`OperandsExist`), and the
one use of a result is where `use` says (`UseSound`). Asking a phi for a block it
does not name, which an earlier merge can bring about, fails an assertion of
LLVM (`NotNamed`, after which `pc` is `"exit"`).
`Merge`, `UpdateBranchTargets` and `Merged` are the steps of one merge, `Delete`
is `DeleteDeadBlock` in any order of the `SmallPtrSet`. It takes the block's values
from the phis of its successor (`WithoutIncoming`; one that does not name the block
fails an assertion here too) and lets LLVM fold the phis that become constant
(`Foldings`): one with a single value left always goes, one with two different values
that are no phis' never, and where a value comes from another phi both are possible.
`Equivalent` is the reference: two blocks of the original function that do the same
operations on the same values (a result of the block itself is known by its place
among the instructions that are no debug instructions, `Slot`) and go on the same way.

### MBA, Opt and OptRuns

`MBA` holds the modular operations and the expressions that replace `+` and `-`.
In `Opt` an action is one pass of a pipeline. `Rewrite` is the loop of MBAAdd and
MBASub with its `replaceAllUsesWith` and its list of erasures: each instruction gives way
to the ones emitted for it (`Expanded`), and every operand to what took its place
(`Replaced`). `convertFCmpEq` works in place on the list of the analysis. What a pass
makes is called after the pass's place in the pipeline and the instruction it is made
for (`New`), so that ids tell instructions apart. `cache` holds the results that
LLVM's analysis manager keeps, and `Invalidated` what is left of them after a pass, by
the `PreservedAnalyses` that the pass returns; MBAAdd returns all, so `silent`
remembers which functions it has changed since. `SetFormat` is
`getOrInsertGlobal("PrintfFormatStr")` and its initializer: two passes give it
different types, and LLVM stops (`broken`). `Call` in `OptRuns` executes the module,
with counters, events and the global destructor.

`Values` holds what each instruction computes (`Compute`), on integers modulo 2^8 and
2^16 and on doubles in units of half an epsilon with NaN and the infinities. It
defines one execution of a function by the values `given` to its arguments and the
values `val` of its instructions: an instruction whose result its operands determine
has that result (`Obeys`), calls and loads may have any. Code `Implements` other code
if each of its executions is one of the other, in which all that is not erased has the
same value, and the same operands but for equality comparisons (`Stands`), and if it
keeps the order and adds no effect but counting and printing (`Keeps`).

## 3. The runs and their bounds

| Run | Instance | Shows |
|---|---|---|
| `session` | two functions, one a library name, `f` with two arities, at most two calls a body, both modes, externs of each | types, hand-over, `ModuleClosed`, `ErasureSafe`, `Refinement` |
| `session_operators` | a function, a unary and a binary operator, of one arity each | `LinkSafe`, `MissingExplained`, `ParsedOperatorsHaveProtos` |
| `scope` | two names, lists of one or two names, depth three, five slots, two functions | `LexicallyScoped`, `NoForeignSlot` |
| `front_end` | every text of at most three characters over eight; every sequence of at most four tokens over twelve, written close together, of at most three also with odd spellings and with comments; prototypes with one token removed or replaced; programs that define an operator with default or given precedence and use it in an expression of nesting two over all constructs, written with odd spellings or with comments | `LexedAsWritten`, `EveryCharacter`; `TypeOK` (no bad precedence enters the table), `OperatorsBind`, `NothingDropped`, `ItemsWhole`, `Termination` |
| `codegen` | every expression of two operations and many of three, over variables that are and are not in scope, loops around them, `fib` and `fibi` of `examples/fib.kaleidoscope`; arguments 0 and 2 (1 to 6 for fib) | `AcceptedExactly`, `Verified`, `ResultRight`, `DetachedEmpty`, `Termination`; the reference is checked against Fibonacci numbers |
| `duplicate_bb` | RIV on every control flow graph of four blocks with at most two successors, the whole pass on every connected one of three, with phis at the joins, void instructions and an optional landing pad | RIV: `Sound`, `Exact`; the pass: `SameBehaviour`, `TestsTheChosenValue`, `WellFormed`; `Termination` |
| `merge_bb` | five blocks: a branch or a switch with repeated targets, duplicates in a row or side by side, a jump back to block 2, invokes, phis in any block, bodies with and without debug instructions and with their only use in a phi, both use list orders; one of six blocks in which an edge of a condemned block is redirected, and one with a phi of a phi | all its properties |
| `opt` | every pipeline of at most three passes over one program: chained additions and subtractions of two widths, all equality comparisons, calls, an `optnone` function; ten inputs with carries, overflow, infinities and NaN | `NoErasedOperand`, `ResultsKept`, `ComparisonsKept`, `CacheFresh`, `InstrumentationRight` |

Why this is enough to be of interest: two functions are what mutual calls,
redeclaration and erasure under a caller need, and two arities what a wrong
arity needs. Two functions in `Scope` let slots of an abandoned one survive, and
three frames allow a name to be shadowed twice. Four characters hold a comment with
its line end and a token behind it, or a number with two points. Four tokens reach every kind of
error inside an expression, and the programs of the grammar supply the long
inputs; they contain every pair of operators with a looser, an equal and a tighter one on
either side. Two expressions inside a third put a branch, a loop or an exception
in every position of every construct, which is where blocks and phis go wrong.
Four blocks include diamonds, loops, and unreachable blocks; three, with any
order of targets, let a value be chosen that has been replaced by a phi, in a block
of a loop too, and `Visits` = 3 goes around such a loop. Three passes hold a change
between two uses of an analysis, and every pair of passes before a third. Five
blocks hold chains of merges, a condemned block as the best candidate of
another, a switch with two edges to one block, and a shared block.
`MaxArity`, `MaxCalls`, `MaxFunctions`, `MaxDepth`, `MaxAllocas`, `Longest`,
`MaxTrips` (rounds of a loop), `MaxBlocks` (blocks executed), `Visits` and
`MaxPasses` are the only bounds; none exists in the code. Functions whose loops do
not end within `MaxTrips` are not run, and none of the others needs `MaxBlocks`
blocks (`Termination` would fail). Runs of finite sessions set
`CHECK_DEADLOCK FALSE`, because the program ends.

**Fairness.** Liveness is stated for RIV with DuplicateBB, for `MergeBB`, for the
lexer and parser loop and for the generated code, under weak fairness of the
next-state action. Each is one thread that only ever
waits for its input, which is complete, and never blocks.

## 4. What is proved

| Theorem | States | Assumes |
|---|---|---|
| `TypeCorrect` | `Session`'s types | the named assumptions of the module |
| `BodiesHandedOverThm` | with the JIT a body is in `TheModule` only while it is generated | same |
| `AnonNeverResidentThm` | the next `__anon_expr` is never a duplicate | same |
| `ErasureSafeThm` | with the JIT no function is erased under a caller | same |
| `LinkSafeThm` | calls in the JIT agree with definitions if each name has one arity | same |
| `ParsedOperatorsHaveProtosThm` | every operator of the parser's table has a prototype | same |
| `ModuleClosedThm` | a call in `TheModule` names a function of `TheModule`, with its arity | same |
| `MissingExplainedThm` | a symbol that is not found was promised by an `extern` or failed to compile | same |
| `UnresolvedExplainedThm` | a session ends for an unresolved symbol only after one of the two | same |
| `RefinementThm` | `Session` implements `Definitions`, step by step | same |
| `NoForeignSlotThm` | no body sees a slot of another function | `ScopeAssumption` |
| `LexicallyScopedThm` | names mean what lexical scoping says | same, and lists of distinct names |
| `LocalVariablesLocalThm` | no name means a variable whose expression is closed | same, and lists of distinct names |
| `SoundThm` | RIV is sound at every step | `IsDominatorTree` of the functions analysed |
| `ExactThm` | RIV's final result is exact | same |
| `ExactInPassThm` | so is the result that DuplicateBB draws from | same |
| `WellFormedThm` | DuplicateBB leaves no operand without its instruction, and phis name the predecessors, at every step | same, and `CodeAssumption` |
| `SameBehaviourThm` | along every route, whichever copy a test takes, what DuplicateBB leaves executes the source's instructions on the values the source computes | same, and `DominanceAssumption` |
| `TestsTheChosenValueThm` | the test in front of a target sees the value that was drawn for it | same |
| `UseListsThm` | MergeBB's use lists and operands agree at every step | `FunctionsAssumption` |
| `NeverToCondemnedThm` | no step sends an edge to a condemned block | same |
| `SoleUserFreedThm` | a block with one user terminator is out of use when it is deleted | same |
| `PhisCompleteThm` | at the end phis and predecessors agree where no edge was redirected to | same |
| `EdgesEquivalentThm` | an edge is redirected only to a block that does the same | same |
| `NoErasedOperandThm` | after any pipeline every operand is an instruction above its use | `SourceAssumption` |
| `CacheFreshThm` | cached analyses are what would be computed now, but for opcode counts after MBAAdd | same |
| `ValuesKeptThm` | after any pipeline the code of every function implements its source | same |
| `AddExact` | what MBAAdd puts in place of an `i8` addition is the sum modulo 2^8 | nothing |
| `SubExact` | what MBASub puts in place of a subtraction is the difference | a modulus |
| `ConvertExact` | what ConvertFCmpEq makes of an equality comparison decides as it did for doubles that are equal or epsilon apart, but for `oeq` and `une` of equal infinities, and negations stay negations for all | nothing |
| `EveryCharacterThm` | the lexer passes over white space and comments only | `LexerAssumption` |

Every assumption is evaluated by TLC on the instances of the runs, which satisfy it.
The arguments:

- **`HandOverInv`** (`TypeOK`, `BodiesHandedOver`, `AnonNeverResident`,
  `ErasureSafe`). The last does not stand alone: that a failure orphans no caller
  follows because no other body is in the module, which is `BodiesHandedOver`;
  and `AnonNeverResident` needs it to know that what is removed with the tracker
  is the expression just added.
- **`ArityInv`**: every prototype, declaration, definition and call carries an
  arity the input declared for its name. It is stated without `OneArity`, is
  inductive over all failures and lookups, and gives `LinkSafe` when `Sig[n]` has
  at most one element.
- **`ProtosInv`**: a prototype is replaced and never taken back, so that an operator
  that was installed before its body failed keeps one.
- **`ClosedInv`**: a call is emitted against an entry that `getFunction` has just
  found or made in the module; only an erasure can take that entry away, and an
  erasure under a caller is recorded in `dangling`, which `ModuleClosed` excepts.
- **`KnownInv`** and **`UnresolvedInv`**: every name that a prototype, an entry of
  `TheModule` or a call of a body mentions is `Known`: the input may declare it
  extern, a definition of it failed, the JIT holds it, or it is the function being
  generated. Known names stay known through failures and the hand-over, because
  only `__anon_expr` ever leaves the JIT; a symbol that is not found is then one of the
  first two. `UnresolvedInv` adds that only what a resident body calls is looked up.
- **`SimInv`** (`HandOverInv` and that `cur` is defined while a body is generated)
  is what the step simulation of `Definitions` needs: an item's answer and the
  mapped state change in the same step, and every other step is a stutter.
- **`SlotInv`**: not only the environment but also everything saved in an open
  frame belongs to the current function; otherwise `Close` could bring back an
  old slot.
- **`LexInv`** of `ScopeProofs`: the environment is right, and what each open frame saved for its
  names is what they mean below it. With that, `Restored` gives every name its
  meaning one level down; two equal names in a list break exactly this.
- **`RIVInv`** (`TypeOK`, `Sound`, `Frontier`): nodes on the worklist are final,
  and a block that is not final has a strict dominator on the worklist. With an
  empty worklist the second half is `Exact`. `ChildValues` (what reaches a child
  is what reaches its parent and what the parent defines) is the only fact about
  dominance it needs.
- **`DupInv`** (`RIVInv`, `Structure`, `Flow`, `Uses`). `WellFormed` is not inductive.
  To clone, the pass must know that the maps lead to clones that are there and
  that a void clone stands only for a void value (`ClonesMapped`); to erase the
  `freeList`, that void instructions are nobody's operands, clones included
  (`Operable`); to begin the next target, that the value drawn for it long ago is
  still there or has a phi in `valueToPhi` (`Covered`, and `Coming`, which RIV's `Sound`
  establishes), and that a block not yet taken still is the source's (`Whole`);
  to give a phi its two sources, that only the two copies go on to the tail
  (`Copies`).
- **`Mirror`**, with `DupInv`: each block seen from the source. A block not taken yet is
  whole; of one that was taken, the head tests the drawn value, the two copies hold its
  instructions with their operands mapped, and the tail holds a phi for each result
  (what is still to be cloned included, while the pass is inside of a block). Executions
  are then followed instruction by instruction, and route by route from block to block,
  by induction over the set of numbers up to which both agree (`NatSet`): the folds
  `Execute` and `EnterBlock` are fixed operators, so that a recursive function with
  their values can be used instead. That a value a phi or a test looks up has been
  computed before rests on `DominanceSound`. For `TestsTheChosenValueThm` the drawn value may be
  in a block that was duplicated in between; `Mirror` then knows the phi that stands
  for it.
- **`MergeInv`**: use lists and operands agree (`Known`, with `TypeOK`); blocks are
  condemned in their order, so that the one visited is not condemned yet (`Ahead`),
  nor is the one retained in its place (`RetainedFit`); and a block that only one
  terminator named has lost that use once it is condemned (`SoleUser`, `OutOfUse`).
  `Redirect` is first shown to keep the agreement of lists and operands
  (`RedirectUses`).
- **`PhiInv`**: only operands that named a condemned block have changed
  (`LeftCondemned`), an erased block has no operands left (`ErasedStill`), and the
  phis of the others name the original predecessors but the erased ones
  (`PhisOfStaying`). Where no edge was redirected to, these are the predecessors.
- **`EdgeInv`**: no body changes before the deletions, and every edge goes to a block
  that `SameFor` relates to the one it went to before, in every round. `SameFor(f)` is
  shown to be what its recursive definition says, and an equivalence in each round, by
  induction over a set of numbers (`NatInd`). That a candidate is equivalent rests
  on `Matched` places: instructions of two candidates at the same place have equal
  operands, and a result that one of them may own has its only use there or in the
  phi both share, so that the two cannot be confused (`OwnUsedOnce`).
- **`CodeInv`**: the ids of a function's instructions tell them apart and are stamped
  with earlier places in the pipeline (`Stamped`), so that what the running pass makes is
  new (`NewIds`); and operands are above their uses. `Emits` says what the list given in
  an instruction's place owes: it defines what the instruction defined, or what its
  uses are changed to, and uses only what it has defined itself or what the
  instruction used. `ExpandedCode` concludes for the whole function: every
  instruction of the result is in the list of one of the original (`Laid`). The
  two instrumentations only add in front (`EntrySound`) or at the end (`AppendSound`).
- **`CacheInv`**: a function that a pass leaves out of what it invalidates has the code it
  had (`ExpandedSame`). MBAAdd invalidates nothing; what it emits holds no
  comparison and keeps those it meets in their order (`EqualitiesStay`), and the calls
  before and after it correspond one to one (`CallsStay`), so that two of the three
  analyses stay fresh. Of the third, the opcode counts, exactly this is not true, which is why
  `silent` is in the statement.
- **`AddExact`**: a byte is its bits, and bit by bit `x + y = (x xor y) + 2 (x and y)`
  (`XorAnd`); `39 * 151` is 1 and `151 * 23 + 111` is 0 modulo 256, so that the two
  linear maps cancel (`MapsCancel`). `SubExact` needs only that `~b` is `m - 1 - b`.
- **`ValuesInv`** (`ValuesKept`, and that no definition disappears). To implement is
  reflexive and transitive (`SameImplements`, `ImplementsFurther`), so that one pass at a
  time is enough. For MBAAdd and MBASub the execution of the source gives an erased
  instruction the value of its replacement (`RewriteImplements`, on `AddValue` and
  `SubValue`, which compute through the emitted list and end in `AddExact` and `SubExact`); for
  ConvertFCmpEq the execution stays as it is (`ConvertValue`, on `ConvertExact`); the two
  instrumentations only add in front (`EntryImplements`). That the order is kept follows
  from where the lists lie (`ExpandedKeeps`). `opt` shows on one program, with calls
  between functions and the counters in memory, what the theorem says of the values
  inside of any function.
- **`LexInv`** of `LexerProofs` (`EveryCharacter`, and that the character read ahead is one
  of the text or its end). `BeginCovers`: from any position to the place that `Begin` finds
  there are only white space and comments, by induction on the distance to the end of
  the text; that `Begin` is a function at all needs that each comment ends further on
  (`SomeOnward`).

`ListsProofs` holds what the proofs about lists need: the members `At` some places are
those members, in their order; what the lists in a list hold when they are put one
after the other (`Flattened`, `FlattenedSingles`, and `NthAlong` for a part of each);
and a nonempty set of numbers has a least one.

**Only model-checked:** all liveness (`Termination` of RIV with DuplicateBB, of `MergeBB`, of
the front end and of the generated code), which is out of the proof system's reach;
`LexedAsWritten`, which speaks of how the run's texts were written; and everything about
`Parser`, `Codegen` and `OptRuns` (`ResultsKept`, `ComparisonsKept`,
`InstrumentationRight`), which use RECURSIVE operators that the prover does not
support. Those of `Parser` and `Codegen` follow the mutual recursion of the source.

## 5. Where the code departs from its text

Each of these is a run that TLC ends with a counterexample; `PROJECT.json` quotes the text.

- `session_ghost`: a definition whose body fails leaves its prototype; a later
  call compiles and the JIT ends the process ("Symbols not found"), where an
  undefined function is promised to be an error of the item.
- `session_arity`: an `extern` of another arity, read after the definition of a
  function, replaces its prototype, and calls that the definition cannot take are then
  accepted. The run is restricted to sessions in which nothing fails and functions are
  defined before they are declared again (`DefinedFirst`).
- `scope_repeated`: in `var a, a in ...` the second `a` saves the first one as the old
  value, so `a` is still visible after the expression.
- `merge_bb_preds`: when several terminators name the deleted block, only some
  of them are rewritten, because the iterator has moved to another list.

Other behaviour that the models contain, or that was met while writing them:

- With the JIT a second definition of a function ends the process (a duplicate
  symbol, behind `ExitOnErr`) before "Function cannot be redefined" can be said;
  `AddModuleFails` is that step.
- The check "Destination of '=' must be a variable" (`ast.cpp:124`) follows a
  `static_cast` and never fires. What an assignment to anything else does is
  undefined; `Codegen` only assigns to variables.
- A definition that follows an `extern` of another arity in the same module is generated
  into that declaration and takes its parameters, while later modules check calls against
  the definition's prototype (`FunctionCodegen`).
- Looking up the precedence of an unknown character enters a 0 into the parser's table
  (`parser.cpp:172`). An entry of 0 is as good as none, and the model leaves it out.
- Built-in operators are recognised by their character before any definition
  (`Builtin`): `def binary =` in `examples/mandel.kaleidoscope` is never called.
- A loop runs its body at least once, so that `fibi(1)` and `fibi(2)` are not `fib(1)`
  and `fib(2)`: they are compared from 3 on (`FibonacciAssumption`).
- A merge can make a block the predecessor of a successor whose phi does not name
  it; when the pass later compares that block, `getIncomingValueForBlock` fails
  its assertion "Invalid basic block argument!" (`NotNamed`), and when it deletes that
  block, `removeIncomingValue` does (`Delete`).
- `dynamic-call-counter` and `injectfunccall` cannot be combined (`broken`).
- `oeq` of two equal infinities becomes false under ConvertFCmpEq, and `une` true: their
  difference is NaN (`ComparisonsKept` excepts this case).
- After MBAAdd a cached opcode count is stale (`CacheFresh` excepts this case, and only it).

## 6. Limits

- In `Session` the message of a definition and the hand-over of its module are one step;
  where the hand-over fails, "Read function definition" has been printed before it, and
  the model keeps the last message only.
- `EdgesEquivalent` does not speak of edges to blocks that begin with phis, and
  `PhisComplete` not of blocks that gained predecessors: MergeBB can merge two
  blocks with phis and does not extend the phis of the one it keeps. No text of
  the repository says it should.
- `LexicallyScoped` holds for lists of distinct names (`scope_repeated` is the rest).
- `MissingExplained` names the two reasons for a missing symbol; it does not
  exclude them.
- A body in `Session` is its calls; its values and blocks are in `Codegen`, for one
  function at a time.
- `Codegen` computes with integers, so that NaN, rounding and unordered comparisons do
  not occur (and `!=` is not told from `one`); `IRBuilder`'s folding of constants
  and `TheFPM` are left out; the functions a body calls are given by their results.
- `Opt`'s functions are straight-line code, its comparisons are of doubles, and RIV,
  whose cached result could name additions that MBAAdd has erased, is not among its
  analyses. Printing is the event of a call.
- `DuplicateBB` does not interpret instructions: each execution yields a value that its
  place, visit and operands determine.
- Precedences in `Parser` are whole numbers; the code truncates a fraction.
- The model of RIV updates a node's children in one step, so that it does not tell the
  copy at `RIV.cpp:43` from a reference.
- In `Lexer` characters stand for their classes, and a keyword is one piece.
- In `Session` one `Process` name stands for the libraries, and what is
  linked stays resolved.

## 7. Not modelled, and the plan

In order of what is next:

1. `Parser` composed with `Session`, so that the items of a session are what was
   parsed; `Codegen` for several functions that call each other.
2. The analyses RIV and dominators in the cache of `Opt`.

HelloWorld prints and has no behaviour a test would not reach. What `TheFPM`'s
passes do, target selection, the object emitter and the rest of LLVM are
external. Plugin registration, build files, scripts and example inputs have no
state.
