------------------------------ MODULE Session ------------------------------
(***************************************************************************)
(* A Kaleidoscope session: Driver (parser.cpp) handling one top-level item *)
(* after another, the function-level code generation of ast.cpp, and the   *)
(* hand-over of modules to KaleidoscopeJIT.                                *)
(*                                                                         *)
(* The parser is abstracted to the items it can deliver, and the body of a *)
(* function to the calls its code generation emits, in any order and       *)
(* number, ended either by an exception or by the ret instruction: pc is   *)
(* "body" from FunctionAST::codegen's SetInsertPoint until one of the two. *)
(***************************************************************************)
EXTENDS Integers, FiniteSets

CONSTANTS
  User,        \* function names the user may define
  Host,        \* putchard, printd: absolute symbols the Driver installs
  Process,     \* names the process itself exports (libm, libc)
  Unary,       \* the user names that are unary operators  (unary!)
  Binary,      \* the user names that are binary operators (binary:)
  Anon,        \* __anon_expr, which no source text can spell
  MaxArity,    \* bound on the number of parameters
  MaxCalls,    \* bound on the distinct calls of one body
  Sig,         \* Sig[n]: the arities the session's input declares n with
  Externable   \* the names the session's input declares extern

Named == User \cup Host
Names == Named \cup {Anon}
Arity == 0 .. MaxArity

ASSUME ArityAssumption == MaxArity \in Nat /\ 2 \in Arity /\ MaxCalls \in Nat
ASSUME NameAssumption ==
  /\ Anon \notin Named
  /\ User \cap Host = {}
  /\ Unary \cup Binary \subseteq User
  /\ Unary \cap Binary = {}
  /\ Process \subseteq User
  /\ Externable \subseteq Named

\* parsePrototype refuses an operator whose operand count is not its kind's.
ASSUME SigAssumption ==
  /\ Sig \in [Named -> SUBSET Arity]
  /\ \A n \in Unary  : Sig[n] \subseteq {1}
  /\ \A n \in Binary : Sig[n] \subseteq {2}

VARIABLES
  useJIT,           \* false after --compile
  pc,               \* where mainLoop is
  cur,              \* the function whose body is being generated
  TheModule,        \* the module under construction
  FunctionProtos,   \* the last prototype seen for each name
  binopPrecedence,  \* the operators the parser treats as binary
  parsedWith,       \* binopPrecedence when the current body was parsed
  MainJD,           \* the symbols the JIT holds
  object,           \* the definitions written to output.o
  out,              \* the last message printed
  failed,           \* history: names with a definition whose body failed
  dangling          \* history: a function was erased while a call names it

progVars == <<useJIT, pc, cur, TheModule, FunctionProtos, binopPrecedence,
              parsedWith, MainJD, object, out>>
vars == <<progVars, failed, dangling>>
-----------------------------------------------------------------------------
(* An llvm::Function: not in the module, declared (empty()), or defined,    *)
(* with the calls its body makes as <<callee, number of arguments>>.  In    *)
(* the JIT, an entry is a definition or the bare address of a symbol.       *)
Call == Named \X Arity
Fn   == [kind: {"absent", "declared", "defined", "symbol"}, arity: Arity,
         calls: SUBSET Call]

NoFn == [kind |-> "absent", arity |-> 0, calls |-> {}]
AbsoluteSymbol == [kind |-> "symbol", arity |-> 0, calls |-> {}]
NoProto == -1

Replies == {"none", "error", "def", "extern", "expr", "evaluated",
            "duplicate", "unresolved", "wrote", "noobject"}

\* initializeModuleAndManagers: a module without functions.
FreshModule == [n \in Names |-> NoFn]

\* PrototypeAST::codegen, into a module that has no function of that name.
Declare(m, n, a) ==
  [m EXCEPT ![n] = [kind |-> "declared", arity |-> a, calls |-> {}]]

\* As getFunction, with TheModule->getOrInsertFunction in place of the lookup.
GetOrInsertFunction(m, protos, n) ==
  IF m[n].kind = "absent" THEN Declare(m, n, 1) ELSE m

\* getFunction: the module after it has looked n up, among the prototypes
\* too; it returned nullptr iff n is still absent.
GetFunction(m, protos, n) ==
  IF m[n].kind = "absent" /\ protos[n] # NoProto
  THEN Declare(m, n, protos[n])
  ELSE m

Defined(m) == {n \in Names : m[n].kind = "defined"}

\* A call instruction appended to the body under construction.
EmitCall(m, f, c) == [m EXCEPT ![f].calls = @ \cup {c}]

\* The functions whose code a lookup of __anon_expr links: the least set
\* that contains it and is closed under calls.
Callees(jd, S) == {c[1] : c \in UNION {jd[n].calls : n \in S}}
Linked(jd) ==
  {n \in Names : \A S \in SUBSET Names :
                    Anon \in S /\ Callees(jd, S) \subseteq S => n \in S}
Unresolved(jd) ==
  {n \in Linked(jd) : jd[n].kind = "absent" /\ n \notin Process}

\* The process-wide generator defines what a lookup found outside the JIT.
Generated(jd, used) ==
  [n \in Names |-> IF n \in used \cap Process /\ jd[n].kind = "absent"
                   THEN AbsoluteSymbol ELSE jd[n]]
-----------------------------------------------------------------------------
Init ==
  /\ useJIT \in BOOLEAN
  /\ pc = "loop"
  /\ cur = Anon
  /\ TheModule = FreshModule
  /\ FunctionProtos = [n \in Names |-> NoProto]
  /\ binopPrecedence = {}
  /\ parsedWith = {}
  /\ MainJD = [n \in Names |-> IF useJIT /\ n \in Host THEN AbsoluteSymbol
                                                        ELSE NoFn]
  /\ object = {}
  /\ out = "none"
  /\ failed = {}
  /\ dangling = FALSE

\* A ParserException in any handler: reported, and one token is skipped.
ParserError ==
  /\ pc = "loop"
  /\ out' = "error"
  /\ UNCHANGED <<useJIT, pc, cur, TheModule, FunctionProtos, binopPrecedence,
                 parsedWith, MainJD, object, failed, dangling>>

\* Driver::handleExtern.  When the module has the name already, LLVM renames
\* the new declaration apart (n.1), so that nothing can refer to it.
handleExtern(n, a) ==
  /\ pc = "loop"
  /\ TheModule' = IF TheModule[n].kind = "absent" THEN Declare(TheModule, n, a)
                  ELSE TheModule
  /\ FunctionProtos' = [FunctionProtos EXCEPT ![n] = a]
  /\ out' = "extern"
  /\ UNCHANGED <<useJIT, pc, cur, binopPrecedence, parsedWith, MainJD, object,
                 failed, dangling>>

\* fn->empty(): the function can still be given a body.
EmptyAlways(fn) == TRUE
Empty(fn) == fn.kind # "defined"

\* proto.isBinaryOp(): what the definition adds to the parser's operators.
InstalledAlways(n) == {n}
Installed(n) == {n} \cap Binary

\* FunctionAST::codegen up to the body.  The prototype replaces the previous
\* one before the check for a redefinition, and the operator is installed
\* in the parser before its body is known to compile.
FunctionCodegen(n, a) ==
  LET protos == [FunctionProtos EXCEPT ![n] = a]
      m      == GetFunction(TheModule, protos, n)
  IN /\ pc = "loop"
     /\ FunctionProtos' = protos
     /\ \/ /\ ~Empty(m[n])              \* "Function cannot be redefined"
           /\ out' = "error"
           /\ UNCHANGED <<pc, cur, TheModule, binopPrecedence, parsedWith>>
        \/ /\ Empty(m[n])
           /\ TheModule' = [m EXCEPT ![n].kind = "defined"]
           /\ binopPrecedence' = binopPrecedence \cup Installed(n)
           /\ parsedWith' = binopPrecedence
           /\ pc' = "body"
           /\ cur' = n
           /\ UNCHANGED out
     /\ UNCHANGED <<useJIT, MainJD, object, failed, dangling>>

handleDefinition(n, a) == FunctionCodegen(n, a)

handleTopLevelExpression == FunctionCodegen(Anon, 0)
-----------------------------------------------------------------------------
(* Code generation of the body, one action per kind of call.               *)

\* fn->eraseFromParent().
NotErased(m) == m
Erased(m) == [m EXCEPT ![cur] = NoFn]

\* The handler of a CodegenException in FunctionAST::codegen: the function is
\* erased, its prototype and its operator stay.  Erasing a function that
\* another one calls is undefined: an assertion ends the process, or the
\* call is left without a callee.
FailForgets(m) ==   \* mutant: takes the prototype back too
  /\ TheModule' = Erased(m)
  /\ FunctionProtos' = [FunctionProtos EXCEPT ![cur] = NoProto]
  /\ pc' = "loop"
  /\ cur' = Anon
  /\ out' = "error"
  /\ UNCHANGED <<useJIT, binopPrecedence, parsedWith, MainJD, object, failed,
                 dangling>>
Fail(m) ==
  LET orphans == \E n \in Defined(m) \ {cur}, k \in Arity :
                   <<cur, k>> \in m[n].calls
  IN /\ TheModule' = Erased(m)
     /\ pc' \in {"loop"} \cup (IF orphans THEN {"exit"} ELSE {})
     /\ cur' = Anon
     /\ out' = "error"
     /\ failed' = failed \cup {cur}
     /\ dangling' = (dangling \/ orphans)
     /\ UNCHANGED <<useJIT, FunctionProtos, binopPrecedence, parsedWith,
                    MainJD, object>>

Emit(m, c) ==
  /\ TheModule' = EmitCall(m, cur, c)
  /\ UNCHANGED <<useJIT, pc, cur, FunctionProtos, binopPrecedence, parsedWith,
                 MainJD, object, out, failed, dangling>>

\* The bound on bodies: room for another call, or no new one.
Bounded(c) == Cardinality(TheModule[cur].calls \cup {c}) <= MaxCalls

\* CallExprAST::codegen with k arguments.
CodegenCallUnchecked(n, k) ==   \* mutant: without the arity check
  LET m == GetFunction(TheModule, FunctionProtos, n)
  IN /\ pc = "body"
     /\ n \notin Unary \cup Binary
     /\ m[n].kind # "absent"
     /\ Bounded(<<n, k>>)
     /\ Emit(m, <<n, k>>)
CodegenCall(n, k) ==
  LET m == GetFunction(TheModule, FunctionProtos, n)
  IN /\ pc = "body"
     /\ n \notin Unary \cup Binary
     /\ \/ /\ m[n].kind = "absent" \/ m[n].arity # k
           /\ Fail(m)
        \/ /\ m[n].kind # "absent" /\ m[n].arity = k
           /\ Bounded(<<n, k>>)
           /\ Emit(m, <<n, k>>)

\* UnaryExprAST::codegen: the operator needs a function, no arity check.
CodegenUnary(op) ==
  LET m == GetFunction(TheModule, FunctionProtos, op)
  IN /\ pc = "body"
     /\ \/ m[op].kind = "absent" /\ Fail(m)
        \/ m[op].kind # "absent" /\ Bounded(<<op, 1>>) /\ Emit(m, <<op, 1>>)

\* BinaryExprAST::codegen for an operator the parser knew when it read the
\* body; again no arity check.
CodegenBinary(op) ==
  LET m == GetFunction(TheModule, FunctionProtos, op)
  IN /\ pc = "body"
     /\ op \in parsedWith
     /\ \/ m[op].kind = "absent" /\ Fail(m)
        \/ m[op].kind # "absent" /\ Bounded(<<op, 2>>) /\ Emit(m, <<op, 2>>)

\* An unknown variable, here or in an assignment.
CodegenThrow == pc = "body" /\ Fail(TheModule)
-----------------------------------------------------------------------------
(* The end of a handler whose code generation succeeded.                   *)

\* The module once TheFPM has run: dead calls may be gone, declarations stay.
Optimised == {[TheModule EXCEPT ![cur].calls = kept] :
                kept \in SUBSET TheModule[cur].calls}

\* With --compile everything accumulates in one module.
FinishCompiled ==
  /\ pc = "body" /\ ~useJIT
  /\ TheModule' \in Optimised
  /\ pc' = "loop"
  /\ cur' = Anon
  /\ out' = IF cur = Anon THEN "expr" ELSE "def"
  /\ UNCHANGED <<useJIT, FunctionProtos, binopPrecedence, parsedWith, MainJD,
                 object, failed, dangling>>

\* KaleidoscopeJIT::addModule, whose error ExitOnErr turns into exit(1).
Clash(m) == \E n \in Defined(m) : MainJD[n].kind # "absent"
Added(m) == [n \in Names |-> IF n \in Defined(m) THEN m[n] ELSE MainJD[n]]

AddModuleFails ==
  /\ pc = "body" /\ useJIT
  /\ Clash(TheModule)
  /\ TheModule' = FreshModule
  /\ pc' = "exit"
  /\ cur' = Anon
  /\ out' = "duplicate"
  /\ UNCHANGED <<useJIT, FunctionProtos, binopPrecedence, parsedWith, MainJD,
                 object, failed, dangling>>

FinishDefinitionKeepsModule ==   \* mutant: no new module after addModule
  /\ pc = "body" /\ useJIT /\ cur # Anon
  /\ MainJD' = Added(TheModule)
  /\ pc' = "loop"
  /\ cur' = Anon
  /\ out' = "def"
  /\ UNCHANGED <<useJIT, TheModule, FunctionProtos, binopPrecedence,
                 parsedWith, object, failed, dangling>>
FinishDefinition ==
  /\ pc = "body" /\ useJIT /\ cur # Anon
  /\ ~Clash(TheModule)
  /\ \E m \in Optimised : MainJD' = Added(m)
  /\ TheModule' = FreshModule
  /\ pc' = "loop"
  /\ cur' = Anon
  /\ out' = "def"
  /\ UNCHANGED <<useJIT, FunctionProtos, binopPrecedence, parsedWith, object,
                 failed, dangling>>

\* rt->remove(): the definitions of module m leave the JIT.
NotRemoved(jd, m) == jd
Removed(jd, m) == [n \in Names |-> IF n \in Defined(m) THEN NoFn ELSE jd[n]]

\* addModule under a resource tracker, lookup, the call, remove.
FinishExpression ==
  /\ pc = "body" /\ useJIT /\ cur = Anon
  /\ ~Clash(TheModule)
  /\ TheModule' = FreshModule
  /\ cur' = Anon
  /\ \E m \in Optimised :
       LET jd == Added(m)
       IN \/ /\ Unresolved(jd) = {}
             /\ pc' = "loop"
             /\ out' = "evaluated"
             /\ MainJD' = Removed(Generated(jd, Linked(jd)), m)
          \/ /\ Unresolved(jd) # {}
             /\ pc' = "exit"
             /\ out' = "unresolved"
             /\ MainJD' = jd
  /\ UNCHANGED <<useJIT, FunctionProtos, binopPrecedence, parsedWith, object,
                 failed, dangling>>
-----------------------------------------------------------------------------
\* mainLoop returns at the end of the input.
Eof ==
  /\ pc = "loop"
  /\ pc' = IF useJIT THEN "done" ELSE "emit"
  /\ UNCHANGED <<useJIT, cur, TheModule, FunctionProtos, binopPrecedence,
                 parsedWith, MainJD, object, out, failed, dangling>>

\* The rest of main: output.o gets every definition, or the target, the file
\* or the emitter fails.
EmitObject ==
  /\ pc = "emit"
  /\ \/ object' = Defined(TheModule) /\ out' = "wrote"
     \/ UNCHANGED object /\ out' = "noobject"
  /\ pc' = "done"
  /\ UNCHANGED <<useJIT, cur, TheModule, FunctionProtos, binopPrecedence,
                 parsedWith, MainJD, failed, dangling>>

Next ==
  \/ ParserError
  \/ \E n \in Externable : \E a \in Sig[n] : handleExtern(n, a)
  \/ \E n \in Named : \E a \in Sig[n] : handleDefinition(n, a)
  \/ handleTopLevelExpression
  \/ \E n \in Named, k \in Arity : CodegenCall(n, k)
  \/ \E op \in Unary : CodegenUnary(op)
  \/ \E op \in Binary : CodegenBinary(op)
  \/ CodegenThrow
  \/ FinishCompiled
  \/ AddModuleFails
  \/ FinishDefinition
  \/ FinishExpression
  \/ Eof
  \/ EmitObject

Spec == Init /\ [][Next]_vars
-----------------------------------------------------------------------------
(* Properties.                                                             *)

\* The state has its type: modules and the JIT map every name to a function.
TypeOK ==
  /\ useJIT \in BOOLEAN
  /\ pc \in {"loop", "body", "emit", "done", "exit"}
  /\ cur \in Names
  /\ TheModule \in [Names -> Fn]
  /\ FunctionProtos \in [Names -> Arity \cup {NoProto}]
  /\ binopPrecedence \in SUBSET Binary
  /\ parsedWith \in SUBSET Binary
  /\ MainJD \in [Names -> Fn]
  /\ object \in SUBSET Names
  /\ out \in Replies
  /\ failed \in SUBSET Names
  /\ dangling \in BOOLEAN

\* With the JIT, TheModule holds a body only while that body is generated:
\* every definition left the module before the next item is read, on the
\* error paths too.
BodiesHandedOver ==
  useJIT => \A n \in Names :
    TheModule[n].kind = "defined" <=> pc = "body" /\ n = cur

\* Each expression can be added under the same name __anon_expr: the resource
\* tracker of the previous one took its definition out of the JIT again.
AnonNeverResident == pc # "exit" => MainJD[Anon].kind = "absent"

\* JITed code passes every function the number of arguments it takes, across
\* modules, as long as no name is given prototypes of two arities: a call is
\* checked against a redeclaration, never against the definition itself.
OneArity == \A n \in Named : \A a, b \in Sig[n] : a = b
LinkSafe ==
  OneArity => \A n \in Defined(MainJD) : \A c \in MainJD[n].calls :
    MainJD[c[1]].kind = "defined" => MainJD[c[1]].arity = c[2]

\* What JITed code calls is in the JIT, unless the name was declared extern
\* or a definition of it failed and left its prototype behind; so "Symbols
\* not found" can end a session only through one of these two.
MissingExplained ==
  useJIT => \A n \in Defined(MainJD) : \A c \in MainJD[n].calls :
    MainJD[c[1]].kind = "absent" => c[1] \in Externable \cup failed

\* An operator the parser accepts has a prototype, so that "Binary operator
\* not found" cannot be thrown, whatever became of the operator's body.
ParsedOperatorsHaveProtos ==
  \A op \in parsedWith \cup binopPrecedence : FunctionProtos[op] # NoProto

\* The erasure of a failed function never pulls it from under a caller when
\* the JIT is used, because callers are in other modules by then.
ErasureSafe == useJIT => ~dangling

\* Every call of a body names a function of the same module that takes that
\* many arguments, declarations renewed after a failure included, as long as
\* no function was erased under its callers.
ModuleClosed ==
  ~dangling => \A n \in Defined(TheModule) : \A c \in TheModule[n].calls :
    TheModule[c[1]].kind # "absent" /\ TheModule[c[1]].arity = c[2]

\* The definitions in force and their code: in the JIT, or complete in the
\* only module.
Body(n) == IF useJIT THEN MainJD[n] ELSE TheModule[n]
InForce == {n \in Named : /\ Body(n).kind = "defined"
                          /\ ~useJIT => ~(pc = "body" /\ n = cur)}
Accepted == [n \in InForce |-> Body(n)]
Env == INSTANCE Definitions WITH accepted <- Accepted, reply <- out,
                                 alive <- pc \notin {"exit", "done"}

\* A session implements the write-once environment: whatever fails, accepted
\* definitions stay, neither a redefinition attempt nor a later prototype of
\* another arity alters their code, and "Read function definition" (with the
\* hand-over that follows it) means exactly one more.
Refinement == Env!Spec

(* What messages and comments of the code promise, and the code denies.     *)

\* "Function ... can't be found in the module": a call to a function that has
\* no definition is refused when it is generated (no externs in the input).
UndefinedCallsRefused == Externable = {} => out # "unresolved"

\* "Incorrect # of args passed": a call with the wrong number of arguments
\* is refused, whatever declarations came in between.
ArgumentsChecked ==
  \A n \in Defined(MainJD) : \A c \in MainJD[n].calls :
    MainJD[c[1]].kind = "defined" => MainJD[c[1]].arity = c[2]
=============================================================================
