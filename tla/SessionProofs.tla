--------------------------- MODULE SessionProofs ---------------------------
(***************************************************************************)
(* Theorems about Session, for any names, arities and bounds.              *)
(***************************************************************************)
EXTENDS Session, TLAPS

Module == [Names -> Fn]
Protos == [Names -> Arity \cup {NoProto}]

(* Looking a function up keeps the type of the module; only the entry of    *)
(* the name looked up can change, and only from absent to declared with the *)
(* arity of its prototype.                                                  *)
LEMMA GetFunctionLemma ==
  ASSUME NEW m \in Module, NEW protos \in Protos, NEW n \in Names
  PROVE  LET r == GetFunction(m, protos, n)
         IN /\ r \in Module
            /\ \A x \in Names \ {n} : r[x] = m[x]
            /\ m[n].kind # "absent" => r = m
            /\ m[n].kind = "absent" /\ protos[n] = NoProto => r = m
            /\ m[n].kind = "absent" /\ protos[n] # NoProto =>
                 r[n] = [kind |-> "declared", arity |-> protos[n], calls |-> {}]
<1>1. m[n].kind = "absent" /\ protos[n] # NoProto =>
        [kind |-> "declared", arity |-> protos[n], calls |-> {}] \in Fn
  BY DEF Fn, Protos
<1> QED
  BY <1>1 DEF GetFunction, Declare, Module

(* A call added to a body keeps the type of the module.                     *)
LEMMA EmitCallLemma ==
  ASSUME NEW m \in Module, NEW f \in Names, NEW c \in Call
  PROVE  /\ EmitCall(m, f, c) \in Module
         /\ \A x \in Names \ {f} : EmitCall(m, f, c)[x] = m[x]
         /\ EmitCall(m, f, c)[f] = [m[f] EXCEPT !.calls = @ \cup {c}]
BY DEF EmitCall, Module, Fn

(* Optimisation only drops calls of the current body.                       *)
LEMMA OptimisedLemma ==
  ASSUME TypeOK, NEW m \in Optimised
  PROVE  /\ m \in Module
         /\ \A x \in Names : /\ m[x].kind = TheModule[x].kind
                             /\ m[x].arity = TheModule[x].arity
                             /\ m[x].calls \subseteq TheModule[x].calls
         /\ Defined(m) = Defined(TheModule)
<1>1. PICK kept \in SUBSET TheModule[cur].calls :
        m = [TheModule EXCEPT ![cur].calls = kept]
  BY DEF Optimised
<1>2. TheModule[cur] \in Fn
  BY DEF TypeOK
<1>3. [TheModule[cur] EXCEPT !.calls = kept] \in Fn
  BY <1>2 DEF Fn
<1>4. m = [TheModule EXCEPT ![cur] = [TheModule[cur] EXCEPT !.calls = kept]]
  BY <1>1
<1>5. m \in Module
  BY <1>3, <1>4 DEF TypeOK, Module
<1>6. \A x \in Names : /\ m[x].kind = TheModule[x].kind
                       /\ m[x].arity = TheModule[x].arity
                       /\ m[x].calls \subseteq TheModule[x].calls
  BY <1>2, <1>4 DEF TypeOK, Fn
<1> QED
  BY <1>5, <1>6 DEF Defined

LEMMA FreshModuleLemma ==
  /\ NoFn \in Fn
  /\ AbsoluteSymbol \in Fn
  /\ FreshModule \in Module
BY ArityAssumption DEF NoFn, AbsoluteSymbol, Fn, FreshModule, Module, Arity

(* What the JIT holds keeps its type when modules come and go.              *)
LEMMA JITLemma ==
  ASSUME NEW jd \in Module, NEW m \in Module, NEW used, MainJD \in Module
  PROVE  /\ Added(m) \in Module
         /\ Generated(jd, used) \in Module
         /\ Removed(jd, m) \in Module
BY FreshModuleLemma DEF Added, Generated, Removed, Module

(* Failing keeps the type.                                                  *)
LEMMA FailType ==
  ASSUME TypeOK, pc = "body", NEW m \in Module, Fail(m)
  PROVE  TypeOK'
BY FreshModuleLemma DEF TypeOK, Fail, Erased, Names, Replies, Module

LEMMA EmitType ==
  ASSUME TypeOK, NEW m \in Module, NEW c \in Call, Emit(m, c)
  PROVE  TypeOK'
BY EmitCallLemma DEF TypeOK, Emit, Module

(* FunctionAST::codegen up to the body keeps the type.                      *)
LEMMA FunctionCodegenType ==
  ASSUME TypeOK, NEW n \in Names, NEW a \in Arity, FunctionCodegen(n, a)
  PROVE  TypeOK'
<1> DEFINE protos == [FunctionProtos EXCEPT ![n] = a]
           m == GetFunction(TheModule, protos, n)
<1>1. protos \in Protos /\ FunctionProtos' = protos
  BY DEF TypeOK, Protos, FunctionCodegen
<1>2. m \in Module
  BY <1>1, GetFunctionLemma DEF TypeOK, Module
<1>3. [m EXCEPT ![n].kind = "defined"] \in Module
  BY <1>2 DEF Module, Fn
<1>4. CASE ~Empty(m[n])
  BY <1>1, <1>4 DEF FunctionCodegen, TypeOK, Replies, Protos
<1>5. CASE Empty(m[n])
  BY <1>1, <1>3, <1>5 DEF FunctionCodegen, TypeOK, Installed, Module, Protos
<1> QED
  BY <1>4, <1>5

(* The three ways a call is generated, with the failures among them.        *)
LEMMA CodegenCallType ==
  ASSUME TypeOK, NEW n \in Named, NEW k \in Arity, CodegenCall(n, k)
  PROVE  TypeOK'
<1>1. GetFunction(TheModule, FunctionProtos, n) \in Module
  BY GetFunctionLemma DEF TypeOK, Module, Protos, Names
<1>2. <<n, k>> \in Call
  BY DEF Call
<1> QED
  BY <1>1, <1>2, FailType, EmitType DEF CodegenCall

LEMMA CodegenUnaryType ==
  ASSUME TypeOK, NEW op \in Unary, CodegenUnary(op)
  PROVE  TypeOK'
<1>1. op \in Names /\ <<op, 1>> \in Call
  BY NameAssumption, ArityAssumption DEF Call, Names, Named, Arity
<1>2. GetFunction(TheModule, FunctionProtos, op) \in Module
  BY <1>1, GetFunctionLemma DEF TypeOK, Module, Protos
<1> QED
  BY <1>1, <1>2, FailType, EmitType DEF CodegenUnary

LEMMA CodegenBinaryType ==
  ASSUME TypeOK, NEW op \in Binary, CodegenBinary(op)
  PROVE  TypeOK'
<1>1. op \in Names /\ <<op, 2>> \in Call
  BY NameAssumption, ArityAssumption DEF Call, Names, Named, Arity
<1>2. GetFunction(TheModule, FunctionProtos, op) \in Module
  BY <1>1, GetFunctionLemma DEF TypeOK, Module, Protos
<1> QED
  BY <1>1, <1>2, FailType, EmitType DEF CodegenBinary

(* Type correctness of the whole session.                                   *)
LEMMA InitType == Init => TypeOK
BY FreshModuleLemma, NameAssumption
   DEF Init, TypeOK, Names, Replies, Module

LEMMA NextType == TypeOK /\ [Next]_vars => TypeOK'
<1> SUFFICES ASSUME TypeOK, [Next]_vars PROVE TypeOK'
  OBVIOUS
<1>1. CASE ParserError
  BY <1>1 DEF ParserError, TypeOK, Replies
<1>2. ASSUME NEW n \in Externable, NEW a \in Sig[n], handleExtern(n, a)
      PROVE  TypeOK'
  <2>1. n \in Named /\ a \in Arity
    BY NameAssumption, SigAssumption
  <2>2. [kind |-> "declared", arity |-> a, calls |-> {}] \in Fn
    BY <2>1 DEF Fn
  <2>3. TheModule' \in [Names -> Fn]
    BY <1>2, <2>1, <2>2 DEF handleExtern, Declare, TypeOK
  <2> QED
    BY <1>2, <2>1, <2>3 DEF handleExtern, TypeOK, Names, Replies
<1>3. ASSUME NEW n \in Named, NEW a \in Sig[n], handleDefinition(n, a)
      PROVE  TypeOK'
  BY <1>3, FunctionCodegenType, SigAssumption DEF handleDefinition, Names
<1>4. CASE handleTopLevelExpression
  BY <1>4, FunctionCodegenType, ArityAssumption
     DEF handleTopLevelExpression, Names, Arity
<1>5. ASSUME NEW n \in Named, NEW k \in Arity, CodegenCall(n, k)
      PROVE  TypeOK'
  BY <1>5, CodegenCallType
<1>6. ASSUME NEW op \in Unary, CodegenUnary(op) PROVE TypeOK'
  BY <1>6, CodegenUnaryType
<1>7. ASSUME NEW op \in Binary, CodegenBinary(op) PROVE TypeOK'
  BY <1>7, CodegenBinaryType
<1>8. CASE CodegenThrow
  BY <1>8, FailType DEF CodegenThrow, TypeOK, Module
<1>9. CASE FinishCompiled
  <2>1. TheModule' \in [Names -> Fn]
    BY <1>9, OptimisedLemma DEF FinishCompiled, Module
  <2> QED
    BY <1>9, <2>1 DEF FinishCompiled, TypeOK, Names, Replies
<1>10. CASE AddModuleFails
  BY <1>10, FreshModuleLemma DEF AddModuleFails, TypeOK, Names, Replies, Module
<1>11. CASE FinishDefinition
  <2>1. MainJD' \in [Names -> Fn]
    BY <1>11, OptimisedLemma, JITLemma DEF FinishDefinition, TypeOK, Module
  <2> QED
    BY <1>11, <2>1, FreshModuleLemma
       DEF FinishDefinition, TypeOK, Names, Replies, Module
<1>12. CASE FinishExpression
  <2>1. PICK m \in Optimised :
          \/ /\ pc' = "loop" /\ out' = "evaluated"
             /\ MainJD' = Removed(Generated(Added(m), Linked(Added(m))), m)
          \/ /\ pc' = "exit" /\ out' = "unresolved"
             /\ MainJD' = Added(m)
    BY <1>12, Zenon DEF FinishExpression
  <2>2. m \in Module /\ MainJD \in Module
    BY OptimisedLemma DEF TypeOK, Module
  <2>3. Added(m) \in Module
    BY <2>2, JITLemma
  <2>4. Generated(Added(m), Linked(Added(m))) \in Module
    BY <2>2, <2>3, JITLemma
  <2>5. MainJD' \in Module
    BY <2>1, <2>2, <2>3, <2>4, JITLemma
  <2> QED
    BY <1>12, <2>1, <2>5, FreshModuleLemma
       DEF FinishExpression, TypeOK, Names, Module, Replies
<1>13. CASE Eof
  BY <1>13 DEF Eof, TypeOK
<1>14. CASE EmitObject
  BY <1>14 DEF EmitObject, TypeOK, Replies, Defined
<1>15. CASE UNCHANGED vars
  BY <1>15 DEF vars, progVars, TypeOK
<1> QED
  BY <1>1, <1>2, <1>3, <1>4, <1>5, <1>6, <1>7, <1>8, <1>9, <1>10, <1>11,
     <1>12, <1>13, <1>14, <1>15 DEF Next

(* Every reachable state of a session has its type: the modules and the JIT *)
(* stay maps from names to functions, the operator table holds operators.   *)
THEOREM TypeCorrect == Spec => []TypeOK
BY InitType, NextType, PTL DEF Spec
-----------------------------------------------------------------------------
(***************************************************************************)
(* One module per definition.  The three properties are inductive together *)
(* with the types: a failure cannot orphan a caller because no other body  *)
(* is in the module, and __anon_expr leaves the JIT because it is the body *)
(* that was handed over.                                                   *)
(***************************************************************************)
HandOverInv == TypeOK /\ BodiesHandedOver /\ AnonNeverResident /\ ErasureSafe

(* Neither a lookup nor a call instruction changes what is defined.         *)
LEMMA DefinedUnchanged ==
  ASSUME NEW m \in Module, NEW protos \in Protos, NEW n \in Names,
         NEW f \in Names, NEW c \in Call
  PROVE  /\ Defined(GetFunction(m, protos, n)) = Defined(m)
         /\ Defined(EmitCall(m, f, c)) = Defined(m)
<1>1. \A x \in Names : GetFunction(m, protos, n)[x].kind = "defined"
                         <=> m[x].kind = "defined"
  BY DEF GetFunction, Declare, Module
<1>2. \A x \in Names : EmitCall(m, f, c)[x].kind = m[x].kind
  <2>1. m[f] \in Fn
    BY DEF Module
  <2>2. [m[f] EXCEPT !.calls = @ \cup {c}].kind = m[f].kind
    BY <2>1 DEF Fn
  <2>3. EmitCall(m, f, c)[f].kind = m[f].kind
    BY <2>2 DEF EmitCall, Module
  <2>4. \A x \in Names \ {f} : EmitCall(m, f, c)[x].kind = m[x].kind
    BY DEF EmitCall, Module
  <2> QED
    BY <2>3, <2>4
<1> QED
  BY <1>1, <1>2 DEF Defined

(* BodiesHandedOver as a statement about the set of defined functions.      *)
LEMMA HandedOverSet ==
  ASSUME TypeOK
  PROVE  BodiesHandedOver <=>
           (useJIT => Defined(TheModule) = IF pc = "body" THEN {cur} ELSE {})
BY DEF BodiesHandedOver, Defined, TypeOK

LEMMA FailHandOver ==
  ASSUME HandOverInv, pc = "body", NEW m \in Module,
         Defined(m) = Defined(TheModule), Fail(m)
  PROVE  HandOverInv'
<1>1. TypeOK'
  BY FailType DEF HandOverInv
<1>2. useJIT => Defined(m) = {cur}
  BY HandedOverSet DEF HandOverInv
<1>3. BodiesHandedOver'
  BY <1>2 DEF HandOverInv, TypeOK, Fail, Erased, BodiesHandedOver, Defined,
              Module, NoFn
<1>4. AnonNeverResident'
  BY DEF HandOverInv, AnonNeverResident, Fail
<1>5. ErasureSafe'
  BY <1>2 DEF HandOverInv, ErasureSafe, Fail
<1> QED
  BY <1>1, <1>3, <1>4, <1>5 DEF HandOverInv

LEMMA EmitHandOver ==
  ASSUME HandOverInv, pc = "body", NEW m \in Module, NEW c \in Call,
         Defined(m) = Defined(TheModule), Emit(m, c)
  PROVE  HandOverInv'
<1>1. TypeOK'
  BY EmitType DEF HandOverInv
<1>2. TheModule \in Module /\ FunctionProtos \in Protos /\ cur \in Names
  BY DEF HandOverInv, TypeOK, Module, Protos
<1>3. Defined(EmitCall(m, cur, c)) = Defined(m)
  BY <1>2, DefinedUnchanged
<1>4. Defined(TheModule)' = Defined(TheModule)
  BY <1>3 DEF Emit, Defined
<1>5. BodiesHandedOver'
  BY <1>1, <1>4, HandedOverSet DEF HandOverInv, BodiesHandedOver, Emit, Defined
<1> QED
  BY <1>1, <1>5 DEF HandOverInv, AnonNeverResident, ErasureSafe, Emit

LEMMA FunctionCodegenHandOver ==
  ASSUME HandOverInv, NEW n \in Names, NEW a \in Arity, FunctionCodegen(n, a)
  PROVE  HandOverInv'
<1> DEFINE protos == [FunctionProtos EXCEPT ![n] = a]
           m == GetFunction(TheModule, protos, n)
<1>1. TypeOK'
  BY FunctionCodegenType DEF HandOverInv
<1>2. m \in Module /\ (\A x \in Names \ {n} : m[x] = TheModule[x])
  BY GetFunctionLemma DEF HandOverInv, TypeOK, Module, Protos
<1>3. BodiesHandedOver'
  <2>1. CASE ~Empty(m[n])
    BY <2>1 DEF FunctionCodegen, HandOverInv, BodiesHandedOver
  <2>2. CASE Empty(m[n])
    <3>1. /\ TheModule' = [m EXCEPT ![n].kind = "defined"]
          /\ pc = "loop" /\ pc' = "body" /\ cur' = n /\ useJIT' = useJIT
      BY <2>2 DEF FunctionCodegen
    <3>2. TheModule'[n].kind = "defined"
      BY <1>2, <3>1 DEF Module, Fn
    <3>3. \A x \in Names \ {n} : TheModule'[x] = TheModule[x]
      BY <1>2, <3>1 DEF Module
    <3> QED
      BY <3>1, <3>2, <3>3 DEF HandOverInv, BodiesHandedOver
  <2> QED
    BY <2>1, <2>2
<1>4. AnonNeverResident' /\ ErasureSafe'
  BY DEF HandOverInv, AnonNeverResident, ErasureSafe, FunctionCodegen
<1> QED
  BY <1>1, <1>3, <1>4 DEF HandOverInv

LEMMA InitHandOver == Init => HandOverInv
BY InitType, NameAssumption
   DEF Init, HandOverInv, BodiesHandedOver, AnonNeverResident, ErasureSafe,
       FreshModule, NoFn, Names, Named

LEMMA NextHandOver == HandOverInv /\ [Next]_vars => HandOverInv'
<1> SUFFICES ASSUME HandOverInv, [Next]_vars PROVE HandOverInv'
  OBVIOUS
<1>0. TypeOK /\ TypeOK'
  BY NextType DEF HandOverInv
<1>a. TheModule \in Module /\ FunctionProtos \in Protos
  BY <1>0 DEF TypeOK, Module, Protos
<1>1. CASE ParserError \/ Eof \/ EmitObject \/ UNCHANGED vars
  BY <1>0, <1>1 DEF ParserError, Eof, EmitObject, vars, progVars, HandOverInv,
                    BodiesHandedOver, AnonNeverResident, ErasureSafe
<1>2. ASSUME NEW n \in Externable, NEW a \in Sig[n], handleExtern(n, a)
      PROVE  HandOverInv'
  <2>1. n \in Names
    BY NameAssumption DEF Names
  <2>2. \A x \in Names : TheModule'[x].kind = "defined"
                           <=> TheModule[x].kind = "defined"
    BY <1>0, <1>2, <2>1 DEF handleExtern, Declare, TypeOK
  <2> QED
    BY <1>0, <1>2, <2>2 DEF handleExtern, HandOverInv, BodiesHandedOver,
                            AnonNeverResident, ErasureSafe
<1>3. ASSUME NEW n \in Named, NEW a \in Sig[n], handleDefinition(n, a)
      PROVE  HandOverInv'
  BY <1>3, FunctionCodegenHandOver, SigAssumption DEF handleDefinition, Names
<1>4. CASE handleTopLevelExpression
  BY <1>4, FunctionCodegenHandOver, ArityAssumption
     DEF handleTopLevelExpression, Names, Arity
<1>5. ASSUME NEW n \in Named, NEW k \in Arity, CodegenCall(n, k)
      PROVE  HandOverInv'
  <2>1. <<n, k>> \in Call /\ n \in Names
    BY DEF Call, Names
  <2>2. /\ GetFunction(TheModule, FunctionProtos, n) \in Module
        /\ Defined(GetFunction(TheModule, FunctionProtos, n))
             = Defined(TheModule)
    BY <1>a, <2>1, GetFunctionLemma, DefinedUnchanged
  <2> QED
    BY <1>5, <2>1, <2>2, FailHandOver, EmitHandOver DEF CodegenCall
<1>6. ASSUME NEW op \in Unary, CodegenUnary(op) PROVE HandOverInv'
  <2>1. <<op, 1>> \in Call /\ op \in Names
    BY NameAssumption, ArityAssumption DEF Call, Names, Named, Arity
  <2>2. /\ GetFunction(TheModule, FunctionProtos, op) \in Module
        /\ Defined(GetFunction(TheModule, FunctionProtos, op))
             = Defined(TheModule)
    BY <1>a, <2>1, GetFunctionLemma, DefinedUnchanged
  <2> QED
    BY <1>6, <2>1, <2>2, FailHandOver, EmitHandOver DEF CodegenUnary
<1>7. ASSUME NEW op \in Binary, CodegenBinary(op) PROVE HandOverInv'
  <2>1. <<op, 2>> \in Call /\ op \in Names
    BY NameAssumption, ArityAssumption DEF Call, Names, Named, Arity
  <2>2. /\ GetFunction(TheModule, FunctionProtos, op) \in Module
        /\ Defined(GetFunction(TheModule, FunctionProtos, op))
             = Defined(TheModule)
    BY <1>a, <2>1, GetFunctionLemma, DefinedUnchanged
  <2> QED
    BY <1>7, <2>1, <2>2, FailHandOver, EmitHandOver DEF CodegenBinary
<1>8. CASE CodegenThrow
  BY <1>0, <1>8, FailHandOver DEF CodegenThrow, TypeOK, Module
<1>9. CASE FinishCompiled
  BY <1>0, <1>9 DEF FinishCompiled, HandOverInv, BodiesHandedOver,
                    AnonNeverResident, ErasureSafe
<1>10. CASE AddModuleFails
  BY <1>0, <1>10 DEF AddModuleFails, HandOverInv, BodiesHandedOver,
                     AnonNeverResident, ErasureSafe, FreshModule, NoFn
<1>11. CASE FinishDefinition
  <2>1. Anon \notin Defined(TheModule)
    BY <1>11, HandedOverSet DEF HandOverInv, FinishDefinition
  <2>2. PICK m \in Optimised : MainJD' = Added(m)
    BY <1>11 DEF FinishDefinition
  <2>3. Defined(m) = Defined(TheModule)
    BY <1>0, OptimisedLemma
  <2>4. MainJD'[Anon] = MainJD[Anon]
    BY <2>1, <2>2, <2>3 DEF Added, Names
  <2> QED
    BY <1>0, <1>11, <2>4 DEF FinishDefinition, HandOverInv, BodiesHandedOver,
                             AnonNeverResident, ErasureSafe, FreshModule, NoFn
<1>12. CASE FinishExpression
  <2>1. Anon \in Defined(TheModule)
    BY <1>12, HandedOverSet DEF HandOverInv, FinishExpression
  <2>2. PICK m \in Optimised :
          \/ /\ pc' = "loop"
             /\ MainJD' = Removed(Generated(Added(m), Linked(Added(m))), m)
          \/ pc' = "exit"
    BY <1>12, Zenon DEF FinishExpression
  <2>3. Defined(m) = Defined(TheModule)
    BY <1>0, OptimisedLemma
  <2>4. AnonNeverResident'
    BY <2>1, <2>2, <2>3 DEF Removed, AnonNeverResident, NoFn, Names
  <2> QED
    BY <1>0, <1>12, <2>2, <2>4 DEF FinishExpression, HandOverInv,
                          BodiesHandedOver, ErasureSafe, FreshModule, NoFn
<1> QED
  BY <1>1, <1>2, <1>3, <1>4, <1>5, <1>6, <1>7, <1>8, <1>9, <1>10, <1>11,
     <1>12 DEF Next

LEMMA HandOver == Spec => []HandOverInv
BY InitHandOver, NextHandOver, PTL DEF Spec

(* With the JIT a body is in TheModule exactly while it is being generated. *)
THEOREM BodiesHandedOverThm == Spec => []BodiesHandedOver
<1>1. HandOverInv => BodiesHandedOver
  BY DEF HandOverInv
<1> QED
  BY <1>1, HandOver, PTL

(* No expression leaves __anon_expr in the JIT for the next one to clash    *)
(* with.                                                                    *)
THEOREM AnonNeverResidentThm == Spec => []AnonNeverResident
<1>1. HandOverInv => AnonNeverResident
  BY DEF HandOverInv
<1> QED
  BY <1>1, HandOver, PTL

(* With the JIT the erasure of a failed function orphans no caller.         *)
THEOREM ErasureSafeThm == Spec => []ErasureSafe
<1>1. HandOverInv => ErasureSafe
  BY DEF HandOverInv
<1> QED
  BY <1>1, HandOver, PTL
-----------------------------------------------------------------------------
(***************************************************************************)
(* Arities.  Whatever the order of declarations, failures and hand-overs,  *)
(* every function and every call has an arity that the input declared for  *)
(* the name; with one arity per name, calls and definitions agree.         *)
(***************************************************************************)
ProtosAs      == \A n \in Named : FunctionProtos[n] \in Sig[n] \cup {NoProto}
DeclaredAs(m) == \A n \in Named : m[n].kind # "absent" => m[n].arity \in Sig[n]
DefinedAs(m)  == \A n \in Named : m[n].kind = "defined" => m[n].arity \in Sig[n]
CallsAs(m)    == \A n \in Names : \A c \in m[n].calls : c[2] \in Sig[c[1]]

ArityInv == /\ TypeOK
            /\ ProtosAs
            /\ DeclaredAs(TheModule) /\ CallsAs(TheModule)
            /\ DefinedAs(MainJD) /\ CallsAs(MainJD)

LEMMA GetFunctionArity ==
  ASSUME NEW m \in Module, NEW protos \in Protos, NEW n \in Names,
         DeclaredAs(m), CallsAs(m),
         n \in Named => protos[n] \in Sig[n] \cup {NoProto}
  PROVE  DeclaredAs(GetFunction(m, protos, n))
         /\ CallsAs(GetFunction(m, protos, n))
<1>1. CASE m[n].kind = "absent" /\ protos[n] # NoProto
  <2> DEFINE r == GetFunction(m, protos, n)
  <2>1. /\ r[n] = [kind |-> "declared", arity |-> protos[n], calls |-> {}]
        /\ \A x \in Names \ {n} : r[x] = m[x]
    BY <1>1 DEF GetFunction, Declare, Module
  <2> HIDE DEF r
  <2>2. DeclaredAs(r)
    BY <1>1, <2>1 DEF DeclaredAs, Names
  <2>3. CallsAs(r)
    BY <2>1 DEF CallsAs
  <2> QED
    BY <2>2, <2>3 DEF r
<1>2. CASE ~(m[n].kind = "absent" /\ protos[n] # NoProto)
  BY <1>2 DEF GetFunction
<1> QED
  BY <1>1, <1>2

LEMMA EmitCallArity ==
  ASSUME NEW m \in Module, NEW f \in Names, NEW c \in Call,
         DeclaredAs(m), CallsAs(m), c[2] \in Sig[c[1]]
  PROVE  DeclaredAs(EmitCall(m, f, c)) /\ CallsAs(EmitCall(m, f, c))
<1> DEFINE r == EmitCall(m, f, c)
<1>1. /\ r[f].kind = m[f].kind /\ r[f].arity = m[f].arity
      /\ r[f].calls = m[f].calls \cup {c}
  <2>1. r[f] = [m[f] EXCEPT !.calls = @ \cup {c}]
    BY DEF EmitCall, Module
  <2>2. m[f] \in Fn
    BY DEF Module
  <2> QED
    BY <2>1, <2>2 DEF Fn
<1>2. \A x \in Names \ {f} : r[x] = m[x]
  BY DEF EmitCall, Module
<1> HIDE DEF r
<1>3. DeclaredAs(r)
  BY <1>1, <1>2 DEF DeclaredAs, Names
<1>4. CallsAs(r)
  BY <1>1, <1>2 DEF CallsAs
<1> QED
  BY <1>3, <1>4 DEF r

LEMMA OptimisedArity ==
  ASSUME TypeOK, DeclaredAs(TheModule), CallsAs(TheModule), NEW m \in Optimised
  PROVE  DeclaredAs(m) /\ DefinedAs(m) /\ CallsAs(m)
<1>1. \A x \in Names : /\ m[x].kind = TheModule[x].kind
                       /\ m[x].arity = TheModule[x].arity
                       /\ m[x].calls \subseteq TheModule[x].calls
  BY OptimisedLemma
<1>2. \A n \in Named : m[n].kind # "absent" => m[n].arity \in Sig[n]
  BY <1>1 DEF DeclaredAs, Names
<1>3. CallsAs(m)
  BY <1>1 DEF CallsAs
<1> QED
  BY <1>2, <1>3 DEF DeclaredAs, DefinedAs

(* Handing modules over, generating symbols and removing a module keep the  *)
(* arities of what the JIT holds.                                           *)
LEMMA JITArity ==
  ASSUME NEW m \in Module, NEW jd \in Module, NEW used, MainJD \in Module,
         DefinedAs(m), CallsAs(m), DefinedAs(jd), CallsAs(jd),
         DefinedAs(MainJD), CallsAs(MainJD)
  PROVE  /\ DefinedAs(Added(m)) /\ CallsAs(Added(m))
         /\ DefinedAs(Generated(jd, used)) /\ CallsAs(Generated(jd, used))
         /\ DefinedAs(Removed(jd, m)) /\ CallsAs(Removed(jd, m))
<1>1. DefinedAs(Added(m)) /\ CallsAs(Added(m))
  BY DEF Added, DefinedAs, CallsAs, Names
<1>2. DefinedAs(Generated(jd, used)) /\ CallsAs(Generated(jd, used))
  BY DEF Generated, DefinedAs, CallsAs, Names, AbsoluteSymbol
<1>3. DefinedAs(Removed(jd, m)) /\ CallsAs(Removed(jd, m))
  BY DEF Removed, DefinedAs, CallsAs, Names, NoFn
<1> QED
  BY <1>1, <1>2, <1>3

LEMMA FreshArity == DeclaredAs(FreshModule) /\ CallsAs(FreshModule)
BY DEF FreshModule, NoFn, DeclaredAs, CallsAs, Names

LEMMA FailArity ==
  ASSUME ArityInv, pc = "body", NEW m \in Module, DeclaredAs(m), CallsAs(m),
         Fail(m)
  PROVE  ArityInv'
<1>1. TypeOK'
  BY FailType DEF ArityInv
<1>2. DeclaredAs(TheModule)' /\ CallsAs(TheModule)'
  BY DEF Fail, Erased, NoFn, DeclaredAs, CallsAs, Module, Names
<1> QED
  BY <1>1, <1>2 DEF ArityInv, Fail, ProtosAs, DefinedAs, CallsAs

LEMMA EmitArity ==
  ASSUME ArityInv, NEW m \in Module, DeclaredAs(m), CallsAs(m),
         NEW c \in Call, c[2] \in Sig[c[1]], Emit(m, c)
  PROVE  ArityInv'
<1>1. TypeOK' /\ cur \in Names
  BY EmitType DEF ArityInv, TypeOK
<1>2. DeclaredAs(EmitCall(m, cur, c)) /\ CallsAs(EmitCall(m, cur, c))
  BY <1>1, EmitCallArity
<1>3. DeclaredAs(TheModule)' /\ CallsAs(TheModule)'
  BY <1>2 DEF Emit, DeclaredAs, CallsAs
<1> QED
  BY <1>1, <1>3 DEF ArityInv, Emit, ProtosAs, DefinedAs, CallsAs

LEMMA FunctionCodegenArity ==
  ASSUME ArityInv, NEW n \in Names, NEW a \in Arity, FunctionCodegen(n, a),
         n \in Named => a \in Sig[n]
  PROVE  ArityInv'
<1> DEFINE protos == [FunctionProtos EXCEPT ![n] = a]
           m == GetFunction(TheModule, protos, n)
<1>1. /\ TypeOK /\ TypeOK' /\ protos \in Protos /\ TheModule \in Module
      /\ FunctionProtos' = protos
  BY FunctionCodegenType
     DEF ArityInv, TypeOK, Protos, Module, FunctionCodegen
<1>2. m \in Module /\ DeclaredAs(m) /\ CallsAs(m)
  <2>1. n \in Named => protos[n] \in Sig[n] \cup {NoProto}
    BY <1>1 DEF TypeOK
  <2> QED
    BY <1>1, <2>1, GetFunctionLemma, GetFunctionArity DEF ArityInv
<1>3. ProtosAs'
  BY <1>1 DEF ArityInv, ProtosAs, TypeOK, Names
<1>4. DeclaredAs(TheModule)' /\ CallsAs(TheModule)'
  <2>1. CASE Empty(m[n])
    <3>1. TheModule' = [m EXCEPT ![n].kind = "defined"]
      BY <2>1 DEF FunctionCodegen
    <3>2. m[n].kind # "absent"
      BY <1>1, GetFunctionLemma, ArityAssumption
         DEF GetFunction, Declare, TypeOK, Arity, NoProto, Module
    <3>3. \A x \in Names : /\ TheModule'[x].arity = m[x].arity
                           /\ TheModule'[x].calls = m[x].calls
                           /\ x # n => TheModule'[x].kind = m[x].kind
      BY <1>2, <3>1 DEF Module, Fn
    <3>4. DeclaredAs(TheModule)'
      BY <1>2, <3>2, <3>3 DEF DeclaredAs, Names
    <3>5. CallsAs(TheModule)'
      BY <1>2, <3>3 DEF CallsAs
    <3> QED
      BY <3>4, <3>5
  <2>2. CASE ~Empty(m[n])
    BY <2>2 DEF FunctionCodegen, ArityInv, DeclaredAs, CallsAs
  <2> QED
    BY <2>1, <2>2
<1>5. DefinedAs(MainJD)' /\ CallsAs(MainJD)'
  BY DEF FunctionCodegen, ArityInv, DefinedAs, CallsAs
<1> QED
  BY <1>1, <1>3, <1>4, <1>5 DEF ArityInv

LEMMA InitArity == Init => ArityInv
BY InitType, FreshArity DEF Init, ArityInv, ProtosAs, DefinedAs, CallsAs,
   AbsoluteSymbol, NoFn, DeclaredAs, Names

LEMMA NextArity == ArityInv /\ [Next]_vars => ArityInv'
<1> SUFFICES ASSUME ArityInv, [Next]_vars PROVE ArityInv'
  OBVIOUS
<1>0. TypeOK /\ TypeOK'
  BY NextType DEF ArityInv
<1>a. /\ TheModule \in Module /\ FunctionProtos \in Protos
      /\ MainJD \in Module
  BY <1>0 DEF TypeOK, Module, Protos
<1>b. ASSUME NEW n \in Named
      PROVE  LET m == GetFunction(TheModule, FunctionProtos, n)
             IN m \in Module /\ DeclaredAs(m) /\ CallsAs(m)
  BY <1>a, GetFunctionLemma, GetFunctionArity DEF ArityInv, ProtosAs, Names
<1>1. CASE ParserError \/ Eof \/ EmitObject \/ UNCHANGED vars
  BY <1>0, <1>1 DEF ParserError, Eof, EmitObject, vars, progVars, ArityInv,
                    ProtosAs, DeclaredAs, DefinedAs, CallsAs
<1>2. ASSUME NEW n \in Externable, NEW a \in Sig[n], handleExtern(n, a)
      PROVE  ArityInv'
  <2>1. n \in Named /\ n \in Names
    BY NameAssumption DEF Names
  <2>2. ProtosAs'
    BY <1>2, <1>a, <2>1 DEF handleExtern, ArityInv, ProtosAs, Protos
  <2>3. /\ TheModule'[n].kind # "absent" => TheModule'[n].arity \in Sig[n]
        /\ TheModule'[n].calls \subseteq TheModule[n].calls
        /\ \A x \in Names \ {n} : TheModule'[x] = TheModule[x]
    BY <1>2, <1>a, <2>1 DEF handleExtern, Declare, ArityInv, DeclaredAs, Module
  <2>4. DeclaredAs(TheModule)' /\ CallsAs(TheModule)'
    BY <2>3 DEF ArityInv, DeclaredAs, CallsAs, Names
  <2> QED
    BY <1>0, <1>2, <2>2, <2>4 DEF handleExtern, ArityInv, DefinedAs, CallsAs
<1>3. ASSUME NEW n \in Named, NEW a \in Sig[n], handleDefinition(n, a)
      PROVE  ArityInv'
  BY <1>3, FunctionCodegenArity, SigAssumption DEF handleDefinition, Names
<1>4. CASE handleTopLevelExpression
  BY <1>4, FunctionCodegenArity, ArityAssumption, NameAssumption
     DEF handleTopLevelExpression, Names, Arity
<1>5. ASSUME NEW n \in Named, NEW k \in Arity, CodegenCall(n, k)
      PROVE  ArityInv'
  <2> DEFINE m == GetFunction(TheModule, FunctionProtos, n)
  <2>1. m \in Module /\ DeclaredAs(m) /\ CallsAs(m)
    BY <1>b
  <2>2. pc = "body" /\ (Fail(m) \/ (m[n].kind # "absent" /\ m[n].arity = k
                                    /\ Emit(m, <<n, k>>)))
    BY <1>5 DEF CodegenCall
  <2>3. m[n].kind # "absent" /\ m[n].arity = k => k \in Sig[n]
    BY <2>1 DEF DeclaredAs
  <2> HIDE DEF m
  <2> QED
    BY <2>1, <2>2, <2>3, FailArity, EmitArity DEF Call
<1>6. ASSUME NEW op \in Unary, CodegenUnary(op) PROVE ArityInv'
  <2> DEFINE m == GetFunction(TheModule, FunctionProtos, op)
  <2>1. op \in Named /\ <<op, 1>> \in Call
    BY NameAssumption, ArityAssumption DEF Call, Named, Arity
  <2>2. m \in Module /\ DeclaredAs(m) /\ CallsAs(m)
    BY <1>b, <2>1
  <2>3. pc = "body" /\ (Fail(m) \/ (m[op].kind # "absent"
                                    /\ Emit(m, <<op, 1>>)))
    BY <1>6 DEF CodegenUnary
  <2>4. m[op].kind # "absent" => 1 \in Sig[op]
    BY <2>1, <2>2, SigAssumption DEF DeclaredAs
  <2> HIDE DEF m
  <2> QED
    BY <2>1, <2>2, <2>3, <2>4, FailArity, EmitArity
<1>7. ASSUME NEW op \in Binary, CodegenBinary(op) PROVE ArityInv'
  <2> DEFINE m == GetFunction(TheModule, FunctionProtos, op)
  <2>1. op \in Named /\ <<op, 2>> \in Call
    BY NameAssumption, ArityAssumption DEF Call, Named, Arity
  <2>2. m \in Module /\ DeclaredAs(m) /\ CallsAs(m)
    BY <1>b, <2>1
  <2>3. pc = "body" /\ (Fail(m) \/ (m[op].kind # "absent"
                                    /\ Emit(m, <<op, 2>>)))
    BY <1>7 DEF CodegenBinary
  <2>4. m[op].kind # "absent" => 2 \in Sig[op]
    BY <2>1, <2>2, SigAssumption DEF DeclaredAs
  <2> HIDE DEF m
  <2> QED
    BY <2>1, <2>2, <2>3, <2>4, FailArity, EmitArity
<1>8. CASE CodegenThrow
  BY <1>a, <1>8, FailArity DEF CodegenThrow, ArityInv
<1>9. CASE FinishCompiled
  <2>1. DeclaredAs(TheModule)' /\ CallsAs(TheModule)'
    BY <1>0, <1>9, OptimisedArity DEF FinishCompiled, ArityInv
  <2> QED
    BY <1>0, <1>9, <2>1 DEF FinishCompiled, ArityInv, ProtosAs, DefinedAs,
                            CallsAs
<1>10. CASE AddModuleFails
  BY <1>0, <1>10, FreshArity DEF AddModuleFails, ArityInv, ProtosAs,
     DeclaredAs, DefinedAs, CallsAs, FreshModule
<1>11. CASE FinishDefinition
  <2>1. PICK m \in Optimised : MainJD' = Added(m)
    BY <1>11 DEF FinishDefinition
  <2>2. m \in Module /\ DefinedAs(m) /\ CallsAs(m)
    BY <1>0, OptimisedLemma, OptimisedArity DEF ArityInv
  <2>3. DefinedAs(MainJD') /\ CallsAs(MainJD')
    BY <1>a, <2>1, <2>2, JITArity DEF ArityInv
  <2>4. DeclaredAs(TheModule') /\ CallsAs(TheModule')
    BY <1>11, FreshArity DEF FinishDefinition
  <2> QED
    BY <1>0, <1>11, <2>3, <2>4 DEF FinishDefinition, ArityInv, ProtosAs,
       DeclaredAs, DefinedAs, CallsAs
<1>12. CASE FinishExpression
  <2>1. PICK m \in Optimised :
          \/ MainJD' = Removed(Generated(Added(m), Linked(Added(m))), m)
          \/ MainJD' = Added(m)
    BY <1>12, Zenon DEF FinishExpression
  <2>2. m \in Module /\ DefinedAs(m) /\ CallsAs(m)
    BY <1>0, OptimisedLemma, OptimisedArity DEF ArityInv
  <2> DEFINE jd == Generated(Added(m), Linked(Added(m)))
  <2>3. Added(m) \in Module /\ DefinedAs(Added(m)) /\ CallsAs(Added(m))
    BY <1>a, <2>2, JITLemma, JITArity DEF ArityInv
  <2>4. jd \in Module /\ DefinedAs(jd) /\ CallsAs(jd)
    BY <1>a, <2>2, <2>3, JITLemma, JITArity DEF ArityInv
  <2>5. DefinedAs(Removed(jd, m)) /\ CallsAs(Removed(jd, m))
    BY <1>a, <2>2, <2>4, JITArity DEF ArityInv
  <2>6. DefinedAs(MainJD') /\ CallsAs(MainJD')
    BY <2>1, <2>3, <2>5
  <2>7. DeclaredAs(TheModule') /\ CallsAs(TheModule')
    BY <1>12, FreshArity DEF FinishExpression
  <2> QED
    BY <1>0, <1>12, <2>6, <2>7 DEF FinishExpression, ArityInv, ProtosAs,
       DeclaredAs, DefinedAs, CallsAs
<1> QED
  BY <1>1, <1>2, <1>3, <1>4, <1>5, <1>6, <1>7, <1>8, <1>9, <1>10, <1>11,
     <1>12 DEF Next

(* JITed code passes every function the arguments it takes, if no name has  *)
(* prototypes of two arities.                                               *)
THEOREM LinkSafeThm == Spec => []LinkSafe
<1>1. ArityInv => LinkSafe
  <2> SUFFICES ASSUME ArityInv, OneArity,
                      NEW n \in Defined(MainJD), NEW c \in MainJD[n].calls,
                      MainJD[c[1]].kind = "defined"
               PROVE  MainJD[c[1]].arity = c[2]
    BY DEF LinkSafe
  <2>1. n \in Names /\ c \in Call
    BY DEF ArityInv, TypeOK, Fn, Defined
  <2>2. c[1] \in Named
    BY <2>1 DEF Call
  <2>3. MainJD[c[1]].arity \in Sig[c[1]] /\ c[2] \in Sig[c[1]]
    BY <2>1, <2>2 DEF ArityInv, DefinedAs, CallsAs
  <2> QED
    BY <2>2, <2>3 DEF OneArity
<1> QED
  BY <1>1, InitArity, NextArity, PTL DEF Spec

(***************************************************************************)
(* What the calls of a session refer to: a function of the same module     *)
(* with the right arity, an operator with a prototype, and, once in the    *)
(* JIT, a definition or an explained absence.                              *)
(***************************************************************************)

(***************************************************************************)
(* Prototypes are replaced but never taken back, not even by a failure, so *)
(* an operator that is in the parser's table keeps one.                    *)
(***************************************************************************)
ProtosInv == TypeOK /\ ParsedOperatorsHaveProtos

LEMMA ProtosKept ==
  ASSUME TypeOK, NEW n \in Names, NEW a \in Arity, NEW x \in Names,
         FunctionProtos' = [FunctionProtos EXCEPT ![n] = a]
  PROVE  /\ FunctionProtos'[n] # NoProto
         /\ FunctionProtos[x] # NoProto => FunctionProtos'[x] # NoProto
BY ArityAssumption DEF TypeOK, Arity, NoProto

LEMMA FunctionCodegenProtos ==
  ASSUME ProtosInv, NEW n \in Names, NEW a \in Arity, FunctionCodegen(n, a)
  PROVE  ParsedOperatorsHaveProtos'
<1>1. FunctionProtos' = [FunctionProtos EXCEPT ![n] = a]
  BY DEF FunctionCodegen
<1>2. /\ binopPrecedence' \subseteq binopPrecedence \cup {n}
      /\ parsedWith' \subseteq parsedWith \cup binopPrecedence
  BY DEF FunctionCodegen, Installed
<1>3. parsedWith \cup binopPrecedence \subseteq Names
  BY NameAssumption DEF ProtosInv, TypeOK, Names, Named
<1>4. TypeOK
  BY DEF ProtosInv
<1>5. \A x \in parsedWith \cup binopPrecedence \cup {n} :
        FunctionProtos'[x] # NoProto
  BY <1>1, <1>3, <1>4, ProtosKept DEF ProtosInv, ParsedOperatorsHaveProtos
<1> QED
  BY <1>2, <1>5 DEF ParsedOperatorsHaveProtos

LEMMA NextProtos == ProtosInv /\ [Next]_vars => ProtosInv'
<1> SUFFICES ASSUME ProtosInv, [Next]_vars PROVE ProtosInv'
  OBVIOUS
<1>0. TypeOK /\ TypeOK'
  BY NextType DEF ProtosInv
<1>1. CASE UNCHANGED <<FunctionProtos, binopPrecedence, parsedWith>>
  BY <1>0, <1>1 DEF ProtosInv, ParsedOperatorsHaveProtos
<1>2. ASSUME NEW n \in Externable, NEW a \in Sig[n], handleExtern(n, a)
      PROVE  ProtosInv'
  <2>1. n \in Names /\ a \in Arity
    BY NameAssumption, SigAssumption DEF Names
  <2>2. parsedWith \cup binopPrecedence \subseteq Names
    BY <1>0, NameAssumption DEF TypeOK, Names, Named
  <2>3. /\ FunctionProtos' = [FunctionProtos EXCEPT ![n] = a]
        /\ UNCHANGED <<binopPrecedence, parsedWith>>
    BY <1>2 DEF handleExtern
  <2>4. \A x \in parsedWith \cup binopPrecedence :
          FunctionProtos'[x] # NoProto
    BY <1>0, <2>1, <2>2, <2>3, ProtosKept
       DEF ProtosInv, ParsedOperatorsHaveProtos
  <2> QED
    BY <1>0, <2>3, <2>4 DEF ProtosInv, ParsedOperatorsHaveProtos
<1>3. ASSUME NEW n \in Named, NEW a \in Sig[n], handleDefinition(n, a)
      PROVE  ProtosInv'
  BY <1>0, <1>3, FunctionCodegenProtos, SigAssumption
     DEF ProtosInv, handleDefinition, Names
<1>4. CASE handleTopLevelExpression
  BY <1>0, <1>4, FunctionCodegenProtos, ArityAssumption
     DEF ProtosInv, handleTopLevelExpression, Names, Arity
<1>5. ASSUME NEW n \in Named, NEW k \in Arity, CodegenCall(n, k)
      PROVE  ProtosInv'
  BY <1>1, <1>5 DEF CodegenCall, Fail, Emit
<1>6. ASSUME NEW op \in Unary, CodegenUnary(op) PROVE ProtosInv'
  BY <1>1, <1>6 DEF CodegenUnary, Fail, Emit
<1>7. ASSUME NEW op \in Binary, CodegenBinary(op) PROVE ProtosInv'
  BY <1>1, <1>7 DEF CodegenBinary, Fail, Emit
<1>8. CASE \/ ParserError \/ CodegenThrow \/ FinishCompiled
           \/ AddModuleFails \/ FinishDefinition \/ FinishExpression
           \/ Eof \/ EmitObject \/ UNCHANGED vars
  BY <1>1, <1>8 DEF ParserError, CodegenThrow, Fail, FinishCompiled,
     AddModuleFails, FinishDefinition, FinishExpression, Eof, EmitObject,
     vars, progVars
<1> QED
  BY <1>2, <1>3, <1>4, <1>5, <1>6, <1>7, <1>8 DEF Next

(* An operator that the parser accepts has a prototype, whatever became of  *)
(* the definition that installed it: BinaryExprAST::codegen always finds a  *)
(* function to call.                                                        *)
THEOREM ParsedOperatorsHaveProtosThm == Spec => []ParsedOperatorsHaveProtos
<1>1. Init => ProtosInv
  BY InitType DEF Init, ProtosInv, ParsedOperatorsHaveProtos
<1>2. ProtosInv => ParsedOperatorsHaveProtos
  BY DEF ProtosInv
<1> QED
  BY <1>1, <1>2, NextProtos, PTL DEF Spec
-----------------------------------------------------------------------------
(***************************************************************************)
(* The calls inside a module.  Only a definition has calls, the body under *)
(* construction is one, and an entry of the module changes its arity only  *)
(* by being erased, so a call stays good until its callee is erased.       *)
(***************************************************************************)
CurDefined == pc = "body" => TheModule[cur].kind = "defined"
OnlyBodiesCall(m) == \A n \in Names : m[n].kind # "defined" => m[n].calls = {}
Closed(m) == \A n \in Defined(m) : \A c \in m[n].calls :
               m[c[1]].kind # "absent" /\ m[c[1]].arity = c[2]

ClosedInv == /\ ArityInv
             /\ CurDefined
             /\ OnlyBodiesCall(TheModule)
             /\ ~dangling => Closed(TheModule)

LEMMA CallIn ==
  ASSUME NEW m \in Module, NEW n \in Names, NEW c \in m[n].calls
  PROVE  c \in Call /\ c[1] \in Named /\ c[1] \in Names /\ c[2] \in Arity
         /\ c = <<c[1], c[2]>>
<1>1. c \in Call
  BY DEF Module, Fn
<1> QED
  BY <1>1 DEF Call, Names

(* A lookup adds at most a declaration, which no caller notices.            *)
LEMMA GetFunctionClosed ==
  ASSUME NEW m \in Module, NEW protos \in Protos, NEW n \in Names,
         OnlyBodiesCall(m)
  PROVE  LET r == GetFunction(m, protos, n)
         IN /\ OnlyBodiesCall(r)
            /\ Closed(m) => Closed(r)
            /\ Defined(r) = Defined(m)
            /\ \A x \in Defined(m) : r[x] = m[x]
<1> DEFINE r == GetFunction(m, protos, n)
<1>1. CASE m[n].kind = "absent" /\ protos[n] # NoProto
  <2>1. /\ r[n] = [kind |-> "declared", arity |-> protos[n], calls |-> {}]
        /\ \A x \in Names \ {n} : r[x] = m[x]
    BY <1>1, GetFunctionLemma
  <2> HIDE DEF r
  <2>2. OnlyBodiesCall(r)
    BY <2>1 DEF OnlyBodiesCall
  <2>3. Defined(r) = Defined(m) /\ \A x \in Defined(m) : r[x] = m[x]
    BY <1>1, <2>1 DEF Defined
  <2>4. ASSUME Closed(m) PROVE Closed(r)
    <3> SUFFICES ASSUME NEW x \in Defined(r), NEW c \in r[x].calls
                 PROVE  r[c[1]].kind # "absent" /\ r[c[1]].arity = c[2]
      BY DEF Closed
    <3>1. x \in Defined(m) /\ x \in Names /\ c \in m[x].calls
      BY <2>3 DEF Defined
    <3>2. m[c[1]].kind # "absent" /\ m[c[1]].arity = c[2]
      BY <2>4, <3>1 DEF Closed
    <3>3. c[1] \in Names \ {n}
      BY <1>1, <3>1, <3>2, CallIn
    <3> QED
      BY <2>1, <3>2, <3>3
  <2> QED
    BY <2>2, <2>3, <2>4 DEF r
<1>2. CASE ~(m[n].kind = "absent" /\ protos[n] # NoProto)
  BY <1>2 DEF GetFunction
<1> QED
  BY <1>1, <1>2

(* A call to what a lookup has just found is good.                          *)
LEMMA EmitCallClosed ==
  ASSUME NEW m \in Module, NEW f \in Defined(m), NEW c \in Call,
         OnlyBodiesCall(m)
  PROVE  LET r == EmitCall(m, f, c)
         IN /\ OnlyBodiesCall(r)
            /\ r[f].kind = "defined"
            /\ Closed(m) /\ m[c[1]].kind # "absent" /\ m[c[1]].arity = c[2]
                 => Closed(r)
<1> DEFINE r == EmitCall(m, f, c)
<1>1. /\ r[f].kind = m[f].kind /\ r[f].arity = m[f].arity
      /\ r[f].calls = m[f].calls \cup {c}
      /\ \A x \in Names \ {f} : r[x] = m[x]
      /\ f \in Names /\ m[f].kind = "defined"
  <2>1. f \in Names /\ m[f] \in Fn /\ m[f].kind = "defined"
    BY DEF Defined, Module
  <2>2. r[f] = [m[f] EXCEPT !.calls = @ \cup {c}]
        /\ \A x \in Names \ {f} : r[x] = m[x]
    BY <2>1, EmitCallLemma
  <2> HIDE DEF r
  <2> QED
    BY <2>1, <2>2 DEF Fn
<1> HIDE DEF r
<1>2. OnlyBodiesCall(r)
  BY <1>1 DEF OnlyBodiesCall
<1>3. \A x \in Names : r[x].kind = m[x].kind /\ r[x].arity = m[x].arity
  BY <1>1
<1>4. ASSUME Closed(m), m[c[1]].kind # "absent", m[c[1]].arity = c[2]
      PROVE  Closed(r)
  <2> SUFFICES ASSUME NEW x \in Defined(r), NEW d \in r[x].calls
               PROVE  r[d[1]].kind # "absent" /\ r[d[1]].arity = d[2]
    BY DEF Closed
  <2>1. x \in Defined(m) /\ x \in Names
    BY <1>3 DEF Defined
  <2>2. CASE d \in m[x].calls
    <3>1. d[1] \in Names
      BY <2>1, <2>2, CallIn
    <3> QED
      BY <1>3, <1>4, <2>1, <2>2, <3>1 DEF Closed
  <2>3. CASE d = c
    <3>1. c[1] \in Names
      BY DEF Call, Names
    <3> QED
      BY <1>3, <1>4, <2>3, <3>1
  <2> QED
    BY <1>1, <2>1, <2>2, <2>3
<1> QED
  BY <1>1, <1>2, <1>4 DEF r

(* Erasing the failed function breaks only its own callers.                 *)
LEMMA FailClosed ==
  ASSUME ClosedInv, pc = "body", NEW m \in Module,
         DeclaredAs(m), CallsAs(m), OnlyBodiesCall(m),
         Closed(TheModule) => Closed(m), Fail(m)
  PROVE  ClosedInv'
<1>1. ArityInv'
  BY FailArity DEF ClosedInv
<1>2. CurDefined'
  BY DEF Fail, CurDefined
<1>3. cur \in Names /\ TheModule' = [m EXCEPT ![cur] = NoFn]
  BY DEF ClosedInv, ArityInv, TypeOK, Fail, Erased
<1>4. /\ TheModule'[cur] = NoFn
      /\ \A x \in Names \ {cur} : TheModule'[x] = m[x]
  BY <1>3 DEF Module
<1>5. OnlyBodiesCall(TheModule)'
  BY <1>4 DEF OnlyBodiesCall, NoFn
<1>6. ASSUME ~dangling' PROVE Closed(TheModule)'
  <2>1. /\ ~dangling
        /\ ~\E n \in Defined(m) \ {cur}, k \in Arity :
               <<cur, k>> \in m[n].calls
    BY <1>6 DEF Fail
  <2>2. Closed(m)
    BY <2>1 DEF ClosedInv
  <2> SUFFICES ASSUME NEW x \in Defined(TheModule)',
                      NEW c \in TheModule'[x].calls
               PROVE  /\ TheModule'[c[1]].kind # "absent"
                      /\ TheModule'[c[1]].arity = c[2]
    BY DEF Closed
  <2>3. x \in Defined(m) \ {cur} /\ x \in Names /\ c \in m[x].calls
    BY <1>4 DEF Defined, NoFn
  <2>4. c[1] \in Names /\ c[2] \in Arity /\ c = <<c[1], c[2]>>
    BY <2>3, CallIn
  <2>5. c[1] # cur
    BY <2>1, <2>3, <2>4
  <2>6. m[c[1]].kind # "absent" /\ m[c[1]].arity = c[2]
    BY <2>2, <2>3 DEF Closed
  <2> QED
    BY <1>4, <2>4, <2>5, <2>6
<1> QED
  BY <1>1, <1>2, <1>5, <1>6 DEF ClosedInv

LEMMA EmitClosed ==
  ASSUME ClosedInv, pc = "body", NEW m \in Module,
         DeclaredAs(m), CallsAs(m), OnlyBodiesCall(m),
         Closed(TheModule) => Closed(m), cur \in Defined(m),
         NEW c \in Call, m[c[1]].kind # "absent", m[c[1]].arity = c[2],
         Emit(m, c)
  PROVE  ClosedInv'
<1>1. c[1] \in Named
  BY DEF Call
<1>2. c[2] \in Sig[c[1]]
  BY <1>1 DEF DeclaredAs
<1>3. ArityInv'
  BY <1>2, EmitArity DEF ClosedInv
<1>4. TheModule' = EmitCall(m, cur, c) /\ UNCHANGED <<pc, cur, dangling>>
  BY DEF Emit
<1>5. /\ OnlyBodiesCall(EmitCall(m, cur, c))
      /\ EmitCall(m, cur, c)[cur].kind = "defined"
      /\ Closed(m) => Closed(EmitCall(m, cur, c))
  BY EmitCallClosed
<1>6. CurDefined'
  BY <1>4, <1>5 DEF CurDefined
<1>7. OnlyBodiesCall(TheModule)' /\ (~dangling' => Closed(TheModule)')
  BY <1>4, <1>5 DEF ClosedInv, OnlyBodiesCall, Closed, Defined
<1> QED
  BY <1>3, <1>6, <1>7 DEF ClosedInv

(* What a lookup of n in the current module gives the three handlers.       *)
LEMMA LookupClosed ==
  ASSUME ClosedInv, pc = "body", NEW n \in Named
  PROVE  LET m == GetFunction(TheModule, FunctionProtos, n)
         IN /\ m \in Module /\ DeclaredAs(m) /\ CallsAs(m)
            /\ OnlyBodiesCall(m) /\ (Closed(TheModule) => Closed(m))
            /\ cur \in Defined(m)
<1>1. /\ TheModule \in Module /\ FunctionProtos \in Protos /\ cur \in Names
      /\ n \in Names
  BY DEF ClosedInv, ArityInv, TypeOK, Module, Protos, Names
<1>2. cur \in Defined(TheModule)
  BY <1>1 DEF ClosedInv, CurDefined, Defined
<1>3. FunctionProtos[n] \in Sig[n] \cup {NoProto}
  BY DEF ClosedInv, ArityInv, ProtosAs
<1> QED
  BY <1>1, <1>2, <1>3, GetFunctionLemma, GetFunctionArity, GetFunctionClosed
     DEF ClosedInv, ArityInv

LEMMA FunctionCodegenClosed ==
  ASSUME ClosedInv, NEW n \in Names, NEW a \in Arity, FunctionCodegen(n, a),
         n \in Named => a \in Sig[n]
  PROVE  ClosedInv'
<1> DEFINE protos == [FunctionProtos EXCEPT ![n] = a]
           m == GetFunction(TheModule, protos, n)
<1>1. /\ TypeOK /\ protos \in Protos /\ TheModule \in Module
      /\ ArityInv' /\ dangling' = dangling
  BY FunctionCodegenArity
     DEF ClosedInv, ArityInv, TypeOK, Protos, Module, FunctionCodegen
<1>2. CASE ~Empty(m[n])
  <2>1. pc = "loop" /\ UNCHANGED <<pc, cur, TheModule, dangling>>
    BY <1>2 DEF FunctionCodegen
  <2> QED
    BY <1>1, <2>1 DEF ClosedInv, CurDefined, OnlyBodiesCall, Closed, Defined
<1>3. CASE Empty(m[n])
  <2>1. TheModule' = [m EXCEPT ![n].kind = "defined"] /\ cur' = n
    BY <1>3 DEF FunctionCodegen
  <2>2. /\ m \in Module /\ OnlyBodiesCall(m)
        /\ Closed(TheModule) => Closed(m)
    BY <1>1, GetFunctionLemma, GetFunctionClosed DEF ClosedInv
  <2>3. m[n].kind # "absent"
    BY <1>1, GetFunctionLemma, ArityAssumption
       DEF GetFunction, Declare, TypeOK, Arity, NoProto, Module
  <2>4. m[n].calls = {}
    BY <1>3, <2>2 DEF Empty, OnlyBodiesCall
  <2> HIDE DEF m
  <2>5. /\ \A x \in Names : /\ TheModule'[x].arity = m[x].arity
                            /\ TheModule'[x].calls = m[x].calls
                            /\ x # n => TheModule'[x].kind = m[x].kind
        /\ TheModule'[n].kind = "defined"
    BY <2>1, <2>2 DEF Module, Fn
  <2>6. CurDefined'
    BY <2>1, <2>5 DEF CurDefined
  <2>7. OnlyBodiesCall(TheModule)'
    BY <2>2, <2>5 DEF OnlyBodiesCall
  <2>8. ASSUME Closed(m) PROVE Closed(TheModule)'
    <3> SUFFICES ASSUME NEW x \in Defined(TheModule)',
                        NEW c \in TheModule'[x].calls
                 PROVE  /\ TheModule'[c[1]].kind # "absent"
                        /\ TheModule'[c[1]].arity = c[2]
      BY DEF Closed
    <3>1. x \in Defined(m) /\ x \in Names /\ c \in m[x].calls
      BY <2>4, <2>5 DEF Defined
    <3>2. c[1] \in Names /\ m[c[1]].kind # "absent" /\ m[c[1]].arity = c[2]
      BY <2>2, <2>8, <3>1, CallIn DEF Closed
    <3> QED
      BY <2>5, <3>2
  <2> QED
    BY <1>1, <2>2, <2>6, <2>7, <2>8 DEF ClosedInv
<1> QED
  BY <1>2, <1>3

LEMMA FreshClosed == OnlyBodiesCall(FreshModule) /\ Closed(FreshModule)
BY DEF FreshModule, NoFn, OnlyBodiesCall, Closed, Defined

LEMMA InitClosed == Init => ClosedInv
BY InitArity, FreshClosed DEF Init, ClosedInv, CurDefined

LEMMA NextClosed == ClosedInv /\ [Next]_vars => ClosedInv'
<1> SUFFICES ASSUME ClosedInv, [Next]_vars PROVE ClosedInv'
  OBVIOUS
<1>0. TypeOK /\ ArityInv /\ ArityInv'
  BY NextArity DEF ClosedInv, ArityInv
<1>a. TheModule \in Module /\ cur \in Names
  BY <1>0 DEF TypeOK, Module
<1>1. CASE ParserError \/ Eof \/ EmitObject \/ UNCHANGED vars
  BY <1>0, <1>1 DEF ParserError, Eof, EmitObject, vars, progVars, ClosedInv,
                    CurDefined, OnlyBodiesCall, Closed, Defined
<1>2. ASSUME NEW n \in Externable, NEW a \in Sig[n], handleExtern(n, a)
      PROVE  ClosedInv'
  <2>1. n \in Names
    BY NameAssumption DEF Names
  <2>2. /\ TheModule' = IF TheModule[n].kind = "absent"
                        THEN Declare(TheModule, n, a) ELSE TheModule
        /\ pc = "loop" /\ UNCHANGED <<pc, dangling>>
    BY <1>2 DEF handleExtern
  <2>3. CASE TheModule[n].kind = "absent"
    <3>1. /\ TheModule'[n] = [kind |-> "declared", arity |-> a, calls |-> {}]
          /\ \A x \in Names \ {n} : TheModule'[x] = TheModule[x]
      BY <1>a, <2>1, <2>2, <2>3 DEF Declare, Module
    <3>2. OnlyBodiesCall(TheModule)'
      BY <3>1 DEF ClosedInv, OnlyBodiesCall
    <3>3. ASSUME Closed(TheModule) PROVE Closed(TheModule)'
      <4> SUFFICES ASSUME NEW x \in Defined(TheModule)',
                          NEW c \in TheModule'[x].calls
                   PROVE  /\ TheModule'[c[1]].kind # "absent"
                          /\ TheModule'[c[1]].arity = c[2]
        BY DEF Closed
      <4>1. x \in Defined(TheModule) /\ x \in Names
            /\ c \in TheModule[x].calls
        BY <3>1 DEF Defined
      <4>2. /\ c[1] \in Names /\ TheModule[c[1]].kind # "absent"
            /\ TheModule[c[1]].arity = c[2]
        BY <1>a, <3>3, <4>1, CallIn DEF Closed
      <4> QED
        BY <2>3, <3>1, <4>2
    <3> QED
      BY <1>0, <2>2, <3>2, <3>3 DEF ClosedInv, CurDefined
  <2>4. CASE TheModule[n].kind # "absent"
    BY <1>0, <2>2, <2>4
       DEF ClosedInv, CurDefined, OnlyBodiesCall, Closed, Defined
  <2> QED
    BY <2>3, <2>4
<1>3. ASSUME NEW n \in Named, NEW a \in Sig[n], handleDefinition(n, a)
      PROVE  ClosedInv'
  BY <1>3, FunctionCodegenClosed, SigAssumption DEF handleDefinition, Names
<1>4. CASE handleTopLevelExpression
  BY <1>4, FunctionCodegenClosed, ArityAssumption, NameAssumption
     DEF handleTopLevelExpression, Names, Arity
<1>5. ASSUME NEW n \in Named, NEW k \in Arity, CodegenCall(n, k)
      PROVE  ClosedInv'
  <2> DEFINE m == GetFunction(TheModule, FunctionProtos, n)
             c == <<n, k>>
  <2>1. pc = "body" /\ c \in Call /\ c[1] = n /\ c[2] = k
    BY <1>5 DEF CodegenCall, Call
  <2>2. /\ m \in Module /\ DeclaredAs(m) /\ CallsAs(m)
        /\ OnlyBodiesCall(m) /\ (Closed(TheModule) => Closed(m))
        /\ cur \in Defined(m)
    BY <2>1, LookupClosed
  <2>3. \/ Fail(m)
        \/ m[n].kind # "absent" /\ m[n].arity = k /\ Emit(m, c)
    BY <1>5 DEF CodegenCall
  <2> HIDE DEF m, c
  <2> QED
    BY <2>1, <2>2, <2>3, FailClosed, EmitClosed
<1>6. ASSUME NEW op \in Unary, CodegenUnary(op) PROVE ClosedInv'
  <2> DEFINE m == GetFunction(TheModule, FunctionProtos, op)
             c == <<op, 1>>
  <2>1. op \in Named /\ pc = "body" /\ c \in Call /\ c[1] = op /\ c[2] = 1
    BY <1>6, NameAssumption, ArityAssumption
       DEF CodegenUnary, Call, Named, Arity
  <2>2. /\ m \in Module /\ DeclaredAs(m) /\ CallsAs(m)
        /\ OnlyBodiesCall(m) /\ (Closed(TheModule) => Closed(m))
        /\ cur \in Defined(m)
    BY <2>1, LookupClosed
  <2>3. Fail(m) \/ (m[op].kind # "absent" /\ Emit(m, c))
    BY <1>6 DEF CodegenUnary
  <2>4. m[op].kind # "absent" => m[op].arity = 1
    BY <2>1, <2>2, SigAssumption DEF DeclaredAs
  <2> HIDE DEF m, c
  <2> QED
    BY <2>1, <2>2, <2>3, <2>4, FailClosed, EmitClosed
<1>7. ASSUME NEW op \in Binary, CodegenBinary(op) PROVE ClosedInv'
  <2> DEFINE m == GetFunction(TheModule, FunctionProtos, op)
             c == <<op, 2>>
  <2>1. op \in Named /\ pc = "body" /\ c \in Call /\ c[1] = op /\ c[2] = 2
    BY <1>7, NameAssumption, ArityAssumption
       DEF CodegenBinary, Call, Named, Arity
  <2>2. /\ m \in Module /\ DeclaredAs(m) /\ CallsAs(m)
        /\ OnlyBodiesCall(m) /\ (Closed(TheModule) => Closed(m))
        /\ cur \in Defined(m)
    BY <2>1, LookupClosed
  <2>3. Fail(m) \/ (m[op].kind # "absent" /\ Emit(m, c))
    BY <1>7 DEF CodegenBinary
  <2>4. m[op].kind # "absent" => m[op].arity = 2
    BY <2>1, <2>2, SigAssumption DEF DeclaredAs
  <2> HIDE DEF m, c
  <2> QED
    BY <2>1, <2>2, <2>3, <2>4, FailClosed, EmitClosed
<1>8. CASE CodegenThrow
  <2>1. pc = "body" /\ Fail(TheModule)
    BY <1>8 DEF CodegenThrow
  <2> QED
    BY <1>0, <1>a, <2>1, FailClosed DEF ClosedInv, ArityInv
<1>9. CASE FinishCompiled
  <2>1. TheModule' \in Optimised /\ pc' = "loop" /\ dangling' = dangling
    BY <1>9 DEF FinishCompiled
  <2>2. /\ \A x \in Names : /\ TheModule'[x].kind = TheModule[x].kind
                            /\ TheModule'[x].arity = TheModule[x].arity
                            /\ TheModule'[x].calls \subseteq TheModule[x].calls
        /\ Defined(TheModule') = Defined(TheModule)
    BY <1>0, <2>1, OptimisedLemma
  <2>3. OnlyBodiesCall(TheModule)'
    BY <2>2 DEF ClosedInv, OnlyBodiesCall
  <2>4. ASSUME Closed(TheModule) PROVE Closed(TheModule)'
    <3> SUFFICES ASSUME NEW x \in Defined(TheModule)',
                        NEW c \in TheModule'[x].calls
                 PROVE  /\ TheModule'[c[1]].kind # "absent"
                        /\ TheModule'[c[1]].arity = c[2]
      BY DEF Closed
    <3>1. x \in Defined(TheModule) /\ x \in Names /\ c \in TheModule[x].calls
      BY <2>2 DEF Defined
    <3>2. c[1] \in Names
      BY <1>a, <3>1, CallIn
    <3> QED
      BY <2>2, <2>4, <3>1, <3>2 DEF Closed
  <2> QED
    BY <1>0, <2>1, <2>3, <2>4 DEF ClosedInv, CurDefined
<1>10. CASE AddModuleFails \/ FinishDefinition \/ FinishExpression
  <2>1. TheModule' = FreshModule /\ pc' \in {"exit", "loop"}
    BY <1>10, Zenon DEF AddModuleFails, FinishDefinition, FinishExpression
  <2>2. OnlyBodiesCall(TheModule)' /\ Closed(TheModule)'
    BY <2>1, FreshClosed DEF OnlyBodiesCall, Closed, Defined
  <2> QED
    BY <1>0, <2>1, <2>2 DEF ClosedInv, CurDefined
<1> QED
  BY <1>1, <1>2, <1>3, <1>4, <1>5, <1>6, <1>7, <1>8, <1>9, <1>10 DEF Next

LEMMA CallsClosed == Spec => []ClosedInv
BY InitClosed, NextClosed, PTL DEF Spec

(* Every call of a body names a function of its own module and passes it    *)
(* the arguments it takes, with and without the JIT, through redeclarations *)
(* and failures, until the erasure of a failed function leaves a caller     *)
(* behind.                                                                  *)
THEOREM ModuleClosedThm == Spec => []ModuleClosed
<1>1. ClosedInv => ModuleClosed
  BY DEF ClosedInv, Closed, ModuleClosed
<1> QED
  BY <1>1, CallsClosed, PTL
-----------------------------------------------------------------------------
(***************************************************************************)
(* Why a callee can be missing from the JIT.  A name the session can call  *)
(* is known: it was declared extern, or a definition of it failed, or the  *)
(* JIT holds it, or it is the function whose body is being generated.      *)
(* Known names stay known: nothing but __anon_expr ever leaves the JIT.    *)
(***************************************************************************)
Known(x) == \/ x \in Externable \cup failed
            \/ MainJD[x].kind # "absent"
            \/ pc = "body" /\ x = cur

EntriesKnown(m) == \A x \in Named : m[x].kind # "absent" => Known(x)
CallsKnown(m)   == \A n \in Names : \A c \in m[n].calls : Known(c[1])
ProtosKnown     == \A x \in Named : FunctionProtos[x] # NoProto => Known(x)

KnownInv == /\ HandOverInv
            /\ useJIT => /\ ProtosKnown
                         /\ EntriesKnown(TheModule)
                         /\ CallsKnown(TheModule)
            /\ MissingExplained

(* Looking up a name changes neither the calls of a module nor the names    *)
(* its entries stand for beyond those with a prototype.                     *)
LEMMA LookupKnown ==
  ASSUME KnownInv, useJIT, NEW n \in Named
  PROVE  LET m == GetFunction(TheModule, FunctionProtos, n)
         IN /\ m \in Module /\ Defined(m) = Defined(TheModule)
            /\ EntriesKnown(m) /\ CallsKnown(m)
<1> DEFINE m == GetFunction(TheModule, FunctionProtos, n)
<1>1. /\ TheModule \in Module /\ FunctionProtos \in Protos /\ n \in Names
      /\ ProtosKnown /\ EntriesKnown(TheModule) /\ CallsKnown(TheModule)
  BY DEF KnownInv, HandOverInv, TypeOK, Module, Protos, Names
<1>2. m \in Module
  BY <1>1, GetFunctionLemma
<1>3. CASE TheModule[n].kind = "absent" /\ FunctionProtos[n] # NoProto
  <2>1. /\ m[n] = [kind |-> "declared", arity |-> FunctionProtos[n],
                   calls |-> {}]
        /\ \A x \in Names \ {n} : m[x] = TheModule[x]
    BY <1>1, <1>3, GetFunctionLemma
  <2> HIDE DEF m
  <2>2. Known(n)
    BY <1>1, <1>3 DEF ProtosKnown
  <2>3. EntriesKnown(m)
    BY <1>1, <2>1, <2>2 DEF EntriesKnown, Names
  <2>4. CallsKnown(m)
    BY <1>1, <2>1 DEF CallsKnown
  <2>5. Defined(m) = Defined(TheModule)
    BY <1>3, <2>1 DEF Defined
  <2> QED
    BY <1>2, <2>3, <2>4, <2>5 DEF m
<1>4. CASE ~(TheModule[n].kind = "absent" /\ FunctionProtos[n] # NoProto)
  BY <1>1, <1>2, <1>4 DEF GetFunction
<1> QED
  BY <1>3, <1>4

LEMMA FailKnown ==
  ASSUME KnownInv, pc = "body", NEW m \in Module,
         Defined(m) = Defined(TheModule),
         useJIT => EntriesKnown(m) /\ CallsKnown(m), Fail(m)
  PROVE  KnownInv'
<1>1. HandOverInv'
  BY FailHandOver DEF KnownInv
<1>2. /\ UNCHANGED <<useJIT, MainJD, FunctionProtos>>
      /\ failed' = failed \cup {cur} /\ cur \in Names
      /\ TheModule' = [m EXCEPT ![cur] = NoFn]
  BY DEF Fail, KnownInv, HandOverInv, TypeOK, Erased
<1>3. ASSUME NEW x, Known(x) PROVE Known(x)'
  BY <1>2, <1>3 DEF Known
<1>4. /\ TheModule'[cur] = NoFn
      /\ \A x \in Names \ {cur} : TheModule'[x] = m[x]
  BY <1>2 DEF Module
<1>5. ASSUME useJIT
      PROVE  ProtosKnown' /\ EntriesKnown(TheModule)' /\ CallsKnown(TheModule)'
  <2>1. ProtosKnown'
    BY <1>2, <1>3, <1>5 DEF KnownInv, ProtosKnown
  <2>2. EntriesKnown(TheModule)'
    BY <1>3, <1>4, <1>5 DEF EntriesKnown, NoFn, Names
  <2>3. CallsKnown(TheModule)'
    BY <1>3, <1>4, <1>5 DEF CallsKnown, NoFn
  <2> QED
    BY <2>1, <2>2, <2>3
<1>6. MissingExplained'
  BY <1>2 DEF KnownInv, MissingExplained, Defined
<1> QED
  BY <1>1, <1>2, <1>5, <1>6 DEF KnownInv

LEMMA EmitKnown ==
  ASSUME KnownInv, pc = "body", NEW m \in Module,
         Defined(m) = Defined(TheModule),
         useJIT => EntriesKnown(m) /\ CallsKnown(m),
         NEW c \in Call, m[c[1]].kind # "absent", Emit(m, c)
  PROVE  KnownInv'
<1>1. HandOverInv'
  BY EmitHandOver DEF KnownInv
<1>2. /\ UNCHANGED <<useJIT, MainJD, FunctionProtos, failed, pc, cur>>
      /\ TheModule' = EmitCall(m, cur, c) /\ cur \in Names /\ c[1] \in Named
  BY DEF Emit, KnownInv, HandOverInv, TypeOK, Call
<1>3. \A x : Known(x)' <=> Known(x)
  BY <1>2 DEF Known
<1>4. /\ TheModule'[cur].kind = m[cur].kind
      /\ TheModule'[cur].calls = m[cur].calls \cup {c}
      /\ \A x \in Names \ {cur} : TheModule'[x] = m[x]
  <2>1. m[cur] \in Fn
    BY <1>2 DEF Module
  <2>2. /\ TheModule'[cur] = [m[cur] EXCEPT !.calls = @ \cup {c}]
        /\ \A x \in Names \ {cur} : TheModule'[x] = m[x]
    BY <1>2, EmitCallLemma
  <2> QED
    BY <2>1, <2>2 DEF Fn
<1>5. ASSUME useJIT
      PROVE  ProtosKnown' /\ EntriesKnown(TheModule)' /\ CallsKnown(TheModule)'
  <2>1. ProtosKnown'
    BY <1>2, <1>3, <1>5 DEF KnownInv, ProtosKnown
  <2>2. EntriesKnown(TheModule)'
    BY <1>3, <1>4, <1>5 DEF EntriesKnown, Names
  <2>3. Known(c[1])
    BY <1>2, <1>5 DEF EntriesKnown
  <2>4. CallsKnown(TheModule)'
    BY <1>3, <1>4, <1>5, <2>3 DEF CallsKnown
  <2> QED
    BY <2>1, <2>2, <2>4
<1>6. MissingExplained'
  BY <1>2 DEF KnownInv, MissingExplained, Defined
<1> QED
  BY <1>1, <1>2, <1>5, <1>6 DEF KnownInv

LEMMA FunctionCodegenKnown ==
  ASSUME KnownInv, NEW n \in Names, NEW a \in Arity, FunctionCodegen(n, a)
  PROVE  KnownInv'
<1> DEFINE protos == [FunctionProtos EXCEPT ![n] = a]
           m == GetFunction(TheModule, protos, n)
<1>1. /\ HandOverInv' /\ TypeOK
      /\ protos \in Protos /\ TheModule \in Module /\ pc = "loop"
      /\ FunctionProtos' = protos
      /\ UNCHANGED <<useJIT, MainJD, failed>>
  BY FunctionCodegenHandOver
     DEF KnownInv, HandOverInv, TypeOK, Protos, Module, FunctionCodegen
<1>2. MissingExplained'
  BY <1>1 DEF KnownInv, MissingExplained, Defined
<1>3. /\ m \in Module
      /\ \A x \in Names \ {n} : m[x] = TheModule[x]
      /\ TheModule[n].kind # "absent" => m = TheModule
      /\ TheModule[n].kind = "absent" /\ protos[n] = NoProto => m = TheModule
      /\ TheModule[n].kind = "absent" /\ protos[n] # NoProto =>
           m[n] = [kind |-> "declared", arity |-> protos[n], calls |-> {}]
  <2> HIDE DEF protos
  <2> QED
    BY <1>1, GetFunctionLemma
<1>4. \A x \in Names \ {n} : protos[x] = FunctionProtos[x]
  BY <1>1 DEF Protos, TypeOK
<1>5. ASSUME useJIT
      PROVE  ProtosKnown' /\ EntriesKnown(TheModule)' /\ CallsKnown(TheModule)'
  <2>1. TheModule[n].kind # "defined"
    BY <1>1, <1>5 DEF KnownInv, HandOverInv, BodiesHandedOver
  <2>2. Empty(m[n])
    <3> HIDE DEF protos, m
    <3> QED
      BY <1>3, <2>1 DEF Empty
  <2>3. TheModule' = [m EXCEPT ![n].kind = "defined"]
        /\ pc' = "body" /\ cur' = n
    BY <2>2 DEF FunctionCodegen
  <2>4. ASSUME NEW x, Known(x) PROVE Known(x)'
    BY <1>1, <2>4 DEF Known
  <2>5. Known(n)'
    BY <2>3 DEF Known
  <2> HIDE DEF m, protos
  <2>6. m[n].calls = TheModule[n].calls \/ m[n].calls = {}
    BY <1>3
  <2>7. /\ \A x \in Names \ {n} : TheModule'[x] = TheModule[x]
        /\ TheModule'[n].calls = m[n].calls
    BY <1>3, <2>3 DEF Module, Fn
  <2>8. ProtosKnown'
    BY <1>1, <1>4, <1>5, <2>4, <2>5 DEF KnownInv, ProtosKnown, Names
  <2>9. EntriesKnown(TheModule)'
    BY <1>5, <2>4, <2>5, <2>7 DEF KnownInv, EntriesKnown, Names
  <2>10. CallsKnown(TheModule)'
    BY <1>5, <2>4, <2>6, <2>7 DEF KnownInv, CallsKnown
  <2> QED
    BY <2>8, <2>9, <2>10
<1> QED
  BY <1>1, <1>2, <1>5 DEF KnownInv

LEMMA FreshKnown == EntriesKnown(FreshModule) /\ CallsKnown(FreshModule)
BY DEF FreshModule, NoFn, EntriesKnown, CallsKnown, Names

(* Handing the body over keeps every known name known, and the calls of the *)
(* body are to known names.                                                 *)
LEMMA AddedKnown ==
  ASSUME KnownInv, useJIT, pc = "body", NEW m \in Optimised
  PROVE  LET jd == Added(m)
         IN /\ Defined(m) = {cur}
            /\ jd[cur].kind = "defined"
            /\ \A x \in Names \ {cur} : jd[x] = MainJD[x]
            /\ \A x \in Names : Known(x) =>
                 x \in Externable \cup failed \/ jd[x].kind # "absent"
            /\ \A n \in Defined(jd) : \A c \in jd[n].calls :
                 jd[c[1]].kind = "absent" => c[1] \in Externable \cup failed
<1> DEFINE jd == Added(m)
<1>1. /\ TypeOK /\ cur \in Names /\ CallsKnown(TheModule)
      /\ TheModule \in Module /\ MainJD \in Module
  BY DEF KnownInv, HandOverInv, TypeOK, Module
<1>2. Defined(m) = {cur} /\ m[cur].calls \subseteq TheModule[cur].calls
  BY <1>1, OptimisedLemma, HandedOverSet DEF KnownInv, HandOverInv
<1>3. m[cur].kind = "defined"
  BY <1>2 DEF Defined
<1>4. jd[cur] = m[cur] /\ \A x \in Names \ {cur} : jd[x] = MainJD[x]
  BY <1>1, <1>2 DEF Added
<1> HIDE DEF jd
<1>5. \A x \in Names : Known(x) =>
        x \in Externable \cup failed \/ jd[x].kind # "absent"
  BY <1>3, <1>4 DEF Known
<1>6. ASSUME NEW n \in Defined(jd), NEW c \in jd[n].calls,
             jd[c[1]].kind = "absent"
      PROVE  c[1] \in Externable \cup failed
  <2>1. CASE n = cur
    <3>1. c \in TheModule[cur].calls
      BY <1>2, <1>4, <2>1
    <3>2. c[1] \in Names /\ Known(c[1])
      BY <1>1, <3>1, CallIn DEF CallsKnown
    <3> QED
      BY <1>5, <1>6, <3>2
  <2>2. CASE n # cur
    <3>1. n \in Names /\ n \in Defined(MainJD) /\ c \in MainJD[n].calls
      BY <1>4, <2>2 DEF Defined
    <3>2. c[1] \in Names
      BY <1>1, <3>1, CallIn
    <3>3. c[1] # cur /\ MainJD[c[1]].kind = "absent"
      BY <1>3, <1>4, <1>6, <3>2
    <3> QED
      BY <3>1, <3>3 DEF KnownInv, MissingExplained
  <2> QED
    BY <2>1, <2>2
<1> QED
  BY <1>2, <1>3, <1>4, <1>5, <1>6 DEF jd

LEMMA InitKnown == Init => KnownInv
<1> SUFFICES ASSUME Init PROVE KnownInv
  OBVIOUS
<1>1. HandOverInv
  BY InitHandOver
<1>2. ProtosKnown /\ EntriesKnown(TheModule) /\ CallsKnown(TheModule)
  BY FreshKnown DEF Init, ProtosKnown, Names
<1>3. Defined(MainJD) = {}
  BY DEF Init, Defined, AbsoluteSymbol, NoFn
<1> QED
  BY <1>1, <1>2, <1>3 DEF KnownInv, MissingExplained

LEMMA NextKnown == KnownInv /\ [Next]_vars => KnownInv'
<1> SUFFICES ASSUME KnownInv, [Next]_vars PROVE KnownInv'
  OBVIOUS
<1>0. /\ HandOverInv /\ HandOverInv' /\ TypeOK
      /\ TheModule \in Module /\ cur \in Names
  BY NextHandOver DEF KnownInv, HandOverInv, TypeOK, Module
<1>1. CASE ParserError \/ Eof \/ EmitObject \/ UNCHANGED vars
  <2>1. /\ UNCHANGED <<useJIT, MainJD, FunctionProtos, failed, TheModule, cur>>
        /\ pc = "body" => pc' = pc
    BY <1>1 DEF ParserError, Eof, EmitObject, vars, progVars
  <2>2. ASSUME NEW x, Known(x) PROVE Known(x)'
    BY <2>1, <2>2 DEF Known
  <2> QED
    BY <1>0, <2>1, <2>2 DEF KnownInv, ProtosKnown, EntriesKnown, CallsKnown,
                            MissingExplained, Defined
<1>2. ASSUME NEW n \in Externable, NEW a \in Sig[n], handleExtern(n, a)
      PROVE  KnownInv'
  <2>1. n \in Names /\ n \in Named
    BY NameAssumption DEF Names
  <2>2. /\ FunctionProtos' = [FunctionProtos EXCEPT ![n] = a]
        /\ TheModule' = IF TheModule[n].kind = "absent"
                        THEN Declare(TheModule, n, a) ELSE TheModule
        /\ UNCHANGED <<useJIT, MainJD, failed, pc, cur>>
    BY <1>2 DEF handleExtern
  <2>3. /\ \A x \in Names \ {n} : /\ TheModule'[x] = TheModule[x]
                                  /\ FunctionProtos'[x] = FunctionProtos[x]
        /\ TheModule'[n].calls \subseteq TheModule[n].calls
    BY <1>0, <2>1, <2>2 DEF Declare, Module, TypeOK
  <2>4. (\A x : Known(x)' <=> Known(x)) /\ Known(n)
    BY <2>2 DEF Known
  <2>5. ASSUME useJIT
        PROVE  ProtosKnown' /\ EntriesKnown(TheModule)'
               /\ CallsKnown(TheModule)'
    BY <2>3, <2>4, <2>5
       DEF KnownInv, ProtosKnown, EntriesKnown, CallsKnown, Names
  <2>6. MissingExplained'
    BY <2>2 DEF KnownInv, MissingExplained, Defined
  <2> QED
    BY <1>0, <2>2, <2>5, <2>6 DEF KnownInv
<1>3. ASSUME NEW n \in Named, NEW a \in Sig[n], handleDefinition(n, a)
      PROVE  KnownInv'
  BY <1>3, FunctionCodegenKnown, SigAssumption DEF handleDefinition, Names
<1>4. CASE handleTopLevelExpression
  BY <1>4, FunctionCodegenKnown, ArityAssumption
     DEF handleTopLevelExpression, Names, Arity
<1>a. ASSUME NEW n \in Named
      PROVE  LET m == GetFunction(TheModule, FunctionProtos, n)
             IN /\ m \in Module /\ Defined(m) = Defined(TheModule)
                /\ useJIT => EntriesKnown(m) /\ CallsKnown(m)
  <2>1. n \in Names /\ FunctionProtos \in Protos
    BY <1>0 DEF Names, TypeOK, Protos
  <2>2. <<n, 2>> \in Call
    BY ArityAssumption DEF Call
  <2> QED
    BY <1>0, <2>1, <2>2, GetFunctionLemma, DefinedUnchanged, LookupKnown
<1>5. ASSUME NEW n \in Named, NEW k \in Arity, CodegenCall(n, k)
      PROVE  KnownInv'
  <2> DEFINE m == GetFunction(TheModule, FunctionProtos, n)
             c == <<n, k>>
  <2>1. pc = "body" /\ c \in Call /\ c[1] = n
    BY <1>5 DEF CodegenCall, Call
  <2>2. Fail(m) \/ (m[n].kind # "absent" /\ Emit(m, c))
    BY <1>5 DEF CodegenCall
  <2>3. /\ m \in Module /\ Defined(m) = Defined(TheModule)
        /\ useJIT => EntriesKnown(m) /\ CallsKnown(m)
    BY <1>a
  <2> HIDE DEF m, c
  <2> QED
    BY <2>1, <2>2, <2>3, FailKnown, EmitKnown
<1>6. ASSUME NEW op \in Unary, CodegenUnary(op) PROVE KnownInv'
  <2> DEFINE m == GetFunction(TheModule, FunctionProtos, op)
             c == <<op, 1>>
  <2>1. op \in Named /\ pc = "body" /\ c \in Call /\ c[1] = op
    BY <1>6, NameAssumption, ArityAssumption
       DEF CodegenUnary, Call, Named, Arity
  <2>2. Fail(m) \/ (m[op].kind # "absent" /\ Emit(m, c))
    BY <1>6 DEF CodegenUnary
  <2>3. /\ m \in Module /\ Defined(m) = Defined(TheModule)
        /\ useJIT => EntriesKnown(m) /\ CallsKnown(m)
    BY <1>a, <2>1
  <2> HIDE DEF m, c
  <2> QED
    BY <2>1, <2>2, <2>3, FailKnown, EmitKnown
<1>7. ASSUME NEW op \in Binary, CodegenBinary(op) PROVE KnownInv'
  <2> DEFINE m == GetFunction(TheModule, FunctionProtos, op)
             c == <<op, 2>>
  <2>1. op \in Named /\ pc = "body" /\ c \in Call /\ c[1] = op
    BY <1>7, NameAssumption, ArityAssumption
       DEF CodegenBinary, Call, Named, Arity
  <2>2. Fail(m) \/ (m[op].kind # "absent" /\ Emit(m, c))
    BY <1>7 DEF CodegenBinary
  <2>3. /\ m \in Module /\ Defined(m) = Defined(TheModule)
        /\ useJIT => EntriesKnown(m) /\ CallsKnown(m)
    BY <1>a, <2>1
  <2> HIDE DEF m, c
  <2> QED
    BY <2>1, <2>2, <2>3, FailKnown, EmitKnown
<1>8. CASE CodegenThrow
  <2>1. pc = "body" /\ Fail(TheModule)
    BY <1>8 DEF CodegenThrow
  <2> QED
    BY <1>0, <2>1, FailKnown DEF KnownInv
<1>9. CASE FinishCompiled
  BY <1>0, <1>9 DEF FinishCompiled, KnownInv, MissingExplained, Defined
<1>10. CASE AddModuleFails
  <2>1. Defined(TheModule) = {cur} /\ MainJD[cur].kind # "absent"
    BY <1>0, <1>10, HandedOverSet DEF AddModuleFails, Clash, HandOverInv
  <2>2. /\ UNCHANGED <<useJIT, MainJD, FunctionProtos, failed>>
        /\ TheModule' = FreshModule /\ useJIT
    BY <1>10 DEF AddModuleFails
  <2>3. ASSUME NEW x, Known(x) PROVE Known(x)'
    BY <2>1, <2>2, <2>3 DEF Known
  <2>4. ProtosKnown' /\ EntriesKnown(TheModule)' /\ CallsKnown(TheModule)'
    BY <2>2, <2>3 DEF KnownInv, ProtosKnown, EntriesKnown, CallsKnown,
                      FreshModule, NoFn, Names
  <2> QED
    BY <1>0, <2>2, <2>4 DEF KnownInv, MissingExplained, Defined
<1>11. CASE FinishDefinition
  <2>1. PICK m \in Optimised : MainJD' = Added(m)
    BY <1>11 DEF FinishDefinition
  <2>2. /\ UNCHANGED <<useJIT, FunctionProtos, failed>> /\ useJIT
        /\ pc = "body" /\ TheModule' = FreshModule
    BY <1>11 DEF FinishDefinition
  <2>3. /\ \A x \in Names : Known(x) =>
             x \in Externable \cup failed \/ MainJD'[x].kind # "absent"
        /\ \A n \in Defined(MainJD') : \A c \in MainJD'[n].calls :
             MainJD'[c[1]].kind = "absent" => c[1] \in Externable \cup failed
    BY <2>1, <2>2, AddedKnown
  <2>4. ASSUME NEW x \in Names, Known(x) PROVE Known(x)'
    BY <2>2, <2>3, <2>4 DEF Known
  <2>5. ProtosKnown' /\ EntriesKnown(TheModule)' /\ CallsKnown(TheModule)'
    BY <2>2, <2>4 DEF KnownInv, ProtosKnown, EntriesKnown, CallsKnown,
                      FreshModule, NoFn, Names
  <2>6. MissingExplained'
    BY <2>2, <2>3 DEF MissingExplained, Defined
  <2> QED
    BY <1>0, <2>5, <2>6 DEF KnownInv
<1>12. CASE FinishExpression
  <2>1. PICK m \in Optimised :
          \/ MainJD' = Removed(Generated(Added(m), Linked(Added(m))), m)
          \/ MainJD' = Added(m)
    BY <1>12, Zenon DEF FinishExpression
  <2>2. /\ UNCHANGED <<useJIT, FunctionProtos, failed>> /\ useJIT
        /\ pc = "body" /\ TheModule' = FreshModule /\ cur = Anon
        /\ cur \notin Named
    BY <1>12, NameAssumption DEF FinishExpression
  <2> DEFINE jd == Added(m)
             gd == Generated(jd, Linked(jd))
  <2>3. /\ Defined(m) = {cur}
        /\ \A x \in Names : Known(x) =>
             x \in Externable \cup failed \/ jd[x].kind # "absent"
        /\ \A n \in Defined(jd) : \A c \in jd[n].calls :
             jd[c[1]].kind = "absent" => c[1] \in Externable \cup failed
        /\ jd \in Module
    <3>1. m \in Module /\ MainJD \in Module
      BY <1>0, OptimisedLemma DEF TypeOK, Module
    <3> QED
      BY <2>2, <3>1, AddedKnown, JITLemma
  <2> HIDE DEF jd
  <2>4. \A x \in Names : \/ gd[x] = jd[x]
                         \/ gd[x] = AbsoluteSymbol /\ jd[x].kind = "absent"
    BY DEF Generated
  <2> HIDE DEF gd
  <2>5. \/ MainJD' = jd
        \/ /\ \A x \in Names \ {cur} : MainJD'[x] = gd[x]
           /\ MainJD'[cur] = NoFn
    BY <1>0, <2>1, <2>3 DEF Removed, jd, gd
  <2>6. \A x \in Named : jd[x].kind # "absent" => MainJD'[x].kind # "absent"
    BY <2>2, <2>4, <2>5 DEF Names, AbsoluteSymbol
  <2>7. ASSUME NEW x \in Named, Known(x) PROVE Known(x)'
    BY <2>2, <2>3, <2>6, <2>7 DEF Known, Names
  <2>8. ProtosKnown' /\ EntriesKnown(TheModule)' /\ CallsKnown(TheModule)'
    BY <2>2, <2>7 DEF KnownInv, ProtosKnown, EntriesKnown, CallsKnown,
                      FreshModule, NoFn, Names
  <2>9. MissingExplained'
    <3> SUFFICES ASSUME NEW n \in Defined(MainJD'), NEW c \in MainJD'[n].calls,
                        MainJD'[c[1]].kind = "absent"
                 PROVE  c[1] \in Externable \cup failed
      BY <2>2 DEF MissingExplained, Defined
    <3>1. n \in Defined(jd) /\ n \in Names /\ c \in jd[n].calls
      BY <2>4, <2>5 DEF Defined, NoFn, AbsoluteSymbol
    <3>2. c[1] \in Named
      BY <2>3, <3>1, CallIn
    <3>3. jd[c[1]].kind = "absent"
      BY <2>6, <3>2
    <3> QED
      BY <2>3, <3>1, <3>3
  <2> QED
    BY <1>0, <2>8, <2>9 DEF KnownInv
<1> QED
  BY <1>1, <1>2, <1>3, <1>4, <1>5, <1>6, <1>7, <1>8, <1>9, <1>10, <1>11,
     <1>12 DEF Next

(* Code in the JIT calls only what is in the JIT, unless the name was       *)
(* declared extern or a definition of it failed: "Symbols not found" ends   *)
(* no other session.                                                        *)
THEOREM MissingExplainedThm == Spec => []MissingExplained
<1>1. KnownInv => MissingExplained
  BY DEF KnownInv
<1> QED
  BY <1>1, InitKnown, NextKnown, PTL DEF Spec
-----------------------------------------------------------------------------
(***************************************************************************)
(* "Symbols not found".  What lookup links beyond __anon_expr is called by *)
(* something in the JIT, so MissingExplained says what was missing.        *)
(***************************************************************************)
UnresolvedExplained == out = "unresolved" => Externable \cup failed # {}

UnresolvedInv == KnownInv /\ OnlyBodiesCall(MainJD) /\ UnresolvedExplained

(* Linking is by need: a linked function other than __anon_expr has a       *)
(* caller in the JIT.                                                       *)
LEMMA LinkedCalled ==
  ASSUME NEW jd \in Module, NEW x \in Linked(jd), x # Anon
  PROVE  \E n \in Names : \E c \in jd[n].calls : c[1] = x
<1> DEFINE S == Names \ {x}
<1> SUFFICES ASSUME \A n \in Names : \A c \in jd[n].calls : c[1] # x
             PROVE  FALSE
  OBVIOUS
<1>1. Anon \in S /\ S \in SUBSET Names
  BY DEF Names
<1>2. Callees(jd, S) \subseteq S
  <2> SUFFICES ASSUME NEW n \in S, NEW c \in jd[n].calls PROVE c[1] \in S
    BY DEF Callees
  <2> QED
    BY CallIn
<1>3. x \in S
  BY <1>1, <1>2 DEF Linked
<1> QED
  BY <1>3

LEMMA NextUnresolved == UnresolvedInv /\ [Next]_vars => UnresolvedInv'
<1> SUFFICES ASSUME UnresolvedInv, [Next]_vars PROVE UnresolvedInv'
  OBVIOUS
<1>0. KnownInv /\ KnownInv' /\ TypeOK /\ TheModule \in Module
      /\ MainJD \in Module
  BY NextKnown DEF UnresolvedInv, KnownInv, HandOverInv, TypeOK, Module
<1>1. ASSUME MainJD' = MainJD, failed \subseteq failed',
             out' = "unresolved" => out = "unresolved"
      PROVE  UnresolvedInv'
  BY <1>0, <1>1 DEF UnresolvedInv, OnlyBodiesCall, UnresolvedExplained
<1>2. CASE FinishDefinition
  <2>1. PICK m \in Optimised : MainJD' = Added(m)
    BY <1>2 DEF FinishDefinition
  <2>2. out' = "def"
    BY <1>2 DEF FinishDefinition
  <2>3. OnlyBodiesCall(MainJD')
    BY <2>1 DEF UnresolvedInv, OnlyBodiesCall, Added, Defined
  <2> QED
    BY <1>0, <2>2, <2>3 DEF UnresolvedInv, OnlyBodiesCall, UnresolvedExplained
<1>3. CASE FinishExpression
  <2>1. PICK m \in Optimised :
          \/ /\ out' = "evaluated"
             /\ MainJD' = Removed(Generated(Added(m), Linked(Added(m))), m)
          \/ /\ Unresolved(Added(m)) # {}
             /\ MainJD' = Added(m)
    BY <1>3, Zenon DEF FinishExpression
  <2>2. useJIT /\ pc = "body" /\ failed' = failed /\ cur = Anon
    BY <1>3 DEF FinishExpression
  <2> DEFINE jd == Added(m)
             gd == Generated(jd, Linked(jd))
  <2>3. jd \in Module
    BY <1>0, OptimisedLemma, JITLemma
  <2>4. OnlyBodiesCall(jd)
    BY DEF UnresolvedInv, OnlyBodiesCall, Added, Defined
  <2>5. /\ jd[cur].kind = "defined"
        /\ \A n \in Defined(jd) : \A c \in jd[n].calls :
             jd[c[1]].kind = "absent" => c[1] \in Externable \cup failed
    BY <1>0, <2>2, AddedKnown
  <2> HIDE DEF jd
  <2>6. OnlyBodiesCall(gd)
    BY <2>4 DEF OnlyBodiesCall, Generated, AbsoluteSymbol
  <2> HIDE DEF gd
  <2>7. OnlyBodiesCall(Removed(gd, m))
    BY <2>6 DEF OnlyBodiesCall, Removed, NoFn
  <2>8. OnlyBodiesCall(MainJD')
    BY <2>1, <2>4, <2>7 DEF jd, gd
  <2>9. ASSUME Unresolved(jd) # {} PROVE Externable \cup failed # {}
    <3>1. PICK x \in Linked(jd) : jd[x].kind = "absent"
      BY <2>9 DEF Unresolved
    <3>2. x # Anon
      BY <2>2, <2>5, <3>1
    <3>3. PICK n \in Names : \E c \in jd[n].calls : c[1] = x
      BY <2>3, <3>2, LinkedCalled
    <3>4. n \in Defined(jd)
      BY <2>4, <3>3 DEF OnlyBodiesCall, Defined
    <3> QED
      BY <2>5, <3>1, <3>3, <3>4
  <2>10. UnresolvedExplained'
    BY <2>1, <2>2, <2>9 DEF UnresolvedExplained, jd
  <2> QED
    BY <1>0, <2>8, <2>10 DEF UnresolvedInv, OnlyBodiesCall
<1>4. ASSUME NEW n \in Externable, NEW a \in Sig[n], handleExtern(n, a)
      PROVE  UnresolvedInv'
  BY <1>1, <1>4 DEF handleExtern
<1>5. ASSUME NEW n \in Named, NEW a \in Sig[n], handleDefinition(n, a)
      PROVE  UnresolvedInv'
  BY <1>1, <1>5 DEF handleDefinition, FunctionCodegen
<1>6. CASE handleTopLevelExpression
  BY <1>1, <1>6 DEF handleTopLevelExpression, FunctionCodegen
<1>7. ASSUME NEW n \in Named, NEW k \in Arity, CodegenCall(n, k)
      PROVE  UnresolvedInv'
  BY <1>1, <1>7 DEF CodegenCall, Fail, Emit
<1>8. ASSUME NEW op \in Unary, CodegenUnary(op) PROVE UnresolvedInv'
  BY <1>1, <1>8 DEF CodegenUnary, Fail, Emit
<1>9. ASSUME NEW op \in Binary, CodegenBinary(op) PROVE UnresolvedInv'
  BY <1>1, <1>9 DEF CodegenBinary, Fail, Emit
<1>10. CASE CodegenThrow
  BY <1>1, <1>10 DEF CodegenThrow, Fail
<1>11. CASE \/ ParserError \/ FinishCompiled \/ AddModuleFails \/ Eof
            \/ EmitObject \/ UNCHANGED vars
  BY <1>1, <1>11 DEF ParserError, FinishCompiled, AddModuleFails, Eof,
     EmitObject, vars, progVars
<1> QED
  BY <1>2, <1>3, <1>4, <1>5, <1>6, <1>7, <1>8, <1>9, <1>10, <1>11 DEF Next

(* A session whose input declares nothing extern and of whose definitions   *)
(* none failed does not end with "Symbols not found".                       *)
THEOREM UnresolvedExplainedThm == Spec => []UnresolvedExplained
<1>1. Init => UnresolvedInv
  BY InitKnown DEF Init, UnresolvedInv, OnlyBodiesCall, UnresolvedExplained,
                   AbsoluteSymbol, NoFn
<1>2. UnresolvedInv => UnresolvedExplained
  BY DEF UnresolvedInv
<1> QED
  BY <1>1, <1>2, NextUnresolved, PTL DEF Spec

-----------------------------------------------------------------------------
(***************************************************************************)
(* A session implements the write-once environment of module Definitions:  *)
(* under the refinement mapping of Session, the initial states are initial *)
(* states of it and every step is one of its steps or changes none of its  *)
(* variables.                                                              *)
(***************************************************************************)

\* What the step simulation needs to know of the states it starts from.
SimInv == HandOverInv /\ CurDefined

LEMMA SimInvariant == Spec => []SimInv
<1>1. ClosedInv /\ HandOverInv => SimInv
  BY DEF ClosedInv, SimInv
<1> QED
  BY <1>1, CallsClosed, HandOver, PTL

(* The definitions in force, by mode.                                       *)
LEMMA InForceIn ==
  ASSUME SimInv
  PROVE  /\ useJIT => InForce = Defined(MainJD) \cap Named
         /\ ~useJIT => InForce = (Defined(TheModule) \cap Named)
                                   \ (IF pc = "body" THEN {cur} ELSE {})
BY DEF InForce, Body, Defined, Names

(* No definition in force changes.                                          *)
LEMMA AcceptedSame ==
  ASSUME InForce' = InForce, \A n \in InForce : Body(n)' = Body(n)
  PROVE  Accepted' = Accepted
BY DEF Accepted

(* With the JIT only the hand-over to it matters.                           *)
LEMMA JITSame ==
  ASSUME useJIT, UNCHANGED <<useJIT, MainJD>>
  PROVE  Accepted' = Accepted
<1>1. InForce' = InForce
  BY DEF InForce, Body
<1>2. \A n \in InForce : Body(n)' = Body(n)
  BY DEF Body
<1> QED
  BY <1>1, <1>2, AcceptedSame

(* Without it, nothing changes as long as the defined functions other than  *)
(* the current one, before and after, are the same.                         *)
LEMMA CompiledSame ==
  ASSUME ~useJIT, UNCHANGED useJIT,
         \A n \in Named :
           LET old == TheModule[n].kind = "defined" /\ ~(pc = "body" /\ n = cur)
               new == TheModule'[n].kind = "defined"
                        /\ ~(pc' = "body" /\ n = cur')
           IN (old <=> new) /\ (old => TheModule'[n] = TheModule[n])
  PROVE  Accepted' = Accepted
<1>1. InForce' = InForce
  BY DEF InForce, Body
<1>2. \A n \in InForce : Body(n)' = Body(n)
  BY DEF InForce, Body
<1> QED
  BY <1>1, <1>2, AcceptedSame

LEMMA InitSim == Init => Env!Init
<1> SUFFICES ASSUME Init PROVE Env!Init
  OBVIOUS
<1>1. InForce = {}
  BY DEF Init, InForce, Body, FreshModule, NoFn, AbsoluteSymbol, Names
<1>2. Accepted = <<>>
  BY <1>1 DEF Accepted
<1> QED
  BY <1>2 DEF Init, Env!Init
-----------------------------------------------------------------------------
(* The three kinds of step.                                                 *)
Alive == pc \notin {"exit", "done"}

LEMMA StutterStep ==
  ASSUME Accepted' = Accepted, out' = out, Alive' = Alive
  PROVE  [Env!Next]_(Env!vars)
BY DEF Env!vars, Alive

LEMMA AnswerStep ==
  ASSUME Alive, Accepted' = Accepted, out' \in Replies, out' # "def"
  PROVE  [Env!Next]_(Env!vars)
<1>1. Env!Answer(out')
  BY DEF Env!Answer, Alive
<1> QED
  BY <1>1 DEF Env!Next

LEMMA AcceptStep ==
  ASSUME Alive, Alive', NEW n \in Named, n \notin InForce,
         InForce' = InForce \cup {n}, \A x \in InForce : Body(x)' = Body(x),
         out' = "def"
  PROVE  [Env!Next]_(Env!vars)
<1>1. /\ DOMAIN Accepted = InForce
      /\ DOMAIN Accepted' = InForce \cup {n}
      /\ \A x \in InForce : Accepted'[x] = Accepted[x]
  BY DEF Accepted
<1>2. Env!Accept(n)
  BY <1>1 DEF Env!Accept, Alive
<1> QED
  BY <1>2 DEF Env!Next

(* FunctionAST::codegen up to the body takes nothing from the environment   *)
(* and adds nothing to it yet.                                              *)
LEMMA FunctionCodegenStep ==
  ASSUME SimInv, NEW n \in Names, NEW a \in Arity, FunctionCodegen(n, a)
  PROVE  [Env!Next]_(Env!vars)
<1> DEFINE protos == [FunctionProtos EXCEPT ![n] = a]
           m == GetFunction(TheModule, protos, n)
<1>1. /\ TypeOK /\ TheModule \in Module /\ protos \in Protos
      /\ pc = "loop" /\ UNCHANGED <<useJIT, MainJD>>
  BY DEF SimInv, HandOverInv, TypeOK, Module, Protos, FunctionCodegen
<1>2. \/ /\ out' = "error"
         /\ UNCHANGED <<pc, cur, TheModule>>
      \/ /\ Empty(m[n])
         /\ TheModule' = [m EXCEPT ![n].kind = "defined"]
         /\ pc' = "body" /\ cur' = n /\ out' = out
  BY DEF FunctionCodegen
<1>3. m \in Module /\ (\A x \in Names \ {n} : m[x] = TheModule[x])
      /\ (TheModule[n].kind # "absent" => m = TheModule)
  <2> HIDE DEF protos
  <2> QED
    BY <1>1, GetFunctionLemma
<1> HIDE DEF m, protos
<1>4. Accepted' = Accepted
  <2>1. CASE useJIT
    BY <1>1, <2>1, JITSame
  <2>2. CASE ~useJIT
    <3>1. CASE UNCHANGED <<pc, cur, TheModule>>
      BY <1>1, <2>2, <3>1, CompiledSame
    <3>2. CASE /\ Empty(m[n])
               /\ TheModule' = [m EXCEPT ![n].kind = "defined"]
               /\ pc' = "body" /\ cur' = n
      <4>1. \A x \in Names \ {n} : TheModule'[x] = TheModule[x]
        BY <1>3, <3>2 DEF Module
      <4>2. TheModule[n].kind # "defined"
        BY <1>3, <3>2 DEF Empty
      <4> QED
        BY <1>1, <2>2, <3>2, <4>1, <4>2, CompiledSame DEF Names
    <3> QED
      BY <1>2, <3>1, <3>2
  <2> QED
    BY <2>1, <2>2
<1>5. CASE out' = "error"
  BY <1>1, <1>4, <1>5, AnswerStep DEF Alive, Replies
<1>6. CASE pc' = "body" /\ out' = out
  BY <1>1, <1>4, <1>6, StutterStep DEF Alive
<1> QED
  BY <1>2, <1>5, <1>6

(* Generating a call changes the body under construction and adds           *)
(* declarations; failing takes that body away again.                        *)
LEMMA FailStep ==
  ASSUME SimInv, pc = "body", NEW m \in Module,
         Defined(m) = Defined(TheModule),
         \A x \in Defined(m) : m[x] = TheModule[x], Fail(m)
  PROVE  [Env!Next]_(Env!vars)
<1>1. /\ UNCHANGED <<useJIT, MainJD>> /\ out' = "error" /\ cur \in Names
      /\ pc' \in {"loop", "exit"} /\ TheModule' = [m EXCEPT ![cur] = NoFn]
  BY DEF SimInv, HandOverInv, TypeOK, Fail, Erased
<1>2. /\ TheModule'[cur].kind = "absent"
      /\ \A x \in Names \ {cur} : TheModule'[x] = m[x]
  BY <1>1 DEF Module, NoFn
<1>3. Accepted' = Accepted
  <2>1. CASE useJIT
    BY <1>1, <2>1, JITSame
  <2>2. CASE ~useJIT
    <3>1. \A x \in Names : /\ m[x].kind = "defined"
                                <=> TheModule[x].kind = "defined"
                           /\ m[x].kind = "defined" => m[x] = TheModule[x]
      BY DEF Defined
    <3> QED
      BY <1>1, <1>2, <2>2, <3>1, CompiledSame DEF Names
  <2> QED
    BY <2>1, <2>2
<1> QED
  BY <1>1, <1>3, AnswerStep DEF Alive, Replies

LEMMA EmitStep ==
  ASSUME SimInv, pc = "body", NEW m \in Module,
         Defined(m) = Defined(TheModule),
         \A x \in Defined(m) : m[x] = TheModule[x], NEW c \in Call, Emit(m, c)
  PROVE  [Env!Next]_(Env!vars)
<1>1. /\ UNCHANGED <<useJIT, MainJD, pc, cur, out>> /\ cur \in Names
      /\ TheModule' = EmitCall(m, cur, c)
  BY DEF SimInv, HandOverInv, TypeOK, Emit
<1>2. \A x \in Names \ {cur} : TheModule'[x] = m[x]
  BY <1>1 DEF EmitCall, Module
<1>3. Accepted' = Accepted
  <2>1. CASE useJIT
    BY <1>1, <2>1, JITSame
  <2>2. CASE ~useJIT
    <3>1. \A x \in Names : /\ m[x].kind = "defined"
                                <=> TheModule[x].kind = "defined"
                           /\ m[x].kind = "defined" => m[x] = TheModule[x]
      BY DEF Defined
    <3> QED
      BY <1>1, <1>2, <2>2, <3>1, CompiledSame DEF Names
  <2> QED
    BY <2>1, <2>2
<1> QED
  BY <1>1, <1>3, StutterStep DEF Alive

(* A lookup leaves the definitions of the module as they are.               *)
LEMMA LookupSame ==
  ASSUME SimInv, NEW n \in Named
  PROVE  LET m == GetFunction(TheModule, FunctionProtos, n)
         IN /\ m \in Module /\ Defined(m) = Defined(TheModule)
            /\ \A x \in Defined(m) : m[x] = TheModule[x]
<1> DEFINE m == GetFunction(TheModule, FunctionProtos, n)
<1>1. TheModule \in Module /\ FunctionProtos \in Protos /\ n \in Names
  BY DEF SimInv, HandOverInv, TypeOK, Module, Protos, Names
<1>2. m \in Module
  BY <1>1, GetFunctionLemma
<1>3. \A x \in Names : \/ m[x] = TheModule[x]
                       \/ m[x].kind = "declared" /\ TheModule[x].kind = "absent"
  BY <1>1 DEF GetFunction, Declare, Module
<1> HIDE DEF m
<1>4. Defined(m) = Defined(TheModule) /\ \A x \in Defined(m) : m[x] = TheModule[x]
  BY <1>3 DEF Defined
<1> QED
  BY <1>2, <1>4 DEF m

(* With --compile a definition comes into force when its body is complete.  *)
LEMMA FinishCompiledStep ==
  ASSUME SimInv, FinishCompiled
  PROVE  [Env!Next]_(Env!vars)
<1>1. /\ TypeOK /\ TheModule \in Module /\ cur \in Names /\ pc = "body"
      /\ TheModule[cur].kind = "defined"
      /\ ~useJIT /\ useJIT' = useJIT /\ pc' = "loop"
      /\ TheModule' \in Optimised
      /\ out' = IF cur = Anon THEN "expr" ELSE "def"
  BY DEF SimInv, HandOverInv, CurDefined, TypeOK, Module, FinishCompiled
<1>2. \A x \in Names : TheModule'[x].kind = TheModule[x].kind
  BY <1>1, OptimisedLemma
<1>3. \A x \in Names \ {cur} : TheModule'[x] = TheModule[x]
  BY <1>1 DEF Optimised, Module
<1>4. CASE cur = Anon
  <2>1. Accepted' = Accepted
    BY <1>1, <1>3, <1>4, NameAssumption, CompiledSame DEF Names
  <2> QED
    BY <1>1, <1>4, <2>1, AnswerStep DEF Alive, Replies
<1>5. CASE cur # Anon
  <2>1. cur \in Named /\ out' = "def" /\ Alive /\ Alive'
    BY <1>1, <1>5 DEF Names, Alive
  <2>2. cur \notin InForce
    BY <1>1 DEF InForce
  <2>3. InForce' = InForce \cup {cur}
    BY <1>1, <1>2, <2>1 DEF InForce, Body, Names
  <2>4. \A x \in InForce : Body(x)' = Body(x)
    BY <1>1, <1>3, <2>2 DEF InForce, Body, Names
  <2> QED
    BY <2>1, <2>2, <2>3, <2>4, AcceptStep
<1> QED
  BY <1>4, <1>5

(* With the JIT, when it is handed over, which the JIT refuses to do twice. *)
LEMMA FinishDefinitionStep ==
  ASSUME SimInv, FinishDefinition
  PROVE  [Env!Next]_(Env!vars)
<1>1. /\ TypeOK /\ cur \in Named /\ pc = "body" /\ pc' = "loop"
      /\ useJIT /\ useJIT' = useJIT /\ ~Clash(TheModule) /\ out' = "def"
  BY DEF SimInv, HandOverInv, TypeOK, Names, FinishDefinition
<1>2. PICK m \in Optimised : MainJD' = Added(m)
  BY DEF FinishDefinition
<1>3. Defined(m) = {cur} /\ Defined(TheModule) = {cur}
  BY <1>1, OptimisedLemma, HandedOverSet DEF SimInv, HandOverInv
<1>4. MainJD[cur].kind = "absent"
  BY <1>1, <1>3 DEF Clash
<1>5. /\ MainJD'[cur].kind = "defined"
      /\ \A x \in Names \ {cur} : MainJD'[x] = MainJD[x]
  <2>1. m[cur].kind = "defined" /\ cur \in Names
    BY <1>3 DEF Defined
  <2> QED
    BY <1>2, <1>3, <2>1 DEF Added
<1>6. cur \notin InForce
  BY <1>1, <1>4 DEF InForce, Body
<1>7. InForce' = InForce \cup {cur}
  BY <1>1, <1>5 DEF InForce, Body, Names
<1>8. \A x \in InForce : Body(x)' = Body(x)
  BY <1>1, <1>5, <1>6 DEF InForce, Body, Names
<1> QED
  BY <1>1, <1>6, <1>7, <1>8, AcceptStep DEF Alive

(* An expression comes and goes under a name of its own.                    *)
LEMMA FinishExpressionStep ==
  ASSUME SimInv, FinishExpression
  PROVE  [Env!Next]_(Env!vars)
<1>1. /\ TypeOK /\ cur = Anon /\ pc = "body" /\ useJIT /\ useJIT' = useJIT
      /\ Anon \notin Named
  BY NameAssumption DEF SimInv, HandOverInv, FinishExpression
<1>2. PICK m \in Optimised :
        \/ /\ out' = "evaluated"
           /\ MainJD' = Removed(Generated(Added(m), Linked(Added(m))), m)
        \/ /\ out' = "unresolved"
           /\ MainJD' = Added(m)
  BY Zenon DEF FinishExpression
<1>3. Defined(m) = {Anon}
  BY <1>1, OptimisedLemma, HandedOverSet DEF SimInv, HandOverInv
<1> DEFINE jd == Added(m)
           gd == Generated(jd, Linked(jd))
<1>4. \A x \in Named : jd[x] = MainJD[x]
  BY <1>1, <1>3 DEF Added, Names
<1> HIDE DEF jd
<1>5. \A x \in Named : \/ gd[x] = MainJD[x]
                       \/ gd[x] = AbsoluteSymbol /\ MainJD[x].kind = "absent"
  BY <1>4 DEF Generated, Names
<1> HIDE DEF gd
<1>6. \A x \in Named : Removed(gd, m)[x] = gd[x]
  BY <1>1, <1>3 DEF Removed, Names
<1>7. \A x \in Named :
        \/ MainJD'[x] = MainJD[x]
        \/ MainJD'[x] = AbsoluteSymbol /\ MainJD[x].kind = "absent"
  BY <1>2, <1>4, <1>5, <1>6 DEF jd, gd
<1>8. InForce' = InForce
  BY <1>1, <1>7 DEF InForce, Body, AbsoluteSymbol
<1>9. \A x \in InForce : Body(x)' = Body(x)
  BY <1>1, <1>7 DEF InForce, Body
<1>10. Accepted' = Accepted
  BY <1>8, <1>9, AcceptedSame
<1> QED
  BY <1>1, <1>2, <1>10, AnswerStep DEF Alive, Replies

LEMMA NextSim == SimInv /\ [Next]_vars => [Env!Next]_(Env!vars)
<1> SUFFICES ASSUME SimInv, [Next]_vars PROVE [Env!Next]_(Env!vars)
  OBVIOUS
<1>0. TypeOK /\ TheModule \in Module
  BY DEF SimInv, HandOverInv, TypeOK, Module
<1>1. CASE ParserError
  <2>1. Accepted' = Accepted
    BY <1>1 DEF ParserError, Accepted, InForce, Body
  <2> QED
    BY <1>1, <2>1, AnswerStep DEF ParserError, Alive, Replies
<1>2. ASSUME NEW n \in Externable, NEW a \in Sig[n], handleExtern(n, a)
      PROVE  [Env!Next]_(Env!vars)
  <2>1. n \in Names
    BY NameAssumption DEF Names
  <2>2. \A x \in Names : \/ TheModule'[x] = TheModule[x]
                         \/ /\ TheModule'[x].kind = "declared"
                            /\ TheModule[x].kind = "absent"
    BY <1>0, <1>2, <2>1 DEF handleExtern, Declare, Module
  <2>3. /\ pc = "loop" /\ out' = "extern"
        /\ UNCHANGED <<useJIT, MainJD, pc, cur>>
    BY <1>2 DEF handleExtern
  <2>4. Accepted' = Accepted
    <3>1. CASE useJIT
      BY <2>3, <3>1, JITSame
    <3>2. CASE ~useJIT
      BY <2>2, <2>3, <3>2, CompiledSame DEF Names
    <3> QED
      BY <3>1, <3>2
  <2> QED
    BY <2>3, <2>4, AnswerStep DEF Alive, Replies
<1>3. ASSUME NEW n \in Named, NEW a \in Sig[n], handleDefinition(n, a)
      PROVE  [Env!Next]_(Env!vars)
  <2>1. n \in Names /\ a \in Arity /\ FunctionCodegen(n, a)
    BY <1>3, SigAssumption DEF handleDefinition, Names
  <2> QED
    BY <2>1, FunctionCodegenStep
<1>4. CASE handleTopLevelExpression
  <2>1. Anon \in Names /\ 0 \in Arity /\ FunctionCodegen(Anon, 0)
    BY <1>4, ArityAssumption DEF handleTopLevelExpression, Names, Arity
  <2> QED
    BY <2>1, FunctionCodegenStep
<1>5. ASSUME NEW n \in Named, NEW k \in Arity, CodegenCall(n, k)
      PROVE  [Env!Next]_(Env!vars)
  <2> DEFINE m == GetFunction(TheModule, FunctionProtos, n)
  <2>1. /\ pc = "body" /\ <<n, k>> \in Call
        /\ Fail(m) \/ Emit(m, <<n, k>>)
    BY <1>5 DEF CodegenCall, Call
  <2>2. /\ m \in Module /\ Defined(m) = Defined(TheModule)
        /\ \A x \in Defined(m) : m[x] = TheModule[x]
    BY LookupSame
  <2> HIDE DEF m
  <2> QED
    BY <2>1, <2>2, FailStep, EmitStep
<1>6. ASSUME NEW op \in Unary, CodegenUnary(op)
      PROVE  [Env!Next]_(Env!vars)
  <2> DEFINE m == GetFunction(TheModule, FunctionProtos, op)
  <2>1. /\ pc = "body" /\ op \in Named /\ <<op, 1>> \in Call
        /\ Fail(m) \/ Emit(m, <<op, 1>>)
    BY <1>6, NameAssumption, ArityAssumption
       DEF CodegenUnary, Call, Named, Arity
  <2>2. /\ m \in Module /\ Defined(m) = Defined(TheModule)
        /\ \A x \in Defined(m) : m[x] = TheModule[x]
    BY <2>1, LookupSame
  <2> HIDE DEF m
  <2> QED
    BY <2>1, <2>2, FailStep, EmitStep
<1>7. ASSUME NEW op \in Binary, CodegenBinary(op)
      PROVE  [Env!Next]_(Env!vars)
  <2> DEFINE m == GetFunction(TheModule, FunctionProtos, op)
  <2>1. /\ pc = "body" /\ op \in Named /\ <<op, 2>> \in Call
        /\ Fail(m) \/ Emit(m, <<op, 2>>)
    BY <1>7, NameAssumption, ArityAssumption
       DEF CodegenBinary, Call, Named, Arity
  <2>2. /\ m \in Module /\ Defined(m) = Defined(TheModule)
        /\ \A x \in Defined(m) : m[x] = TheModule[x]
    BY <2>1, LookupSame
  <2> HIDE DEF m
  <2> QED
    BY <2>1, <2>2, FailStep, EmitStep
<1>8. CASE CodegenThrow
  BY <1>0, <1>8, FailStep DEF CodegenThrow
<1>9. CASE FinishCompiled
  BY <1>9, FinishCompiledStep
<1>10. CASE AddModuleFails
  <2>1. /\ useJIT /\ UNCHANGED <<useJIT, MainJD>>
        /\ pc = "body" /\ out' = "duplicate"
    BY <1>10 DEF AddModuleFails
  <2>2. Accepted' = Accepted
    BY <2>1, JITSame
  <2> QED
    BY <2>1, <2>2, AnswerStep DEF Alive, Replies
<1>11. CASE FinishDefinition
  BY <1>11, FinishDefinitionStep
<1>12. CASE FinishExpression
  BY <1>12, FinishExpressionStep
<1>13. CASE Eof
  <2>1. /\ pc = "loop" /\ pc' \in {"done", "emit"}
        /\ UNCHANGED <<useJIT, TheModule, MainJD, cur, out>>
    BY <1>13 DEF Eof
  <2>2. Accepted' = Accepted
    BY <2>1 DEF Accepted, InForce, Body
  <2>3. CASE pc' = "emit"
    BY <2>1, <2>2, <2>3, StutterStep DEF Alive
  <2>4. CASE pc' = "done"
    <3>1. Env!Leave
      BY <2>1, <2>2, <2>4 DEF Env!Leave
    <3> QED
      BY <3>1 DEF Env!Next
  <2> QED
    BY <2>1, <2>3, <2>4
<1>14. CASE EmitObject
  <2>1. /\ pc = "emit" /\ pc' = "done" /\ out' \in {"wrote", "noobject"}
        /\ UNCHANGED <<useJIT, TheModule, MainJD, cur>>
    BY <1>14 DEF EmitObject
  <2>2. Accepted' = Accepted
    BY <2>1 DEF Accepted, InForce, Body
  <2> QED
    BY <2>1, <2>2, AnswerStep DEF Alive, Replies
<1>15. CASE UNCHANGED vars
  <2>1. UNCHANGED <<useJIT, TheModule, MainJD, cur, pc, out>>
    BY <1>15 DEF vars, progVars
  <2>2. Accepted' = Accepted
    BY <2>1 DEF Accepted, InForce, Body
  <2> QED
    BY <2>1, <2>2, StutterStep DEF Alive
<1> QED
  BY <1>1, <1>2, <1>3, <1>4, <1>5, <1>6, <1>7, <1>8, <1>9, <1>10, <1>11,
     <1>12, <1>13, <1>14, <1>15 DEF Next

(* Whatever the user enters and whatever fails, with and without the JIT,   *)
(* a definition once accepted stays in force with its code, and "Read       *)
(* function definition" announces exactly one more.                         *)
THEOREM RefinementThm == Spec => Refinement
BY InitSim, NextSim, SimInvariant, PTL DEF Spec, Refinement, Env!Spec
=============================================================================
