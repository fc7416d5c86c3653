------------------------------- MODULE Scope -------------------------------
(***************************************************************************)
(* The environment NamedValues during the code generation of function      *)
(* bodies (ast.cpp): which stack slot a variable name stands for.  The     *)
(* recursion of codegen over nested var and for expressions is the stack   *)
(* frames; expressions that touch no name leave no trace.                  *)
(***************************************************************************)
EXTENDS Integers, Sequences

CONSTANTS
  Names,          \* variable names
  VarLists,       \* the name lists that a var expression can declare
  MaxFunctions,   \* bound on the functions generated one after another
  MaxDepth,       \* bound on the nesting of var and for
  MaxAllocas      \* bound on the slots of one function

Unbound == <<0, 0>>
Env == [Names -> Int \X Int]

ASSUME ScopeAssumption ==
  /\ VarLists \subseteq Seq(Names)
  /\ MaxFunctions \in Nat /\ MaxDepth \in Nat /\ MaxAllocas \in Nat

VARIABLES
  pc,            \* "idle" between functions, "body" inside one
  function,      \* how many functions were begun
  allocas,       \* how many slots the current one has
  NamedValues,   \* the environment: slots are <<function, number>>
  frames,        \* the open var and for expressions, innermost last
  params         \* history: the environment with which the body began

vars == <<pc, function, allocas, NamedValues, frames, params>>

\* An open expression: the names it declares, how many are bound, what their
\* names stood for before (oldValues), and, as history, the slots bound.
Frame == [names : Seq(Names), bound : Nat, oldValues : Env,
          slots : Seq(Int \X Int)]
-----------------------------------------------------------------------------
Init ==
  /\ pc = "idle"
  /\ function = 0
  /\ allocas = 0
  /\ NamedValues = [n \in Names |-> Unbound]
  /\ frames = <<>>
  /\ params = [n \in Names |-> Unbound]

\* NamedValues.clear().
NotCleared == NamedValues       \* mutant
Cleared == [n \in Names |-> Unbound]

\* FunctionAST::codegen up to the body, with parameters P (LLVM has made the
\* names of the arguments distinct).
BeginFunction(P) ==
  LET env == [n \in Names |-> IF n \in P THEN <<function + 1, 0>>
                              ELSE Cleared[n]]
  IN /\ pc = "idle"
     /\ function < MaxFunctions
     /\ pc' = "body"
     /\ function' = function + 1
     /\ allocas' = 0
     /\ NamedValues' = env
     /\ params' = [n \in Names |-> IF n \in P THEN <<function + 1, 0>>
                                   ELSE Unbound]
     /\ UNCHANGED frames

\* VarExprAST or ForExprAST::codegen is called; the initial value of the
\* first name, or the start of the loop, is generated first.
Open(names) ==
  /\ pc = "body"
  /\ Len(frames) < MaxDepth
  /\ frames' = Append(frames, [names |-> names, bound |-> 0, slots |-> <<>>,
                               oldValues |-> [n \in Names |-> Unbound]])
  /\ UNCHANGED <<pc, function, allocas, NamedValues, params>>

Top == frames[Len(frames)]

\* Its slot becomes the meaning of n, whose former meaning is remembered.
BoundTop(n, slot) ==
  [names |-> Top.names, bound |-> Top.bound + 1,
   oldValues |-> [Top.oldValues EXCEPT ![n] = NamedValues[n]],
   slots |-> Append(Top.slots, slot)]

\* The innermost expression has its next initial value.
Bind ==
  LET n    == Top.names[Top.bound + 1]
      slot == <<function, allocas + 1>>
  IN /\ pc = "body" /\ frames # <<>>
     /\ Top.bound < Len(Top.names)
     /\ allocas < MaxAllocas
     /\ allocas' = allocas + 1
     /\ NamedValues' = [NamedValues EXCEPT ![n] = slot]
     /\ frames' = [frames EXCEPT ![Len(frames)] = BoundTop(n, slot)]
     /\ UNCHANGED <<pc, function, params>>

\* The names of a closing frame get back what they stood for, or nothing.
RestoredLast(frame) ==          \* mutant: only the last name
  [NamedValues EXCEPT ![frame.names[Len(frame.names)]] =
                        frame.oldValues[frame.names[Len(frame.names)]]]
Restored(frame) ==
  [n \in Names |-> IF \E i \in DOMAIN frame.names : frame.names[i] = n
                   THEN frame.oldValues[n] ELSE NamedValues[n]]

\* The body of the innermost expression is generated.
Close ==
  /\ pc = "body" /\ frames # <<>>
  /\ Top.bound = Len(Top.names)
  /\ NamedValues' = Restored(Top)
  /\ frames' = SubSeq(frames, 1, Len(frames) - 1)
  /\ UNCHANGED <<pc, function, allocas, params>>

\* The body of the function is generated.
EndFunction ==
  /\ pc = "body" /\ frames = <<>>
  /\ pc' = "idle"
  /\ UNCHANGED <<function, allocas, NamedValues, frames, params>>

\* A CodegenException leaves all open expressions without restoring a name.
Throw ==
  /\ pc = "body"
  /\ pc' = "idle"
  /\ frames' = <<>>
  /\ UNCHANGED <<function, allocas, NamedValues, params>>

Next == \/ \E P \in SUBSET Names : BeginFunction(P)
        \/ \E names \in VarLists : Open(names)
        \/ Bind \/ Close \/ EndFunction \/ Throw

Spec == Init /\ [][Next]_vars
-----------------------------------------------------------------------------
(* Properties.                                                             *)

Binds(frame, n) == \E i \in 1 .. Len(frame.slots) : frame.names[i] = n

\* What lexical scoping says n stands for inside the first k of the frames fs
\* of a body with parameters env: the slot that the innermost frame binding
\* n bound to it last, or the parameter.
Means(fs, k, env, n, v) ==
  \/ \E j \in 1 .. k : \E i \in 1 .. Len(fs[j].slots) :
       /\ fs[j].names[i] = n
       /\ fs[j].slots[i] = v
       /\ \A h \in i + 1 .. Len(fs[j].slots) : fs[j].names[h] # n
       /\ \A l \in j + 1 .. k : ~Binds(fs[l], n)
  \/ (\A l \in 1 .. k : ~Binds(fs[l], n)) /\ v = env[n]

\* At every point of every body, after any nesting and after any failure of
\* earlier functions, a name stands for what lexical scoping says (for var
\* lists without repeated names; see LocalVariablesLocal).
LexicallyScoped ==
  pc = "body" => \A n \in Names :
    Means(frames, Len(frames), params, n, NamedValues[n])

\* No body sees a slot of another function, whose module may be gone.
NoForeignSlot ==
  pc = "body" => \A n \in Names :
    NamedValues[n] = Unbound \/ NamedValues[n][1] = function

\* "Expression for creating new locally defined variables": outside of all
\* var and for expressions only the parameters have a meaning.
LocalVariablesLocal == pc = "body" /\ frames = <<>> => NamedValues = params
=============================================================================
