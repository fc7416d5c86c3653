---------------------------- MODULE ScopeProofs ----------------------------
(***************************************************************************)
(* No function body sees a stack slot of another one, for any names, any   *)
(* nesting and any number of functions: NamedValues is cleared first, and  *)
(* what var and for expressions save and restore was bound since then.     *)
(***************************************************************************)
EXTENDS Scope, SequenceTheorems, TLAPS

\* Slots of function f, or none.
Own(env, f) == \A n \in Names : env[n] = Unbound \/ env[n][1] = f

SlotInv ==
  /\ frames \in Seq(Frame)
  /\ NamedValues \in Env
  /\ function \in Int /\ allocas \in Int
  /\ \A k \in 1 .. Len(frames) : Own(frames[k].oldValues, function)
  /\ pc = "body" => Own(NamedValues, function)
  /\ pc # "body" => frames = <<>>

(* Sequences as stacks: push, replace the top, pop.                         *)
LEMMA Push ==
  ASSUME NEW S, NEW s \in Seq(S), NEW e \in S
  PROVE  /\ Append(s, e) \in Seq(S)
         /\ \A k \in 1 .. Len(Append(s, e)) :
              Append(s, e)[k] = e \/ (k \in 1 .. Len(s) /\ Append(s, e)[k] = s[k])
<1>1. /\ Append(s, e) \in Seq(S) /\ Len(Append(s, e)) = Len(s) + 1
      /\ \A i \in 1 .. Len(s) : Append(s, e)[i] = s[i]
      /\ Append(s, e)[Len(s) + 1] = e
  BY AppendProperties
<1>2. Len(s) \in Nat
  BY LenProperties
<1> QED
  BY <1>1, <1>2

LEMMA TopOf ==
  ASSUME NEW S, NEW s \in Seq(S), s # <<>>
  PROVE  Len(s) \in 1 .. Len(s) /\ s[Len(s)] \in S
<1>1. Len(s) \in Nat \ {0}
  BY EmptySeq
<1>2. Len(s) \in 1 .. Len(s)
  BY <1>1
<1> QED
  BY <1>2, ElementOfSeq

LEMMA ReplaceTop ==
  ASSUME NEW S, NEW s \in Seq(S), s # <<>>, NEW e \in S
  PROVE  LET r == [s EXCEPT ![Len(s)] = e]
         IN /\ r \in Seq(S)
            /\ \A k \in 1 .. Len(r) :
                 k \in 1 .. Len(s) /\ (r[k] = e \/ r[k] = s[k])
<1> DEFINE r == [s EXCEPT ![Len(s)] = e]
<1>1. Len(s) \in 1 .. Len(s)
  BY TopOf
<1>2. r \in Seq(S) /\ Len(r) = Len(s)
      /\ \A k \in 1 .. Len(s) : r[k] = IF k = Len(s) THEN e ELSE s[k]
  BY <1>1, ExceptSeq
<1> QED
  BY <1>2

LEMMA Pop ==
  ASSUME NEW S, NEW s \in Seq(S), s # <<>>
  PROVE  LET r == SubSeq(s, 1, Len(s) - 1)
         IN /\ r \in Seq(S)
            /\ \A k \in 1 .. Len(r) : k \in 1 .. Len(s) /\ r[k] = s[k]
<1> DEFINE m == Len(s) - 1
           r == SubSeq(s, 1, m)
<1>1. Len(s) \in Nat \ {0}
  BY EmptySeq
<1>2. \A i \in 1 .. m : i \in 1 .. Len(s)
  BY <1>1
<1>3. \A i \in 1 .. m : s[i] \in S
  BY <1>2, ElementOfSeq
<1>4. 1 \in Int /\ m \in Int
  BY <1>1
<1> HIDE DEF m
<1>5. /\ r \in Seq(S)
      /\ Len(r) = IF 1 <= m THEN m - 1 + 1 ELSE 0
      /\ \A i \in 1 .. m - 1 + 1 : r[i] = s[1 + i - 1]
  BY <1>3, <1>4, SubSeqProperties
<1> HIDE DEF r
<1>6. \A k \in 1 .. Len(r) : k \in 1 .. m /\ k \in 1 .. m - 1 + 1 /\ 1 + k - 1 = k
  <2> SUFFICES ASSUME NEW k \in 1 .. Len(r)
               PROVE  k \in 1 .. m /\ k \in 1 .. m - 1 + 1 /\ 1 + k - 1 = k
    OBVIOUS
  <2>1. CASE 1 <= m
    <3>1. Len(r) = m - 1 + 1
      BY <1>5, <2>1
    <3>2. m - 1 + 1 = m
      BY <1>4
    <3> QED
      BY <3>1, <3>2
  <2>2. CASE ~(1 <= m)
    <3>1. Len(r) = 0
      BY <1>5, <2>2
    <3> QED
      BY <3>1
  <2> QED
    BY <2>1, <2>2
<1>7. \A k \in 1 .. Len(r) : k \in 1 .. Len(s) /\ r[k] = s[k]
  <2> SUFFICES ASSUME NEW k \in 1 .. Len(r)
               PROVE  k \in 1 .. Len(s) /\ r[k] = s[k]
    OBVIOUS
  <2>1. k \in 1 .. m - 1 + 1 /\ 1 + k - 1 = k /\ k \in 1 .. Len(s)
    BY <1>2, <1>6
  <2>2. r[k] = s[1 + k - 1]
    BY <1>5, <2>1
  <2> QED
    BY <2>1, <2>2
<1> QED
  BY <1>5, <1>7 DEF m, r

LEMMA InitSlots == Init => SlotInv
BY EmptySeq DEF Init, SlotInv, Unbound, Env

LEMMA NextSlots == SlotInv /\ [Next]_vars => SlotInv'
<1> SUFFICES ASSUME SlotInv, [Next]_vars PROVE SlotInv'
  OBVIOUS
<1>1. ASSUME NEW P \in SUBSET Names, BeginFunction(P) PROVE SlotInv'
  <2>1. frames = <<>> /\ frames' = frames /\ pc' = "body"
        /\ function' \in Int /\ allocas' \in Int
    BY <1>1 DEF BeginFunction, SlotInv
  <2>2. NamedValues' \in Env /\ Own(NamedValues', function')
    BY <1>1 DEF BeginFunction, SlotInv, Own, Cleared, Unbound, Env
  <2>3. \A k \in 1 .. Len(frames') : FALSE
    BY <2>1
  <2> QED
    BY <2>1, <2>2, <2>3 DEF SlotInv
<1>2. ASSUME NEW names \in VarLists, Open(names) PROVE SlotInv'
  <2> DEFINE fr == [names |-> names, bound |-> 0, slots |-> <<>>,
                    oldValues |-> [n \in Names |-> Unbound]]
  <2>1. fr \in Frame
    <3>1. <<>> \in Seq(Int \X Int) /\ names \in Seq(Names)
      BY ScopeAssumption, EmptySeq
    <3> QED
      BY <3>1 DEF Frame, Env, Unbound
  <2>2. Own(fr.oldValues, function)
    BY DEF Own
  <2>3. frames' = Append(frames, fr) /\ frames \in Seq(Frame)
    BY <1>2 DEF Open, SlotInv
  <2> HIDE DEF fr
  <2>4. frames' \in Seq(Frame) /\ \A k \in 1 .. Len(frames') :
          frames'[k] = fr \/ (k \in 1 .. Len(frames) /\ frames'[k] = frames[k])
    BY <2>1, <2>3, Push
  <2>5. \A k \in 1 .. Len(frames') : Own(frames'[k].oldValues, function)
    BY <2>2, <2>4 DEF SlotInv
  <2> QED
    BY <1>2, <2>4, <2>5 DEF Open, SlotInv
<1>3. CASE Bind
  <2> DEFINE n    == Top.names[Top.bound + 1]
             slot == <<function, allocas + 1>>
             fr   == BoundTop(n, slot)
  <2>1. /\ frames \in Seq(Frame) /\ frames # <<>> /\ Top.bound < Len(Top.names)
        /\ Own(NamedValues, function) /\ NamedValues \in Env
        /\ pc' = pc /\ pc = "body" /\ function' = function
        /\ function \in Int /\ allocas \in Int /\ allocas' = allocas + 1
    BY <1>3 DEF Bind, SlotInv
  <2>2. Top \in Frame /\ Own(Top.oldValues, function)
    BY <2>1, TopOf DEF SlotInv, Top
  <2>3. n \in Names
    <3>1. Top.names \in Seq(Names) /\ Top.bound \in Nat
      BY <2>2 DEF Frame
    <3>2. Top.bound + 1 \in 1 .. Len(Top.names)
      BY <2>1, <3>1, LenProperties
    <3> QED
      BY <3>1, <3>2, ElementOfSeq
  <2>4. slot \in Int \X Int /\ slot[1] = function
    BY <2>1
  <2>5. frames' = [frames EXCEPT ![Len(frames)] = fr]
        /\ NamedValues' = [NamedValues EXCEPT ![n] = slot]
    BY <1>3 DEF Bind
  <2> HIDE DEF n, slot
  <2>6. Append(Top.slots, slot) \in Seq(Int \X Int)
    <3>1. Top.slots \in Seq(Int \X Int)
      BY <2>2 DEF Frame
    <3> QED
      BY <2>4, <3>1, AppendProperties
  <2>7. [Top.oldValues EXCEPT ![n] = NamedValues[n]] \in Env
    BY <2>1, <2>2, <2>3 DEF Frame, Env
  <2>8. fr = [names |-> Top.names, bound |-> Top.bound + 1,
              oldValues |-> [Top.oldValues EXCEPT ![n] = NamedValues[n]],
              slots |-> Append(Top.slots, slot)]
    BY DEF BoundTop
  <2>9. fr \in Frame /\ Own(fr.oldValues, function)
    <3>1. fr \in Frame
      BY <2>2, <2>6, <2>7, <2>8 DEF Frame
    <3>2. Own([Top.oldValues EXCEPT ![n] = NamedValues[n]], function)
      BY <2>1, <2>2 DEF Own, Frame, Env
    <3> QED
      BY <2>8, <3>1, <3>2
  <2> HIDE DEF fr
  <2>10. frames' \in Seq(Frame) /\ \A k \in 1 .. Len(frames') :
           k \in 1 .. Len(frames) /\ (frames'[k] = fr \/ frames'[k] = frames[k])
    BY <2>1, <2>5, <2>9, ReplaceTop
  <2>11. \A k \in 1 .. Len(frames') : Own(frames'[k].oldValues, function)
    BY <2>9, <2>10 DEF SlotInv
  <2>12. NamedValues' \in Env /\ Own(NamedValues', function)
    BY <2>1, <2>3, <2>4, <2>5 DEF Own, Env
  <2> QED
    BY <2>1, <2>10, <2>11, <2>12 DEF SlotInv
<1>4. CASE Close
  <2>1. /\ frames \in Seq(Frame) /\ frames # <<>>
        /\ Own(NamedValues, function) /\ NamedValues \in Env
        /\ pc' = pc /\ pc = "body" /\ function' = function
        /\ allocas' = allocas
        /\ NamedValues' = Restored(Top)
        /\ frames' = SubSeq(frames, 1, Len(frames) - 1)
    BY <1>4 DEF Close, SlotInv
  <2>2. Top \in Frame /\ Own(Top.oldValues, function)
    BY <2>1, TopOf DEF SlotInv, Top
  <2>3. Top.oldValues \in Env
    BY <2>2 DEF Frame
  <2>4. NamedValues' \in Env /\ Own(NamedValues', function)
    BY <2>1, <2>2, <2>3 DEF Restored, Own, Env
  <2>5. frames' \in Seq(Frame) /\ \A k \in 1 .. Len(frames') :
          k \in 1 .. Len(frames) /\ frames'[k] = frames[k]
    BY <2>1, Pop
  <2>6. \A k \in 1 .. Len(frames') : Own(frames'[k].oldValues, function)
    BY <2>5 DEF SlotInv
  <2> QED
    BY <2>1, <2>4, <2>5, <2>6 DEF SlotInv
<1>5. CASE EndFunction
  BY <1>5 DEF EndFunction, SlotInv
<1>6. CASE Throw
  <2>1. <<>> \in Seq(Frame) /\ \A k \in 1 .. Len(<<>>) : FALSE
    BY EmptySeq
  <2> QED
    BY <1>6, <2>1 DEF Throw, SlotInv
<1>7. CASE UNCHANGED vars
  BY <1>7 DEF vars, SlotInv
<1> QED
  BY <1>1, <1>2, <1>3, <1>4, <1>5, <1>6, <1>7 DEF Next

(* Inside a body every name stands for a slot of this very function.        *)
THEOREM NoForeignSlotThm == Spec => []NoForeignSlot
<1>1. SlotInv => NoForeignSlot
  BY DEF SlotInv, NoForeignSlot, Own
<1> QED
  BY <1>1, InitSlots, NextSlots, PTL DEF Spec
-----------------------------------------------------------------------------
(***************************************************************************)
(* Lexical scoping.  A name that a frame has bound meant, outside of that  *)
(* frame, what the frame's oldValues remember; when the lists repeat no    *)
(* name, closing the frame restores just that.                             *)
(***************************************************************************)
DistinctLists == \A names \in VarLists :
  \A i, j \in 1 .. Len(names) : names[i] = names[j] => i = j

FrameOK(fs, k, env) ==
  /\ fs[k].names \in VarLists
  /\ Len(fs[k].slots) = fs[k].bound
  /\ fs[k].bound <= Len(fs[k].names)
  /\ \A i \in 1 .. fs[k].bound :
       Means(fs, k - 1, env, fs[k].names[i], fs[k].oldValues[fs[k].names[i]])

LexInv ==
  /\ SlotInv
  /\ \A k \in 1 .. Len(frames) : FrameOK(frames, k, params)
  /\ LexicallyScoped

(* The meaning inside k frames depends on those frames alone.               *)
LEMMA MeansPrefix ==
  ASSUME NEW fs, NEW gs, NEW k \in Nat, \A l \in 1 .. k : fs[l] = gs[l],
         NEW env, NEW n, NEW v, Means(fs, k, env, n, v)
  PROVE  Means(gs, k, env, n, v)
<1>1. ASSUME NEW j \in 1 .. k, NEW i \in 1 .. Len(fs[j].slots),
             fs[j].names[i] = n, fs[j].slots[i] = v,
             \A h \in i + 1 .. Len(fs[j].slots) : fs[j].names[h] # n,
             \A l \in j + 1 .. k : ~Binds(fs[l], n)
      PROVE  Means(gs, k, env, n, v)
  <2>1. fs[j] = gs[j] /\ \A l \in j + 1 .. k : fs[l] = gs[l]
    OBVIOUS
  <2>2. \A l \in j + 1 .. k : ~Binds(gs[l], n)
    BY <1>1, <2>1
  <2>3. /\ i \in 1 .. Len(gs[j].slots) /\ gs[j].names[i] = n
        /\ gs[j].slots[i] = v
        /\ \A h \in i + 1 .. Len(gs[j].slots) : gs[j].names[h] # n
    BY <1>1, <2>1
  <2> QED
    BY <2>2, <2>3 DEF Means
<1>2. CASE (\A l \in 1 .. k : ~Binds(fs[l], n)) /\ v = env[n]
  <2>1. \A l \in 1 .. k : ~Binds(gs[l], n)
    BY <1>2
  <2> QED
    BY <1>2, <2>1 DEF Means
<1> QED
  BY <1>1, <1>2 DEF Means

(* A frame that does not bind the name is transparent.                      *)
LEMMA MeansSkip ==
  ASSUME NEW fs, NEW k \in Nat \ {0}, NEW env, NEW n, NEW v,
         ~Binds(fs[k], n)
  PROVE  Means(fs, k, env, n, v) <=> Means(fs, k - 1, env, n, v)
<1>1. ASSUME Means(fs, k, env, n, v) PROVE Means(fs, k - 1, env, n, v)
  <2>1. CASE (\A l \in 1 .. k : ~Binds(fs[l], n)) /\ v = env[n]
    BY <2>1 DEF Means
  <2>2. ASSUME NEW j \in 1 .. k, NEW i \in 1 .. Len(fs[j].slots),
               fs[j].names[i] = n, fs[j].slots[i] = v,
               \A h \in i + 1 .. Len(fs[j].slots) : fs[j].names[h] # n,
               \A l \in j + 1 .. k : ~Binds(fs[l], n)
        PROVE  Means(fs, k - 1, env, n, v)
    <3>1. j # k
      BY <2>2 DEF Binds
    <3>2. j \in 1 .. k - 1 /\ \A l \in j + 1 .. k - 1 : ~Binds(fs[l], n)
      BY <2>2, <3>1
    <3> QED
      BY <2>2, <3>2 DEF Means
  <2> QED
    BY <1>1, <2>1, <2>2 DEF Means
<1>2. ASSUME Means(fs, k - 1, env, n, v) PROVE Means(fs, k, env, n, v)
  <2>1. CASE (\A l \in 1 .. k - 1 : ~Binds(fs[l], n)) /\ v = env[n]
    <3>1. \A l \in 1 .. k : ~Binds(fs[l], n)
      BY <2>1
    <3> QED
      BY <2>1, <3>1 DEF Means
  <2>2. ASSUME NEW j \in 1 .. k - 1, NEW i \in 1 .. Len(fs[j].slots),
               fs[j].names[i] = n, fs[j].slots[i] = v,
               \A h \in i + 1 .. Len(fs[j].slots) : fs[j].names[h] # n,
               \A l \in j + 1 .. k - 1 : ~Binds(fs[l], n)
        PROVE  Means(fs, k, env, n, v)
    <3>1. j \in 1 .. k /\ \A l \in j + 1 .. k : ~Binds(fs[l], n)
      BY <2>2
    <3> QED
      BY <2>2, <3>1 DEF Means
  <2> QED
    BY <1>2, <2>1, <2>2 DEF Means
<1> QED
  BY <1>1, <1>2

(* The last slot of the innermost frame is the meaning of its name.         *)
LEMMA MeansBound ==
  ASSUME NEW fs, NEW k \in Nat \ {0}, NEW env, NEW n, NEW v,
         Len(fs[k].slots) \in Nat \ {0},
         fs[k].names[Len(fs[k].slots)] = n, fs[k].slots[Len(fs[k].slots)] = v
  PROVE  Means(fs, k, env, n, v)
<1> DEFINE i == Len(fs[k].slots)
<1>1. /\ k \in 1 .. k /\ i \in 1 .. Len(fs[k].slots)
      /\ \A h \in i + 1 .. Len(fs[k].slots) : FALSE
      /\ \A l \in k + 1 .. k : FALSE
  OBVIOUS
<1> HIDE DEF i
<1>2. fs[k].names[i] = n /\ fs[k].slots[i] = v
  BY DEF i
<1> QED
  BY <1>1, <1>2 DEF Means

(* A further slot of the innermost frame, for another name, changes         *)
(* nothing.                                                                 *)
LEMMA MeansOther ==
  ASSUME NEW fs, NEW gs, NEW k \in Nat \ {0},
         \A l \in 1 .. k - 1 : fs[l] = gs[l],
         gs[k].names = fs[k].names,
         Len(fs[k].slots) \in Nat, Len(gs[k].slots) = Len(fs[k].slots) + 1,
         \A i \in 1 .. Len(fs[k].slots) : gs[k].slots[i] = fs[k].slots[i],
         NEW env, NEW n, NEW v, gs[k].names[Len(gs[k].slots)] # n,
         Means(fs, k, env, n, v)
  PROVE  Means(gs, k, env, n, v)
<1>1. CASE Binds(fs[k], n)
  <2>1. ~\A l \in 1 .. k : ~Binds(fs[l], n)
    BY <1>1
  <2>2. PICK j \in 1 .. k : \E i \in 1 .. Len(fs[j].slots) :
          /\ fs[j].names[i] = n
          /\ fs[j].slots[i] = v
          /\ \A h \in i + 1 .. Len(fs[j].slots) : fs[j].names[h] # n
          /\ \A l \in j + 1 .. k : ~Binds(fs[l], n)
    BY <2>1 DEF Means
  <2>3. j = k
    BY <1>1, <2>2
  <2>4. PICK i \in 1 .. Len(fs[k].slots) :
          /\ fs[k].names[i] = n
          /\ fs[k].slots[i] = v
          /\ \A h \in i + 1 .. Len(fs[k].slots) : fs[k].names[h] # n
    BY <2>2, <2>3
  <2>5. /\ k \in 1 .. k /\ i \in 1 .. Len(gs[k].slots)
        /\ gs[k].names[i] = n /\ gs[k].slots[i] = v
        /\ \A l \in k + 1 .. k : ~Binds(gs[l], n)
    BY <2>4, SMTT(30)
  <2>6. \A h \in i + 1 .. Len(gs[k].slots) : gs[k].names[h] # n
    BY <2>4
  <2> QED
    BY <2>5, <2>6 DEF Means
<1>2. CASE ~Binds(fs[k], n)
  <2>1. ~Binds(gs[k], n)
    <3> SUFFICES ASSUME NEW i \in 1 .. Len(gs[k].slots), gs[k].names[i] = n
                 PROVE  FALSE
      BY DEF Binds
    <3>1. i \in 1 .. Len(fs[k].slots)
      OBVIOUS
    <3> QED
      BY <1>2, <3>1 DEF Binds
  <2>2. Means(fs, k - 1, env, n, v)
    BY <1>2, MeansSkip
  <2>3. k - 1 \in Nat
    OBVIOUS
  <2>4. Means(gs, k - 1, env, n, v)
    BY <2>2, <2>3, MeansPrefix
  <2> QED
    BY <2>1, <2>4, MeansSkip
<1> QED
  BY <1>1, <1>2

(* Frames below an unchanged prefix stay as they are.                       *)
LEMMA FrameKept ==
  ASSUME NEW fs, NEW gs, NEW k \in Nat \ {0}, NEW env,
         \A l \in 1 .. k : fs[l] = gs[l], FrameOK(fs, k, env)
  PROVE  FrameOK(gs, k, env)
<1>1. fs[k] = gs[k] /\ k - 1 \in Nat /\ \A l \in 1 .. k - 1 : fs[l] = gs[l]
  OBVIOUS
<1>2. \A i \in 1 .. gs[k].bound :
        Means(gs, k - 1, env, gs[k].names[i], gs[k].oldValues[gs[k].names[i]])
  <2> SUFFICES ASSUME NEW i \in 1 .. gs[k].bound
               PROVE  Means(gs, k - 1, env, gs[k].names[i],
                            gs[k].oldValues[gs[k].names[i]])
    OBVIOUS
  <2>1. Means(fs, k - 1, env, gs[k].names[i], gs[k].oldValues[gs[k].names[i]])
    BY <1>1 DEF FrameOK
  <2> QED
    BY <1>1, <2>1, MeansPrefix
<1> QED
  BY <1>1, <1>2 DEF FrameOK

(* Popping a frame keeps the others in place.                               *)
LEMMA PopExact ==
  ASSUME NEW S, NEW s \in Seq(S), s # <<>>
  PROVE  LET r == SubSeq(s, 1, Len(s) - 1)
         IN /\ Len(r) = Len(s) - 1
            /\ \A k \in 1 .. Len(s) - 1 : r[k] = s[k]
<1> DEFINE m == Len(s) - 1
           r == SubSeq(s, 1, m)
<1>1. Len(s) \in Nat \ {0} /\ m \in Nat
  BY EmptySeq
<1>2. \A i \in 1 .. m : i \in 1 .. Len(s)
  BY <1>1
<1>3. \A i \in 1 .. m : s[i] \in S
  BY <1>2, ElementOfSeq
<1>4. 1 \in Int /\ m \in Int /\ m \in Nat
  BY <1>1
<1> HIDE DEF m
<1>5. /\ Len(r) = IF 1 <= m THEN m - 1 + 1 ELSE 0
      /\ \A i \in 1 .. m - 1 + 1 : r[i] = s[1 + i - 1]
  BY <1>3, <1>4, SubSeqProperties
<1> HIDE DEF r
<1>6. Len(r) = m
  BY <1>4, <1>5
<1>7. ASSUME NEW k \in 1 .. m PROVE r[k] = s[k]
  <2>1. k \in 1 .. m - 1 + 1 /\ 1 + k - 1 = k
    BY <1>4
  <2>2. r[k] = s[1 + k - 1]
    BY <1>5, <2>1
  <2> QED
    BY <2>1, <2>2
<1> QED
  BY <1>6, <1>7 DEF m, r

(* The replaced top is a frame again.                                       *)
LEMMA BoundTopIn ==
  ASSUME Top \in Frame, NamedValues \in Env, NEW n \in Names,
         NEW slot \in Int \X Int
  PROVE  BoundTop(n, slot) \in Frame
<1>1. Append(Top.slots, slot) \in Seq(Int \X Int)
  <2>1. Top.slots \in Seq(Int \X Int)
    BY DEF Frame
  <2> QED
    BY <2>1, AppendProperties
<1>2. [Top.oldValues EXCEPT ![n] = NamedValues[n]] \in Env
  BY DEF Frame, Env
<1> QED
  BY <1>1, <1>2 DEF BoundTop, Frame

(* Opening an expression binds nothing yet.                                 *)
LEMMA OpenLex ==
  ASSUME LexInv, NEW names \in VarLists, Open(names), SlotInv'
  PROVE  LexInv'
<1> DEFINE fr == [names |-> names, bound |-> 0, slots |-> <<>>,
                  oldValues |-> [n \in Names |-> Unbound]]
           K == Len(frames) + 1
<1>1. /\ pc = "body" /\ pc' = pc /\ params' = params
      /\ NamedValues' = NamedValues /\ frames' = Append(frames, fr)
      /\ frames \in Seq(Frame)
  BY DEF Open, LexInv, SlotInv
<1>2. fr.slots = <<>> /\ fr.names = names /\ fr.bound = 0
  OBVIOUS
<1> HIDE DEF fr
<1>3. Len(frames) \in Nat /\ Len(frames') = K /\ frames'[K] = fr
      /\ \A l \in 1 .. Len(frames) : frames'[l] = frames[l]
  BY <1>1, AppendProperties, LenProperties
<1>4. names \in Seq(Names) /\ Len(names) \in Nat
  BY ScopeAssumption, LenProperties
<1>5. FrameOK(frames', K, params')
  <2>1. Len(fr.slots) = 0
    BY <1>2, EmptySeq
  <2> QED
    BY <1>2, <1>3, <1>4, <2>1 DEF FrameOK
<1>6. \A k \in 1 .. Len(frames') : FrameOK(frames', k, params')
  <2> SUFFICES ASSUME NEW k \in 1 .. Len(frames), k \in Nat \ {0}
               PROVE  FrameOK(frames', k, params')
    BY <1>3, <1>5
  <2>1. \A l \in 1 .. k : frames[l] = frames'[l]
    BY <1>3
  <2>2. FrameOK(frames, k, params')
    BY <1>1 DEF LexInv
  <2> QED
    BY <2>1, <2>2, FrameKept
<1>7. LexicallyScoped'
  <2> SUFFICES ASSUME NEW n \in Names
               PROVE  Means(frames', K, params', n, NamedValues'[n])
    BY <1>3 DEF LexicallyScoped
  <2>1. Means(frames, Len(frames), params', n, NamedValues'[n])
    BY <1>1 DEF LexInv, LexicallyScoped
  <2>2. Means(frames', Len(frames), params', n, NamedValues'[n])
    BY <1>3, <2>1, MeansPrefix
  <2>3. ~Binds(frames'[K], n) /\ K \in Nat \ {0} /\ K - 1 = Len(frames)
    BY <1>2, <1>3, EmptySeq DEF Binds
  <2> HIDE DEF K
  <2> QED
    BY <2>2, <2>3, MeansSkip
<1> QED
  BY <1>6, <1>7 DEF LexInv

(* Binding a name remembers what it meant outside of the frame, because the *)
(* frame has not bound it before.                                           *)
LEMMA BindLex ==
  ASSUME DistinctLists, LexInv, Bind, SlotInv'
  PROVE  LexInv'
<1> DEFINE K    == Len(frames)
           b    == Top.bound + 1
           n    == Top.names[b]
           slot == <<function, allocas + 1>>
           fr   == BoundTop(n, slot)
<1>1. /\ pc = "body" /\ pc' = pc /\ params' = params
      /\ frames \in Seq(Frame) /\ frames # <<>>
      /\ Top.bound < Len(Top.names)
      /\ frames' = [frames EXCEPT ![Len(frames)] = fr]
      /\ NamedValues' = [NamedValues EXCEPT ![n] = slot]
      /\ NamedValues \in Env
  BY DEF Bind, LexInv, SlotInv
<1>2. K \in 1 .. K /\ K \in Nat \ {0} /\ Top \in Frame /\ frames[K] = Top
  BY <1>1, TopOf, EmptySeq DEF Top
<1>3. FrameOK(frames, K, params)
  BY <1>2 DEF LexInv
<1>4. /\ Top.names \in VarLists /\ Len(Top.slots) = Top.bound
      /\ Top.bound \in Nat /\ Top.names \in Seq(Names)
      /\ Top.slots \in Seq(Int \X Int) /\ Len(Top.names) \in Nat
      /\ Top.oldValues \in Env
      /\ \A i \in 1 .. Top.bound :
           Means(frames, K - 1, params, Top.names[i],
                 Top.oldValues[Top.names[i]])
  BY <1>2, <1>3, LenProperties DEF FrameOK, Frame
<1>5. b \in 1 .. Len(Top.names) /\ b \in Nat \ {0}
  BY <1>1, <1>4
<1>6. n \in Names
  BY <1>4, <1>5, ElementOfSeq
<1>7. \A i \in 1 .. Top.bound : Top.names[i] # n
  BY <1>4, <1>5, SMTT(30) DEF DistinctLists
<1>8. ~Binds(frames[K], n)
  BY <1>2, <1>4, <1>7 DEF Binds
<1>9. Means(frames, K - 1, params, n, NamedValues[n])
  <2>1. Means(frames, K, params, n, NamedValues[n])
    BY <1>1, <1>6 DEF LexInv, LexicallyScoped
  <2> HIDE DEF n
  <2> QED
    BY <1>2, <1>8, <2>1, MeansSkip
<1>10. /\ fr.names = Top.names /\ fr.bound = b
       /\ fr.oldValues = [Top.oldValues EXCEPT ![n] = NamedValues[n]]
       /\ fr.slots = Append(Top.slots, slot)
  BY DEF BoundTop
<1>11. /\ Len(fr.slots) = b /\ fr.slots[b] = slot
       /\ \A i \in 1 .. Top.bound : fr.slots[i] = Top.slots[i]
  <2>1. slot \in Int \X Int
    BY DEF LexInv, SlotInv
  <2> HIDE DEF slot, fr, n
  <2> QED
    BY <1>4, <1>10, <2>1, AppendProperties
<1>12. fr.oldValues[n] = NamedValues[n]
       /\ \A x \in Names \ {n} : fr.oldValues[x] = Top.oldValues[x]
  <2> HIDE DEF n, fr
  <2> QED
    BY <1>4, <1>6, <1>10 DEF Env
<1>13. fr \in Frame
  <2>1. slot \in Int \X Int /\ NamedValues \in Env
    BY DEF LexInv, SlotInv
  <2> HIDE DEF slot, n
  <2> QED
    BY <1>2, <1>6, <2>1, BoundTopIn
<1> HIDE DEF fr, slot, n
<1>14. /\ Len(frames') = K /\ frames'[K] = fr
       /\ \A l \in 1 .. K - 1 : frames'[l] = frames[l]
  BY <1>1, <1>2, <1>13, ExceptSeq
<1>15. ASSUME NEW x \in Names, NEW v, Means(frames, K - 1, params, x, v)
       PROVE  Means(frames', K - 1, params', x, v)
  <2>1. K - 1 \in Nat /\ \A l \in 1 .. K - 1 : frames[l] = frames'[l]
    BY <1>2, <1>14
  <2> HIDE DEF K
  <2> QED
    BY <1>1, <1>15, <2>1, MeansPrefix
<1>16. FrameOK(frames', K, params')
  <2>1. ASSUME NEW i \in 1 .. b
        PROVE  Means(frames', K - 1, params', Top.names[i],
                     fr.oldValues[Top.names[i]])
    <3>1. i \in 1 .. Len(Top.names) /\ Top.names[i] \in Names
      BY <1>4, <1>5, ElementOfSeq
    <3>2. CASE i = b
      <4>1. Top.names[i] = n
        BY <3>2 DEF n
      <4> QED
        BY <1>6, <1>9, <1>12, <1>15, <4>1
    <3>3. CASE i # b
      <4>1. i \in 1 .. Top.bound
        BY <1>4, <3>3
      <4>2. Top.names[i] # n
        BY <1>7, <4>1
      <4> QED
        BY <1>4, <1>12, <1>15, <3>1, <4>1, <4>2
    <3> QED
      BY <3>2, <3>3
  <2>2. b <= Len(Top.names)
    BY <1>4, <1>5
  <2> QED
    BY <1>4, <1>10, <1>11, <1>14, <2>1, <2>2 DEF FrameOK
<1>17. \A k \in 1 .. Len(frames') : FrameOK(frames', k, params')
  <2> SUFFICES ASSUME NEW k \in 1 .. K - 1, k \in Nat \ {0}
               PROVE  FrameOK(frames', k, params')
    BY <1>2, <1>14, <1>16
  <2>1. \A l \in 1 .. k : frames[l] = frames'[l]
    BY <1>2, <1>14
  <2>2. FrameOK(frames, k, params')
    BY <1>1, <1>2 DEF LexInv
  <2> QED
    BY <2>1, <2>2, FrameKept
<1>18. LexicallyScoped'
  <2> SUFFICES ASSUME NEW x \in Names
               PROVE  Means(frames', K, params', x, NamedValues'[x])
    BY <1>14 DEF LexicallyScoped
  <2>1. Len(frames'[K].slots) = b /\ frames'[K].names = Top.names
    BY <1>10, <1>11, <1>14
  <2>2. CASE x = n
    <3>1. NamedValues'[x] = slot /\ frames'[K].slots[b] = slot
          /\ frames'[K].names[b] = x
      BY <1>1, <1>6, <1>11, <1>14, <2>1, <2>2 DEF Env, n
    <3> HIDE DEF K, b
    <3> QED
      BY <1>2, <1>5, <2>1, <3>1, MeansBound
  <2>3. CASE x # n
    <3>1. NamedValues'[x] = NamedValues[x]
      BY <1>1, <2>3 DEF Env
    <3>2. Means(frames, K, params', x, NamedValues[x])
      BY <1>1 DEF LexInv, LexicallyScoped
    <3>3. /\ \A l \in 1 .. K - 1 : frames[l] = frames'[l]
          /\ frames'[K].names = frames[K].names
          /\ Len(frames[K].slots) \in Nat
          /\ Len(frames'[K].slots) = Len(frames[K].slots) + 1
          /\ \A i \in 1 .. Len(frames[K].slots) :
               frames'[K].slots[i] = frames[K].slots[i]
          /\ frames'[K].names[Len(frames'[K].slots)] # x
      BY <1>2, <1>4, <1>11, <1>14, <2>1, <2>3 DEF n
    <3> HIDE DEF K, b
    <3> QED
      BY <1>2, <3>1, <3>2, <3>3, MeansOther
  <2> QED
    BY <2>2, <2>3
<1> QED
  BY <1>17, <1>18 DEF LexInv

(* Closing a frame restores what its names meant outside of it.             *)
LEMMA CloseLex ==
  ASSUME LexInv, Close, SlotInv'
  PROVE  LexInv'
<1> DEFINE K == Len(frames)
<1>1. /\ pc = "body" /\ pc' = pc /\ params' = params
      /\ frames \in Seq(Frame) /\ frames # <<>>
      /\ Top.bound = Len(Top.names)
      /\ frames' = SubSeq(frames, 1, Len(frames) - 1)
      /\ NamedValues' = Restored(Top)
  BY DEF Close, LexInv, SlotInv
<1>2. K \in 1 .. K /\ K \in Nat \ {0} /\ Top \in Frame /\ frames[K] = Top
  BY <1>1, TopOf, EmptySeq DEF Top
<1>3. FrameOK(frames, K, params)
  BY <1>2 DEF LexInv
<1>4. /\ Len(Top.slots) = Len(Top.names) /\ Len(Top.names) \in Nat
      /\ DOMAIN Top.names = 1 .. Len(Top.names)
      /\ \A i \in 1 .. Len(Top.names) :
           Means(frames, K - 1, params, Top.names[i],
                 Top.oldValues[Top.names[i]])
  BY <1>1, <1>2, <1>3, LenProperties DEF FrameOK, Frame
<1>5. /\ Len(frames') = K - 1
      /\ \A k \in 1 .. K - 1 : frames'[k] = frames[k]
  BY <1>1, PopExact
<1>6. \A k \in 1 .. Len(frames') : FrameOK(frames', k, params')
  <2> SUFFICES ASSUME NEW k \in 1 .. K - 1, k \in Nat \ {0}
               PROVE  FrameOK(frames', k, params')
    BY <1>2, <1>5
  <2>1. \A l \in 1 .. k : frames[l] = frames'[l]
    BY <1>2, <1>5
  <2>2. FrameOK(frames, k, params')
    BY <1>1, <1>2 DEF LexInv
  <2> QED
    BY <2>1, <2>2, FrameKept
<1>7. LexicallyScoped'
  <2> SUFFICES ASSUME NEW n \in Names
               PROVE  Means(frames', K - 1, params', n, NamedValues'[n])
    BY <1>5 DEF LexicallyScoped
  <2>1. Means(frames, K - 1, params, n, NamedValues'[n])
    <3>1. CASE \E i \in 1 .. Len(Top.names) : Top.names[i] = n
      <4>1. NamedValues'[n] = Top.oldValues[n]
        BY <1>1, <1>4, <3>1 DEF Restored
      <4> QED
        BY <1>4, <3>1, <4>1
    <3>2. CASE ~\E i \in 1 .. Len(Top.names) : Top.names[i] = n
      <4>1. NamedValues'[n] = NamedValues[n]
        BY <1>1, <1>4, <3>2 DEF Restored
      <4>2. ~Binds(frames[K], n)
        BY <1>2, <1>4, <3>2 DEF Binds
      <4>3. Means(frames, K, params, n, NamedValues[n])
        BY <1>1 DEF LexInv, LexicallyScoped
      <4> HIDE DEF K
      <4> QED
        BY <1>2, <4>1, <4>2, <4>3, MeansSkip
    <3> QED
      BY <3>1, <3>2
  <2>2. K - 1 \in Nat /\ \A l \in 1 .. K - 1 : frames[l] = frames'[l]
    BY <1>2, <1>5
  <2> HIDE DEF K
  <2> QED
    BY <1>1, <2>1, <2>2, MeansPrefix
<1> QED
  BY <1>6, <1>7 DEF LexInv

LEMMA NextLex == DistinctLists /\ LexInv /\ [Next]_vars => LexInv'
<1> SUFFICES ASSUME DistinctLists, LexInv, [Next]_vars PROVE LexInv'
  OBVIOUS
<1>0. SlotInv /\ SlotInv'
  BY NextSlots DEF LexInv
<1>1. ASSUME NEW P \in SUBSET Names, BeginFunction(P) PROVE LexInv'
  <2>1. frames' = frames /\ frames = <<>>
    BY <1>0, <1>1 DEF BeginFunction, SlotInv
  <2>2. Len(frames') = 0 /\ (\A k \in 1 .. Len(frames') : FALSE)
        /\ (\A l \in 1 .. 0 : FALSE)
    BY <2>1, EmptySeq
  <2>3. \A n \in Names : NamedValues'[n] = params'[n]
    BY <1>1 DEF BeginFunction, Cleared
  <2>4. LexicallyScoped'
    BY <2>2, <2>3 DEF LexicallyScoped, Means
  <2> QED
    BY <1>0, <2>2, <2>4 DEF LexInv
<1>2. ASSUME NEW names \in VarLists, Open(names) PROVE LexInv'
  BY <1>0, <1>2, OpenLex
<1>3. CASE Bind
  BY <1>0, <1>3, BindLex
<1>4. CASE Close
  BY <1>0, <1>4, CloseLex
<1>5. CASE EndFunction \/ Throw
  <2>1. pc' = "idle" /\ \A k \in 1 .. Len(frames') : FALSE
    BY <1>0, <1>5, EmptySeq DEF EndFunction, Throw, SlotInv
  <2> QED
    BY <1>0, <2>1 DEF LexInv, LexicallyScoped
<1>6. CASE UNCHANGED vars
  BY <1>0, <1>6 DEF vars, LexInv, LexicallyScoped
<1> QED
  BY <1>1, <1>2, <1>3, <1>4, <1>5, <1>6 DEF Next

(* As long as no list repeats a name, a name stands for its innermost       *)
(* binding at every point of every body, whatever functions failed before.  *)
THEOREM LexicallyScopedThm == DistinctLists => (Spec => []LexicallyScoped)
<1> SUFFICES ASSUME DistinctLists PROVE Spec => []LexicallyScoped
  OBVIOUS
<1>1. Init => LexInv
  <2> SUFFICES ASSUME Init PROVE LexInv
    OBVIOUS
  <2>1. \A k \in 1 .. Len(frames) : FALSE
    BY EmptySeq DEF Init
  <2> QED
    BY <2>1, InitSlots DEF Init, LexInv, LexicallyScoped
<1>2. LexInv /\ [Next]_vars => LexInv'
  BY NextLex
<1>3. LexInv => LexicallyScoped
  BY DEF LexInv
<1> QED
  BY <1>1, <1>2, <1>3, PTL DEF Spec

LocalInv == LexInv /\ params \in Env

(* Outside of all var and for expressions only the parameters have a        *)
(* meaning, for lists that repeat no name.                                  *)
THEOREM LocalVariablesLocalThm == DistinctLists => (Spec => []LocalVariablesLocal)
<1> SUFFICES ASSUME DistinctLists PROVE Spec => []LocalVariablesLocal
  OBVIOUS
<1>1. Init => LocalInv
  <2> SUFFICES ASSUME Init PROVE LocalInv
    OBVIOUS
  <2>1. \A k \in 1 .. Len(frames) : FALSE
    BY EmptySeq DEF Init
  <2> QED
    BY <2>1, InitSlots DEF Init, LocalInv, LexInv, LexicallyScoped, Env, Unbound
<1>2. LocalInv /\ [Next]_vars => LocalInv'
  <2> SUFFICES ASSUME LocalInv, [Next]_vars PROVE LocalInv'
    OBVIOUS
  <2>1. SlotInv /\ LexInv'
    BY NextLex DEF LocalInv, LexInv
  <2>2. ASSUME NEW P \in SUBSET Names, BeginFunction(P) PROVE params' \in Env
    BY <2>1, <2>2 DEF BeginFunction, SlotInv, Env, Unbound
  <2>3. params' = params \/ \E P \in SUBSET Names : BeginFunction(P)
    BY DEF Next, Open, Bind, Close, EndFunction, Throw, vars
  <2> QED
    BY <2>1, <2>2, <2>3 DEF LocalInv
<1>3. LocalInv => LocalVariablesLocal
  <2> SUFFICES ASSUME LexInv, params \in Env, pc = "body", frames = <<>>
               PROVE  NamedValues = params
    BY DEF LocalInv, LocalVariablesLocal
  <2>1. Len(frames) = 0 /\ \A j \in 1 .. 0 : FALSE
    BY EmptySeq
  <2>2. \A n \in Names : NamedValues[n] = params[n]
    BY <2>1 DEF LexInv, LexicallyScoped, Means
  <2> QED
    BY <2>2 DEF LexInv, SlotInv, Env
<1> QED
  BY <1>1, <1>2, <1>3, PTL DEF Spec
=============================================================================
