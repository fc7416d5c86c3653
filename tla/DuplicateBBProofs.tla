------------------------- MODULE DuplicateBBProofs -------------------------
(***************************************************************************)
(* DuplicateBB keeps every function well-formed, inside its loops too: no  *)
(* operand loses its instruction and phis go on naming predecessors.  RIV  *)
(* runs inside it undisturbed, so that what is proved of RIV holds here.   *)
(***************************************************************************)
EXTENDS DuplicateBB, ListsProofs, SequenceTheorems

(***************************************************************************)
(* The analysis RIV, alone: sound at every step and exact at its end.      *)
(***************************************************************************)
RIVInv == TypeOK /\ Sound /\ Frontier

LEMMA PopLength ==
  ASSUME NEW n \in Nat \ {0}, NEW x,
         x = IF 1 <= n - 1 THEN n - 1 - 1 + 1 ELSE 0
  PROVE  x = n - 1
OBVIOUS

LEMMA SecondHalf ==
  ASSUME NEW r, NEW f, NEW s, NEW m \in Nat, NEW n \in Nat,
         \A i \in 1 .. m + n : r[i] = IF i <= m THEN f[i] ELSE s[i - m]
  PROVE  \A i \in 1 .. n : r[m + i] = s[i]
<1> SUFFICES ASSUME NEW i \in 1 .. n PROVE r[m + i] = s[i]
  OBVIOUS
<1>1. m + i \in 1 .. m + n /\ ~(m + i <= m) /\ m + i - m = i
  OBVIOUS
<1> QED
  BY <1>1

(* Popping the last node and pushing a sequence of children leaves in the   *)
(* worklist the other nodes and the children.                               *)
LEMMA PushedElems ==
  ASSUME NEW S, NEW w \in Seq(S), w # <<>>, NEW s \in Seq(S)
  PROVE  LET r == SubSeq(w, 1, Len(w) - 1) \o s
         IN /\ r \in Seq(S)
            /\ Elems(s) \subseteq Elems(r)
            /\ Elems(r) \subseteq Elems(w) \cup Elems(s)
            /\ Elems(w) \subseteq Elems(r) \cup {w[Len(w)]}
            /\ w[Len(w)] \in Elems(w)
<1> DEFINE f == SubSeq(w, 1, Len(w) - 1)
           r == f \o s
<1>1. Len(w) \in Nat \ {0}
  OBVIOUS
<1>2. f \in Seq(S) /\ Len(f) = Len(w) - 1
      /\ \A i \in 1 .. Len(w) - 1 : f[i] = w[i]
  <2>1. \A i \in 1 .. Len(w) - 1 : w[i] \in S
    BY <1>1, ElementOfSeq
  <2>2. /\ f \in Seq(S)
        /\ Len(f) = IF 1 <= Len(w) - 1 THEN Len(w) - 1 - 1 + 1 ELSE 0
        /\ \A i \in 1 .. Len(w) - 1 - 1 + 1 : f[i] = w[1 + i - 1]
    BY <1>1, <2>1, SubSeqProperties
  <2> HIDE DEF f
  <2>3. Len(f) = Len(w) - 1
    BY <1>1, <2>2, PopLength
  <2>4. \A i \in 1 .. Len(w) - 1 : f[i] = w[i]
    BY <1>1, <2>2
  <2> QED
    BY <2>2, <2>3, <2>4
<1>a. /\ r \in Seq(S) /\ Len(r) = Len(f) + Len(s)
      /\ \A i \in 1 .. Len(f) + Len(s) :
           r[i] = IF i <= Len(f) THEN f[i] ELSE s[i - Len(f)]
  BY <1>2, ConcatProperties
<1> HIDE DEF f, r
<1>3. r \in Seq(S) /\ Len(r) = Len(w) - 1 + Len(s) /\ Len(s) \in Nat
  BY <1>2, <1>a, LenProperties
<1>4. \A i \in 1 .. Len(w) - 1 : r[i] = w[i]
  BY <1>1, <1>2, <1>3, <1>a
<1>5. \A i \in 1 .. Len(s) : r[Len(w) - 1 + i] = s[i]
  <2>1. Len(f) \in Nat /\ Len(s) \in Nat /\ Len(f) = Len(w) - 1
    BY <1>1, <1>2, <1>3
  <2> QED
    BY <1>a, <2>1, SecondHalf
<1>6. \A i \in 1 .. Len(r) : i \in 1 .. Len(w) - 1
                              \/ \E j \in 1 .. Len(s) : i = Len(w) - 1 + j
  <2> SUFFICES ASSUME NEW i \in 1 .. Len(r), i \notin 1 .. Len(w) - 1
               PROVE  \E j \in 1 .. Len(s) : i = Len(w) - 1 + j
    OBVIOUS
  <2>2. i - (Len(w) - 1) \in 1 .. Len(s)
    BY <1>1, <1>3
  <2>3. i = Len(w) - 1 + (i - (Len(w) - 1))
    BY <1>1
  <2> QED
    BY <2>2, <2>3
<1>7. Elems(s) \subseteq Elems(r)
  <2> SUFFICES ASSUME NEW i \in 1 .. Len(s) PROVE s[i] \in Elems(r)
    BY DEF Elems
  <2>1. Len(w) - 1 + i \in 1 .. Len(r)
    BY <1>1, <1>3
  <2> QED
    BY <1>5, <2>1 DEF Elems
<1>8. Elems(r) \subseteq Elems(w) \cup Elems(s)
  <2> SUFFICES ASSUME NEW i \in 1 .. Len(r)
               PROVE  r[i] \in Elems(w) \cup Elems(s)
    BY DEF Elems
  <2>1. CASE i \in 1 .. Len(w) - 1
    <3>1. i \in 1 .. Len(w)
      BY <1>1, <2>1
    <3> QED
      BY <1>4, <2>1, <3>1 DEF Elems
  <2>2. CASE \E j \in 1 .. Len(s) : i = Len(w) - 1 + j
    BY <1>5, <2>2 DEF Elems
  <2> QED
    BY <1>6, <2>1, <2>2
<1>9. Elems(w) \subseteq Elems(r) \cup {w[Len(w)]}
  <2> SUFFICES ASSUME NEW i \in 1 .. Len(w), i # Len(w)
               PROVE  w[i] \in Elems(r)
    BY DEF Elems
  <2>1. i \in 1 .. Len(w) - 1 /\ i \in 1 .. Len(r)
    BY <1>1, <1>3
  <2> QED
    BY <1>4, <2>1 DEF Elems
<1>10. w[Len(w)] \in Elems(w)
  BY <1>1 DEF Elems
<1> QED
  BY <1>3, <1>7, <1>8, <1>9, <1>10 DEF f, r

(* A child is as reachable as its parent, and receives what its parent      *)
(* receives and what its parent defines.                                    *)
LEMMA ChildValues ==
  ASSUME NEW fn, IsDominatorTree(fn), NEW n \in Reachable(fn),
         NEW c \in Elems(fn.kids[n])
  PROVE  /\ c \in Reachable(fn)
         /\ ReachingValues(fn, c)
              = ReachingValues(fn, n) \cup definedValues(fn, n)
<1>1. IsDominatorTree(fn)
  BY FunctionsAssumption
<1>2. n \in fn.blocks /\ (n = fn.entry \/ fn.entry \in fn.sdom[n])
  BY DEF Reachable
<1>3. c \in fn.blocks
  <2>1. fn.kids[n] \in Seq(fn.blocks)
    BY <1>1, <1>2 DEF IsDominatorTree
  <2> QED
    BY <2>1 DEF Elems
<1>4. fn.sdom[c] = fn.sdom[n] \cup {n}
  BY <1>1 DEF IsDominatorTree
<1>5. c \in Reachable(fn)
  BY <1>2, <1>3, <1>4 DEF Reachable
<1>6. (UNION {fn.insts[d] : d \in fn.sdom[c]})
        = (UNION {fn.insts[d] : d \in fn.sdom[n]}) \cup fn.insts[n]
  BY <1>4
<1>7. ReachingValues(fn, c) = IntegerTyped \cap (fn.globals \cup fn.args
        \cup (UNION {fn.insts[d] : d \in fn.sdom[c]}))
  BY <1>5 DEF ReachingValues
<1>8. ReachingValues(fn, n) = IntegerTyped \cap (fn.globals \cup fn.args
        \cup (UNION {fn.insts[d] : d \in fn.sdom[n]}))
  BY DEF ReachingValues
<1> QED
  BY <1>5, <1>6, <1>7, <1>8 DEF definedValues

LEMMA SingletonSeq == ASSUME NEW S, NEW e \in S PROVE <<e>> \in Seq(S)
OBVIOUS

LEMMA InitRIV == Init => RIVInv
<1> SUFFICES ASSUME Init PROVE RIVInv
  OBVIOUS
<1>1. IsDominatorTree(F) /\ F \in Functions /\ F.entry \in F.blocks
      /\ F.sdom[F.entry] = {} /\ worklist = <<F.entry>>
  BY FunctionsAssumption DEF Init, IsDominatorTree
<1>2. TypeOK
  <2>1. worklist \in Seq(F.blocks)
    BY <1>1, SingletonSeq
  <2> QED
    BY <1>1, <2>1 DEF Init, TypeOK
<1>3. F.entry \in Reachable(F) /\ ReachingValues(F, F.entry) = entryValues(F)
  BY <1>1 DEF Reachable, ReachingValues, entryValues
<1>4. Elems(worklist) = {F.entry}
  BY <1>1 DEF Elems
<1>5. \A b \in F.blocks : b # F.entry =>
        /\ result[b] = {}
        /\ b \notin Reachable(F) => ReachingValues(F, b) = {}
        /\ b \in Reachable(F) => F.entry \in F.sdom[b]
  BY DEF Init, Reachable, ReachingValues
<1>6. result[F.entry] = entryValues(F)
  BY <1>1 DEF Init
<1>7. Sound
  BY <1>3, <1>5, <1>6 DEF Sound
<1>8. Frontier
  BY <1>3, <1>4, <1>5, <1>6 DEF Frontier
<1> QED
  BY <1>2, <1>7, <1>8 DEF RIVInv

LEMMA NextRIV == RIVInv /\ [Iterate]_vars => RIVInv'
<1> SUFFICES ASSUME RIVInv, [Iterate]_vars PROVE RIVInv'
  OBVIOUS
<1>1. CASE UNCHANGED vars
  BY <1>1 DEF vars, RIVInv, TypeOK, Sound, Frontier
<1>2. CASE Iterate
  <2> DEFINE node     == worklist[Len(worklist)]
             children == F.kids[node]
  <2>1. /\ F' = F /\ IsDominatorTree(F)
        /\ worklist # <<>> /\ worklist \in Seq(F.blocks)
        /\ worklist' = Pushed(children)
        /\ result' = [b \in F.blocks |->
                        IF b \in Elems(children)
                        THEN result[b] \cup PassedOn(node) ELSE result[b]]
    BY <1>2, FunctionsAssumption DEF Iterate, RIVInv, TypeOK
  <2>2. /\ node \in Elems(worklist) /\ node \in Reachable(F)
        /\ result[node] = ReachingValues(F, node) /\ node \in F.blocks
    BY <2>1 DEF RIVInv, Frontier, Elems, Reachable
  <2>3. children \in Seq(F.blocks)
    BY <2>1, <2>2 DEF IsDominatorTree
  <2>4. /\ worklist' \in Seq(F.blocks)
        /\ Elems(children) \subseteq Elems(worklist')
        /\ Elems(worklist') \subseteq Elems(worklist) \cup Elems(children)
        /\ Elems(worklist) \subseteq Elems(worklist') \cup {node}
    BY <2>1, <2>3, PushedElems DEF Pushed
  <2> HIDE DEF node, children
  <2>5. \A c \in Elems(children) :
          c \in Reachable(F) /\ ReachingValues(F, c) = PassedOn(node)
    BY <2>1, <2>2, ChildValues DEF children, PassedOn
  <2>6. \A b \in F.blocks : /\ b \in Elems(children) =>
                                 result'[b] = ReachingValues(F, b)
                            /\ b \notin Elems(children) =>
                                 result'[b] = result[b]
    <3>1. \A b \in F.blocks : result[b] \subseteq ReachingValues(F, b)
      BY DEF RIVInv, Sound
    <3> QED
      BY <2>1, <2>5, <3>1
  <2>7. TypeOK'
    BY <2>1, <2>4 DEF TypeOK
  <2>8. \A b \in F.blocks : ReachingValues(F', b) = ReachingValues(F, b)
    BY <2>1
  <2>9. Sound'
    BY <2>1, <2>6, <2>8 DEF RIVInv, Sound
  <2>10. ASSUME NEW a \in Elems(worklist')
         PROVE  a \in Reachable(F) /\ result'[a] = ReachingValues(F, a)
    <3>1. a \in F.blocks
      BY <2>4 DEF Elems
    <3> QED
      BY <2>4, <2>5, <2>6, <3>1 DEF RIVInv, Frontier
  <2>11. ASSUME NEW b \in F.blocks, result'[b] # ReachingValues(F, b)
         PROVE  F.sdom[b] \cap Elems(worklist') # {}
    <3>1. b \notin Elems(children) /\ result[b] # ReachingValues(F, b)
      BY <2>6, <2>11
    <3>2. PICK a \in F.sdom[b] : a \in Elems(worklist)
      BY <3>1 DEF RIVInv, Frontier
    <3>3. CASE a = node
      <4>1. b \in Reachable(F)
        BY <3>1 DEF RIVInv, Sound, ReachingValues
      <4>2. PICK c \in Elems(children) : c = b \/ c \in F.sdom[b]
        BY <2>1, <3>2, <3>3, <4>1 DEF IsDominatorTree, children
      <4> QED
        BY <2>4, <3>1, <4>2
    <3>4. CASE a # node
      BY <2>4, <3>2, <3>4
    <3> QED
      BY <3>3, <3>4
  <2>12. Frontier'
    BY <2>1, <2>10, <2>11 DEF Frontier
  <2> QED
    BY <2>7, <2>9, <2>12 DEF RIVInv
<1> QED
  BY <1>1, <1>2

LEMMA Invariance == Spec => []RIVInv
BY InitRIV, NextRIV, PTL DEF Spec

(* No value is reported for a block it does not dominate, at any time.      *)
THEOREM SoundThm == Spec => []Sound
<1>1. RIVInv => Sound
  BY DEF RIVInv
<1> QED
  BY <1>1, Invariance, PTL

(* When the walk ends, the result is exactly what the definition says.      *)
THEOREM ExactThm == Spec => []Exact
<1>1. RIVInv => Exact
  <2> SUFFICES ASSUME RIVInv, worklist = <<>>, NEW b \in F.blocks
               PROVE  result[b] = ReachingValues(F, b)
    BY DEF Exact
  <2>1. Elems(worklist) = {}
    BY DEF Elems
  <2> QED
    BY <2>1 DEF RIVInv, Frontier
<1> QED
  BY <1>1, Invariance, PTL

-----------------------------------------------------------------------------
(***************************************************************************)
(* Lists of instructions.                                                  *)
(***************************************************************************)
Parts == {"head", "then", "else", "tail"}
Names == Parts \X F.blocks
Values == Outside(F) \cup Results(F)
\* The instructions the pass makes or finds.
Made == [id : Results(F), kind : {"phi", "int", "void", "br", "isnull"},
         ops : Seq(Values), from : Seq(Names)]

LEMMA ElemsOf ==
  ASSUME NEW X, NEW s \in Seq(X)
  PROVE  /\ Elems(s) = ToSet(s) /\ Elems(s) \subseteq X
         /\ DOMAIN s = 1 .. Len(s) /\ Len(s) \in Nat
         /\ \A i \in DOMAIN s : s[i] \in Elems(s) /\ s[i] \in X
         /\ \A e \in Elems(s) : \E i \in DOMAIN s : s[i] = e
BY DEF Elems, ToSet

LEMMA MappedSeq ==
  ASSUME NEW Y, NEW n \in Nat, NEW t \in [1 .. n -> Y]
  PROVE  t \in Seq(Y) /\ Len(t) = n /\ DOMAIN t = 1 .. n /\ Elems(t) = {t[i] : i \in 1 .. n}
<1>1. t \in Seq(Y) /\ DOMAIN t = 1 .. n
  BY IsSequence
<1>2. Len(t) = n
  BY <1>1
<1> QED
  BY <1>1, <1>2 DEF Elems

LEMMA FirstNonPHIPlace ==
  ASSUME NEW X, NEW s \in Seq(X)
  PROVE  /\ FirstNonPHI(s) \in 1 .. Len(s) + 1
         /\ \A i \in DOMAIN s : i < FirstNonPHI(s) => IsPhi(s[i])
         /\ FirstNonPHI(s) \in DOMAIN s => ~IsPhi(s[FirstNonPHI(s)])
<1> DEFINE S == {i \in 1 .. Len(s) + 1 : i <= Len(s) => ~IsPhi(s[i])}
<1>1. Len(s) \in Nat /\ DOMAIN s = 1 .. Len(s)
  OBVIOUS
<1>2. Len(s) + 1 \in S
  BY <1>1
<1>3. S \in SUBSET Nat
  BY <1>1
<1> HIDE DEF S
<1>4. Min(S) \in S /\ \A k \in S : Min(S) <= k
  BY <1>2, <1>3, MinPlace
<1>5. FirstNonPHI(s) = Min(S)
  BY DEF FirstNonPHI, S
<1>6. \A i \in DOMAIN s : i < Min(S) => IsPhi(s[i])
  BY <1>1, <1>3, <1>4 DEF S
<1> QED
  BY <1>1, <1>4, <1>5, <1>6 DEF S

LEMMA CutSeq ==
  ASSUME NEW X, NEW s \in Seq(X), NEW n \in 1 .. Len(s) + 1
  PROVE  LET a == SubSeq(s, 1, n - 1)
             z == SubSeq(s, n, Len(s))
         IN /\ a \in Seq(X) /\ Len(a) = n - 1 /\ DOMAIN a = 1 .. n - 1
            /\ \A i \in 1 .. n - 1 : a[i] = s[i] /\ i \in DOMAIN s
            /\ z \in Seq(X) /\ Len(z) = Len(s) - (n - 1)
            /\ DOMAIN z = 1 .. Len(s) - (n - 1)
            /\ \A i \in DOMAIN z : z[i] = s[n - 1 + i] /\ n - 1 + i \in n .. Len(s)
            /\ Elems(s) = Elems(a) \cup Elems(z)
<1> DEFINE a == SubSeq(s, 1, n - 1)
           z == SubSeq(s, n, Len(s))
<1>1. Len(s) \in Nat /\ DOMAIN s = 1 .. Len(s) /\ \A i \in 1 .. Len(s) : s[i] \in X
  OBVIOUS
<1>2. /\ a \in Seq(X) /\ Len(a) = n - 1 /\ DOMAIN a = 1 .. n - 1
      /\ \A i \in 1 .. n - 1 : a[i] = s[i] /\ i \in DOMAIN s
  <2>1. \A i \in 1 .. n - 1 : i \in 1 .. Len(s)
    BY <1>1
  <2>2. a = [i \in 1 .. n - 1 |-> s[i]]
    BY <1>1
  <2>3. n - 1 \in Nat
    BY <1>1
  <2> HIDE DEF a
  <2>4. a \in Seq(X)
    BY <1>1, <2>1, <2>2, <2>3, IsSequence
  <2> QED
    BY <1>1, <2>1, <2>2, <2>3, <2>4
<1>3. /\ z \in Seq(X) /\ Len(z) = Len(s) - (n - 1)
      /\ DOMAIN z = 1 .. Len(s) - (n - 1)
      /\ \A i \in DOMAIN z : z[i] = s[n - 1 + i] /\ n - 1 + i \in n .. Len(s)
  <2>1. \A i \in 1 .. Len(s) - (n - 1) : n - 1 + i \in n .. Len(s) /\ n - 1 + i \in 1 .. Len(s)
    BY <1>1
  <2>2. z = [i \in 1 .. Len(s) - (n - 1) |-> s[n - 1 + i]]
    BY <1>1
  <2>3. Len(s) - (n - 1) \in Nat
    BY <1>1
  <2> HIDE DEF z
  <2>4. z \in Seq(X)
    BY <1>1, <2>1, <2>2, <2>3, IsSequence
  <2> QED
    BY <1>1, <2>1, <2>2, <2>3, <2>4
<1> HIDE DEF a, z
<1>4. ASSUME NEW e \in Elems(s) PROVE e \in Elems(a) \cup Elems(z)
  <2>1. PICK i \in 1 .. Len(s) : s[i] = e
    BY DEF Elems
  <2>2. CASE i \in 1 .. n - 1
    BY <1>2, <2>1, <2>2 DEF Elems
  <2>3. CASE i \notin 1 .. n - 1
    <3>1. i - (n - 1) \in 1 .. Len(s) - (n - 1) /\ n - 1 + (i - (n - 1)) = i
      BY <1>1, <2>3
    <3>2. z[i - (n - 1)] = e
      BY <1>3, <2>1, <3>1
    <3> QED
      BY <1>3, <3>1, <3>2 DEF Elems
  <2> QED
    BY <2>2, <2>3
<1>5. ASSUME NEW e \in Elems(a) \cup Elems(z) PROVE e \in Elems(s)
  <2>1. CASE e \in Elems(a)
    BY <1>1, <1>2, <2>1 DEF Elems
  <2>2. CASE e \in Elems(z)
    <3>1. PICK i \in DOMAIN z : z[i] = e
      BY <1>3, <2>2 DEF Elems
    <3>2. n - 1 + i \in 1 .. Len(s) /\ s[n - 1 + i] = e
      BY <1>1, <1>3, <3>1
    <3> QED
      BY <3>2 DEF Elems
  <2> QED
    BY <2>1, <2>2
<1>6. Elems(s) = Elems(a) \cup Elems(z)
  BY <1>4, <1>5
<1> QED
  BY <1>2, <1>3, <1>6 DEF a, z

LEMMA AppendElems ==
  ASSUME NEW X, NEW s \in Seq(X), NEW e \in X
  PROVE  /\ Append(s, e) \in Seq(X) /\ Len(Append(s, e)) = Len(s) + 1
         /\ \A i \in DOMAIN s : Append(s, e)[i] = s[i]
         /\ Append(s, e)[Len(s) + 1] = e
         /\ Elems(Append(s, e)) = Elems(s) \cup {e}
<1> DEFINE t == Append(s, e)
<1>1. /\ t \in Seq(X) /\ Len(t) = Len(s) + 1 /\ Len(s) \in Nat
      /\ \A i \in 1 .. Len(s) : t[i] = s[i]
      /\ t[Len(s) + 1] = e
  OBVIOUS
<1> HIDE DEF t
<1>2. \A i \in 1 .. Len(s) + 1 : i \in 1 .. Len(s) \/ i = Len(s) + 1
  BY <1>1
<1>3. \A i \in 1 .. Len(s) : i \in 1 .. Len(s) + 1
  BY <1>1
<1>4. Len(s) + 1 \in 1 .. Len(s) + 1
  BY <1>1
<1>5. ASSUME NEW x \in Elems(t) PROVE x \in Elems(s) \cup {e}
  BY <1>1, <1>2, <1>5 DEF Elems
<1>6. ASSUME NEW x \in Elems(s) \cup {e} PROVE x \in Elems(t)
  BY <1>1, <1>3, <1>4, <1>6 DEF Elems
<1> QED
  BY <1>1, <1>5, <1>6 DEF t

LEMMA FreedElems ==
  ASSUME NEW X, NEW s \in Seq(X), NEW free
  PROVE  /\ Freed(s, free) \in Seq(X)
         /\ Elems(Freed(s, free)) = {s[i] : i \in DOMAIN s \ free}
<1>1. DOMAIN s \ free \in SUBSET DOMAIN s
  OBVIOUS
<1> QED
  BY <1>1, AtMembers, ElemsOf DEF Freed

(***************************************************************************)
(* What a step may do to an instruction.                                   *)
(***************************************************************************)
\* The phis' sources change; the operands stay.
LEMMA NewSourcesKeep ==
  ASSUME NEW inst \in Made, NEW old \in Names, NEW new \in Names
  PROVE  LET moved == NewSources(inst, old, new)
         IN /\ moved \in Made
            /\ moved.id = inst.id /\ moved.kind = inst.kind /\ moved.ops = inst.ops
            /\ Elems(moved.from) = {IF y = old THEN new ELSE y : y \in Elems(inst.from)}
<1> DEFINE from == [i \in DOMAIN inst.from |-> IF inst.from[i] = old THEN new ELSE inst.from[i]]
           moved == NewSources(inst, old, new)
<1>1. inst.from \in Seq(Names) /\ Len(inst.from) \in Nat
      /\ DOMAIN inst.from = 1 .. Len(inst.from)
  BY DEF Made
<1>2. moved = [inst EXCEPT !.from = from]
  BY DEF NewSources
<1>3. \A i \in DOMAIN inst.from : from[i] \in Names
  BY <1>1, ElemsOf
<1>4. \A i \in DOMAIN inst.from : from[i] = IF inst.from[i] = old THEN new ELSE inst.from[i]
  OBVIOUS
<1>5. from \in [1 .. Len(inst.from) -> Names]
  BY <1>1, <1>3
<1> HIDE DEF from
<1>6. /\ from \in Seq(Names) /\ DOMAIN from = DOMAIN inst.from
      /\ Elems(from) = {from[i] : i \in DOMAIN inst.from}
  BY <1>1, <1>5, MappedSeq
<1>7. moved \in Made /\ moved.id = inst.id /\ moved.kind = inst.kind
      /\ moved.ops = inst.ops /\ moved.from = from
  BY <1>2, <1>6 DEF Made
<1>8. Elems(from) = {IF y = old THEN new ELSE y : y \in Elems(inst.from)}
  <2>1. ASSUME NEW e \in Elems(from)
        PROVE  e \in {IF y = old THEN new ELSE y : y \in Elems(inst.from)}
    <3>1. PICK i \in DOMAIN inst.from : from[i] = e
      BY <1>6
    <3>2. inst.from[i] \in Elems(inst.from)
      BY <1>1, <3>1, ElemsOf
    <3> QED
      BY <1>4, <3>1, <3>2
  <2>2. ASSUME NEW y \in Elems(inst.from)
        PROVE  (IF y = old THEN new ELSE y) \in Elems(from)
    <3>1. PICK i \in DOMAIN inst.from : inst.from[i] = y
      BY <1>1, ElemsOf
    <3> QED
      BY <1>4, <1>6, <3>1
  <2> QED
    BY <2>1, <2>2
<1> QED
  BY <1>7, <1>8 DEF moved

\* Operands are mapped one by one; nothing else changes.
LEMMA RemappedKeep ==
  ASSUME NEW inst \in Made, NEW m, \A v \in DOMAIN m : m[v] \in Values
  PROVE  LET made == Remapped(inst, m)
         IN /\ made \in Made
            /\ made.id = inst.id /\ made.kind = inst.kind /\ made.from = inst.from
            /\ Elems(made.ops) = {Mapped(m, v) : v \in Elems(inst.ops)}
<1> DEFINE ops == [i \in DOMAIN inst.ops |-> Mapped(m, inst.ops[i])]
           made == Remapped(inst, m)
<1>1. inst.ops \in Seq(Values) /\ Len(inst.ops) \in Nat
      /\ DOMAIN inst.ops = 1 .. Len(inst.ops)
  BY DEF Made
<1>2. made = [inst EXCEPT !.ops = ops]
  BY DEF Remapped
<1>3. \A i \in DOMAIN inst.ops : ops[i] \in Values
  BY <1>1, ElemsOf DEF Mapped
<1>4. \A i \in DOMAIN inst.ops : ops[i] = Mapped(m, inst.ops[i])
  OBVIOUS
<1>5. ops \in [1 .. Len(inst.ops) -> Values]
  BY <1>1, <1>3
<1> HIDE DEF ops
<1>6. /\ ops \in Seq(Values) /\ DOMAIN ops = DOMAIN inst.ops
      /\ Elems(ops) = {ops[i] : i \in DOMAIN inst.ops}
  BY <1>1, <1>5, MappedSeq
<1>7. made \in Made /\ made.id = inst.id /\ made.kind = inst.kind
      /\ made.from = inst.from /\ made.ops = ops
  BY <1>2, <1>6 DEF Made
<1>8. Elems(ops) = {Mapped(m, v) : v \in Elems(inst.ops)}
  <2>1. ASSUME NEW e \in Elems(ops) PROVE e \in {Mapped(m, v) : v \in Elems(inst.ops)}
    BY <1>1, <1>4, <1>6, ElemsOf
  <2>2. ASSUME NEW v \in Elems(inst.ops) PROVE Mapped(m, v) \in Elems(ops)
    <3>1. PICK i \in DOMAIN inst.ops : inst.ops[i] = v
      BY <1>1, ElemsOf
    <3> QED
      BY <1>4, <1>6, <3>1
  <2> QED
    BY <2>1, <2>2
<1> QED
  BY <1>7, <1>8 DEF made

(***************************************************************************)
(* The instructions of the source.                                         *)
(***************************************************************************)
\* A void instruction of the source and its clones are nobody's operands.
Voids == {v \in Results(F) : /\ v[1] \in {"orig", "then", "else"}
                             /\ <<"orig", v[2], v[3]>> \in VoidIds(F)}
\* An instruction of the source, of the kind and at the id of inst.
Source(b, inst) ==
  \E orig \in Elems(F.code[b]) : orig.id = inst.id /\ orig.kind = inst.kind

LEMMA SourceIds ==
  ASSUME CodeSound(F), NEW b \in F.blocks, NEW inst, Source(b, inst)
  PROVE  /\ inst.id = <<"orig", b, inst.id[3]>> /\ inst.id[3] \in Nat
         /\ inst.id \in Results(F)
         /\ inst.kind \in {"phi", "int", "void", "br"}
         /\ inst.kind = "void" <=> inst.id \in VoidIds(F)
<1>1. F.code \in [F.blocks -> Seq(Instructions(F))]
      /\ \A c \in F.blocks : \A i, j \in DOMAIN F.code[c] :
           /\ F.code[c][i].id[2] = c
           /\ F.code[c][i].id = F.code[c][j].id => i = j
  BY DEF CodeSound
<1>2. PICK k \in DOMAIN F.code[b] : F.code[b][k].id = inst.id /\ F.code[b][k].kind = inst.kind
  BY <1>1, ElemsOf DEF Source
<1>3. F.code[b][k] \in Instructions(F)
  BY <1>1, ElemsOf
<1>4. /\ inst.id \in {"orig"} \X F.blocks \X Nat /\ inst.id[2] = b
      /\ inst.kind \in {"phi", "int", "void", "br"}
  <2>1. F.code[b][k].id[2] = b
    BY <1>1
  <2>2. /\ F.code[b][k].id \in {"orig"} \X F.blocks \X Nat
        /\ F.code[b][k].kind \in {"phi", "int", "void", "br"}
    BY <1>3 DEF Instructions
  <2> QED
    BY <1>2, <2>1, <2>2
<1>5. /\ inst.id = <<"orig", b, inst.id[3]>> /\ inst.id[3] \in Nat
      /\ inst.id \in Results(F)
  BY <1>4 DEF Results, Roles
<1>6. ASSUME inst.kind = "void" PROVE inst.id \in VoidIds(F)
  BY <1>1, <1>2, <1>6, ElemsOf DEF VoidIds
<1>7. ASSUME inst.id \in VoidIds(F) PROVE inst.kind = "void"
  <2>1. PICK c \in F.blocks : inst.id \in {i.id : i \in {e \in Elems(F.code[c]) : e.kind = "void"}}
    BY <1>7 DEF VoidIds
  <2>2. PICK e \in Elems(F.code[c]) : e.kind = "void" /\ e.id = inst.id
    BY <2>1
  <2>3. PICK j \in DOMAIN F.code[c] : F.code[c][j] = e
    BY <1>1, <2>2, ElemsOf
  <2>4. c = b
    BY <1>1, <1>4, <2>2, <2>3
  <2>5. j = k
    BY <1>1, <1>2, <2>2, <2>3, <2>4
  <2> QED
    BY <1>2, <2>2, <2>3, <2>4, <2>5
<1> QED
  BY <1>4, <1>5, <1>6, <1>7

\* A value that RIV reports is the result of a source instruction, not void,
\* or comes from outside the function.
LEMMA ReachingSource ==
  ASSUME CodeSound(F), RIVInv, NEW b \in F.blocks, NEW v \in result[b]
  PROVE  v \notin Voids /\ \/ v \in Outside(F)
                           \/ \E c \in F.blocks : \E orig \in Elems(F.code[c]) :
                                orig.id = v /\ orig.kind # "void"
<1>1. v \in ReachingValues(F, b) /\ v \in IntegerTyped
  BY DEF RIVInv, Sound, ReachingValues
<1>2. F.sdom \in [F.blocks -> SUBSET F.blocks]
  BY DEF RIVInv, TypeOK, IsDominatorTree
<1>3. v \in Outside(F) \/ \E c \in F.blocks : v \in F.insts[c]
  BY <1>1, <1>2 DEF ReachingValues, Outside
<1>4. CASE v \in Outside(F)
  BY <1>4 DEF CodeSound, Voids
<1>5. ASSUME NEW c \in F.blocks, v \in F.insts[c]
      PROVE  v \notin Voids /\ \E orig \in Elems(F.code[c]) : orig.id = v /\ orig.kind # "void"
  <2>1. v \in Ids(F.code[c]) /\ F.code \in [F.blocks -> Seq(Instructions(F))]
        /\ v \notin VoidIds(F)
    BY <1>1, <1>5 DEF CodeSound
  <2>2. PICK orig \in Elems(F.code[c]) : orig.id = v
    BY <2>1, ElemsOf DEF Ids
  <2>3. v = <<"orig", c, v[3]>> /\ (orig.kind = "void" <=> v \in VoidIds(F))
    BY <2>2, SourceIds DEF Source
  <2>4. v \notin Voids
    <3>1. v[1] = "orig" /\ v[2] = c
      BY <2>3
    <3> QED
      BY <2>1, <2>3, <3>1 DEF Voids
  <2> QED
    BY <2>1, <2>2, <2>3, <2>4
<1> QED
  BY <1>3, <1>4, <1>5

(***************************************************************************)
(* The inductive invariant.                                                *)
(***************************************************************************)
ThenOf(b) == Block("then", b)
ElseOf(b) == Block("else", b)
TailOf(b) == Block("tail", b)
HasTail(b) == TailOf(b) \in DOMAIN code
AllInsts == UNION {Elems(code[x]) : x \in DOMAIN code}

CodeTyped ==
  /\ CodeSound(F)
  /\ DOMAIN code \subseteq Names
  /\ code \in [DOMAIN code -> Seq(Made)]
  /\ succ \in [DOMAIN code -> SUBSET DOMAIN code]
  /\ \A b \in F.blocks : /\ Original(b) \in DOMAIN code
                         /\ ThenOf(b) \in DOMAIN code <=> HasTail(b)
                         /\ ElseOf(b) \in DOMAIN code <=> HasTail(b)
  /\ todo \subseteq F.blocks
\* A target to come is whole, and its value has been chosen.
Coming ==
  /\ targets = Unchosen => at = Idle /\ todo = {} /\ \A b \in F.blocks : ~HasTail(b)
  /\ \A b \in todo :
       /\ HasTail(b) => at # Idle /\ at.b = b
       /\ targets[b] \notin Voids
       /\ \/ targets[b] \in Outside(F)
          \/ \E c \in F.blocks : \E orig \in Elems(F.code[c]) :
               orig.id = targets[b] /\ orig.kind # "void"
\* A block that is whole holds the source's instructions, phis first.
Whole ==
  \A b \in F.blocks : ~HasTail(b) =>
    \A i \in DOMAIN code[Original(b)] :
      /\ Source(b, code[Original(b)][i])
      /\ \A j \in DOMAIN code[Original(b)] :
           i < j /\ IsPhi(code[Original(b)][j]) => IsPhi(code[Original(b)][i])
\* Behind the place the loop has reached the tail is still the source's.
InTail ==
  at # Idle =>
    /\ at = [b |-> at.b, k |-> at.k, thenVMap |-> at.thenVMap,
             elseVMap |-> at.elseVMap, freeList |-> at.freeList]
    /\ at.b \in todo /\ HasTail(at.b) /\ at.k \in Nat \ {0}
    /\ \A i \in DOMAIN code[TailOf(at.b)] :
         /\ i >= at.k => /\ Source(at.b, code[TailOf(at.b)][i])
                         /\ ~IsPhi(code[TailOf(at.b)][i])
         /\ i \in at.freeList => i < at.k /\ code[TailOf(at.b)][i].kind = "void"
\* The maps lead to clones, and to void ones from void values only.
ClonesMapped ==
  at # Idle =>
    \A m \in {at.thenVMap, at.elseVMap} : \A v \in DOMAIN m :
      /\ m[v] \in There /\ m[v] \in Results(F) /\ m[v][1] \in {"then", "else"}
      /\ m[v] \in Voids => v \in Voids
\* The copies hold no phis, and only they go on to the tail.
Copies ==
  \A b \in F.blocks : HasTail(b) =>
    /\ \A inst \in Elems(code[ThenOf(b)]) \cup Elems(code[ElseOf(b)]) : ~IsPhi(inst)
    /\ \A x \in DOMAIN code : TailOf(b) \in succ[x] <=> x \in {ThenOf(b), ElseOf(b)}
Operable ==
  \A inst \in AllInsts : /\ Elems(inst.ops) \subseteq There \ Voids
                         /\ inst.kind = "void" => inst.id \in Voids
\* A source value is there, or a phi stands for it.
Covered ==
  /\ \A b \in F.blocks : \A orig \in Elems(F.code[b]) :
       orig.kind # "void" => orig.id \in There \cup DOMAIN valueToPhi
  /\ \A v \in DOMAIN valueToPhi :
       valueToPhi[v] \in There \cap Results(F) /\ valueToPhi[v][1] = "phi"

Structure == CodeTyped /\ Coming /\ Whole /\ InTail
Flow == Copies /\ PhisNamePredecessors
Uses == ClonesMapped /\ Operable /\ Covered
DupInv == RIVInv /\ Structure /\ Flow /\ Uses

LEMMA IdsOf ==
  ASSUME NEW X, NEW s \in Seq(X)
  PROVE  Ids(s) = {inst.id : inst \in Elems(s)}
<1>1. DOMAIN s = 1 .. Len(s)
  OBVIOUS
<1> QED
  BY <1>1 DEF Ids, Elems

LEMMA ThereIs ==
  ASSUME code \in [DOMAIN code -> Seq(Made)], code' \in [DOMAIN code' -> Seq(Made)], F' = F
  PROVE  /\ There = Outside(F) \cup {inst.id : inst \in AllInsts}
         /\ There' = Outside(F) \cup {inst.id : inst \in AllInsts'}
<1>1. \A x \in DOMAIN code : Ids(code[x]) = {inst.id : inst \in Elems(code[x])}
  BY IdsOf
<1>2. \A x \in DOMAIN code' : Ids(code'[x]) = {inst.id : inst \in Elems(code'[x])}
  BY IdsOf
<1>3. UNION {Ids(code[x]) : x \in DOMAIN code} = {inst.id : inst \in AllInsts}
  BY <1>1 DEF AllInsts
<1>4. UNION {Ids(code'[x]) : x \in DOMAIN code'} = {inst.id : inst \in AllInsts'}
  BY <1>2 DEF AllInsts
<1> QED
  BY <1>3, <1>4 DEF There

LEMMA InitDup == DInit => DupInv
<1> SUFFICES ASSUME DInit PROVE DupInv
  OBVIOUS
<1>1. RIVInv
  BY InitRIV DEF DInit
<1>2. CodeSound(F)
  BY CodeAssumption DEF DInit, Init
<1>3. /\ F.code \in [F.blocks -> Seq(Instructions(F))]
      /\ F.succ \in [F.blocks -> SUBSET F.blocks]
  BY <1>2 DEF CodeSound
<1>4. Instructions(F) \subseteq Made
  <2> SUFFICES ASSUME NEW i \in Instructions(F) PROVE i \in Made
    OBVIOUS
  <2>1. i.ops \in Seq(Values) /\ i.from \in Seq({"head"} \X F.blocks)
    BY DEF Instructions, Values
  <2>2. i.from \in Seq(Names)
    BY <2>1 DEF Names, Parts
  <2> QED
    BY <2>1, <2>2 DEF Instructions, Made, Results, Roles
<1>5. /\ DOMAIN code = {Original(b) : b \in F.blocks} /\ DOMAIN succ = DOMAIN code
      /\ \A b \in F.blocks : /\ code[Original(b)] = F.code[b]
                             /\ succ[Original(b)] = {Original(s) : s \in F.succ[b]}
  BY DEF DInit, Original
<1>6. \A b \in F.blocks : code[Original(b)] \in Seq(Instructions(F))
                          /\ code[Original(b)] \in Seq(Made)
  BY <1>3, <1>4, <1>5
<1>7. CodeTyped
  <2>1. DOMAIN code \subseteq Names
    BY <1>5 DEF Names, Parts, Original
  <2>2. code \in [DOMAIN code -> Seq(Made)]
    <3>1. \A x \in DOMAIN code : code[x] \in Seq(Made)
      BY <1>5, <1>6
    <3>2. code = [x \in DOMAIN code |-> code[x]]
      BY DEF DInit
    <3> QED
      BY <3>1, <3>2
  <2>3. succ \in [DOMAIN code -> SUBSET DOMAIN code]
    <3>1. \A x \in DOMAIN code : succ[x] \in SUBSET DOMAIN code
      BY <1>3, <1>5
    <3>2. succ = [x \in DOMAIN code |-> succ[x]]
      BY DEF DInit
    <3> QED
      BY <3>1, <3>2
  <2>4. \A b \in F.blocks : /\ Original(b) \in DOMAIN code
                            /\ ThenOf(b) \notin DOMAIN code /\ ElseOf(b) \notin DOMAIN code
                            /\ ~HasTail(b)
    BY <1>5 DEF Original, ThenOf, ElseOf, TailOf, Block, HasTail
  <2> QED
    BY <1>2, <2>1, <2>2, <2>3, <2>4 DEF CodeTyped, DInit
<1>8. \A b \in F.blocks : ~HasTail(b)
  BY <1>5 DEF Original, TailOf, Block, HasTail
<1>9. Whole
  <2>1. ASSUME NEW b \in F.blocks, NEW i \in DOMAIN code[Original(b)]
        PROVE  /\ Source(b, code[Original(b)][i])
               /\ \A j \in DOMAIN code[Original(b)] :
                    i < j /\ IsPhi(code[Original(b)][j]) => IsPhi(code[Original(b)][i])
    <3>1. /\ code[Original(b)] = F.code[b] /\ F.code[b] \in Seq(Instructions(F))
          /\ i \in DOMAIN F.code[b]
      BY <1>3, <1>5
    <3>2. F.code[b][i] \in Elems(F.code[b])
      BY <3>1, ElemsOf
    <3>3. \A j \in DOMAIN F.code[b] :
            i < j /\ IsPhi(F.code[b][j]) => IsPhi(F.code[b][i])
      BY <1>2, <3>1 DEF CodeSound
    <3> QED
      BY <3>1, <3>2, <3>3 DEF Source
  <2> QED
    BY <2>1 DEF Whole
<1>10. Coming /\ InTail /\ ClonesMapped
  BY <1>8 DEF DInit, Coming, InTail, ClonesMapped
<1>11. Copies
  BY <1>8 DEF Copies
<1>12. PhisNamePredecessors
  <2> SUFFICES ASSUME NEW b \in F.blocks, NEW phi \in PhisOf(F.code[b])
               PROVE  Elems(phi.from) = {p \in DOMAIN code : Original(b) \in succ[p]}
    BY <1>5 DEF PhisNamePredecessors
  <2>1. Elems(phi.from) = {Original(p) : p \in {q \in F.blocks : b \in F.succ[q]}}
    BY <1>2 DEF CodeSound
  <2>2. ASSUME NEW q \in F.blocks
        PROVE  Original(b) \in succ[Original(q)] <=> b \in F.succ[q]
    <3>1. succ[Original(q)] = {Original(s) : s \in F.succ[q]}
      BY <1>5
    <3>2. \A c, d \in F.blocks : Original(c) = Original(d) => c = d
      BY DEF Original
    <3>3. F.succ[q] \subseteq F.blocks
      BY <1>3
    <3> QED
      BY <3>1, <3>2, <3>3
  <2> QED
    BY <1>5, <2>1, <2>2
<1>13. There = Outside(F) \cup UNION {Ids(F.code[b]) : b \in F.blocks}
  <2>1. UNION {Ids(code[x]) : x \in DOMAIN code} = UNION {Ids(F.code[b]) : b \in F.blocks}
    BY <1>5
  <2> QED
    BY <2>1 DEF There
<1>14. Operable
  <2> SUFFICES ASSUME NEW inst \in AllInsts
               PROVE  /\ Elems(inst.ops) \subseteq There \ Voids
                      /\ inst.kind = "void" => inst.id \in Voids
    BY DEF Operable
  <2>1. PICK b \in F.blocks : inst \in Elems(F.code[b])
    BY <1>5 DEF AllInsts
  <2>2. Operands(F.code[b])
          \subseteq Outside(F) \cup ((UNION {Ids(F.code[c]) : c \in F.blocks}) \ VoidIds(F))
    BY <1>2 DEF CodeSound
  <2>3. Elems(inst.ops) \subseteq Operands(F.code[b])
    <3>1. PICK i \in DOMAIN F.code[b] : F.code[b][i] = inst
      BY <1>3, <2>1, ElemsOf
    <3> QED
      BY <3>1 DEF Operands
  <2>4. /\ inst.id = <<"orig", b, inst.id[3]>> /\ inst.id \in Results(F)
        /\ inst.kind = "void" => inst.id \in VoidIds(F)
    BY <1>2, <2>1, SourceIds DEF Source
  <2>5. inst.kind = "void" => inst.id \in Voids
    BY <2>4 DEF Voids
  <2>6. ASSUME NEW v \in Outside(F) \cup ((UNION {Ids(F.code[c]) : c \in F.blocks}) \ VoidIds(F))
        PROVE  v \in There \ Voids
    <3>1. v \in There
      BY <1>13
    <3>2. CASE v \in Outside(F)
      <4>1. v \notin Results(F)
        BY <1>2, <3>2 DEF CodeSound
      <4> QED
        BY <3>1, <4>1 DEF Voids
    <3>3. CASE v \notin Outside(F)
      <4>1. PICK c \in F.blocks : v \in Ids(F.code[c])
        BY <2>6, <3>3
      <4>2. PICK orig \in Elems(F.code[c]) : orig.id = v
        BY <1>3, <4>1, IdsOf
      <4>3. v = <<"orig", c, v[3]>>
        BY <1>2, <4>2, SourceIds DEF Source
      <4>4. v \notin VoidIds(F)
        BY <2>6, <3>3
      <4> QED
        BY <3>1, <4>3, <4>4 DEF Voids
    <3> QED
      BY <3>2, <3>3
  <2> QED
    BY <2>2, <2>3, <2>5, <2>6
<1>15. Covered
  <2>1. valueToPhi = <<>> /\ DOMAIN valueToPhi = {}
    BY DEF DInit
  <2>2. ASSUME NEW b \in F.blocks, NEW orig \in Elems(F.code[b]) PROVE orig.id \in There
    <3>1. orig.id \in Ids(F.code[b])
      BY <1>3, IdsOf
    <3> QED
      BY <1>13, <3>1
  <2> QED
    BY <2>1, <2>2 DEF Covered
<1> QED
  BY <1>1, <1>7, <1>9, <1>10, <1>11, <1>12, <1>14, <1>15
     DEF DupInv, Structure, Flow, Uses

LEMMA AnalyseDup == DupInv /\ Analyse => DupInv'
<1> SUFFICES ASSUME DupInv, Analyse PROVE DupInv'
  OBVIOUS
<1>1. RIVInv'
  BY NextRIV DEF DupInv, Analyse
<1>2. F' = F /\ UNCHANGED dvars
  BY DEF Analyse, Iterate
<1>3. CodeTyped' /\ Coming' /\ Whole' /\ InTail'
  <2>1. CodeTyped'
    BY <1>2 DEF DupInv, Structure, dvars, CodeTyped, HasTail, Made, Names, Values
  <2>2. Coming'
    BY <1>2 DEF DupInv, Structure, dvars, Coming, HasTail, Voids
  <2>3. Whole'
    BY <1>2 DEF DupInv, Structure, dvars, Whole, HasTail, Source
  <2>4. InTail'
    BY <1>2 DEF DupInv, Structure, dvars, InTail, HasTail, Source
  <2> QED
    BY <2>1, <2>2, <2>3, <2>4
<1>4. Copies' /\ PhisNamePredecessors'
  BY <1>2 DEF DupInv, Flow, dvars, Copies, PhisNamePredecessors, HasTail
<1>5. ClonesMapped' /\ Operable' /\ Covered'
  BY <1>2 DEF DupInv, Uses, dvars, ClonesMapped, Operable, Covered, There, Voids, AllInsts
<1> QED
  BY <1>1, <1>3, <1>4, <1>5 DEF DupInv, Structure, Flow, Uses

LEMMA ChooseDup == DupInv /\ Choose => DupInv'
<1> SUFFICES ASSUME DupInv, Choose PROVE DupInv'
  OBVIOUS
<1>1. /\ UNCHANGED <<vars, code, succ, valueToPhi, at>> /\ F' = F
      /\ targets = Unchosen /\ todo' = Targets
      /\ DOMAIN targets' = Targets
      /\ \A b \in Targets : targets'[b] \in result[b]
  BY DEF Choose, vars
<1>2. RIVInv'
  BY <1>1 DEF DupInv, RIVInv, vars, TypeOK, Sound, Frontier
<1>3. at = Idle /\ todo = {} /\ CodeTyped /\ CodeSound(F) /\ RIVInv
  BY <1>1 DEF DupInv, Structure, Coming, CodeTyped
<1>4. Targets \subseteq F.blocks
  BY DEF Targets
<1>5. CodeTyped'
  BY <1>1, <1>3, <1>4 DEF CodeTyped, HasTail, Made, Names, Values
<1>6. Whole' /\ InTail' /\ ClonesMapped'
  BY <1>1, <1>3 DEF DupInv, Structure, Whole, InTail, ClonesMapped, HasTail, Source
<1>7. Coming'
  <2>1. targets' = Unchosen => Targets = {}
    BY <1>1 DEF Unchosen
  <2>2. targets' = Unchosen => at' = Idle /\ todo' = {}
    BY <1>1, <1>3, <2>1
  <2>3. \A b \in F.blocks : ~HasTail(b)
    BY <1>1 DEF DupInv, Structure, Coming
  <2>4. ASSUME NEW b \in Targets
        PROVE  /\ ~HasTail(b)
               /\ targets'[b] \notin Voids
               /\ \/ targets'[b] \in Outside(F)
                  \/ \E c \in F.blocks : \E orig \in Elems(F.code[c]) :
                       orig.id = targets'[b] /\ orig.kind # "void"
    <3>1. b \in F.blocks /\ targets'[b] \in result[b]
      BY <1>1, <1>4
    <3> QED
      BY <1>1, <1>3, <2>3, <3>1, ReachingSource
  <2>5. Voids' = Voids /\ \A b \in F.blocks : HasTail(b)' <=> HasTail(b)
    BY <1>1 DEF Voids, HasTail
  <2> QED
    BY <1>1, <1>3, <1>4, <2>2, <2>3, <2>4, <2>5 DEF Coming
<1>8. Copies' /\ PhisNamePredecessors'
  BY <1>1 DEF DupInv, Flow, Copies, PhisNamePredecessors, HasTail
<1>9. Operable' /\ Covered'
  BY <1>1 DEF DupInv, Uses, Operable, Covered, There, Voids, AllInsts
<1> QED
  BY <1>2, <1>5, <1>6, <1>7, <1>8, <1>9 DEF DupInv, Structure, Flow, Uses

(***************************************************************************)
(* The beginning of a target.                                              *)
(***************************************************************************)
Moved(insts, old, new) == [i \in DOMAIN insts |-> NewSources(insts[i], old, new)]

LEMMA MovedSeq ==
  ASSUME NEW s \in Seq(Made), NEW old \in Names, NEW new \in Names
  PROVE  /\ Moved(s, old, new) \in Seq(Made) /\ Len(Moved(s, old, new)) = Len(s)
         /\ \A i \in DOMAIN s : Moved(s, old, new)[i] = NewSources(s[i], old, new)
         /\ Elems(Moved(s, old, new)) = {NewSources(e, old, new) : e \in Elems(s)}
<1> DEFINE t == Moved(s, old, new)
           n == Len(s)
<1>1. DOMAIN s = 1 .. n /\ n \in Nat /\ \A i \in 1 .. n : s[i] \in Made
  OBVIOUS
<1>2. t = [i \in 1 .. n |-> NewSources(s[i], old, new)]
  BY <1>1 DEF Moved
<1>3. \A i \in 1 .. n : NewSources(s[i], old, new) \in Made
  BY <1>1, NewSourcesKeep
<1>4. t \in [1 .. n -> Made]
  BY <1>2, <1>3
<1>5. \A i \in 1 .. n : t[i] = NewSources(s[i], old, new)
  BY <1>2
<1> HIDE DEF t, n
<1>6. t \in Seq(Made) /\ Len(t) = n /\ Elems(t) = {t[i] : i \in 1 .. n}
  BY <1>1, <1>4, MappedSeq
<1>7. Elems(s) = {s[i] : i \in 1 .. n}
  BY DEF Elems, n
<1>8. Elems(t) = {NewSources(e, old, new) : e \in Elems(s)}
  BY <1>5, <1>6, <1>7
<1> QED
  BY <1>1, <1>5, <1>6, <1>8 DEF t, n

LEMMA ThereValues ==
  ASSUME CodeTyped PROVE There \subseteq Values
<1> SUFFICES ASSUME NEW v \in There PROVE v \in Values
  OBVIOUS
<1>1. code \in [DOMAIN code -> Seq(Made)]
  BY DEF CodeTyped
<1>2. CASE v \in Outside(F)
  BY <1>2 DEF Values
<1>3. CASE v \notin Outside(F)
  <2>1. PICK x \in DOMAIN code : v \in Ids(code[x])
    BY <1>3 DEF There
  <2>2. PICK inst \in Elems(code[x]) : inst.id = v
    BY <1>1, <2>1, IdsOf
  <2>3. inst \in Made
    BY <1>1, <2>2, ElemsOf
  <2> QED
    BY <2>2, <2>3 DEF Made, Values
<1> QED
  BY <1>2, <1>3

LEMMA CheckedThere ==
  ASSUME DupInv, NEW b \in todo
  PROVE  Checked(b) \in There \ Voids /\ Checked(b) \in Values
<1>1. CodeTyped /\ Covered /\ Coming
  BY DEF DupInv, Structure, Uses
<1>2. CASE targets[b] \in DOMAIN valueToPhi
  <2>1. Checked(b) = valueToPhi[targets[b]]
    BY <1>2 DEF Checked, Mapped
  <2> QED
    BY <1>1, <1>2, <2>1, ThereValues DEF Covered, Voids
<1>3. CASE targets[b] \notin DOMAIN valueToPhi
  <2>1. Checked(b) = targets[b]
    BY <1>3 DEF Checked, Mapped
  <2>2. targets[b] \in There
    BY <1>1, <1>3 DEF Coming, Covered, There
  <2>3. targets[b] \notin Voids
    BY <1>1 DEF Coming
  <2> QED
    BY <1>1, <2>1, <2>2, <2>3, ThereValues
<1> QED
  BY <1>2, <1>3

Test(b) == [id |-> <<"cond", b, 0>>, kind |-> "isnull", ops |-> <<Checked(b)>>, from |-> <<>>]
FrontOf(b) == SubSeq(code[Original(b)], 1, FirstNonPHI(code[Original(b)]) - 1)
Rest(b) == SubSeq(code[Original(b)], FirstNonPHI(code[Original(b)]), Len(code[Original(b)]))

(* The blocks after Split, one by one.                                      *)
LEMMA SplitBlocks ==
  ASSUME DupInv, NEW b \in todo, Split(b)
  PROVE  LET move(s) == Moved(s, Original(b), TailOf(b))
         IN /\ b \in F.blocks /\ at = Idle /\ ~HasTail(b) /\ Original(b) \in DOMAIN code
            /\ ThenOf(b) \notin DOMAIN code /\ ElseOf(b) \notin DOMAIN code
            /\ {Original(b), TailOf(b), ThenOf(b), ElseOf(b)} \subseteq Names
            /\ DOMAIN code' = DOMAIN code \cup {TailOf(b), ThenOf(b), ElseOf(b)}
            /\ DOMAIN succ' = DOMAIN code' /\ DOMAIN succ = DOMAIN code
            /\ code'[Original(b)] = Append(move(FrontOf(b)), Test(b))
            /\ code'[TailOf(b)] = Rest(b)
            /\ code'[ThenOf(b)] = <<>> /\ code'[ElseOf(b)] = <<>>
            /\ \A x \in DOMAIN code \ {Original(b)} : code'[x] = move(code[x])
            /\ succ'[Original(b)] = {ThenOf(b), ElseOf(b)}
            /\ succ'[TailOf(b)] = succ[Original(b)]
            /\ succ'[ThenOf(b)] = {TailOf(b)} /\ succ'[ElseOf(b)] = {TailOf(b)}
            /\ \A x \in DOMAIN code \ {Original(b)} : succ'[x] = succ[x]
            /\ at' = [b |-> b, k |-> 1, thenVMap |-> <<>>, elseVMap |-> <<>>, freeList |-> {}]
            /\ code' = [x \in DOMAIN code' |-> code'[x]]
            /\ succ' = [x \in DOMAIN code' |-> succ'[x]]
            /\ UNCHANGED <<vars, targets, todo, valueToPhi>>
<1> DEFINE head == Original(b)
           n == FirstNonPHI(code[head])
           C == DOMAIN code \cup {TailOf(b), ThenOf(b), ElseOf(b)}
<1>1. /\ b \in F.blocks /\ at = Idle /\ ~HasTail(b) /\ head \in DOMAIN code
      /\ ThenOf(b) \notin DOMAIN code /\ ElseOf(b) \notin DOMAIN code
      /\ TailOf(b) \notin DOMAIN code
      /\ DOMAIN succ = DOMAIN code /\ code[head] \in Seq(Made)
  BY DEF Split, DupInv, Structure, CodeTyped, Coming, HasTail
<1>2. {head, TailOf(b), ThenOf(b), ElseOf(b)} \subseteq Names
  BY <1>1 DEF Names, Parts, Original, TailOf, ThenOf, ElseOf, Block
<1>3. /\ TailOf(b) # ThenOf(b) /\ TailOf(b) # ElseOf(b) /\ ThenOf(b) # ElseOf(b)
      /\ head \notin {TailOf(b), ThenOf(b), ElseOf(b)}
  BY DEF Original, TailOf, ThenOf, ElseOf, Block
<1>4. n - 1 + 1 = n
  BY <1>1, FirstNonPHIPlace
<1>5. code' = [x \in C |->
                 IF x = head THEN Append(Moved(FrontOf(b), head, TailOf(b)), Test(b))
                 ELSE IF x = TailOf(b) THEN Rest(b)
                 ELSE IF x \in DOMAIN code THEN Moved(code[x], head, TailOf(b)) ELSE <<>>]
  BY <1>4 DEF Split, Moved, FrontOf, Rest, Test, Original, TailOf, ThenOf, ElseOf, Block
<1>6. DOMAIN code' = C
  BY <1>5
<1>7. succ' = [x \in C |-> IF x = head THEN {ThenOf(b), ElseOf(b)}
                           ELSE IF x = TailOf(b) THEN succ[head]
                           ELSE IF x \in DOMAIN code THEN succ[x] ELSE {TailOf(b)}]
  BY <1>6 DEF Split, Original, TailOf, ThenOf, ElseOf, Block
<1>8. /\ at' = [b |-> b, k |-> 1, thenVMap |-> <<>>, elseVMap |-> <<>>, freeList |-> {}]
      /\ UNCHANGED <<vars, targets, todo, valueToPhi>>
  BY DEF Split
<1> HIDE DEF head, n
<1>9. /\ code'[head] = Append(Moved(FrontOf(b), head, TailOf(b)), Test(b))
      /\ code'[TailOf(b)] = Rest(b)
      /\ code'[ThenOf(b)] = <<>> /\ code'[ElseOf(b)] = <<>>
      /\ \A x \in DOMAIN code \ {head} : code'[x] = Moved(code[x], head, TailOf(b))
  BY <1>1, <1>3, <1>5 DEF HasTail
<1>10. /\ succ'[head] = {ThenOf(b), ElseOf(b)}
       /\ succ'[TailOf(b)] = succ[head]
       /\ succ'[ThenOf(b)] = {TailOf(b)} /\ succ'[ElseOf(b)] = {TailOf(b)}
       /\ \A x \in DOMAIN code \ {head} : succ'[x] = succ[x]
  BY <1>1, <1>3, <1>7 DEF HasTail
<1>11. code' = [x \in DOMAIN code' |-> code'[x]] /\ succ' = [x \in DOMAIN code' |-> succ'[x]]
       /\ DOMAIN succ' = DOMAIN code'
  BY <1>5, <1>6, <1>7
<1> QED
  BY <1>1, <1>2, <1>6, <1>8, <1>9, <1>10, <1>11 DEF head

LEMMA SplitParts ==
  ASSUME DupInv, NEW b \in todo, Split(b)
  PROVE  /\ FrontOf(b) \in Seq(Made) /\ Rest(b) \in Seq(Made)
         /\ Elems(code[Original(b)]) = Elems(FrontOf(b)) \cup Elems(Rest(b))
         /\ \A i \in DOMAIN Rest(b) : Source(b, Rest(b)[i]) /\ ~IsPhi(Rest(b)[i])
<1> DEFINE s == code[Original(b)]
           n == FirstNonPHI(s)
<1>1. s \in Seq(Made) /\ b \in F.blocks /\ ~HasTail(b)
  BY SplitBlocks DEF DupInv, Structure, CodeTyped
<1>2. \A i \in DOMAIN s : /\ Source(b, s[i])
                          /\ \A j \in DOMAIN s : i < j /\ IsPhi(s[j]) => IsPhi(s[i])
  BY <1>1 DEF DupInv, Structure, Whole
<1> HIDE DEF s
<1>3. /\ n \in 1 .. Len(s) + 1 /\ (n \in DOMAIN s => ~IsPhi(s[n]))
      /\ Len(s) \in Nat /\ DOMAIN s = 1 .. Len(s)
  BY <1>1, FirstNonPHIPlace
<1> HIDE DEF n
<1>4. LET a == SubSeq(s, 1, n - 1)
          z == SubSeq(s, n, Len(s))
      IN /\ a \in Seq(Made)
         /\ z \in Seq(Made)
         /\ \A i \in DOMAIN z : z[i] = s[n - 1 + i] /\ n - 1 + i \in n .. Len(s)
         /\ Elems(s) = Elems(a) \cup Elems(z)
  BY <1>1, <1>3, CutSeq
<1>5. FrontOf(b) = SubSeq(s, 1, n - 1) /\ Rest(b) = SubSeq(s, n, Len(s))
  BY DEF FrontOf, Rest, s, n
<1>6. /\ FrontOf(b) \in Seq(Made) /\ Rest(b) \in Seq(Made)
      /\ Elems(s) = Elems(FrontOf(b)) \cup Elems(Rest(b))
      /\ \A i \in DOMAIN Rest(b) : Rest(b)[i] = s[n - 1 + i] /\ n - 1 + i \in n .. Len(s)
  BY <1>4, <1>5
<1>7. ASSUME NEW i \in DOMAIN Rest(b)
      PROVE  Source(b, Rest(b)[i]) /\ ~IsPhi(Rest(b)[i])
  <2> DEFINE k == n - 1 + i
  <2>1. Rest(b)[i] = s[k] /\ k \in n .. Len(s)
    BY <1>6, <1>7
  <2> HIDE DEF k
  <2>2. k \in DOMAIN s /\ n \in DOMAIN s /\ (k = n \/ n < k)
    BY <1>3, <2>1
  <2>3. ~IsPhi(s[k])
    BY <1>2, <1>3, <2>2
  <2> QED
    BY <1>2, <2>1, <2>2, <2>3
<1> QED
  BY <1>6, <1>7 DEF s

LEMMA SplitInsts ==
  ASSUME DupInv, NEW b \in todo, Split(b)
  PROVE  /\ Test(b) \in Made
         /\ code' \in [DOMAIN code' -> Seq(Made)]
         /\ Elems(code'[Original(b)])
              = {NewSources(e, Original(b), TailOf(b)) : e \in Elems(FrontOf(b))} \cup {Test(b)}
         /\ \A x \in DOMAIN code \ {Original(b)} :
              /\ Elems(code'[x]) = {NewSources(e, Original(b), TailOf(b)) : e \in Elems(code[x])}
              /\ Len(code'[x]) = Len(code[x])
              /\ \A i \in DOMAIN code[x] :
                   code'[x][i] = NewSources(code[x][i], Original(b), TailOf(b))
         /\ \A y \in AllInsts' : \/ y = Test(b)
                                 \/ \E e \in AllInsts : /\ y.id = e.id /\ y.kind = e.kind
                                                        /\ y.ops = e.ops
         /\ \A e \in AllInsts : \E y \in AllInsts' : y.id = e.id
<1> DEFINE head == Original(b)
           tail == TailOf(b)
           move(s) == Moved(s, head, tail)
<1>1. /\ b \in F.blocks /\ head \in DOMAIN code /\ tail \notin DOMAIN code
      /\ ThenOf(b) \notin DOMAIN code /\ ElseOf(b) \notin DOMAIN code
      /\ head \in Names /\ tail \in Names
      /\ DOMAIN code' = DOMAIN code \cup {tail, ThenOf(b), ElseOf(b)}
      /\ code'[head] = Append(move(FrontOf(b)), Test(b))
      /\ code'[tail] = Rest(b)
      /\ code'[ThenOf(b)] = <<>> /\ code'[ElseOf(b)] = <<>>
      /\ \A x \in DOMAIN code \ {head} : code'[x] = move(code[x])
      /\ code' = [x \in DOMAIN code' |-> code'[x]]
  BY SplitBlocks DEF HasTail
<1>2. code \in [DOMAIN code -> Seq(Made)]
  BY DEF DupInv, Structure, CodeTyped
<1>3. Test(b) \in Made
  <2>1. Checked(b) \in Values
    BY CheckedThere
  <2>2. <<Checked(b)>> \in Seq(Values)
    BY <2>1, SingletonSeq
  <2>3. <<"cond", b, 0>> \in Results(F)
    BY <1>1 DEF Results, Roles
  <2>4. <<>> \in Seq(Names)
    OBVIOUS
  <2> QED
    BY <2>2, <2>3, <2>4 DEF Test, Made
<1> HIDE DEF head, tail, move
<1>4. /\ move(FrontOf(b)) \in Seq(Made)
      /\ Elems(move(FrontOf(b))) = {NewSources(e, head, tail) : e \in Elems(FrontOf(b))}
  BY <1>1, SplitParts, MovedSeq, SMTT(30) DEF move
<1>5. ASSUME NEW x \in DOMAIN code
      PROVE  /\ move(code[x]) \in Seq(Made) /\ Len(move(code[x])) = Len(code[x])
             /\ Elems(move(code[x])) = {NewSources(e, head, tail) : e \in Elems(code[x])}
             /\ \A i \in DOMAIN code[x] : move(code[x])[i] = NewSources(code[x][i], head, tail)
  BY <1>1, <1>2, MovedSeq DEF move
<1>6. /\ Append(move(FrontOf(b)), Test(b)) \in Seq(Made)
      /\ Elems(Append(move(FrontOf(b)), Test(b))) = Elems(move(FrontOf(b))) \cup {Test(b)}
  BY <1>3, <1>4, AppendElems
<1>7. code' \in [DOMAIN code' -> Seq(Made)]
  <2>1. ASSUME NEW x \in DOMAIN code' PROVE code'[x] \in Seq(Made)
    <3>1. CASE x = head
      BY <1>1, <1>6, <3>1
    <3>2. CASE x = tail
      BY <1>1, SplitParts, <3>2
    <3>3. CASE x = ThenOf(b) \/ x = ElseOf(b)
      <4>1. <<>> \in Seq(Made)
        OBVIOUS
      <4> QED
        BY <1>1, <3>3, <4>1
    <3>4. CASE x \in DOMAIN code \ {head}
      BY <1>1, <1>5, <3>4
    <3> QED
      BY <1>1, <3>1, <3>2, <3>3, <3>4
  <2> QED
    BY <1>1, <2>1
<1>8. Elems(code'[head]) = {NewSources(e, head, tail) : e \in Elems(FrontOf(b))} \cup {Test(b)}
  BY <1>1, <1>4, <1>6
<1>9. \A x \in DOMAIN code \ {head} :
        /\ Elems(code'[x]) = {NewSources(e, head, tail) : e \in Elems(code[x])}
        /\ Len(code'[x]) = Len(code[x])
        /\ \A i \in DOMAIN code[x] : code'[x][i] = NewSources(code[x][i], head, tail)
  BY <1>1, <1>5
<1>10. Elems(code[head]) = Elems(FrontOf(b)) \cup Elems(Rest(b))
  BY SplitParts DEF head
<1>11. Elems(code'[tail]) = Elems(Rest(b)) /\ Elems(code'[ThenOf(b)]) = {}
       /\ Elems(code'[ElseOf(b)]) = {}
  BY <1>1 DEF Elems
<1>12. \A e \in AllInsts : /\ NewSources(e, head, tail).id = e.id
                           /\ NewSources(e, head, tail).kind = e.kind
                           /\ NewSources(e, head, tail).ops = e.ops
  <2>1. \A e \in AllInsts : e \in Made
    BY <1>2, ElemsOf DEF AllInsts
  <2> QED
    BY <1>1, <2>1, NewSourcesKeep
<1>13. ASSUME NEW y \in AllInsts', y # Test(b)
       PROVE  \E e \in AllInsts : y.id = e.id /\ y.kind = e.kind /\ y.ops = e.ops
  <2>1. PICK x \in DOMAIN code' : y \in Elems(code'[x])
    BY DEF AllInsts
  <2>2. CASE x = head
    <3>1. PICK e \in Elems(FrontOf(b)) : y = NewSources(e, head, tail)
      BY <1>8, <1>13, <2>1, <2>2
    <3>2. e \in AllInsts
      BY <1>1, <1>10 DEF AllInsts
    <3> QED
      BY <1>12, <3>1, <3>2
  <2>3. CASE x = tail
    <3>1. y \in AllInsts
      BY <1>1, <1>10, <1>11, <2>1, <2>3 DEF AllInsts
    <3> QED
      BY <3>1
  <2>4. CASE x = ThenOf(b) \/ x = ElseOf(b)
    BY <1>11, <2>1, <2>4
  <2>5. CASE x \in DOMAIN code \ {head}
    <3>1. PICK e \in Elems(code[x]) : y = NewSources(e, head, tail)
      BY <1>9, <2>1, <2>5
    <3>2. e \in AllInsts
      BY <2>5 DEF AllInsts
    <3> QED
      BY <1>12, <3>1, <3>2
  <2> QED
    BY <1>1, <2>2, <2>3, <2>4, <2>5
<1>14. ASSUME NEW e \in AllInsts PROVE \E y \in AllInsts' : y.id = e.id
  <2>1. PICK x \in DOMAIN code : e \in Elems(code[x])
    BY DEF AllInsts
  <2>2. CASE x # head
    <3>1. NewSources(e, head, tail) \in Elems(code'[x]) /\ x \in DOMAIN code'
      BY <1>1, <1>9, <2>1, <2>2
    <3>2. NewSources(e, head, tail) \in AllInsts'
      BY <3>1 DEF AllInsts
    <3> QED
      BY <1>12, <3>2
  <2>3. CASE e \in Elems(Rest(b))
    <3>1. e \in AllInsts'
      BY <1>1, <1>11, <2>3 DEF AllInsts
    <3> QED
      BY <3>1
  <2>4. CASE e \in Elems(FrontOf(b))
    <3>1. NewSources(e, head, tail) \in Elems(code'[head]) /\ head \in DOMAIN code'
      BY <1>1, <1>8, <2>4
    <3>2. NewSources(e, head, tail) \in AllInsts'
      BY <3>1 DEF AllInsts
    <3> QED
      BY <1>12, <3>2
  <2> QED
    BY <1>10, <2>1, <2>2, <2>3, <2>4
<1> QED
  BY <1>3, <1>7, <1>8, <1>9, <1>13, <1>14 DEF head, tail

LEMMA Working ==
  ASSUME NEW b, NEW k, NEW t, NEW e, NEW f, NEW r,
         r = [b |-> b, k |-> k, thenVMap |-> t, elseVMap |-> e, freeList |-> f]
  PROVE  /\ r # Idle
         /\ r.b = b /\ r.k = k /\ r.thenVMap = t /\ r.elseVMap = e /\ r.freeList = f
<1>1. DOMAIN r = {"b", "k", "thenVMap", "elseVMap", "freeList"} /\ DOMAIN Idle = {}
  BY DEF Idle
<1> QED
  BY <1>1

LEMMA NamesDiffer ==
  ASSUME NEW b, NEW c
  PROVE  /\ (Original(b) = Original(c) \/ ThenOf(b) = ThenOf(c) \/ ElseOf(b) = ElseOf(c)
                \/ TailOf(b) = TailOf(c)) => b = c
         /\ Original(b) \notin {ThenOf(c), ElseOf(c), TailOf(c)}
         /\ ThenOf(b) \notin {ElseOf(c), TailOf(c)} /\ ElseOf(b) # TailOf(c)
BY DEF Original, ThenOf, ElseOf, TailOf, Block

LEMMA SplitStructure ==
  ASSUME DupInv, NEW b \in todo, Split(b)
  PROVE  Structure'
<1> DEFINE head == Original(b)
           tail == TailOf(b)
<1>1. /\ b \in F.blocks /\ at = Idle /\ ~HasTail(b) /\ head \in DOMAIN code
      /\ ThenOf(b) \notin DOMAIN code /\ ElseOf(b) \notin DOMAIN code
      /\ {head, tail, ThenOf(b), ElseOf(b)} \subseteq Names
      /\ DOMAIN code' = DOMAIN code \cup {tail, ThenOf(b), ElseOf(b)}
      /\ DOMAIN succ' = DOMAIN code' /\ DOMAIN succ = DOMAIN code
      /\ code'[tail] = Rest(b)
  BY SplitBlocks
<1>2. /\ succ'[head] = {ThenOf(b), ElseOf(b)}
      /\ succ'[tail] = succ[head]
      /\ succ'[ThenOf(b)] = {tail} /\ succ'[ElseOf(b)] = {tail}
      /\ \A x \in DOMAIN code \ {head} : succ'[x] = succ[x]
      /\ succ' = [x \in DOMAIN code' |-> succ'[x]]
  BY SplitBlocks
<1>3. /\ at' = [b |-> b, k |-> 1, thenVMap |-> <<>>, elseVMap |-> <<>>, freeList |-> {}]
      /\ F' = F /\ targets' = targets /\ todo' = todo
  BY SplitBlocks DEF vars
<1>4. at' # Idle /\ at'.b = b /\ at'.k = 1 /\ at'.freeList = {}
  BY <1>3, Working
<1>5. /\ code' \in [DOMAIN code' -> Seq(Made)]
      /\ \A x \in DOMAIN code \ {head} :
           /\ Len(code'[x]) = Len(code[x])
           /\ \A i \in DOMAIN code[x] : code'[x][i] = NewSources(code[x][i], head, tail)
  BY SplitInsts
<1>6. CodeTyped /\ Coming /\ Whole
  BY DEF DupInv, Structure
<1>7. \A c \in F.blocks : HasTail(c)' <=> HasTail(c) \/ c = b
  BY <1>1, NamesDiffer DEF HasTail
<1> HIDE DEF head, tail
<1>8. CodeTyped'
  <2>1. CodeSound(F)' /\ DOMAIN code' \subseteq Names' /\ code' \in [DOMAIN code' -> Seq(Made')]
    BY <1>1, <1>3, <1>5, <1>6 DEF CodeTyped, Names, Made, Values
  <2>2. succ' \in [DOMAIN code' -> SUBSET DOMAIN code']
    <3>1. succ \in [DOMAIN code -> SUBSET DOMAIN code]
      BY <1>6 DEF CodeTyped
    <3>2. ASSUME NEW x \in DOMAIN code' PROVE succ'[x] \in SUBSET DOMAIN code'
      BY <1>1, <1>2, <3>1
    <3> QED
      BY <1>2, <3>2
  <2>3. ASSUME NEW c \in F.blocks
        PROVE  /\ Original(c) \in DOMAIN code'
               /\ ThenOf(c) \in DOMAIN code' <=> HasTail(c)'
               /\ ElseOf(c) \in DOMAIN code' <=> HasTail(c)'
    <3>1. /\ Original(c) \in DOMAIN code /\ (ThenOf(c) \in DOMAIN code <=> HasTail(c))
          /\ (ElseOf(c) \in DOMAIN code <=> HasTail(c))
      BY <1>6 DEF CodeTyped
    <3>2. /\ ThenOf(c) \in DOMAIN code' <=> ThenOf(c) \in DOMAIN code \/ c = b
          /\ ElseOf(c) \in DOMAIN code' <=> ElseOf(c) \in DOMAIN code \/ c = b
      BY <1>1, NamesDiffer DEF tail
    <3> QED
      BY <1>1, <1>7, <3>1, <3>2
  <2>4. todo' \subseteq F.blocks
    BY <1>3, <1>6 DEF CodeTyped
  <2> QED
    BY <1>3, <2>1, <2>2, <2>3, <2>4 DEF CodeTyped
<1>9. Coming'
  <2>1. targets # Unchosen
    BY <1>6 DEF Coming
  <2>2. todo \subseteq F.blocks
    BY <1>6 DEF CodeTyped
  <2>3. \A c \in todo : HasTail(c)' => c = b
    BY <1>1, <1>6, <1>7, <2>2 DEF Coming
  <2>4. Voids' = Voids
    BY <1>3 DEF Voids
  <2> QED
    BY <1>3, <1>4, <1>6, <2>1, <2>3, <2>4 DEF Coming
<1>10. Whole'
  <2> SUFFICES ASSUME NEW c \in F.blocks, ~HasTail(c)',
                      NEW i \in DOMAIN code'[Original(c)]
               PROVE  /\ Source(c, code'[Original(c)][i])
                      /\ \A j \in DOMAIN code'[Original(c)] :
                           i < j /\ IsPhi(code'[Original(c)][j])
                             => IsPhi(code'[Original(c)][i])
    BY <1>3 DEF Whole, Source
  <2> DEFINE s == code[Original(c)]
             t == code'[Original(c)]
  <2>1. c # b /\ ~HasTail(c) /\ Original(c) \in DOMAIN code \ {head}
    BY <1>6, <1>7, NamesDiffer DEF CodeTyped, head
  <2>2. s \in Seq(Made) /\ t \in Seq(Made) /\ Len(t) = Len(s)
    BY <1>1, <1>5, <1>6, <2>1 DEF CodeTyped
  <2>3. DOMAIN t = DOMAIN s
    BY <2>2
  <2>4. \A j \in DOMAIN s : t[j].id = s[j].id /\ t[j].kind = s[j].kind
    <3> SUFFICES ASSUME NEW j \in DOMAIN s
                 PROVE  t[j].id = s[j].id /\ t[j].kind = s[j].kind
      OBVIOUS
    <3>1. s[j] \in Made /\ t[j] = NewSources(s[j], head, tail)
      BY <1>5, <2>1, <2>2
    <3>2. head \in Names /\ tail \in Names
      BY <1>1
    <3> HIDE DEF s, t
    <3> QED
      BY <3>1, <3>2, NewSourcesKeep
  <2>5. \A j \in DOMAIN s : /\ Source(c, s[j])
                            /\ \A k \in DOMAIN s : j < k /\ IsPhi(s[k]) => IsPhi(s[j])
    BY <1>6, <2>1 DEF Whole
  <2> HIDE DEF s, t
  <2>6. i \in DOMAIN s
    BY <2>3 DEF t
  <2>7. Source(c, t[i]) /\ \A j \in DOMAIN s : i < j /\ IsPhi(t[j]) => IsPhi(t[i])
    BY <2>4, <2>5, <2>6 DEF Source, IsPhi
  <2> QED
    BY <2>3, <2>7 DEF t
<1>11. InTail'
  <2>1. \A i \in DOMAIN Rest(b) : Source(b, Rest(b)[i]) /\ ~IsPhi(Rest(b)[i])
    BY SplitParts
  <2>2. Source(b, Rest(b)[1])' = Source(b, Rest(b)'[1])
    BY <1>3 DEF Source
  <2>3. TailOf(at'.b) = tail
    BY <1>4 DEF tail
  <2>4. /\ at'.thenVMap = <<>> /\ at'.elseVMap = <<>>
    BY <1>3, Working
  <2>5. at' = [b |-> at'.b, k |-> at'.k, thenVMap |-> at'.thenVMap,
               elseVMap |-> at'.elseVMap, freeList |-> at'.freeList]
    BY <1>3, <1>4, <2>4
  <2> QED
    BY <1>1, <1>3, <1>4, <1>7, <2>1, <2>3, <2>5 DEF InTail, Source
<1> QED
  BY <1>8, <1>9, <1>10, <1>11 DEF Structure

LEMMA SplitFlow ==
  ASSUME DupInv, NEW b \in todo, Split(b)
  PROVE  Flow'
<1> DEFINE head == Original(b)
           tail == TailOf(b)
           go(x) == IF x = head THEN tail ELSE x
<1>1. /\ b \in F.blocks /\ ~HasTail(b) /\ head \in DOMAIN code /\ tail \notin DOMAIN code
      /\ ThenOf(b) \notin DOMAIN code /\ ElseOf(b) \notin DOMAIN code
      /\ head \in Names /\ tail \in Names
      /\ DOMAIN code' = DOMAIN code \cup {tail, ThenOf(b), ElseOf(b)}
      /\ code'[tail] = Rest(b)
      /\ code'[ThenOf(b)] = <<>> /\ code'[ElseOf(b)] = <<>>
      /\ F' = F
  BY SplitBlocks DEF vars, HasTail
<1>2. /\ succ'[head] = {ThenOf(b), ElseOf(b)}
      /\ succ'[tail] = succ[head]
      /\ succ'[ThenOf(b)] = {tail} /\ succ'[ElseOf(b)] = {tail}
      /\ \A x \in DOMAIN code \ {head} : succ'[x] = succ[x]
  BY SplitBlocks
<1>3. /\ code \in [DOMAIN code -> Seq(Made)] /\ succ \in [DOMAIN code -> SUBSET DOMAIN code]
      /\ \A c \in F.blocks : /\ Original(c) \in DOMAIN code
                             /\ ThenOf(c) \in DOMAIN code <=> HasTail(c)
                             /\ ElseOf(c) \in DOMAIN code <=> HasTail(c)
  BY DEF DupInv, Structure, CodeTyped
<1>4. /\ Elems(code'[head])
           = {NewSources(e, head, tail) : e \in Elems(FrontOf(b))} \cup {Test(b)}
      /\ \A x \in DOMAIN code \ {head} :
           Elems(code'[x]) = {NewSources(e, head, tail) : e \in Elems(code[x])}
  BY SplitInsts
<1>5. Elems(FrontOf(b)) \subseteq Elems(code[head])
      /\ \A i \in DOMAIN Rest(b) : ~IsPhi(Rest(b)[i])
      /\ Rest(b) \in Seq(Made)
  BY SplitParts
<1>6. Copies /\ PhisNamePredecessors
  BY DEF DupInv, Flow
<1>7. \A c \in F.blocks : HasTail(c)' <=> HasTail(c) \/ c = b
  BY <1>1, NamesDiffer DEF HasTail
<1>8. \A x \in DOMAIN code : \A e \in Elems(code[x]) :
        /\ e \in Made
        /\ NewSources(e, head, tail).kind = e.kind
        /\ Elems(NewSources(e, head, tail).from) = {go(y) : y \in Elems(e.from)}
  <2> SUFFICES ASSUME NEW x \in DOMAIN code, NEW e \in Elems(code[x])
               PROVE  /\ e \in Made
                      /\ NewSources(e, head, tail).kind = e.kind
                      /\ Elems(NewSources(e, head, tail).from) = {go(y) : y \in Elems(e.from)}
    OBVIOUS
  <2>1. e \in Made
    BY <1>3, ElemsOf
  <2>2. head \in Names /\ tail \in Names
    BY <1>1
  <2> HIDE DEF head, tail
  <2>3. /\ NewSources(e, head, tail).kind = e.kind
        /\ Elems(NewSources(e, head, tail).from)
             = {IF y = head THEN tail ELSE y : y \in Elems(e.from)}
    BY <2>1, <2>2, NewSourcesKeep
  <2> QED
    BY <2>1, <2>3
<1>9. /\ head \notin {tail, ThenOf(b), ElseOf(b)} /\ tail \notin {ThenOf(b), ElseOf(b)}
  BY NamesDiffer
<1>10. \A x \in DOMAIN code : {p \in DOMAIN code' : x \in succ'[p]}
                                = {go(p) : p \in {q \in DOMAIN code : x \in succ[q]}}
  <2> SUFFICES ASSUME NEW x \in DOMAIN code
               PROVE  {p \in DOMAIN code' : x \in succ'[p]}
                        = {go(p) : p \in {q \in DOMAIN code : x \in succ[q]}}
    OBVIOUS
  <2>1. x \notin {tail, ThenOf(b), ElseOf(b)}
    BY <1>1
  <2>2. ASSUME NEW p \in DOMAIN code', x \in succ'[p]
        PROVE  \E q \in DOMAIN code : x \in succ[q] /\ p = go(q)
    <3>1. CASE p = tail
      BY <1>1, <1>2, <2>2, <3>1
    <3>2. CASE p # tail
      BY <1>1, <1>2, <2>1, <2>2, <3>2
    <3> QED
      BY <3>1, <3>2
  <2>3. ASSUME NEW q \in DOMAIN code, x \in succ[q]
        PROVE  go(q) \in DOMAIN code' /\ x \in succ'[go(q)]
    BY <1>1, <1>2, <2>3
  <2> QED
    BY <2>2, <2>3
<1> HIDE DEF head, tail, go
<1>11. Copies'
  <2> SUFFICES ASSUME NEW c \in F.blocks, HasTail(c)'
               PROVE  /\ \A inst \in Elems(code'[ThenOf(c)]) \cup Elems(code'[ElseOf(c)]) :
                           ~IsPhi(inst)
                      /\ \A x \in DOMAIN code' :
                           TailOf(c) \in succ'[x] <=> x \in {ThenOf(c), ElseOf(c)}
    BY <1>1 DEF Copies
  <2>1. CASE c = b
    <3>1. Elems(code'[ThenOf(b)]) = {} /\ Elems(code'[ElseOf(b)]) = {}
      BY <1>1 DEF Elems
    <3>2. \A x \in DOMAIN code : tail \notin succ[x]
      BY <1>1, <1>3
    <3>3. ASSUME NEW x \in DOMAIN code'
          PROVE  tail \in succ'[x] <=> x \in {ThenOf(b), ElseOf(b)}
      <4>1. CASE x = head
        BY <1>2, <1>9, <4>1
      <4>2. CASE x = tail
        BY <1>1, <1>2, <1>9, <3>2, <4>2
      <4>3. CASE x \in {ThenOf(b), ElseOf(b)}
        BY <1>2, <4>3
      <4>4. CASE x \in DOMAIN code \ {head}
        BY <1>1, <1>2, <3>2, <4>4
      <4> QED
        BY <1>1, <4>1, <4>2, <4>3, <4>4
    <3> QED
      BY <2>1, <3>1, <3>3 DEF tail
  <2>2. CASE c # b
    <3>1. HasTail(c) /\ ThenOf(c) \in DOMAIN code \ {head} /\ ElseOf(c) \in DOMAIN code \ {head}
          /\ TailOf(c) \in DOMAIN code \ {head}
      BY <1>3, <1>7, <2>2, NamesDiffer DEF head, HasTail
    <3>2. /\ \A inst \in Elems(code[ThenOf(c)]) \cup Elems(code[ElseOf(c)]) : ~IsPhi(inst)
          /\ \A x \in DOMAIN code : TailOf(c) \in succ[x] <=> x \in {ThenOf(c), ElseOf(c)}
      BY <1>6, <3>1 DEF Copies
    <3>3. \A inst \in Elems(code'[ThenOf(c)]) \cup Elems(code'[ElseOf(c)]) : ~IsPhi(inst)
      <4> SUFFICES ASSUME NEW x \in {ThenOf(c), ElseOf(c)}, NEW inst \in Elems(code'[x])
                   PROVE  ~IsPhi(inst)
        OBVIOUS
      <4>1. PICK e \in Elems(code[x]) : inst = NewSources(e, head, tail)
        BY <1>4, <3>1
      <4>2. inst.kind = e.kind /\ ~IsPhi(e)
        BY <1>8, <3>1, <3>2, <4>1
      <4> QED
        BY <4>2 DEF IsPhi
    <3>4. ASSUME NEW x \in DOMAIN code'
          PROVE  TailOf(c) \in succ'[x] <=> x \in {ThenOf(c), ElseOf(c)}
      <4>1. TailOf(c) \notin {tail, ThenOf(b), ElseOf(b)}
        BY <2>2, NamesDiffer DEF tail
      <4>2. head \notin {ThenOf(c), ElseOf(c)} /\ tail \notin {ThenOf(c), ElseOf(c)}
            /\ ThenOf(b) \notin {ThenOf(c), ElseOf(c)} /\ ElseOf(b) \notin {ThenOf(c), ElseOf(c)}
        BY <2>2, NamesDiffer DEF head, tail
      <4>3. CASE x \in {head, ThenOf(b), ElseOf(b)}
        BY <1>2, <4>1, <4>2, <4>3
      <4>4. CASE x = tail
        BY <1>1, <1>2, <3>2, <4>2, <4>4
      <4>5. CASE x \in DOMAIN code \ {head}
        BY <1>2, <3>2, <4>5
      <4> QED
        BY <1>1, <4>3, <4>4, <4>5
    <3> QED
      BY <3>3, <3>4
  <2> QED
    BY <2>1, <2>2
<1>12. PhisNamePredecessors'
  <2> SUFFICES ASSUME NEW x \in DOMAIN code', NEW phi \in Elems(code'[x]), IsPhi(phi)
               PROVE  Elems(phi.from) = {p \in DOMAIN code' : x \in succ'[p]}
    BY DEF PhisNamePredecessors, PhisOf
  <2>1. CASE x = tail
    <3>1. phi \in Elems(Rest(b))
      BY <1>1, <2>1
    <3>2. \E i \in DOMAIN Rest(b) : Rest(b)[i] = phi
      BY <1>5, <3>1 DEF Elems
    <3> QED
      BY <1>5, <3>2
  <2>2. CASE x = ThenOf(b) \/ x = ElseOf(b)
    <3>1. Elems(code'[x]) = {}
      BY <1>1, <2>2 DEF Elems
    <3> QED
      BY <3>1
  <2>3. CASE x \in DOMAIN code
    <3>1. phi # Test(b)
      BY DEF IsPhi, Test
    <3>2. PICK e \in Elems(code[x]) : phi = NewSources(e, head, tail)
      BY <1>4, <1>5, <2>3, <3>1
    <3>3. IsPhi(e) /\ Elems(phi.from) = {go(y) : y \in Elems(e.from)}
      BY <1>8, <2>3, <3>2 DEF IsPhi
    <3>4. Elems(e.from) = {p \in DOMAIN code : x \in succ[p]}
      BY <1>6, <2>3, <3>2, <3>3 DEF PhisNamePredecessors, PhisOf
    <3> QED
      BY <1>10, <2>3, <3>3, <3>4
  <2> QED
    BY <1>1, <2>1, <2>2, <2>3
<1> QED
  BY <1>11, <1>12 DEF Flow

LEMMA SplitUses ==
  ASSUME DupInv, NEW b \in todo, Split(b)
  PROVE  Uses'
<1>1. /\ CodeTyped /\ Operable /\ Covered /\ F' = F /\ valueToPhi' = valueToPhi
      /\ code \in [DOMAIN code -> Seq(Made)]
      /\ at' = [b |-> b, k |-> 1, thenVMap |-> <<>>, elseVMap |-> <<>>, freeList |-> {}]
  BY SplitBlocks DEF DupInv, Structure, Uses, CodeTyped, vars
<1>2. /\ code' \in [DOMAIN code' -> Seq(Made)]
      /\ \A y \in AllInsts' : \/ y = Test(b)
                              \/ \E e \in AllInsts : /\ y.id = e.id /\ y.kind = e.kind
                                                     /\ y.ops = e.ops
      /\ \A e \in AllInsts : \E y \in AllInsts' : y.id = e.id
  BY SplitInsts
<1>3. There \subseteq There'
  <2>1. /\ There = Outside(F) \cup {inst.id : inst \in AllInsts}
        /\ There' = Outside(F) \cup {inst.id : inst \in AllInsts'}
    BY <1>1, <1>2, ThereIs
  <2> QED
    BY <1>2, <2>1
<1>4. Voids' = Voids
  BY <1>1 DEF Voids
<1>5. ClonesMapped'
  <2>1. at'.thenVMap = <<>> /\ at'.elseVMap = <<>>
    BY <1>1
  <2> QED
    BY <2>1 DEF ClonesMapped
<1>6. Operable'
  <2> SUFFICES ASSUME NEW y \in AllInsts'
               PROVE  /\ Elems(y.ops) \subseteq There' \ Voids
                      /\ y.kind = "void" => y.id \in Voids
    BY <1>4 DEF Operable
  <2>1. CASE y = Test(b)
    <3>1. Elems(<<Checked(b)>>) = {Checked(b)}
      BY DEF Elems
    <3>2. Checked(b) \in There \ Voids
      BY CheckedThere
    <3> QED
      BY <1>3, <2>1, <3>1, <3>2 DEF Test
  <2>2. CASE y # Test(b)
    <3>1. PICK e \in AllInsts : y.id = e.id /\ y.kind = e.kind /\ y.ops = e.ops
      BY <1>2, <2>2
    <3> QED
      BY <1>1, <1>3, <3>1 DEF Operable
  <2> QED
    BY <2>1, <2>2
<1>7. Covered'
  BY <1>1, <1>3 DEF Covered
<1> QED
  BY <1>5, <1>6, <1>7 DEF Uses

LEMMA SplitDup ==
  ASSUME DupInv, NEW b \in todo, Split(b)
  PROVE  DupInv'
<1>1. UNCHANGED vars
  BY DEF Split
<1>2. RIVInv'
  BY <1>1, NextRIV DEF DupInv
<1> QED
  BY <1>2, SplitStructure, SplitFlow, SplitUses DEF DupInv

(***************************************************************************)
(* One instruction of the tail is cloned.                                  *)
(***************************************************************************)
One(old, new) == Set(<<>>, old, new)

\* An operand is replaced, the others stay.
LEMMA OneMapped ==
  ASSUME NEW old, NEW new
  PROVE  /\ \A v : Mapped(One(old, new), v) = IF v = old THEN new ELSE v
         /\ \A v \in DOMAIN One(old, new) : One(old, new)[v] = new
<1>1. One(old, new) = [x \in {old} |-> IF x = old THEN new ELSE <<>>[x]]
  BY DEF One, Set
<1> QED
  BY <1>1 DEF Mapped

LEMMA ReplacedSeq ==
  ASSUME NEW s \in Seq(Made), NEW old, NEW new \in Values,
         NEW t, t = [i \in DOMAIN s |-> Remapped(s[i], One(old, new))]
  PROVE  /\ t \in Seq(Made) /\ Len(t) = Len(s) /\ DOMAIN t = DOMAIN s
         /\ \A i \in DOMAIN s : t[i] = Remapped(s[i], One(old, new))
         /\ Elems(t) = {Remapped(e, One(old, new)) : e \in Elems(s)}
<1> DEFINE n == Len(s)
<1>1. DOMAIN s = 1 .. n /\ n \in Nat /\ \A i \in 1 .. n : s[i] \in Made
  OBVIOUS
<1>2. \A v \in DOMAIN One(old, new) : One(old, new)[v] \in Values
  BY OneMapped
<1>3. \A i \in 1 .. n : Remapped(s[i], One(old, new)) \in Made
  BY <1>1, <1>2, RemappedKeep
<1>4. t \in [1 .. n -> Made]
  BY <1>1, <1>3
<1>5. \A i \in 1 .. n : t[i] = Remapped(s[i], One(old, new))
  BY <1>1
<1> HIDE DEF n
<1>6. t \in Seq(Made) /\ Len(t) = n /\ DOMAIN t = 1 .. n /\ Elems(t) = {t[i] : i \in 1 .. n}
  BY <1>1, <1>4, MappedSeq
<1>7. Elems(s) = {s[i] : i \in 1 .. n}
  BY DEF Elems, n
<1>8. Elems(t) = {Remapped(e, One(old, new)) : e \in Elems(s)}
  BY <1>5, <1>6, <1>7
<1> QED
  BY <1>1, <1>5, <1>6, <1>8 DEF n

\* What the iteration is about: the instruction, its copies, the phi for it.
TheTail == TailOf(at.b)
Current == code[TheTail][at.k]
CopyId(part) == <<part, at.b, Current.id[3]>>
MapOf(part) == IF part = "then" THEN at.thenVMap ELSE at.elseVMap
Copy(part) == [Remapped(Current, MapOf(part)) EXCEPT !.id = CopyId(part)]
PhiId == <<"phi", at.b, Current.id[3]>>
NewPhi == [id |-> PhiId, kind |-> "phi", ops |-> <<CopyId("then"), CopyId("else")>>,
           from |-> <<ThenOf(at.b), ElseOf(at.b)>>]
IsVoid == Current.kind = "void"
Key == IF IsVoid THEN Current.id ELSE PhiId
Cloned == [x \in DOMAIN code |->
             IF x = ThenOf(at.b) THEN Append(code[x], Copy("then"))
             ELSE IF x = ElseOf(at.b) THEN Append(code[x], Copy("else"))
             ELSE IF x = TheTail /\ ~IsVoid THEN [code[x] EXCEPT ![at.k] = NewPhi]
             ELSE code[x]]
Swapped(e) == IF IsVoid THEN e ELSE Remapped(e, One(Current.id, PhiId))

LEMMA CurrentIs ==
  ASSUME DupInv, Clone
  PROVE  /\ CodeSound(F) /\ at # Idle /\ at.b \in todo /\ at.b \in F.blocks /\ at.k \in Nat \ {0}
         /\ {ThenOf(at.b), ElseOf(at.b), TheTail} \subseteq DOMAIN code
         /\ code \in [DOMAIN code -> Seq(Made)]
         /\ at.k \in DOMAIN code[TheTail]
         /\ Current \in Made /\ Current \in Elems(code[TheTail])
         /\ Source(at.b, Current) /\ ~IsPhi(Current)
         /\ Current.id = <<"orig", at.b, Current.id[3]>> /\ Current.id[3] \in Nat
         /\ Current.id \in Results(F)
         /\ Current.kind \in {"int", "void", "br"}
         /\ IsVoid <=> Current.id \in VoidIds(F)
<1>1. /\ CodeSound(F) /\ at # Idle /\ at.b \in todo /\ at.b \in F.blocks /\ at.k \in Nat \ {0}
      /\ {ThenOf(at.b), ElseOf(at.b), TheTail} \subseteq DOMAIN code
      /\ code \in [DOMAIN code -> Seq(Made)]
  BY DEF DupInv, Structure, CodeTyped, InTail, Clone, HasTail, TheTail
<1>2. at.k <= Len(code[TheTail])
  BY DEF Clone, TheTail, TailOf
<1>3. code[TheTail] \in Seq(Made)
  BY <1>1
<1>4. at.k \in DOMAIN code[TheTail] /\ Current \in Made /\ Current \in Elems(code[TheTail])
  <2>1. at.k \in 1 .. Len(code[TheTail]) /\ DOMAIN code[TheTail] = 1 .. Len(code[TheTail])
    BY <1>1, <1>2, <1>3
  <2> QED
    BY <1>3, <2>1, ElemsOf DEF Current
<1>5. Source(at.b, Current) /\ ~IsPhi(Current)
  BY <1>1, <1>4 DEF DupInv, Structure, InTail, Current, TheTail
<1>6. /\ Current.id = <<"orig", at.b, Current.id[3]>> /\ Current.id[3] \in Nat
      /\ Current.id \in Results(F)
      /\ Current.kind \in {"phi", "int", "void", "br"}
      /\ Current.kind = "void" <=> Current.id \in VoidIds(F)
  BY <1>1, <1>5, SourceIds
<1> QED
  BY <1>1, <1>4, <1>5, <1>6 DEF IsPhi, IsVoid

LEMMA CloneStep ==
  ASSUME DupInv, Clone
  PROVE  /\ UNCHANGED <<vars, succ, targets, todo>> /\ F' = F
         /\ Current.kind = "br" => /\ at' = [at EXCEPT !.k = @ + 1]
                                   /\ UNCHANGED <<code, valueToPhi>>
         /\ Current.kind # "br" =>
              /\ at' = [b |-> at.b, k |-> at.k + 1,
                        thenVMap |-> Set(at.thenVMap, Key, CopyId("then")),
                        elseVMap |-> Set(at.elseVMap, Key, CopyId("else")),
                        freeList |-> at.freeList \cup IF IsVoid THEN {at.k} ELSE {}]
              /\ code' = IF IsVoid THEN Cloned ELSE UsesReplaced(Cloned, Current.id, PhiId, TheTail)
              /\ valueToPhi' = IF IsVoid THEN valueToPhi
                               ELSE Set(valueToPhi, Current.id, PhiId)
<1>1. UNCHANGED <<vars, succ, targets, todo>> /\ F' = F
  BY DEF Clone, vars
<1>2. code \in [DOMAIN code -> Seq(Made)] /\ DOMAIN code \subseteq Names
  BY DEF DupInv, Structure, CodeTyped
<1>3. Copy("then").id = CopyId("then") /\ Copy("else").id = CopyId("else")
  <2>1. Current \in Made
    BY CurrentIs
  <2> QED
    BY <2>1 DEF Copy, Remapped, Made
<1> DEFINE copies == [part \in {"then", "else"} |->
                        [Remapped(Current, IF part = "then" THEN at.thenVMap ELSE at.elseVMap)
                           EXCEPT !.id = <<part, at.b, Current.id[3]>>]]
           phi == [id |-> <<"phi", at.b, Current.id[3]>>, kind |-> "phi",
                   ops |-> <<copies["then"].id, copies["else"].id>>,
                   from |-> <<Block("then", at.b), Block("else", at.b)>>]
           cloned == [x \in DOMAIN code |->
                        IF x[2] = at.b /\ x[1] \in DOMAIN copies
                        THEN Append(code[x], copies[x[1]])
                        ELSE IF x = TheTail /\ ~IsVoid
                        THEN [code[x] EXCEPT ![at.k] = phi] ELSE code[x]]
           key == IF IsVoid THEN Current.id ELSE FollowingKey(Current.id, phi.id)
<1>4. IF Current.kind = "br"
      THEN /\ at' = [at EXCEPT !.k = @ + 1]
           /\ UNCHANGED <<code, valueToPhi>>
      ELSE /\ at' = [b |-> at.b, k |-> at.k + 1,
                     thenVMap |-> Set(at.thenVMap, key, copies["then"].id),
                     elseVMap |-> Set(at.elseVMap, key, copies["else"].id),
                     freeList |-> at.freeList \cup IF IsVoid THEN {at.k} ELSE {}]
           /\ code' = IF IsVoid THEN cloned
                      ELSE UsesReplaced(cloned, Current.id, phi.id, TheTail)
           /\ valueToPhi' = IF IsVoid THEN valueToPhi
                            ELSE Set(valueToPhi, Current.id, phi.id)
  BY DEF Clone, Current, TheTail, TailOf, IsVoid
<1>5. /\ copies["then"] = Copy("then") /\ copies["else"] = Copy("else")
      /\ DOMAIN copies = {"then", "else"}
  BY DEF Copy, MapOf, CopyId
<1> HIDE DEF copies
<1>6. phi = NewPhi
  BY <1>3, <1>5 DEF NewPhi, PhiId, ThenOf, ElseOf
<1>7. key = Key /\ phi.id = PhiId
  BY DEF Key, FollowingKey, PhiId
<1> HIDE DEF phi, key
<1>8. cloned = Cloned
  <2>1. ASSUME NEW x \in DOMAIN code
        PROVE  /\ x = ThenOf(at.b) <=> x[2] = at.b /\ x[1] = "then"
               /\ x = ElseOf(at.b) <=> x[2] = at.b /\ x[1] = "else"
    BY <1>2 DEF Names, ThenOf, ElseOf, Block
  <2>2. ASSUME NEW x \in DOMAIN code
        PROVE  (IF x[2] = at.b /\ x[1] \in DOMAIN copies
                THEN Append(code[x], copies[x[1]])
                ELSE IF x = TheTail /\ ~IsVoid
                THEN [code[x] EXCEPT ![at.k] = phi] ELSE code[x])
               = (IF x = ThenOf(at.b) THEN Append(code[x], Copy("then"))
                  ELSE IF x = ElseOf(at.b) THEN Append(code[x], Copy("else"))
                  ELSE IF x = TheTail /\ ~IsVoid THEN [code[x] EXCEPT ![at.k] = NewPhi]
                  ELSE code[x])
    <3>1. CASE x[2] = at.b /\ x[1] = "then"
      BY <1>5, <2>1, <3>1
    <3>2. CASE x[2] = at.b /\ x[1] = "else"
      BY <1>5, <2>1, <3>2
    <3>3. CASE ~(x[2] = at.b /\ x[1] \in {"then", "else"})
      BY <1>5, <1>6, <2>1, <3>3
    <3> QED
      BY <3>1, <3>2, <3>3
  <2> QED
    BY <2>2 DEF Cloned
<1> HIDE DEF cloned
<1> QED
  BY <1>1, <1>3, <1>4, <1>5, <1>7, <1>8

\* The copies hold what their maps make of the operands.
LEMMA CopyIs ==
  ASSUME DupInv, Clone, NEW part \in {"then", "else"}
  PROVE  /\ Copy(part) \in Made /\ Copy(part).id = CopyId(part)
         /\ Copy(part).kind = Current.kind
         /\ Elems(Copy(part).ops) = {Mapped(MapOf(part), v) : v \in Elems(Current.ops)}
         /\ CopyId(part) \in Results(F)
<1>1. /\ at # Idle /\ at.b \in F.blocks /\ Current \in Made /\ Current.id[3] \in Nat
  BY CurrentIs
<1>2. CopyId(part) \in Results(F)
  BY <1>1 DEF CopyId, Results, Roles
<1>3. \A v \in DOMAIN MapOf(part) : MapOf(part)[v] \in Values
  BY <1>1 DEF DupInv, Uses, ClonesMapped, MapOf, Values
<1> DEFINE made == Remapped(Current, MapOf(part))
<1>4. /\ made \in Made /\ made.kind = Current.kind
      /\ Elems(made.ops) = {Mapped(MapOf(part), v) : v \in Elems(Current.ops)}
  BY <1>1, <1>3, RemappedKeep
<1>5. Copy(part) = [made EXCEPT !.id = CopyId(part)]
  BY DEF Copy
<1> HIDE DEF made
<1>6. /\ Copy(part) \in Made /\ Copy(part).id = CopyId(part)
      /\ Copy(part).kind = made.kind /\ Copy(part).ops = made.ops
  BY <1>2, <1>4, <1>5 DEF Made
<1> QED
  BY <1>2, <1>4, <1>6

LEMMA NewPhiIs ==
  ASSUME DupInv, Clone
  PROVE  /\ NewPhi \in Made /\ IsPhi(NewPhi) /\ NewPhi.id = PhiId /\ PhiId \in Results(F)
         /\ Elems(NewPhi.ops) = {CopyId("then"), CopyId("else")}
         /\ Elems(NewPhi.from) = {ThenOf(at.b), ElseOf(at.b)}
<1>1. /\ at # Idle /\ at.b \in F.blocks /\ Current.id[3] \in Nat
  BY CurrentIs
<1>2. PhiId \in Results(F)
  BY <1>1 DEF PhiId, Results, Roles
<1>3. CopyId("then") \in Values /\ CopyId("else") \in Values
  BY CopyIs DEF Values
<1>4. <<CopyId("then"), CopyId("else")>> \in Seq(Values)
  BY <1>3
<1>5. <<ThenOf(at.b), ElseOf(at.b)>> \in Seq(Names)
  BY <1>1 DEF ThenOf, ElseOf, Block, Names, Parts
<1>6. \A u, w : Elems(<<u, w>>) = {u, w}
  <2> SUFFICES ASSUME NEW u, NEW w PROVE Elems(<<u, w>>) = {u, w}
    OBVIOUS
  <2>1. Len(<<u, w>>) = 2 /\ 1 .. 2 = {1, 2}
    OBVIOUS
  <2> QED
    BY <2>1 DEF Elems
<1> QED
  BY <1>2, <1>4, <1>5, <1>6 DEF NewPhi, Made, IsPhi

\* replaceAllUsesWith seen from one instruction.
LEMMA SwappedKeep ==
  ASSUME DupInv, Clone, NEW e \in Made
  PROVE  /\ Swapped(e) \in Made /\ Swapped(e).id = e.id
         /\ Swapped(e).kind = e.kind /\ Swapped(e).from = e.from
         /\ Elems(Swapped(e).ops)
              = {IF ~IsVoid /\ v = Current.id THEN PhiId ELSE v : v \in Elems(e.ops)}
<1>1. CASE IsVoid
  BY <1>1 DEF Swapped
<1>2. CASE ~IsVoid
  <2> DEFINE one == One(Current.id, PhiId)
  <2>1. Swapped(e) = Remapped(e, one)
    BY <1>2 DEF Swapped
  <2>2. /\ \A v : Mapped(one, v) = IF v = Current.id THEN PhiId ELSE v
        /\ \A v \in DOMAIN one : one[v] \in Values
    BY OneMapped, NewPhiIs DEF Values
  <2> HIDE DEF one
  <2>3. /\ Swapped(e) \in Made /\ Swapped(e).id = e.id
        /\ Swapped(e).kind = e.kind /\ Swapped(e).from = e.from
        /\ Elems(Swapped(e).ops) = {Mapped(one, v) : v \in Elems(e.ops)}
    BY <2>1, <2>2, RemappedKeep
  <2> QED
    BY <1>2, <2>2, <2>3
<1> QED
  BY <1>1, <1>2

\* The blocks after the iteration, before uses are replaced and after.
LEMMA ClonedBlocks ==
  ASSUME DupInv, Clone
  PROVE  /\ DOMAIN Cloned = DOMAIN code
         /\ \A x \in DOMAIN code : Cloned[x] \in Seq(Made)
         /\ Elems(Cloned[ThenOf(at.b)]) = Elems(code[ThenOf(at.b)]) \cup {Copy("then")}
         /\ Elems(Cloned[ElseOf(at.b)]) = Elems(code[ElseOf(at.b)]) \cup {Copy("else")}
         /\ Len(Cloned[TheTail]) = Len(code[TheTail])
         /\ \A i \in DOMAIN code[TheTail] :
              Cloned[TheTail][i] = IF i = at.k /\ ~IsVoid THEN NewPhi ELSE code[TheTail][i]
         /\ \A x \in DOMAIN code \ {ThenOf(at.b), ElseOf(at.b), TheTail} : Cloned[x] = code[x]
<1>1. /\ {ThenOf(at.b), ElseOf(at.b), TheTail} \subseteq DOMAIN code
      /\ code \in [DOMAIN code -> Seq(Made)] /\ at.k \in DOMAIN code[TheTail]
  BY CurrentIs
<1>2. ThenOf(at.b) # ElseOf(at.b) /\ TheTail \notin {ThenOf(at.b), ElseOf(at.b)}
  BY NamesDiffer DEF TheTail
<1>3. DOMAIN Cloned = DOMAIN code
  BY DEF Cloned
<1>4. /\ Cloned[ThenOf(at.b)] = Append(code[ThenOf(at.b)], Copy("then"))
      /\ Cloned[ElseOf(at.b)] = Append(code[ElseOf(at.b)], Copy("else"))
      /\ Cloned[TheTail] = IF IsVoid THEN code[TheTail] ELSE [code[TheTail] EXCEPT ![at.k] = NewPhi]
      /\ \A x \in DOMAIN code \ {ThenOf(at.b), ElseOf(at.b), TheTail} : Cloned[x] = code[x]
  BY <1>1, <1>2 DEF Cloned
<1>5. /\ code[ThenOf(at.b)] \in Seq(Made) /\ code[ElseOf(at.b)] \in Seq(Made)
      /\ code[TheTail] \in Seq(Made) /\ Copy("then") \in Made /\ Copy("else") \in Made
      /\ NewPhi \in Made
  BY <1>1, CopyIs, NewPhiIs
<1>6. /\ Cloned[ThenOf(at.b)] \in Seq(Made)
      /\ Elems(Cloned[ThenOf(at.b)]) = Elems(code[ThenOf(at.b)]) \cup {Copy("then")}
      /\ Cloned[ElseOf(at.b)] \in Seq(Made)
      /\ Elems(Cloned[ElseOf(at.b)]) = Elems(code[ElseOf(at.b)]) \cup {Copy("else")}
  BY <1>4, <1>5, AppendElems
<1>7. /\ Cloned[TheTail] \in Seq(Made) /\ Len(Cloned[TheTail]) = Len(code[TheTail])
      /\ \A i \in DOMAIN code[TheTail] :
           Cloned[TheTail][i] = IF i = at.k /\ ~IsVoid THEN NewPhi ELSE code[TheTail][i]
  BY <1>1, <1>4, <1>5
<1>8. \A x \in DOMAIN code : Cloned[x] \in Seq(Made)
  BY <1>1, <1>4, <1>6, <1>7
<1> QED
  BY <1>3, <1>4, <1>6, <1>7, <1>8

LEMMA CloneBlocks ==
  ASSUME DupInv, Clone, Current.kind # "br"
  PROVE  /\ DOMAIN code' = DOMAIN code /\ code' \in [DOMAIN code' -> Seq(Made)]
         /\ \A x \in DOMAIN code :
              /\ Len(code'[x]) = Len(Cloned[x])
              /\ \A i \in DOMAIN Cloned[x] : code'[x][i] = Swapped(Cloned[x][i])
              /\ Elems(code'[x]) = {Swapped(e) : e \in Elems(Cloned[x])}
<1>1. /\ DOMAIN Cloned = DOMAIN code
      /\ \A x \in DOMAIN code : Cloned[x] \in Seq(Made)
  BY ClonedBlocks
<1>2. code' = IF IsVoid THEN Cloned ELSE UsesReplaced(Cloned, Current.id, PhiId, TheTail)
  BY CloneStep
<1>3. CASE IsVoid
  <2>1. code' = Cloned /\ Cloned = [x \in DOMAIN code |-> Cloned[x]]
    BY <1>2, <1>3 DEF Cloned
  <2>2. \A e : Swapped(e) = e
    BY <1>3 DEF Swapped
  <2> QED
    BY <1>1, <2>1, <2>2
<1>4. CASE ~IsVoid
  <2>1. code' = [x \in DOMAIN code |->
                   [i \in DOMAIN Cloned[x] |-> Remapped(Cloned[x][i], One(Current.id, PhiId))]]
    BY <1>1, <1>2, <1>4 DEF UsesReplaced, One
  <2>2. \A e : Swapped(e) = Remapped(e, One(Current.id, PhiId))
    BY <1>4 DEF Swapped
  <2>3. PhiId \in Values
    BY NewPhiIs DEF Values
  <2>4. ASSUME NEW x \in DOMAIN code
        PROVE  /\ code'[x] \in Seq(Made) /\ Len(code'[x]) = Len(Cloned[x])
               /\ \A i \in DOMAIN Cloned[x] : code'[x][i] = Swapped(Cloned[x][i])
               /\ Elems(code'[x]) = {Swapped(e) : e \in Elems(Cloned[x])}
    <3>1. Cloned[x] \in Seq(Made)
      BY <1>1
    <3>2. code'[x] = [i \in DOMAIN Cloned[x] |-> Remapped(Cloned[x][i], One(Current.id, PhiId))]
      BY <2>1
    <3> QED
      BY <2>2, <2>3, <3>1, <3>2, ReplacedSeq
  <2>5. DOMAIN code' = DOMAIN code
    BY <2>1
  <2>6. code' = [x \in DOMAIN code |-> code'[x]]
    BY <2>1, <2>5
  <2> QED
    BY <2>4, <2>5, <2>6
<1> QED
  BY <1>3, <1>4

(* The instructions of the function after the iteration.                   *)
LEMMA CloneInsts ==
  ASSUME DupInv, Clone, Current.kind # "br"
  PROVE  /\ \A y \in AllInsts' :
              \E e \in AllInsts \cup {Copy("then"), Copy("else")}
                         \cup (IF IsVoid THEN {} ELSE {NewPhi}) : y = Swapped(e)
         /\ There \ {Current.id} \subseteq There' /\ (IsVoid => There \subseteq There')
         /\ {CopyId("then"), CopyId("else")} \subseteq There'
         /\ ~IsVoid => PhiId \in There'
<1>1. /\ {ThenOf(at.b), ElseOf(at.b), TheTail} \subseteq DOMAIN code
      /\ code \in [DOMAIN code -> Seq(Made)] /\ at.k \in DOMAIN code[TheTail]
      /\ F' = F
  BY CurrentIs, CloneStep
<1>2. /\ Elems(Cloned[ThenOf(at.b)]) = Elems(code[ThenOf(at.b)]) \cup {Copy("then")}
      /\ Elems(Cloned[ElseOf(at.b)]) = Elems(code[ElseOf(at.b)]) \cup {Copy("else")}
      /\ Len(Cloned[TheTail]) = Len(code[TheTail])
      /\ \A i \in DOMAIN code[TheTail] :
           Cloned[TheTail][i] = IF i = at.k /\ ~IsVoid THEN NewPhi ELSE code[TheTail][i]
      /\ \A x \in DOMAIN code \ {ThenOf(at.b), ElseOf(at.b), TheTail} : Cloned[x] = code[x]
      /\ \A x \in DOMAIN code : Cloned[x] \in Seq(Made)
  BY ClonedBlocks
<1>3. /\ DOMAIN code' = DOMAIN code /\ code' \in [DOMAIN code' -> Seq(Made)]
      /\ \A x \in DOMAIN code : Elems(code'[x]) = {Swapped(e) : e \in Elems(Cloned[x])}
  BY CloneBlocks
<1>4. DOMAIN Cloned[TheTail] = DOMAIN code[TheTail]
  BY <1>1, <1>2
<1>5. \A x \in DOMAIN code : \A e \in Elems(Cloned[x]) :
        Swapped(e) \in AllInsts' /\ Swapped(e).id = e.id
  <2> SUFFICES ASSUME NEW x \in DOMAIN code, NEW e \in Elems(Cloned[x])
               PROVE  Swapped(e) \in AllInsts' /\ Swapped(e).id = e.id
    OBVIOUS
  <2>1. Swapped(e) \in Elems(code'[x])
    BY <1>3
  <2>2. e \in Made
    BY <1>2, ElemsOf
  <2> QED
    BY <1>3, <2>1, <2>2, SwappedKeep DEF AllInsts
<1>6. ASSUME NEW y \in AllInsts'
      PROVE  \E e \in AllInsts \cup {Copy("then"), Copy("else")}
                        \cup (IF IsVoid THEN {} ELSE {NewPhi}) : y = Swapped(e)
  <2>1. PICK x \in DOMAIN code : y \in Elems(code'[x])
    BY <1>3 DEF AllInsts
  <2>2. PICK e \in Elems(Cloned[x]) : y = Swapped(e)
    BY <1>3, <2>1
  <2>3. CASE x \in {ThenOf(at.b), ElseOf(at.b)}
    BY <1>2, <2>2, <2>3 DEF AllInsts
  <2>4. CASE x = TheTail
    <3>1. PICK i \in DOMAIN code[TheTail] : Cloned[TheTail][i] = e
      BY <1>2, <1>4, <2>2, <2>4, ElemsOf
    <3>2. code[TheTail][i] \in AllInsts
      BY <1>1, ElemsOf DEF AllInsts
    <3> QED
      BY <1>2, <2>2, <3>1, <3>2
  <2>5. CASE x \notin {ThenOf(at.b), ElseOf(at.b), TheTail}
    BY <1>2, <2>2, <2>5 DEF AllInsts
  <2> QED
    BY <2>3, <2>4, <2>5
<1>7. /\ There = Outside(F) \cup {inst.id : inst \in AllInsts}
      /\ There' = Outside(F) \cup {inst.id : inst \in AllInsts'}
  BY <1>1, <1>3, ThereIs
<1>8. \A x \in DOMAIN code : \A e \in Elems(Cloned[x]) : e.id \in There'
  BY <1>5, <1>7
<1>9. ASSUME NEW e \in AllInsts, IsVoid \/ e.id # Current.id PROVE e.id \in There'
  <2>1. PICK x \in DOMAIN code : e \in Elems(code[x])
    BY DEF AllInsts
  <2>2. CASE x = TheTail
    <3>1. PICK i \in DOMAIN code[TheTail] : code[TheTail][i] = e
      BY <1>1, <2>1, <2>2, ElemsOf
    <3>2. ~(i = at.k /\ ~IsVoid)
      BY <1>9, <3>1 DEF Current
    <3>3. Cloned[TheTail][i] = e
      BY <1>2, <3>1, <3>2
    <3>4. e \in Elems(Cloned[TheTail])
      BY <1>1, <1>2, <1>4, <3>3, ElemsOf
    <3> QED
      BY <1>1, <1>8, <3>4
  <2>3. CASE x # TheTail
    BY <1>2, <1>8, <2>1, <2>3
  <2> QED
    BY <2>2, <2>3
<1>10. {CopyId("then"), CopyId("else")} \subseteq There'
  <2>1. Copy("then").id = CopyId("then") /\ Copy("else").id = CopyId("else")
    BY CopyIs
  <2> QED
    BY <1>1, <1>2, <1>8, <2>1
<1>11. ASSUME ~IsVoid PROVE PhiId \in There'
  <2>1. Cloned[TheTail][at.k] = NewPhi
    BY <1>1, <1>2, <1>11
  <2>2. NewPhi \in Elems(Cloned[TheTail])
    BY <1>1, <1>2, <1>4, <2>1, ElemsOf
  <2> QED
    BY <1>1, <1>8, <2>2, NewPhiIs
<1>12. There \ {Current.id} \subseteq There' /\ (IsVoid => There \subseteq There')
  BY <1>7, <1>9
<1> QED
  BY <1>6, <1>10, <1>11, <1>12

LEMMA ClonedPlace ==
  ASSUME DupInv, Clone, Current.kind # "br"
  PROVE  /\ DOMAIN code'[TheTail] = DOMAIN code[TheTail]
         /\ \A i \in DOMAIN code[TheTail] :
              i # at.k => /\ code'[TheTail][i].id = code[TheTail][i].id
                          /\ code'[TheTail][i].kind = code[TheTail][i].kind
         /\ IsVoid => code'[TheTail][at.k].kind = "void"
         /\ \A x \in DOMAIN code \ {ThenOf(at.b), ElseOf(at.b), TheTail} :
              /\ DOMAIN code'[x] = DOMAIN code[x]
              /\ \A i \in DOMAIN code[x] : /\ code'[x][i].id = code[x][i].id
                                           /\ code'[x][i].kind = code[x][i].kind
<1>1. /\ {ThenOf(at.b), ElseOf(at.b), TheTail} \subseteq DOMAIN code
      /\ code \in [DOMAIN code -> Seq(Made)] /\ at.k \in DOMAIN code[TheTail]
  BY CurrentIs
<1>2. /\ Len(Cloned[TheTail]) = Len(code[TheTail])
      /\ \A i \in DOMAIN code[TheTail] :
           Cloned[TheTail][i] = IF i = at.k /\ ~IsVoid THEN NewPhi ELSE code[TheTail][i]
      /\ \A x \in DOMAIN code \ {ThenOf(at.b), ElseOf(at.b), TheTail} : Cloned[x] = code[x]
      /\ \A x \in DOMAIN code : Cloned[x] \in Seq(Made)
  BY ClonedBlocks
<1>3. /\ DOMAIN code' = DOMAIN code /\ code' \in [DOMAIN code' -> Seq(Made)]
      /\ \A x \in DOMAIN code :
           /\ Len(code'[x]) = Len(Cloned[x])
           /\ \A i \in DOMAIN Cloned[x] : code'[x][i] = Swapped(Cloned[x][i])
  BY CloneBlocks
<1>4. \A x \in DOMAIN code : DOMAIN code'[x] = DOMAIN Cloned[x]
  BY <1>2, <1>3
<1>5. DOMAIN Cloned[TheTail] = DOMAIN code[TheTail]
  BY <1>1, <1>2
<1>6. \A x \in DOMAIN code : \A i \in DOMAIN Cloned[x] :
        code'[x][i].id = Cloned[x][i].id /\ code'[x][i].kind = Cloned[x][i].kind
  <2> SUFFICES ASSUME NEW x \in DOMAIN code, NEW i \in DOMAIN Cloned[x]
               PROVE  /\ code'[x][i].id = Cloned[x][i].id
                      /\ code'[x][i].kind = Cloned[x][i].kind
    OBVIOUS
  <2>1. Cloned[x][i] \in Made /\ code'[x][i] = Swapped(Cloned[x][i])
    BY <1>2, <1>3, ElemsOf
  <2> QED
    BY <2>1, SwappedKeep
<1>7. \A i \in DOMAIN code[TheTail] :
        i # at.k => /\ code'[TheTail][i].id = code[TheTail][i].id
                    /\ code'[TheTail][i].kind = code[TheTail][i].kind
  BY <1>1, <1>2, <1>5, <1>6
<1>8. ASSUME IsVoid PROVE code'[TheTail][at.k].kind = "void"
  <2>1. Cloned[TheTail][at.k] = Current
    BY <1>1, <1>2, <1>8 DEF Current
  <2> QED
    BY <1>1, <1>5, <1>6, <1>8, <2>1 DEF IsVoid
<1>9. ASSUME NEW x \in DOMAIN code \ {ThenOf(at.b), ElseOf(at.b), TheTail}
      PROVE  /\ DOMAIN code'[x] = DOMAIN code[x]
             /\ \A i \in DOMAIN code[x] : /\ code'[x][i].id = code[x][i].id
                                          /\ code'[x][i].kind = code[x][i].kind
  BY <1>2, <1>4, <1>6
<1> QED
  BY <1>1, <1>4, <1>5, <1>7, <1>8, <1>9

LEMMA CloneStructure ==
  ASSUME DupInv, Clone
  PROVE  Structure'
<1>1. /\ CodeTyped /\ Coming /\ Whole /\ InTail
      /\ F' = F /\ UNCHANGED <<succ, targets, todo>>
  BY CloneStep DEF DupInv, Structure
<1>2. /\ at # Idle /\ at.b \in todo /\ at.b \in F.blocks /\ at.k \in Nat \ {0}
      /\ {ThenOf(at.b), ElseOf(at.b), TheTail} \subseteq DOMAIN code
      /\ code \in [DOMAIN code -> Seq(Made)] /\ at.k \in DOMAIN code[TheTail]
  BY CurrentIs
<1>3. DOMAIN code' = DOMAIN code /\ code' \in [DOMAIN code' -> Seq(Made)]
  <2>1. CASE Current.kind = "br"
    BY <1>2, <2>1, CloneStep
  <2>2. CASE Current.kind # "br"
    BY <2>2, CloneBlocks
  <2> QED
    BY <2>1, <2>2
<1>4. \A b \in F.blocks : HasTail(b)' <=> HasTail(b)
  BY <1>3 DEF HasTail
<1>5. /\ at' # Idle /\ at'.b = at.b /\ at'.k = at.k + 1
      /\ at' = [b |-> at'.b, k |-> at'.k, thenVMap |-> at'.thenVMap,
                elseVMap |-> at'.elseVMap, freeList |-> at'.freeList]
      /\ at'.freeList \subseteq at.freeList \cup IF IsVoid THEN {at.k} ELSE {}
  <2>1. CASE Current.kind = "br"
    <3>1. at' = [at EXCEPT !.k = @ + 1]
      BY <2>1, CloneStep
    <3>2. at = [b |-> at.b, k |-> at.k, thenVMap |-> at.thenVMap,
                elseVMap |-> at.elseVMap, freeList |-> at.freeList]
      BY <1>1, <1>2 DEF InTail
    <3>3. at' = [b |-> at.b, k |-> at.k + 1, thenVMap |-> at.thenVMap,
                 elseVMap |-> at.elseVMap, freeList |-> at.freeList]
      BY <3>1, <3>2
    <3>4. /\ at' # Idle /\ at'.b = at.b /\ at'.k = at.k + 1 /\ at'.thenVMap = at.thenVMap
          /\ at'.elseVMap = at.elseVMap /\ at'.freeList = at.freeList
      BY <3>3, Working
    <3> QED
      BY <3>3, <3>4
  <2>2. CASE Current.kind # "br"
    <3> DEFINE t == Set(at.thenVMap, Key, CopyId("then"))
               e == Set(at.elseVMap, Key, CopyId("else"))
               f == at.freeList \cup IF IsVoid THEN {at.k} ELSE {}
    <3>1. at' = [b |-> at.b, k |-> at.k + 1, thenVMap |-> t, elseVMap |-> e, freeList |-> f]
      BY <2>2, CloneStep
    <3> HIDE DEF t, e
    <3>2. /\ at' # Idle /\ at'.b = at.b /\ at'.k = at.k + 1 /\ at'.thenVMap = t
          /\ at'.elseVMap = e /\ at'.freeList = f
      BY <3>1, Working
    <3> QED
      BY <3>1, <3>2
  <2> QED
    BY <2>1, <2>2
<1>6. CodeTyped'
  <2>1. Names' = Names /\ Made' = Made /\ CodeSound(F)'
    BY <1>1 DEF Names, Made, Values, CodeTyped
  <2>2. /\ CodeSound(F) /\ DOMAIN code \subseteq Names /\ todo \subseteq F.blocks
        /\ succ \in [DOMAIN code -> SUBSET DOMAIN code]
        /\ \A b \in F.blocks : /\ Original(b) \in DOMAIN code
                               /\ ThenOf(b) \in DOMAIN code <=> HasTail(b)
                               /\ ElseOf(b) \in DOMAIN code <=> HasTail(b)
    BY <1>1 DEF CodeTyped
  <2> QED
    BY <1>1, <1>3, <1>4, <2>1, <2>2 DEF CodeTyped
<1>7. Coming'
  <2>1. Voids' = Voids
    BY <1>1 DEF Voids
  <2>2. targets # Unchosen /\ todo \subseteq F.blocks
    BY <1>1, <1>2 DEF Coming, CodeTyped
  <2> QED
    BY <1>1, <1>2, <1>4, <1>5, <2>1, <2>2 DEF Coming
<1>8. Whole'
  <2> SUFFICES ASSUME NEW c \in F.blocks, ~HasTail(c)', NEW i \in DOMAIN code'[Original(c)]
               PROVE  /\ Source(c, code'[Original(c)][i])
                      /\ \A j \in DOMAIN code'[Original(c)] :
                           i < j /\ IsPhi(code'[Original(c)][j])
                             => IsPhi(code'[Original(c)][i])
    BY <1>1 DEF Whole, Source
  <2> DEFINE s == code[Original(c)]
             t == code'[Original(c)]
  <2>1. /\ ~HasTail(c) /\ Original(c) \in DOMAIN code
        /\ Original(c) \notin {ThenOf(at.b), ElseOf(at.b), TheTail}
    BY <1>1, <1>4, NamesDiffer DEF CodeTyped, TheTail
  <2>2. DOMAIN t = DOMAIN s /\ \A j \in DOMAIN s : t[j].id = s[j].id /\ t[j].kind = s[j].kind
    <3>1. CASE Current.kind = "br"
      BY <3>1, CloneStep
    <3>2. CASE Current.kind # "br"
      BY <2>1, <3>2, ClonedPlace
    <3> QED
      BY <3>1, <3>2
  <2>3. \A j \in DOMAIN s : /\ Source(c, s[j])
                            /\ \A k \in DOMAIN s : j < k /\ IsPhi(s[k]) => IsPhi(s[j])
    BY <1>1, <2>1 DEF Whole
  <2> HIDE DEF s, t
  <2>4. i \in DOMAIN s
    BY <2>2 DEF t
  <2>5. Source(c, t[i]) /\ \A j \in DOMAIN s : i < j /\ IsPhi(t[j]) => IsPhi(t[i])
    BY <2>2, <2>3, <2>4 DEF Source, IsPhi
  <2> QED
    BY <2>2, <2>5 DEF t
<1>9. InTail'
  <2> DEFINE s == code[TheTail]
             t == code'[TheTail]
  <2>1. /\ DOMAIN t = DOMAIN s
        /\ \A i \in DOMAIN s : i # at.k => t[i].id = s[i].id /\ t[i].kind = s[i].kind
        /\ IsVoid => t[at.k].kind = "void"
    <3>1. CASE Current.kind = "br"
      BY <3>1, CloneStep DEF IsVoid
    <3>2. CASE Current.kind # "br"
      BY <3>2, ClonedPlace
    <3> QED
      BY <3>1, <3>2
  <2>2. \A i \in DOMAIN s :
          /\ i >= at.k => Source(at.b, s[i]) /\ ~IsPhi(s[i])
          /\ i \in at.freeList => i < at.k /\ s[i].kind = "void"
    BY <1>1, <1>2 DEF InTail, TheTail
  <2>3. DOMAIN s \subseteq Nat
    <3>1. s \in Seq(Made)
      BY <1>2
    <3> QED
      BY <3>1
  <2>4. TailOf(at'.b) \in DOMAIN code'
    BY <1>2, <1>3, <1>5 DEF TheTail
  <2> HIDE DEF s, t
  <2>5. ASSUME NEW i \in DOMAIN s
        PROVE  /\ i >= at.k + 1 => Source(at.b, t[i]) /\ ~IsPhi(t[i])
               /\ i \in at'.freeList => i < at.k + 1 /\ t[i].kind = "void"
    <3>1. i \in Nat /\ at.k \in Nat
      BY <1>2, <2>3
    <3>2. ASSUME i >= at.k + 1 PROVE Source(at.b, t[i]) /\ ~IsPhi(t[i])
      BY <2>1, <2>2, <3>1, <3>2 DEF Source, IsPhi
    <3>3. ASSUME i \in at'.freeList PROVE i < at.k + 1 /\ t[i].kind = "void"
      <4>1. CASE i = at.k
        <5>1. IsVoid
          BY <1>5, <2>2, <3>1, <3>3, <4>1
        <5> QED
          BY <2>1, <3>1, <4>1, <5>1
      <4>2. CASE i # at.k
        BY <1>5, <2>1, <2>2, <3>1, <3>3, <4>2
      <4> QED
        BY <4>1, <4>2
    <3> QED
      BY <3>2, <3>3
  <2>6. \A i \in DOMAIN code'[TheTail] :
          /\ i >= at'.k => /\ \E orig \in Elems(F.code[at'.b]) :
                                /\ orig.id = code'[TheTail][i].id
                                /\ orig.kind = code'[TheTail][i].kind
                           /\ ~IsPhi(code'[TheTail][i])
          /\ i \in at'.freeList => i < at'.k /\ code'[TheTail][i].kind = "void"
    BY <1>5, <2>1, <2>5 DEF Source, t
  <2>7. TailOf(at'.b) = TheTail
    BY <1>5 DEF TheTail
  <2> QED
    BY <1>1, <1>2, <1>5, <2>4, <2>6, <2>7 DEF InTail, HasTail, Source
<1> QED
  BY <1>6, <1>7, <1>8, <1>9 DEF Structure

LEMMA CloneFlow ==
  ASSUME DupInv, Clone
  PROVE  Flow'
<1>1. Copies /\ PhisNamePredecessors /\ F' = F /\ succ' = succ
  BY CloneStep DEF DupInv, Flow
<1>2. CASE Current.kind = "br"
  <2>1. code' = code
    BY <1>2, CloneStep
  <2> QED
    BY <1>1, <2>1 DEF Flow, Copies, PhisNamePredecessors, HasTail
<1>3. CASE Current.kind # "br"
  <2>1. /\ {ThenOf(at.b), ElseOf(at.b), TheTail} \subseteq DOMAIN code /\ at.b \in F.blocks
        /\ code \in [DOMAIN code -> Seq(Made)] /\ at.k \in DOMAIN code[TheTail]
        /\ ~IsPhi(Current)
    BY CurrentIs
  <2>2. /\ Elems(Cloned[ThenOf(at.b)]) = Elems(code[ThenOf(at.b)]) \cup {Copy("then")}
        /\ Elems(Cloned[ElseOf(at.b)]) = Elems(code[ElseOf(at.b)]) \cup {Copy("else")}
        /\ Len(Cloned[TheTail]) = Len(code[TheTail])
        /\ \A i \in DOMAIN code[TheTail] :
             Cloned[TheTail][i] = IF i = at.k /\ ~IsVoid THEN NewPhi ELSE code[TheTail][i]
        /\ \A x \in DOMAIN code \ {ThenOf(at.b), ElseOf(at.b), TheTail} : Cloned[x] = code[x]
        /\ \A x \in DOMAIN code : Cloned[x] \in Seq(Made)
    BY ClonedBlocks
  <2>3. /\ DOMAIN code' = DOMAIN code
        /\ \A x \in DOMAIN code : Elems(code'[x]) = {Swapped(e) : e \in Elems(Cloned[x])}
    BY <1>3, CloneBlocks
  <2>4. ~IsPhi(Copy("then")) /\ ~IsPhi(Copy("else"))
    BY <2>1, CopyIs DEF IsPhi
  <2>5. \A x \in DOMAIN code : \A y \in Elems(code'[x]) : \E e \in Elems(Cloned[x]) :
          (IsPhi(y) <=> IsPhi(e)) /\ y.from = e.from
    <3> SUFFICES ASSUME NEW x \in DOMAIN code, NEW y \in Elems(code'[x])
                 PROVE  \E e \in Elems(Cloned[x]) : (IsPhi(y) <=> IsPhi(e)) /\ y.from = e.from
      OBVIOUS
    <3>1. PICK e \in Elems(Cloned[x]) : y = Swapped(e)
      BY <2>3
    <3>2. e \in Made
      BY <2>2, ElemsOf
    <3> QED
      BY <3>1, <3>2, SwappedKeep DEF IsPhi
  <2>6. \A x \in DOMAIN code : \A e \in Elems(Cloned[x]) :
          \/ e \in Elems(code[x])
          \/ e \in {Copy("then"), Copy("else")}
          \/ x = TheTail /\ e = NewPhi
    <3> SUFFICES ASSUME NEW x \in DOMAIN code, NEW e \in Elems(Cloned[x])
                 PROVE  \/ e \in Elems(code[x]) \/ e \in {Copy("then"), Copy("else")}
                        \/ x = TheTail /\ e = NewPhi
      OBVIOUS
    <3>1. CASE x = TheTail
      <4>1. DOMAIN Cloned[TheTail] = DOMAIN code[TheTail]
        BY <2>1, <2>2
      <4>2. PICK i \in DOMAIN code[TheTail] : Cloned[TheTail][i] = e
        BY <2>2, <3>1, <4>1, ElemsOf
      <4> QED
        BY <2>1, <2>2, <3>1, <4>2, ElemsOf
    <3>2. CASE x # TheTail
      BY <2>2, <3>2
    <3> QED
      BY <3>1, <3>2
  <2>7. HasTail(at.b)
    BY <2>1 DEF HasTail, TheTail
  <2>8. Copies'
    <3> SUFFICES ASSUME NEW c \in F.blocks, HasTail(c)
                 PROVE  /\ \A inst \in Elems(code'[ThenOf(c)]) \cup Elems(code'[ElseOf(c)]) :
                             ~IsPhi(inst)
                        /\ \A x \in DOMAIN code :
                             TailOf(c) \in succ[x] <=> x \in {ThenOf(c), ElseOf(c)}
      BY <1>1, <2>3 DEF Copies, HasTail
    <3>1. /\ \A inst \in Elems(code[ThenOf(c)]) \cup Elems(code[ElseOf(c)]) : ~IsPhi(inst)
          /\ \A x \in DOMAIN code : TailOf(c) \in succ[x] <=> x \in {ThenOf(c), ElseOf(c)}
      BY <1>1 DEF Copies
    <3>2. ThenOf(c) \in DOMAIN code /\ ElseOf(c) \in DOMAIN code
      BY DEF DupInv, Structure, CodeTyped
    <3>3. ThenOf(c) # TheTail /\ ElseOf(c) # TheTail
      BY NamesDiffer DEF TheTail
    <3>4. ASSUME NEW x \in {ThenOf(c), ElseOf(c)}, NEW y \in Elems(code'[x]) PROVE ~IsPhi(y)
      <4>1. PICK e \in Elems(Cloned[x]) : IsPhi(y) <=> IsPhi(e)
        BY <2>5, <3>2
      <4>2. e \in Elems(code[x]) \/ e \in {Copy("then"), Copy("else")}
        BY <2>6, <3>2, <3>3
      <4> QED
        BY <2>4, <3>1, <4>1, <4>2
    <3> QED
      BY <3>1, <3>4
  <2>9. PhisNamePredecessors'
    <3> SUFFICES ASSUME NEW x \in DOMAIN code, NEW y \in Elems(code'[x]), IsPhi(y)
                 PROVE  Elems(y.from) = {p \in DOMAIN code : x \in succ[p]}
      BY <1>1, <2>3 DEF PhisNamePredecessors, PhisOf
    <3>1. PICK e \in Elems(Cloned[x]) : IsPhi(e) /\ y.from = e.from
      BY <2>5
    <3>2. CASE e \in Elems(code[x])
      BY <1>1, <3>1, <3>2 DEF PhisNamePredecessors, PhisOf
    <3>3. CASE x = TheTail /\ e = NewPhi
      <4>1. Elems(NewPhi.from) = {ThenOf(at.b), ElseOf(at.b)}
        BY NewPhiIs
      <4>2. \A p \in DOMAIN code : TheTail \in succ[p] <=> p \in {ThenOf(at.b), ElseOf(at.b)}
        BY <1>1, <2>1, <2>7 DEF Copies, TheTail
      <4> QED
        BY <2>1, <3>1, <3>3, <4>1, <4>2
    <3> QED
      BY <2>4, <2>6, <3>1, <3>2, <3>3
  <2> QED
    BY <2>8, <2>9 DEF Flow
<1> QED
  BY <1>2, <1>3

LEMMA CloneOperable ==
  ASSUME DupInv, Clone, Current.kind # "br"
  PROVE  /\ Operable'
         /\ \A part \in {"then", "else"} : CopyId(part) \in Voids <=> IsVoid
<1>1. /\ at # Idle /\ CodeSound(F) /\ F' = F /\ Voids' = Voids
      /\ code \in [DOMAIN code -> Seq(Made)]
      /\ Current \in Elems(code[TheTail]) /\ TheTail \in DOMAIN code
      /\ Current.id = <<"orig", at.b, Current.id[3]>> /\ Current.id \in Results(F)
      /\ IsVoid <=> Current.id \in VoidIds(F)
  BY CurrentIs, CloneStep DEF Voids
<1>2. Operable /\ ClonesMapped
  BY DEF DupInv, Uses
<1>3. \A part \in {"then", "else"} : CopyId(part) \in Voids <=> IsVoid
  <2> SUFFICES ASSUME NEW part \in {"then", "else"} PROVE CopyId(part) \in Voids <=> IsVoid
    OBVIOUS
  <2>1. CopyId(part) \in Results(F)
    BY CopyIs
  <2>2. CopyId(part)[1] = part /\ <<"orig", CopyId(part)[2], CopyId(part)[3]>> = Current.id
    BY <1>1 DEF CopyId
  <2> QED
    BY <1>1, <2>1, <2>2 DEF Voids
<1>4. PhiId \notin Voids
  BY DEF PhiId, Voids
<1>5. Current \in AllInsts /\ Current \in Made
  BY <1>1, ElemsOf DEF AllInsts
<1>6. Elems(Current.ops) \subseteq There \ Voids
  BY <1>2, <1>5 DEF Operable
<1>7. \A part \in {"then", "else"} :
        /\ Elems(Copy(part).ops) \subseteq There \ Voids
        /\ Copy(part).kind = "void" => Copy(part).id \in Voids
  <2> SUFFICES ASSUME NEW part \in {"then", "else"}
               PROVE  /\ Elems(Copy(part).ops) \subseteq There \ Voids
                      /\ Copy(part).kind = "void" => Copy(part).id \in Voids
    OBVIOUS
  <2>1. Elems(Copy(part).ops) = {Mapped(MapOf(part), v) : v \in Elems(Current.ops)}
        /\ Copy(part).kind = Current.kind /\ Copy(part).id = CopyId(part)
    BY CopyIs
  <2>2. MapOf(part) \in {at.thenVMap, at.elseVMap}
    BY DEF MapOf
  <2>3. \A v \in DOMAIN MapOf(part) :
          /\ MapOf(part)[v] \in There
          /\ MapOf(part)[v] \in Voids => v \in Voids
    BY <1>1, <1>2, <2>2 DEF ClonesMapped
  <2>4. \A v \in Elems(Current.ops) : Mapped(MapOf(part), v) \in There \ Voids
    BY <1>6, <2>3 DEF Mapped
  <2> QED
    BY <1>3, <2>1, <2>4 DEF IsVoid
<1>8. /\ \A y \in AllInsts' :
           \E e \in AllInsts \cup {Copy("then"), Copy("else")}
                      \cup (IF IsVoid THEN {} ELSE {NewPhi}) : y = Swapped(e)
      /\ There \ {Current.id} \subseteq There' /\ (IsVoid => There \subseteq There')
      /\ {CopyId("then"), CopyId("else")} \subseteq There'
      /\ ~IsVoid => PhiId \in There'
  BY CloneInsts
<1>9. /\ NewPhi \in Made /\ NewPhi.kind = "phi"
      /\ Elems(NewPhi.ops) = {CopyId("then"), CopyId("else")}
      /\ Copy("then") \in Made /\ Copy("else") \in Made
  BY NewPhiIs, CopyIs DEF IsPhi
<1>10. \A e \in AllInsts : e \in Made
  BY <1>1, ElemsOf DEF AllInsts
<1>11. ASSUME NEW y \in AllInsts'
       PROVE  /\ Elems(y.ops) \subseteq There' \ Voids
              /\ y.kind = "void" => y.id \in Voids
  <2>1. PICK e \in AllInsts \cup {Copy("then"), Copy("else")}
                     \cup (IF IsVoid THEN {} ELSE {NewPhi}) : y = Swapped(e)
    BY <1>8
  <2>2. e \in Made
    BY <1>9, <1>10
  <2>3. /\ y.id = e.id /\ y.kind = e.kind
        /\ Elems(y.ops) = {IF ~IsVoid /\ v = Current.id THEN PhiId ELSE v : v \in Elems(e.ops)}
    BY <2>1, <2>2, SwappedKeep
  <2>4. CASE e \in AllInsts \cup {Copy("then"), Copy("else")}
    <3>1. /\ Elems(e.ops) \subseteq There \ Voids
          /\ e.kind = "void" => e.id \in Voids
      BY <1>2, <1>7, <2>4 DEF Operable
    <3>2. ASSUME NEW v \in Elems(e.ops)
          PROVE  (IF ~IsVoid /\ v = Current.id THEN PhiId ELSE v) \in There' \ Voids
      BY <1>4, <1>8, <3>1
    <3> QED
      BY <2>3, <3>1, <3>2
  <2>5. CASE ~IsVoid /\ e = NewPhi
    <3>1. \A v \in Elems(e.ops) : v \in There' \ Voids
      BY <1>3, <1>8, <1>9, <2>5
    <3>2. \A v \in Elems(e.ops) :
            (IF ~IsVoid /\ v = Current.id THEN PhiId ELSE v) \in There' \ Voids
      BY <1>4, <1>8, <2>5, <3>1
    <3> QED
      BY <1>9, <2>3, <2>5, <3>2
  <2> QED
    BY <2>4, <2>5
<1>12. Operable'
  BY <1>1, <1>11 DEF Operable
<1> QED
  BY <1>3, <1>12

LEMMA CloneUses ==
  ASSUME DupInv, Clone
  PROVE  Uses'
<1>1. /\ ClonesMapped /\ Operable /\ Covered /\ F' = F /\ Voids' = Voids
      /\ CodeTyped /\ InTail
  BY CloneStep DEF DupInv, Structure, Uses, Voids
<1>2. at # Idle /\ CodeSound(F)
  BY CurrentIs
<1>3. CASE Current.kind = "br"
  <2>1. /\ code' = code /\ valueToPhi' = valueToPhi /\ at' = [at EXCEPT !.k = @ + 1]
    BY <1>3, CloneStep
  <2>2. There' = There
    BY <1>1, <2>1 DEF There
  <2>3. at'.thenVMap = at.thenVMap /\ at'.elseVMap = at.elseVMap
    <3>1. at = [b |-> at.b, k |-> at.k, thenVMap |-> at.thenVMap,
                elseVMap |-> at.elseVMap, freeList |-> at.freeList]
      BY <1>1, <1>2 DEF InTail
    <3>2. at' = [b |-> at.b, k |-> at.k + 1, thenVMap |-> at.thenVMap,
                 elseVMap |-> at.elseVMap, freeList |-> at.freeList]
      BY <2>1, <3>1
    <3> QED
      BY <3>2, Working
  <2>4. ClonesMapped'
    BY <1>1, <1>2, <2>2, <2>3 DEF ClonesMapped
  <2>5. Operable' /\ Covered'
    BY <1>1, <2>1, <2>2 DEF Operable, Covered, AllInsts
  <2> QED
    BY <2>4, <2>5 DEF Uses
<1>4. CASE Current.kind # "br"
  <2> DEFINE t == Set(at.thenVMap, Key, CopyId("then"))
             e == Set(at.elseVMap, Key, CopyId("else"))
             f == at.freeList \cup IF IsVoid THEN {at.k} ELSE {}
  <2>1. /\ at' = [b |-> at.b, k |-> at.k + 1, thenVMap |-> t, elseVMap |-> e, freeList |-> f]
        /\ valueToPhi' = IF IsVoid THEN valueToPhi ELSE Set(valueToPhi, Current.id, PhiId)
    BY <1>4, CloneStep
  <2>2. /\ There \ {Current.id} \subseteq There' /\ (IsVoid => There \subseteq There')
        /\ {CopyId("then"), CopyId("else")} \subseteq There'
        /\ ~IsVoid => PhiId \in There'
    BY <1>4, CloneInsts
  <2>3. Current.id[1] = "orig"
    BY CurrentIs
  <2>4. /\ CopyId("then") \in Results(F) /\ CopyId("else") \in Results(F)
        /\ CopyId("then")[1] = "then" /\ CopyId("else")[1] = "else"
        /\ PhiId \in Results(F) /\ PhiId[1] = "phi"
    BY CopyIs, NewPhiIs DEF CopyId, PhiId
  <2>5. /\ Operable'
        /\ CopyId("then") \in Voids <=> IsVoid
        /\ CopyId("else") \in Voids <=> IsVoid
    BY <1>4, CloneOperable
  <2>6. IsVoid => Key \in Voids
    <3>1. Current \in AllInsts
      BY CurrentIs DEF AllInsts
    <3> QED
      BY <1>1, <3>1 DEF Operable, Key, IsVoid
  <2>7. ASSUME NEW v \in DOMAIN t
        PROVE  /\ t[v] \in There' /\ t[v] \in Results(F) /\ t[v][1] \in {"then", "else"}
               /\ t[v] \in Voids => v \in Voids
    <3>1. CASE v = Key
      <4>1. t[v] = CopyId("then")
        BY <3>1 DEF Set
      <4> QED
        BY <2>2, <2>4, <2>5, <2>6, <3>1, <4>1
    <3>2. CASE v # Key
      <4>1. v \in DOMAIN at.thenVMap /\ t[v] = at.thenVMap[v]
        BY <3>2 DEF Set
      <4>2. /\ t[v] \in There /\ t[v] \in Results(F) /\ t[v][1] \in {"then", "else"}
            /\ t[v] \in Voids => v \in Voids
        BY <1>1, <1>2, <4>1 DEF ClonesMapped
      <4> QED
        BY <2>2, <2>3, <4>2
    <3> QED
      BY <3>1, <3>2
  <2>8. ASSUME NEW v \in DOMAIN e
        PROVE  /\ e[v] \in There' /\ e[v] \in Results(F) /\ e[v][1] \in {"then", "else"}
               /\ e[v] \in Voids => v \in Voids
    <3>1. CASE v = Key
      <4>1. e[v] = CopyId("else")
        BY <3>1 DEF Set
      <4> QED
        BY <2>2, <2>4, <2>5, <2>6, <3>1, <4>1
    <3>2. CASE v # Key
      <4>1. v \in DOMAIN at.elseVMap /\ e[v] = at.elseVMap[v]
        BY <3>2 DEF Set
      <4>2. /\ e[v] \in There /\ e[v] \in Results(F) /\ e[v][1] \in {"then", "else"}
            /\ e[v] \in Voids => v \in Voids
        BY <1>1, <1>2, <4>1 DEF ClonesMapped
      <4> QED
        BY <2>2, <2>3, <4>2
    <3> QED
      BY <3>1, <3>2
  <2> HIDE DEF t, e, f
  <2>9. at'.thenVMap = t /\ at'.elseVMap = e
    BY <2>1, Working
  <2>10. ClonesMapped'
    BY <1>1, <2>7, <2>8, <2>9 DEF ClonesMapped, Results
  <2>11. Covered'
    <3>1. ASSUME NEW b \in F.blocks, NEW orig \in Elems(F.code[b]), orig.kind # "void"
          PROVE  orig.id \in There' \cup DOMAIN valueToPhi'
      <4>1. orig.id \in There \cup DOMAIN valueToPhi
        BY <1>1, <3>1 DEF Covered
      <4>2. CASE IsVoid
        BY <2>1, <2>2, <4>1, <4>2
      <4>3. CASE ~IsVoid
        <5>1. DOMAIN valueToPhi' = DOMAIN valueToPhi \cup {Current.id}
          BY <2>1, <4>3 DEF Set
        <5> QED
          BY <2>2, <4>1, <5>1
      <4> QED
        BY <4>2, <4>3
    <3>2. ASSUME NEW v \in DOMAIN valueToPhi'
          PROVE  valueToPhi'[v] \in There' \cap Results(F) /\ valueToPhi'[v][1] = "phi"
      <4>1. CASE v \in DOMAIN valueToPhi /\ valueToPhi'[v] = valueToPhi[v]
        <5>1. valueToPhi[v] \in There \cap Results(F) /\ valueToPhi[v][1] = "phi"
          BY <1>1, <4>1 DEF Covered
        <5> QED
          BY <2>2, <2>3, <4>1, <5>1
      <4>2. CASE ~IsVoid /\ v = Current.id
        <5>1. valueToPhi'[v] = PhiId
          BY <2>1, <4>2 DEF Set
        <5> QED
          BY <2>2, <2>4, <4>2, <5>1
      <4>3. \/ v \in DOMAIN valueToPhi /\ valueToPhi'[v] = valueToPhi[v]
            \/ ~IsVoid /\ v = Current.id
        BY <2>1, <3>2 DEF Set
      <4> QED
        BY <4>1, <4>2, <4>3
    <3> QED
      BY <1>1, <3>1, <3>2 DEF Covered, Results
  <2> QED
    BY <2>5, <2>10, <2>11 DEF Uses
<1> QED
  BY <1>3, <1>4

LEMMA CloneDup == DupInv /\ Clone => DupInv'
<1> SUFFICES ASSUME DupInv, Clone PROVE DupInv'
  OBVIOUS
<1>1. UNCHANGED vars
  BY CloneStep
<1>2. RIVInv'
  BY <1>1, NextRIV DEF DupInv
<1> QED
  BY <1>2, CloneStructure, CloneFlow, CloneUses DEF DupInv

(***************************************************************************)
(* The end of a target: what was cloned and is void leaves the tail.       *)
(***************************************************************************)
LEMMA FinishStep ==
  ASSUME DupInv, Finish
  PROVE  /\ UNCHANGED <<vars, succ, targets, valueToPhi>> /\ F' = F /\ Voids' = Voids
         /\ todo' = todo \ {at.b} /\ at' = Idle /\ at # Idle /\ at.b \in todo
         /\ TheTail \in DOMAIN code /\ DOMAIN code' = DOMAIN code
         /\ code' \in [DOMAIN code' -> Seq(Made)]
         /\ \A x \in DOMAIN code \ {TheTail} : code'[x] = code[x]
         /\ \A x \in DOMAIN code : Elems(code'[x]) \subseteq Elems(code[x])
         /\ There' \subseteq There /\ There \ Voids \subseteq There'
<1>1. /\ UNCHANGED <<vars, succ, targets, valueToPhi>> /\ F' = F /\ Voids' = Voids
      /\ todo' = todo \ {at.b} /\ at' = Idle /\ at # Idle
      /\ code' = [code EXCEPT ![TheTail] = Freed(code[TheTail], at.freeList)]
  BY DEF Finish, vars, TheTail, TailOf, Voids
<1>2. /\ code \in [DOMAIN code -> Seq(Made)] /\ at.b \in todo /\ TheTail \in DOMAIN code
      /\ \A i \in DOMAIN code[TheTail] : i \in at.freeList => code[TheTail][i].kind = "void"
  BY <1>1 DEF DupInv, Structure, CodeTyped, InTail, HasTail, TheTail
<1>3. /\ DOMAIN code' = DOMAIN code
      /\ code'[TheTail] = Freed(code[TheTail], at.freeList)
      /\ \A x \in DOMAIN code \ {TheTail} : code'[x] = code[x]
  BY <1>1, <1>2
<1> DEFINE s == code[TheTail]
           free == at.freeList
<1>4. s \in Seq(Made)
  BY <1>2
<1> HIDE DEF s, free
<1>5. /\ Freed(s, free) \in Seq(Made)
      /\ Elems(Freed(s, free)) = {s[i] : i \in DOMAIN s \ free}
  BY <1>4, FreedElems
<1>6. Elems(code'[TheTail]) = {s[i] : i \in DOMAIN s \ free} /\ code'[TheTail] \in Seq(Made)
  BY <1>3, <1>5 DEF s, free
<1>7. code' \in [DOMAIN code' -> Seq(Made)]
  <2>1. \A x \in DOMAIN code : code'[x] \in Seq(Made)
    BY <1>2, <1>3, <1>6
  <2>2. code' = [x \in DOMAIN code' |-> code'[x]]
    BY <1>1, <1>2
  <2> QED
    BY <1>3, <2>1, <2>2
<1>8. \A i \in DOMAIN s : s[i] \in Elems(s)
  BY <1>4, ElemsOf
<1>9. \A x \in DOMAIN code : Elems(code'[x]) \subseteq Elems(code[x])
  BY <1>3, <1>6, <1>8 DEF s
<1>10. /\ There = Outside(F) \cup {inst.id : inst \in AllInsts}
       /\ There' = Outside(F) \cup {inst.id : inst \in AllInsts'}
  BY <1>1, <1>2, <1>7, ThereIs
<1>11. AllInsts' \subseteq AllInsts
  BY <1>3, <1>9 DEF AllInsts
<1>12. ASSUME NEW e \in AllInsts, e.id \notin Voids PROVE e \in AllInsts'
  <2>1. PICK x \in DOMAIN code : e \in Elems(code[x])
    BY DEF AllInsts
  <2>2. e.kind # "void"
    BY <1>12 DEF DupInv, Uses, Operable
  <2>3. e \in Elems(code'[x])
    <3>1. CASE x = TheTail
      <4>1. PICK i \in DOMAIN s : s[i] = e
        BY <1>4, <2>1, <3>1, ElemsOf DEF s
      <4>2. i \notin free
        BY <1>2, <2>2, <4>1 DEF s, free
      <4> QED
        BY <1>6, <3>1, <4>1, <4>2
    <3>2. CASE x # TheTail
      BY <1>3, <2>1, <3>2
    <3> QED
      BY <3>1, <3>2
  <2> QED
    BY <1>3, <2>3 DEF AllInsts
<1>13. There' \subseteq There /\ There \ Voids \subseteq There'
  BY <1>10, <1>11, <1>12
<1> QED
  BY <1>1, <1>2, <1>3, <1>7, <1>9, <1>13

LEMMA FinishDup == DupInv /\ Finish => DupInv'
<1> SUFFICES ASSUME DupInv, Finish PROVE DupInv'
  OBVIOUS
<1>1. /\ UNCHANGED <<vars, succ, targets, valueToPhi>> /\ F' = F /\ Voids' = Voids
      /\ todo' = todo \ {at.b} /\ at' = Idle /\ at # Idle /\ at.b \in todo
      /\ DOMAIN code' = DOMAIN code
      /\ code' \in [DOMAIN code' -> Seq(Made)]
      /\ \A x \in DOMAIN code \ {TheTail} : code'[x] = code[x]
      /\ \A x \in DOMAIN code : Elems(code'[x]) \subseteq Elems(code[x])
      /\ There' \subseteq There /\ There \ Voids \subseteq There'
  BY FinishStep
<1>2. CodeTyped /\ Coming /\ Whole /\ Copies /\ PhisNamePredecessors /\ Operable /\ Covered
  BY DEF DupInv, Structure, Flow, Uses
<1>3. \A b \in F.blocks : HasTail(b)' <=> HasTail(b)
  BY <1>1 DEF HasTail
<1>4. CodeTyped'
  <2>1. Names' = Names /\ Made' = Made /\ CodeSound(F)'
    BY <1>1, <1>2 DEF Names, Made, Values, CodeTyped
  <2>2. /\ DOMAIN code \subseteq Names /\ todo \subseteq F.blocks
        /\ succ \in [DOMAIN code -> SUBSET DOMAIN code]
        /\ \A b \in F.blocks : /\ Original(b) \in DOMAIN code
                               /\ ThenOf(b) \in DOMAIN code <=> HasTail(b)
                               /\ ElseOf(b) \in DOMAIN code <=> HasTail(b)
    BY <1>2 DEF CodeTyped
  <2> QED
    BY <1>1, <1>3, <2>1, <2>2 DEF CodeTyped
<1>5. Coming'
  <2>1. targets # Unchosen /\ todo \subseteq F.blocks
    BY <1>1, <1>2 DEF Coming, CodeTyped
  <2>2. \A b \in todo' : ~HasTail(b)'
    BY <1>1, <1>2, <1>3, <2>1 DEF Coming
  <2> QED
    BY <1>1, <1>2, <2>1, <2>2 DEF Coming
<1>6. Whole'
  <2>1. \A c \in F.blocks : code'[Original(c)] = code[Original(c)]
    BY <1>1, <1>2, NamesDiffer DEF CodeTyped, TheTail
  <2> QED
    BY <1>1, <1>2, <1>3, <2>1 DEF Whole, Source
<1>7. InTail' /\ ClonesMapped'
  BY <1>1 DEF InTail, ClonesMapped
<1>8. Copies'
  <2>1. \A c \in F.blocks : HasTail(c) =>
          ThenOf(c) \in DOMAIN code \ {TheTail} /\ ElseOf(c) \in DOMAIN code \ {TheTail}
    BY <1>2, NamesDiffer DEF CodeTyped, TheTail
  <2> QED
    BY <1>1, <1>2, <1>3, <2>1 DEF Copies
<1>9. PhisNamePredecessors'
  BY <1>1, <1>2 DEF PhisNamePredecessors, PhisOf
<1>10. Operable'
  <2>1. AllInsts' \subseteq AllInsts
    BY <1>1 DEF AllInsts
  <2> QED
    BY <1>1, <1>2, <2>1 DEF Operable
<1>11. Covered'
  <2>1. ASSUME NEW b \in F.blocks, NEW orig \in Elems(F.code[b]), orig.kind # "void"
        PROVE  orig.id \in There' \cup DOMAIN valueToPhi
    <3>1. orig.id \in There \cup DOMAIN valueToPhi
      BY <1>2, <2>1 DEF Covered
    <3>2. /\ orig.id = <<"orig", b, orig.id[3]>> /\ orig.id \notin VoidIds(F)
      BY <1>2, <2>1, SourceIds DEF CodeTyped, Source
    <3>3. orig.id \notin Voids
      <4>1. orig.id[2] = b
        BY <3>2
      <4> QED
        BY <3>2, <4>1 DEF Voids
    <3> QED
      BY <1>1, <3>1, <3>3
  <2>2. ASSUME NEW v \in DOMAIN valueToPhi
        PROVE  valueToPhi[v] \in There' \cap Results(F) /\ valueToPhi[v][1] = "phi"
    <3>1. valueToPhi[v] \in There \cap Results(F) /\ valueToPhi[v][1] = "phi"
      BY <1>2 DEF Covered
    <3>2. valueToPhi[v] \notin Voids
      BY <3>1 DEF Voids
    <3> QED
      BY <1>1, <3>1, <3>2
  <2> QED
    BY <1>1, <2>1, <2>2 DEF Covered, Results
<1>12. RIVInv'
  BY <1>1, NextRIV DEF DupInv
<1> QED
  BY <1>4, <1>5, <1>6, <1>7, <1>8, <1>9, <1>10, <1>11, <1>12
     DEF DupInv, Structure, Flow, Uses

(***************************************************************************)
(* The theorems.                                                           *)
(***************************************************************************)
LEMMA NextDup == DupInv /\ [DNext]_<<vars, dvars>> => DupInv'
<1> SUFFICES ASSUME DupInv, [DNext]_<<vars, dvars>> PROVE DupInv'
  OBVIOUS
<1>1. CASE Analyse
  BY <1>1, AnalyseDup
<1>2. CASE Choose
  BY <1>2, ChooseDup
<1>3. ASSUME NEW b \in todo, Split(b) PROVE DupInv'
  BY <1>3, SplitDup
<1>4. CASE Clone
  BY <1>4, CloneDup
<1>5. CASE Finish
  BY <1>5, FinishDup
<1>6. CASE UNCHANGED <<vars, dvars>>
  <2>1. UNCHANGED vars /\ F' = F /\ UNCHANGED dvars
    BY <1>6 DEF vars
  <2>2. RIVInv'
    BY <2>1, NextRIV DEF DupInv
  <2>3. Structure'
    <3>1. CodeTyped'
      BY <2>1 DEF DupInv, Structure, dvars, CodeTyped, HasTail, Made, Names, Values
    <3>2. Coming'
      BY <2>1 DEF DupInv, Structure, dvars, Coming, HasTail, Voids
    <3>3. Whole' /\ InTail'
      BY <2>1 DEF DupInv, Structure, dvars, Whole, InTail, HasTail, Source
    <3> QED
      BY <3>1, <3>2, <3>3 DEF Structure
  <2>4. Flow'
    BY <2>1 DEF DupInv, Flow, dvars, Copies, PhisNamePredecessors, HasTail
  <2>5. Uses'
    BY <2>1 DEF DupInv, Uses, dvars, ClonesMapped, Operable, Covered, There, Voids, AllInsts
  <2> QED
    BY <2>2, <2>3, <2>4, <2>5 DEF DupInv
<1> QED
  BY <1>1, <1>2, <1>3, <1>4, <1>5, <1>6 DEF DNext

LEMMA DupInvariant == DSpec => []DupInv
BY InitDup, NextDup, PTL DEF DSpec

\* Inside the loops of the pass, too, every operand is an instruction that is
\* there and the phis of a block name its predecessors: duplication erases
\* nothing that is still used, whichever values RIV reported and the pass
\* drew, and in whatever order the targets are taken.
THEOREM WellFormedThm == DSpec => []WellFormed
<1>1. DupInv => WellFormed
  <2> SUFFICES ASSUME DupInv PROVE WellFormed
    OBVIOUS
  <2>1. code \in [DOMAIN code -> Seq(Made)]
    BY DEF DupInv, Structure, CodeTyped
  <2>2. ASSUME NEW x \in DOMAIN code, NEW v \in Operands(code[x]) PROVE v \in There
    <3>1. PICK i \in DOMAIN code[x] : v \in Elems(code[x][i].ops)
      BY DEF Operands
    <3>2. code[x][i] \in AllInsts
      BY <2>1, ElemsOf DEF AllInsts
    <3> QED
      BY <3>1, <3>2 DEF DupInv, Uses, Operable
  <2>3. NoDanglingOperand
    BY <2>2 DEF NoDanglingOperand
  <2> QED
    BY <2>3 DEF DupInv, Flow, WellFormed
<1> QED
  BY <1>1, DupInvariant, PTL

\* Seen from RIV every step of the pass is an iteration or changes nothing.
LEMMA PassRunsAnalysis == DSpec => Spec
<1>1. DInit => Init
  BY DEF DInit
<1>2. [DNext]_<<vars, dvars>> => [Iterate]_vars
  BY DEF DNext, Analyse, Choose, Split, Clone, Finish, vars
<1> QED
  BY <1>1, <1>2, PTL DEF DSpec, Spec

\* RIV keeps its guarantee while it runs as part of the pass, which draws
\* its values once the worklist is empty: from an analysis that is exact.
THEOREM ExactInPassThm == DSpec => []Exact
BY PassRunsAnalysis, ExactThm, PTL
=============================================================================
