----------------------------- MODULE OptProofs -----------------------------
(***************************************************************************)
(* The passes of opt leave no use of an instruction they have erased, and  *)
(* the analyses that they leave in the cache are what would be computed    *)
(* now; the two replacements of MBAAdd and MBASub are exact, for all bytes *)
(* and for all integers of any width, and so are the comparisons that      *)
(* ConvertFCmpEq makes; and whatever the code that is left computes, its   *)
(* source computes.                                                        *)
(***************************************************************************)
EXTENDS Values, ListsProofs

LEMMA ListTyped ==
  ASSUME NEW s, IsList(s)
  PROVE  /\ Len(s) \in Nat /\ DOMAIN s = 1 .. Len(s)
         /\ s = [k \in 1 .. Len(s) |-> s[k]]
         /\ \A k \in DOMAIN s : s[k] \in ToSet(s)
         /\ \A x \in ToSet(s) : \E k \in DOMAIN s : s[k] = x
<1>1. s \in Seq(ToSet(s))
  BY DEF IsList
<1>2. Len(s) \in Nat /\ DOMAIN s = 1 .. Len(s) /\ s = [k \in 1 .. Len(s) |-> s[k]]
  BY <1>1
<1>3. ToSet(s) = {s[k] : k \in DOMAIN s}
  BY DEF ToSet
<1> QED
  BY <1>2, <1>3

LEMMA ListOf ==
  ASSUME NEW X, NEW s \in Seq(X)
  PROVE  IsList(s) /\ ToSet(s) \subseteq X
<1>1. Len(s) \in Nat /\ s = [k \in 1 .. Len(s) |-> s[k]] /\ DOMAIN s = 1 .. Len(s)
  OBVIOUS
<1>2. ToSet(s) = {s[k] : k \in DOMAIN s}
  BY DEF ToSet
<1>3. \A k \in 1 .. Len(s) : s[k] \in ToSet(s) /\ s[k] \in X
  BY <1>1, <1>2
<1>4. s \in Seq(ToSet(s))
  BY <1>1, <1>3, IsSequence
<1> QED
  BY <1>1, <1>2, <1>3, <1>4 DEF IsList

(***************************************************************************)
(* A block after each instruction has given way to a list: instruction i   *)
(* of the list for the k-th is at start[k] + i.                            *)
(***************************************************************************)
Lists(block, emit) == [k \in DOMAIN block |-> emit[block[k]]]

Laid(block, emit, t, start) ==
  /\ \A k \in DOMAIN block : start[k] \in Nat
  /\ \A k, l \in DOMAIN block : k < l => start[k] + Len(emit[block[k]]) <= start[l]
  /\ \A k \in DOMAIN block : \A i \in DOMAIN emit[block[k]] :
       start[k] + i \in DOMAIN t /\ t[start[k] + i] = emit[block[k]][i]
  /\ \A p \in DOMAIN t : \E k \in DOMAIN block : \E i \in DOMAIN emit[block[k]] :
       p = start[k] + i

LEMMA ExpandedBlock ==
  ASSUME NEW block, IsList(block), NEW emit,
         \A i \in ToSet(block) : IsList(emit[i])
  PROVE  /\ IsList(FlattenSeq(Lists(block, emit)))
         /\ \E start : Laid(block, emit, FlattenSeq(Lists(block, emit)), start)
<1> DEFINE lists == Lists(block, emit)
           n == Len(block)
           X == UNION {ToSet(emit[i]) : i \in ToSet(block)}
           t == FlattenSeq(lists)
<1>1. n \in Nat /\ DOMAIN block = 1 .. n /\ \A k \in 1 .. n : block[k] \in ToSet(block)
  BY ListTyped
<1>2. lists = [k \in 1 .. n |-> emit[block[k]]]
  BY <1>1 DEF Lists
<1>3. ASSUME NEW k \in 1 .. n
      PROVE  /\ lists[k] = emit[block[k]] /\ lists[k] \in Seq(X)
             /\ DOMAIN emit[block[k]] = 1 .. Len(emit[block[k]])
  <2>1. lists[k] = emit[block[k]] /\ block[k] \in ToSet(block)
    BY <1>1, <1>2
  <2>2. emit[block[k]] \in Seq(ToSet(emit[block[k]]))
    BY <2>1 DEF IsList
  <2>3. ToSet(emit[block[k]]) \subseteq X
    BY <2>1
  <2> HIDE DEF X
  <2> QED
    BY <2>1, <2>2, <2>3
<1>4. lists = [k \in 1 .. n |-> lists[k]]
  BY <1>2, <1>3
<1> HIDE DEF X, lists
<1>5. lists \in Seq(Seq(X)) /\ Len(lists) = n
  <2>1. lists \in Seq(Seq(X))
    BY <1>1, <1>3, <1>4, IsSequence
  <2> QED
    BY <2>1, <1>1, <1>4
<1>6. t \in Seq(X)
  BY <1>5, Flattened
<1>7. PICK start : Starts(lists, start) /\ Reaches(lists, start, t, n)
  BY <1>5, Flattened
<1>8. IsList(t) /\ DOMAIN t = 1 .. Len(t)
  BY <1>6, ListOf
<1> HIDE DEF t, n
<1>9. ASSUME NEW k \in DOMAIN block PROVE start[k] \in Nat
  BY <1>1, <1>5, <1>7 DEF Starts
<1>10. ASSUME NEW k \in DOMAIN block, NEW l \in DOMAIN block, k < l
       PROVE  start[k] + Len(emit[block[k]]) <= start[l]
  <2>1. start[k] + Len(lists[k]) <= start[l]
    BY <1>1, <1>5, <1>7, <1>10, StartsGrow
  <2> QED
    BY <2>1, <1>1, <1>3
<1>11. ASSUME NEW k \in DOMAIN block, NEW i \in DOMAIN emit[block[k]]
       PROVE  start[k] + i \in DOMAIN t /\ t[start[k] + i] = emit[block[k]][i]
  <2>1. k \in 1 .. n /\ i \in 1 .. Len(lists[k]) /\ lists[k] = emit[block[k]]
    BY <1>1, <1>3
  <2>2. start[k] + i \in 1 .. Len(t) /\ t[start[k] + i] = lists[k][i]
    BY <1>7, <2>1 DEF Reaches
  <2> QED
    BY <1>8, <2>1, <2>2
<1>12. ASSUME NEW p \in DOMAIN t
       PROVE  \E k \in DOMAIN block : \E i \in DOMAIN emit[block[k]] : p = start[k] + i
  <2>1. PICK k \in 1 .. n : \E i \in 1 .. Len(lists[k]) : p = start[k] + i
    BY <1>7, <1>8 DEF Reaches
  <2> QED
    BY <2>1, <1>1, <1>3
<1>13. Laid(block, emit, t, start)
  BY <1>9, <1>10, <1>11, <1>12 DEF Laid
<1> QED
  BY <1>8, <1>13 DEF t, lists

(* Every operand is of an instruction above when each list that takes the   *)
(* place of an instruction defines what this one defined, and uses what it  *)
(* defines itself or what takes the place of what this one used.            *)
IsId(v) == v[1] \in {"id", "new"}

Uses(v, i, erased) == \E w \in ToSet(i.args) : IsId(w) /\ v = Replaced(w, erased)

Defines(list, v) == \E j \in DOMAIN list : list[j].id = v

\* Where one list ends before another begins, each of its places is in front
\* of each place p of the other.
LEMMA ListBefore ==
  ASSUME NEW a \in Nat, NEW n \in Nat, NEW l \in 1 .. n,
         NEW b \in Nat, NEW c \in Nat, NEW j \in 1 .. c, NEW p, p = b + j,
         a + n <= b
  PROVE  a + l \in 1 .. p - 1
  OBVIOUS

LEMMA OperandsStay ==
  ASSUME NEW block, IsList(block), OperandsAbove(block), NEW emit, NEW erased,
         \A i \in ToSet(block) :
           /\ IsList(emit[i])
           /\ Defines(emit[i], Replaced(i.id, erased))
           /\ \A j \in DOMAIN emit[i] : \A v \in ToSet(emit[i][j].args) :
                IsId(v) => \/ \E l \in 1 .. j - 1 : emit[i][l].id = v
                           \/ Uses(v, i, erased)
  PROVE  OperandsAbove(FlattenSeq(Lists(block, emit)))
<1> DEFINE t == FlattenSeq(Lists(block, emit))
<1>1. IsList(t) /\ \E start : Laid(block, emit, t, start)
  BY ExpandedBlock
<1> HIDE DEF t
<1>2. PICK start : Laid(block, emit, t, start)
  BY <1>1
<1>3. /\ DOMAIN t = 1 .. Len(t) /\ Len(t) \in Nat
      /\ DOMAIN block = 1 .. Len(block) /\ Len(block) \in Nat
      /\ \A k \in DOMAIN block : block[k] \in ToSet(block)
  BY <1>1, ListTyped
<1>4. ASSUME NEW k \in DOMAIN block
      PROVE  /\ DOMAIN emit[block[k]] = 1 .. Len(emit[block[k]])
             /\ Len(emit[block[k]]) \in Nat
             /\ start[k] \in Nat
  BY <1>2, <1>3, ListTyped DEF Laid
<1>5. SUFFICES ASSUME NEW p \in DOMAIN t, NEW v \in ToSet(t[p].args), IsId(v)
               PROVE  \E q \in 1 .. p - 1 : t[q].id = v
  BY DEF OperandsAbove, t, IsId
<1>6. PICK k \in DOMAIN block : \E j \in DOMAIN emit[block[k]] : p = start[k] + j
  BY <1>2 DEF Laid
<1>7. PICK j \in DOMAIN emit[block[k]] : p = start[k] + j
  BY <1>6
<1>8. t[p] = emit[block[k]][j]
  BY <1>2, <1>7 DEF Laid
<1>9. CASE \E l \in 1 .. j - 1 : emit[block[k]][l].id = v
  <2>1. PICK l \in 1 .. j - 1 : emit[block[k]][l].id = v
    BY <1>9
  <2>2. l \in DOMAIN emit[block[k]]
    BY <1>4, <1>7
  <2>3. t[start[k] + l] = emit[block[k]][l]
    BY <1>2, <2>2 DEF Laid
  <2>4. start[k] + l \in 1 .. p - 1
    BY <1>4, <1>7
  <2> QED
    BY <2>1, <2>3, <2>4
<1>10. CASE Uses(v, block[k], erased)
  <2>1. PICK w \in ToSet(block[k].args) : IsId(w) /\ v = Replaced(w, erased)
    BY <1>10 DEF Uses
  <2>2. PICK m \in 1 .. k - 1 : block[m].id = w
    BY <2>1 DEF OperandsAbove, IsId
  <2>3. m \in DOMAIN block /\ m < k /\ block[m] \in ToSet(block)
    BY <1>3, <2>2
  <2>4. PICK l \in DOMAIN emit[block[m]] : emit[block[m]][l].id = v
    BY <2>1, <2>2, <2>3 DEF Defines
  <2>5. t[start[m] + l] = emit[block[m]][l]
    BY <1>2, <2>3, <2>4 DEF Laid
  <2>6. start[m] + Len(emit[block[m]]) <= start[k]
    BY <1>2, <2>3 DEF Laid
  <2>7. start[m] + l \in 1 .. p - 1
    <3>1. start[m] \in Nat /\ l \in 1 .. Len(emit[block[m]]) /\ Len(emit[block[m]]) \in Nat
      BY <1>4, <2>3, <2>4
    <3>2. start[k] \in Nat /\ j \in 1 .. Len(emit[block[k]]) /\ Len(emit[block[k]]) \in Nat
      BY <1>4, <1>7
    <3> QED
      BY <3>1, <3>2, <2>6, <1>7, ListBefore, ZenonT(20)
  <2> QED
    BY <2>4, <2>5, <2>7
<1> QED
  BY <1>3, <1>5, <1>7, <1>8, <1>9, <1>10

(* The equality comparisons of a block are the same list when each gives    *)
(* way to one with its id, and nothing else to a list that holds any.       *)
KeepsEqualities(i, list) ==
  IF IsEquality(i) THEN Len(list) = 1 /\ IsEquality(list[1]) /\ list[1].id = i.id
                   ELSE \A j \in DOMAIN list : ~IsEquality(list[j])

LEMMA EqualitiesStay ==
  ASSUME NEW block, IsList(block), NEW emit,
         \A i \in ToSet(block) : IsList(emit[i]) /\ KeepsEqualities(i, emit[i])
  PROVE  EqualitiesOf(FlattenSeq(Lists(block, emit))) = EqualitiesOf(block)
<1> DEFINE t == FlattenSeq(Lists(block, emit))
           S == {k \in DOMAIN block : IsEquality(block[k])}
           T == {p \in DOMAIN t : IsEquality(t[p])}
<1>1. IsList(t) /\ \E start : Laid(block, emit, t, start)
  BY ExpandedBlock
<1> HIDE DEF t
<1>2. PICK start : Laid(block, emit, t, start)
  BY <1>1
<1>3. /\ DOMAIN t = 1 .. Len(t) /\ Len(t) \in Nat
      /\ DOMAIN block = 1 .. Len(block) /\ Len(block) \in Nat
      /\ \A k \in DOMAIN block : block[k] \in ToSet(block)
  BY <1>1, ListTyped
<1>4. ASSUME NEW k \in DOMAIN block
      PROVE  /\ DOMAIN emit[block[k]] = 1 .. Len(emit[block[k]])
             /\ Len(emit[block[k]]) \in Nat
             /\ start[k] \in Nat
  BY <1>2, <1>3, ListTyped DEF Laid
<1> DEFINE h == [k \in S |-> start[k] + 1]
<1>5. ASSUME NEW k \in S
      PROVE  /\ k \in DOMAIN block /\ 1 \in DOMAIN emit[block[k]]
             /\ Len(emit[block[k]]) = 1 /\ h[k] = start[k] + 1
             /\ h[k] \in DOMAIN t /\ h[k] \in T
             /\ t[h[k]].id = block[k].id
  <2>1. k \in DOMAIN block /\ IsEquality(block[k]) /\ block[k] \in ToSet(block)
    BY <1>3
  <2>2. /\ Len(emit[block[k]]) = 1 /\ IsEquality(emit[block[k]][1])
        /\ emit[block[k]][1].id = block[k].id
    BY <2>1 DEF KeepsEqualities
  <2>3. 1 \in DOMAIN emit[block[k]]
    BY <1>4, <2>1, <2>2
  <2>4. start[k] + 1 \in DOMAIN t /\ t[start[k] + 1] = emit[block[k]][1]
    BY <1>2, <2>1, <2>3 DEF Laid
  <2> QED
    BY <2>1, <2>2, <2>3, <2>4
<1> HIDE DEF h
<1>6. h \in [S -> T]
  <2>1. h = [k \in S |-> h[k]]
    BY DEF h
  <2> HIDE DEF S, T
  <2> QED
    BY <1>5, <2>1
<1>7. ASSUME NEW p \in T PROVE \E k \in S : h[k] = p
  <2>1. PICK k \in DOMAIN block : \E j \in DOMAIN emit[block[k]] : p = start[k] + j
    BY <1>2 DEF Laid
  <2>2. PICK j \in DOMAIN emit[block[k]] : p = start[k] + j
    BY <2>1
  <2>3. t[p] = emit[block[k]][j] /\ IsEquality(t[p])
    BY <1>2, <2>2 DEF Laid
  <2>4. k \in S
    BY <1>3, <2>3 DEF KeepsEqualities
  <2>5. j = 1
    BY <1>4, <1>5, <2>4
  <2> QED
    BY <1>5, <2>2, <2>4, <2>5
<1>8. ASSUME NEW i \in S, NEW k \in S, i < k PROVE h[i] < h[k]
  <2>1. start[i] + 1 <= start[k]
    BY <1>2, <1>5, <1>8 DEF Laid
  <2> QED
    BY <1>4, <1>5, <2>1
<1>9. S \in SUBSET (1 .. Len(block)) /\ T \in SUBSET (1 .. Len(t))
  BY <1>3
<1> HIDE DEF S, T
<1>10. Along(S, Len(block), T, Len(t), h)
  BY <1>3, <1>6, <1>7, <1>8, <1>9 DEF Along
<1>11. /\ Cardinality(S) = Cardinality(T)
       /\ \A n \in 1 .. Cardinality(S) : Nth(T, n) = h[Nth(S, n)]
  BY <1>10, NthAlong
<1>12. \A n \in 1 .. Cardinality(S) : Nth(S, n) \in S
  BY <1>3, <1>9, NthPlace
<1> DEFINE a == At(block, S)
           b == At(t, T)
<1>13. /\ a = [n \in 1 .. Cardinality(S) |-> block[Nth(S, n)]]
       /\ b = [n \in 1 .. Cardinality(S) |-> t[Nth(T, n)]]
  BY <1>11 DEF At
<1>14. \A n \in 1 .. Cardinality(S) : b[n].id = a[n].id
  BY <1>5, <1>11, <1>12, <1>13
<1>15. DOMAIN a = 1 .. Cardinality(S) /\ DOMAIN b = 1 .. Cardinality(S)
  BY <1>13
<1> HIDE DEF a, b
<1>16. [n \in DOMAIN b |-> b[n].id] = [n \in DOMAIN a |-> a[n].id]
  BY <1>14, <1>15
<1> QED
  BY <1>16 DEF EqualitiesOf, S, T, a, b, t
-----------------------------------------------------------------------------
(***************************************************************************)
(* Ids: those of a running pass are of no instruction that is there.       *)
(***************************************************************************)
Old(v, n) == v[1] = "id" \/ (v[1] = "new" /\ v[2] \in Nat /\ v[2] < n)
Stamped(blocks, n) == \A i \in InstsOf(blocks) : Old(i.id, n)

LEMMA NewIds ==
  ASSUME Len(passes) \in Nat
  PROVE  /\ \A of, k : /\ Old(New(of, k), Len(passes) + 1)
                       /\ IsId(New(of, k))
                       /\ ~Old(New(of, k), Len(passes))
         /\ \A of, k, of2, k2 : New(of, k) = New(of2, k2) => of = of2 /\ k = k2
         /\ \A v : Old(v, Len(passes)) => Old(v, Len(passes) + 1) /\ IsId(v)
<1>1. ASSUME NEW of, NEW k
      PROVE  New(of, k)[1] = "new" /\ New(of, k)[2] = Len(passes)
  BY DEF New
<1>2. ASSUME NEW of, NEW k
      PROVE  /\ Old(New(of, k), Len(passes) + 1)
             /\ IsId(New(of, k))
             /\ ~Old(New(of, k), Len(passes))
  BY <1>1 DEF Old, IsId
<1>3. \A of, k, of2, k2 : New(of, k) = New(of2, k2) => of = of2 /\ k = k2
  BY DEF New
<1>4. \A v : Old(v, Len(passes)) => Old(v, Len(passes) + 1) /\ IsId(v)
  BY DEF Old, IsId
<1> QED
  BY <1>2, <1>3, <1>4

LEMMA BlocksTyped ==
  ASSUME NEW blocks, IsList(blocks),
         \A b \in DOMAIN blocks : IsList(blocks[b])
  PROVE  /\ Len(blocks) \in Nat /\ DOMAIN blocks = 1 .. Len(blocks)
         /\ \A b \in DOMAIN blocks : \A k \in DOMAIN blocks[b] :
              blocks[b][k] \in InstsOf(blocks)
         /\ \A b \in DOMAIN blocks : ToSet(blocks[b]) \subseteq InstsOf(blocks)
         /\ \A i \in InstsOf(blocks) : \E b \in DOMAIN blocks :
              \E k \in DOMAIN blocks[b] : i = blocks[b][k]
<1>1. Len(blocks) \in Nat /\ DOMAIN blocks = 1 .. Len(blocks)
  BY ListTyped
<1>2. ASSUME NEW b \in DOMAIN blocks
      PROVE  /\ ToSet(blocks[b]) \subseteq InstsOf(blocks)
             /\ \A k \in DOMAIN blocks[b] : blocks[b][k] \in ToSet(blocks[b])
             /\ \A i \in ToSet(blocks[b]) : \E k \in DOMAIN blocks[b] : blocks[b][k] = i
  <2>1. ToSet(blocks[b]) \subseteq InstsOf(blocks)
    BY DEF InstsOf
  <2> QED
    BY <2>1, ListTyped
<1>3. ASSUME NEW i \in InstsOf(blocks)
      PROVE  \E b \in DOMAIN blocks : \E k \in DOMAIN blocks[b] : i = blocks[b][k]
  <2>1. PICK b \in DOMAIN blocks : i \in ToSet(blocks[b])
    BY DEF InstsOf
  <2> QED
    BY <1>2, <2>1
<1> QED
  BY <1>1, <1>2, <1>3

(***************************************************************************)
(* What a pass that gives each instruction of f a list in its place has to *)
(* see to: that the last of them, if it is erased, or one with its id      *)
(* stands for it, and that uses follow.                                    *)
(***************************************************************************)
Emits(i, list, erased) ==
  /\ IsList(list)
  /\ Defines(list, Replaced(i.id, erased))
  /\ \A j \in DOMAIN list :
       /\ IsInst(list[j])
       /\ list[j].id = i.id \/ \E k \in Nat : list[j].id = New(i.id, k)
       /\ \A l \in DOMAIN list : list[j].id = list[l].id => j = l
       /\ \A v \in ToSet(list[j].args) :
            IsId(v) => (\E l \in 1 .. j - 1 : list[l].id = v) \/ Uses(v, i, erased)

CodeOf(f) == /\ Shaped(code[f]) /\ Stamped(code[f], Len(passes))
             /\ \A b \in DOMAIN code[f] : OperandsAbove(code[f][b])

LEMMA ExpandedCode ==
  ASSUME NEW f, CodeOf(f), Len(passes) \in Nat, NEW emit, NEW erased,
         \A i \in Insts(f) : Emits(i, emit[i], erased)
  PROVE  /\ Shaped(Expanded(f, emit))
         /\ Stamped(Expanded(f, emit), Len(passes) + 1)
         /\ \A b \in DOMAIN Expanded(f, emit) : OperandsAbove(Expanded(f, emit)[b])
         /\ DOMAIN Expanded(f, emit) = DOMAIN code[f]
         /\ \A b \in DOMAIN code[f] :
              Expanded(f, emit)[b] = FlattenSeq(Lists(code[f][b], emit))
<1> DEFINE e == Expanded(f, emit)
<1>1. /\ DOMAIN code[f] = 1 .. Len(code[f]) /\ Len(code[f]) \in Nat
      /\ \A b \in DOMAIN code[f] : ToSet(code[f][b]) \subseteq Insts(f)
      /\ \A b \in DOMAIN code[f] : \A k \in DOMAIN code[f][b] : code[f][b][k] \in Insts(f)
  BY BlocksTyped DEF CodeOf, Shaped, Insts
<1>2. /\ \A b \in DOMAIN code[f] : IsList(code[f][b])
      /\ \A b \in DOMAIN code[f] : OperandsAbove(code[f][b])
      /\ \A i \in Insts(f) : Old(i.id, Len(passes)) /\ IsInst(i)
      /\ \A i, j \in Insts(f) : i.id = j.id => i = j
      /\ code[f] # << >>
  BY DEF CodeOf, Shaped, Stamped, Insts
<1>3. e = [b \in 1 .. Len(code[f]) |-> FlattenSeq(Lists(code[f][b], emit))]
  BY <1>1 DEF Expanded, Lists
<1>4. DOMAIN e = DOMAIN code[f]
  BY <1>1, <1>3
<1>5. ASSUME NEW b \in DOMAIN code[f]
      PROVE  /\ e[b] = FlattenSeq(Lists(code[f][b], emit))
             /\ IsList(e[b]) /\ OperandsAbove(e[b])
             /\ \A p \in DOMAIN e[b] : \E k \in DOMAIN code[f][b] :
                  \E j \in DOMAIN emit[code[f][b][k]] : e[b][p] = emit[code[f][b][k]][j]
  <2>1. e[b] = FlattenSeq(Lists(code[f][b], emit))
    BY <1>1, <1>3
  <2>2. \A i \in ToSet(code[f][b]) : Emits(i, emit[i], erased)
    BY <1>1
  <2>3. /\ \A i \in ToSet(code[f][b]) : IsList(emit[i])
        /\ IsList(code[f][b]) /\ OperandsAbove(code[f][b])
    BY <1>2, <2>2 DEF Emits
  <2>4. \A i \in ToSet(code[f][b]) :
          /\ IsList(emit[i])
          /\ Defines(emit[i], Replaced(i.id, erased))
          /\ \A j \in DOMAIN emit[i] : \A v \in ToSet(emit[i][j].args) :
               IsId(v) => \/ \E l \in 1 .. j - 1 : emit[i][l].id = v
                          \/ Uses(v, i, erased)
    BY <2>2 DEF Emits
  <2>5. OperandsAbove(FlattenSeq(Lists(code[f][b], emit)))
    BY <2>3, <2>4, OperandsStay
  <2>6. /\ IsList(FlattenSeq(Lists(code[f][b], emit)))
        /\ \E start : Laid(code[f][b], emit, FlattenSeq(Lists(code[f][b], emit)), start)
    BY <2>3, ExpandedBlock
  <2>7. PICK start : Laid(code[f][b], emit, FlattenSeq(Lists(code[f][b], emit)), start)
    BY <2>6
  <2> HIDE DEF e
  <2>8. ASSUME NEW p \in DOMAIN e[b]
        PROVE  \E k \in DOMAIN code[f][b] :
                 \E j \in DOMAIN emit[code[f][b][k]] : e[b][p] = emit[code[f][b][k]][j]
    <3>1. Laid(code[f][b], emit, e[b], start)
      BY <2>1, <2>7
    <3>2. PICK k \in DOMAIN code[f][b] :
            \E j \in DOMAIN emit[code[f][b][k]] : p = start[k] + j
      BY <3>1 DEF Laid
    <3>3. PICK j \in DOMAIN emit[code[f][b][k]] : p = start[k] + j
      BY <3>2
    <3>4. e[b][p] = emit[code[f][b][k]][j]
      BY <3>1, <3>3 DEF Laid
    <3> QED
      BY <3>4
  <2> QED
    BY <2>1, <2>5, <2>6, <2>8
<1> HIDE DEF e
<1>6. IsList(e) /\ e # << >>
  <2>1. e = [b \in 1 .. Len(code[f]) |-> e[b]]
    BY <1>1, <1>3
  <2>2. \A b \in 1 .. Len(code[f]) : e[b] \in {e[c] : c \in 1 .. Len(code[f])}
    OBVIOUS
  <2>3. e \in Seq({e[c] : c \in 1 .. Len(code[f])})
    BY <1>1, <2>1, <2>2, IsSequence
  <2>4. DOMAIN code[f] # {}
    <3>1. code[f] \in Seq(ToSet(code[f]))
      BY DEF CodeOf, Shaped, IsList
    <3> QED
      BY <1>2, <3>1
  <2> QED
    BY <1>4, <2>3, <2>4, ListOf
<1>7. ASSUME NEW x \in InstsOf(e)
      PROVE  \E i \in Insts(f) : \E j \in DOMAIN emit[i] : x = emit[i][j]
  <2>1. PICK b \in DOMAIN e : \E p \in DOMAIN e[b] : x = e[b][p]
    BY <1>4, <1>5, <1>6, BlocksTyped
  <2>2. PICK p \in DOMAIN e[b] : x = e[b][p]
    BY <2>1
  <2>3. PICK k \in DOMAIN code[f][b] :
          \E j \in DOMAIN emit[code[f][b][k]] : e[b][p] = emit[code[f][b][k]][j]
    BY <1>4, <1>5
  <2> QED
    BY <1>1, <1>4, <2>2, <2>3
<1>8. ASSUME NEW x \in InstsOf(e) PROVE IsInst(x) /\ Old(x.id, Len(passes) + 1)
  <2>1. PICK i \in Insts(f) : \E j \in DOMAIN emit[i] : x = emit[i][j]
    BY <1>7
  <2>2. IsInst(x) /\ (x.id = i.id \/ \E k \in Nat : x.id = New(i.id, k))
    BY <2>1 DEF Emits
  <2> QED
    BY <1>2, <2>2, NewIds
<1>9. ASSUME NEW x \in InstsOf(e), NEW y \in InstsOf(e), x.id = y.id PROVE x = y
  <2>1. PICK i \in Insts(f) : \E j \in DOMAIN emit[i] : x = emit[i][j]
    BY <1>7
  <2>2. PICK i2 \in Insts(f) : \E j \in DOMAIN emit[i2] : y = emit[i2][j]
    BY <1>7
  <2>3. /\ x.id = i.id \/ \E k \in Nat : x.id = New(i.id, k)
        /\ y.id = i2.id \/ \E k \in Nat : y.id = New(i2.id, k)
    BY <2>1, <2>2 DEF Emits
  <2>4. Old(i.id, Len(passes)) /\ Old(i2.id, Len(passes))
    BY <1>2
  <2>5. i.id = i2.id
    BY <1>9, <2>3, <2>4, NewIds
  <2>6. i = i2
    BY <1>2, <2>5
  <2> QED
    BY <1>9, <2>1, <2>2, <2>6 DEF Emits
<1>10. Shaped(e)
  BY <1>4, <1>5, <1>6, <1>8, <1>9 DEF Shaped
<1>11. Stamped(e, Len(passes) + 1)
  BY <1>8 DEF Stamped
<1>12. \A b \in DOMAIN e : OperandsAbove(e[b])
  BY <1>4, <1>5
<1> QED
  BY <1>4, <1>5, <1>10, <1>11, <1>12 DEF e
-----------------------------------------------------------------------------
(***************************************************************************)
(* The three passes over functions see to it.                              *)
(***************************************************************************)
LEMMA OperandsFollow ==
  ASSUME NEW f, CodeOf(f), Len(passes) \in Nat, NEW erased \in SUBSET Insts(f),
         NEW i \in Insts(f)
  PROVE  LET a == Operands(i, Ids(erased))
         IN /\ IsList(a) /\ Len(a) = Len(i.args) /\ DOMAIN a = DOMAIN i.args
            /\ \A k \in DOMAIN i.args : IsId(a[k]) => Uses(a[k], i, Ids(erased))
<1> DEFINE a == Operands(i, Ids(erased))
<1>1. IsList(i.args)
  BY DEF CodeOf, Shaped, Insts, IsInst
<1>2. /\ Len(i.args) \in Nat /\ DOMAIN i.args = 1 .. Len(i.args)
      /\ \A k \in DOMAIN i.args : i.args[k] \in ToSet(i.args)
  BY <1>1, ListTyped
<1>3. a = [k \in 1 .. Len(i.args) |-> Replaced(i.args[k], Ids(erased))]
  BY <1>2 DEF Operands
<1>4. \A k \in 1 .. Len(i.args) : a[k] = Replaced(i.args[k], Ids(erased))
  BY <1>3
<1>5. a = [k \in 1 .. Len(i.args) |-> a[k]]
  BY <1>3, <1>4
<1> HIDE DEF a
<1>6. a \in Seq({a[k] : k \in 1 .. Len(i.args)})
  BY <1>2, <1>5, IsSequence
<1>7. IsList(a) /\ Len(a) = Len(i.args) /\ DOMAIN a = DOMAIN i.args
  <2>1. IsList(a)
    BY <1>6, ListOf
  <2>2. DOMAIN a = 1 .. Len(i.args)
    BY <1>5
  <2>3. Len(a) = Len(i.args)
    BY <1>2, <1>6, <2>2
  <2> QED
    BY <1>2, <2>1, <2>2, <2>3
<1>8. ASSUME NEW k \in DOMAIN i.args, IsId(a[k])
      PROVE  Uses(a[k], i, Ids(erased))
  <2>1. a[k] = Replaced(i.args[k], Ids(erased)) /\ i.args[k] \in ToSet(i.args)
    BY <1>2, <1>4
  <2>2. CASE i.args[k] \in Ids(erased)
    <3>1. PICK x \in erased : i.args[k] = x.id
      BY <2>2 DEF Ids
    <3>2. Old(i.args[k], Len(passes))
      BY <3>1 DEF CodeOf, Stamped, Insts
    <3>3. IsId(i.args[k])
      BY <3>2, NewIds
    <3> QED
      BY <2>1, <3>3 DEF Uses
  <2>3. CASE i.args[k] \notin Ids(erased)
    <3>1. a[k] = i.args[k]
      BY <2>1, <2>3 DEF Replaced
    <3> QED
      BY <1>8, <2>1, <3>1 DEF Uses
  <2> QED
    BY <2>2, <2>3
<1> QED
  BY <1>7, <1>8 DEF a

LEMMA InstRecord ==
  ASSUME NEW id, NEW op, NEW ty, NEW args, NEW sym
  PROVE  LET i == Inst(id, op, ty, args, sym)
         IN /\ i.id = id /\ i.op = op /\ i.ty = ty /\ i.args = args /\ i.sym = sym
            /\ IsList(args) /\ (op \in {"add", "sub"} => Len(args) = 2) => IsInst(i)
BY DEF Inst, IsInst

LEMMA Pair ==
  ASSUME NEW x, NEW y
  PROVE  /\ IsList(<<x>>) /\ Len(<<x>>) = 1 /\ ToSet(<<x>>) = {x}
         /\ IsList(<<x, y>>) /\ Len(<<x, y>>) = 2 /\ ToSet(<<x, y>>) = {x, y}
         /\ IsList(<< >>)
<1>1. <<x>> \in Seq({x}) /\ <<x, y>> \in Seq({x, y}) /\ << >> \in Seq({x})
  OBVIOUS
<1>2. DOMAIN <<x>> = {1} /\ DOMAIN <<x, y>> = {1, 2}
  OBVIOUS
<1>3. ToSet(<<x>>) = {x}
  BY <1>2 DEF ToSet
<1>4. ToSet(<<x, y>>) = {x, y}
  BY <1>2 DEF ToSet
<1> QED
  BY <1>1, <1>3, <1>4, ListOf

(* An instruction that is not erased stays, its operands replaced.          *)
LEMMA StayingEmits ==
  ASSUME NEW f, CodeOf(f), Len(passes) \in Nat, NEW erased \in SUBSET Insts(f),
         NEW i \in Insts(f), i \notin erased
  PROVE  LET new == [i EXCEPT !.args = Operands(i, Ids(erased))]
         IN /\ Emits(i, <<new>>, Ids(erased))
            /\ new.id = i.id /\ new.op = i.op /\ new.sym = i.sym
<1> DEFINE a == Operands(i, Ids(erased))
           new == [i EXCEPT !.args = a]
<1>1. IsInst(i)
  BY DEF CodeOf, Shaped, Insts
<1>2. new = Inst(i.id, i.op, i.ty, a, i.sym)
  BY <1>1 DEF IsInst, Inst
<1>3. /\ IsList(a) /\ Len(a) = Len(i.args) /\ DOMAIN a = DOMAIN i.args
      /\ \A k \in DOMAIN i.args : IsId(a[k]) => Uses(a[k], i, Ids(erased))
  BY OperandsFollow
<1>4. i.id \notin Ids(erased)
  BY DEF Ids, CodeOf, Shaped, Insts
<1>5. Replaced(i.id, Ids(erased)) = i.id
  BY <1>4 DEF Replaced
<1> HIDE DEF a, new
<1>6. IsInst(new) /\ new.id = i.id /\ new.op = i.op /\ new.sym = i.sym /\ new.args = a
  BY <1>1, <1>2, <1>3, InstRecord DEF IsInst
<1>7. IsList(<<new>>) /\ DOMAIN <<new>> = {1} /\ <<new>>[1] = new
  <2>1. IsList(<<new>>)
    BY Pair
  <2> QED
    BY <2>1
<1>8. \A v \in ToSet(a) : IsId(v) => Uses(v, i, Ids(erased))
  BY <1>3, ListTyped
<1>9. Emits(i, <<new>>, Ids(erased))
  BY <1>5, <1>6, <1>7, <1>8 DEF Emits, Defines
<1> QED
  BY <1>6, <1>9 DEF new, a

(* The member that an id made for the j-th of n instructions belongs to.     *)
Nr(j, n) == IF j = n THEN 0 ELSE j

NewList(i, erased, n, e) ==
  /\ n \in Nat \ {0} /\ IsList(e) /\ DOMAIN e = 1 .. n
  /\ \A j \in 1 .. n :
       /\ IsInst(e[j]) /\ e[j].id = New(i.id, Nr(j, n))
       /\ \A v \in ToSet(e[j].args) :
            IsId(v) => \/ \E l \in 1 .. j - 1 : v = New(i.id, Nr(l, n))
                       \/ Uses(v, i, erased)

LEMMA NewEmits ==
  ASSUME Len(passes) \in Nat, NEW i, NEW erased, i.id \in erased,
         NEW n, NEW e, NewList(i, erased, n, e)
  PROVE  Emits(i, e, erased)
<1>0. /\ n \in Nat \ {0} /\ IsList(e) /\ DOMAIN e = 1 .. n
      /\ \A j \in 1 .. n :
           /\ IsInst(e[j]) /\ e[j].id = New(i.id, Nr(j, n))
           /\ \A v \in ToSet(e[j].args) :
                IsId(v) => \/ \E l \in 1 .. j - 1 : v = New(i.id, Nr(l, n))
                           \/ Uses(v, i, erased)
  BY DEF NewList
<1>1. Defines(e, Replaced(i.id, erased))
  <2>1. n \in 1 .. n /\ e[n].id = New(i.id, 0)
    BY <1>0 DEF Nr
  <2> QED
    BY <1>0, <2>1 DEF Defines, Replaced
<1>2. ASSUME NEW j \in DOMAIN e
      PROVE  /\ IsInst(e[j])
             /\ e[j].id = i.id \/ \E k \in Nat : e[j].id = New(i.id, k)
             /\ \A l \in DOMAIN e : e[j].id = e[l].id => j = l
             /\ \A v \in ToSet(e[j].args) :
                  IsId(v) => (\E l \in 1 .. j - 1 : e[l].id = v) \/ Uses(v, i, erased)
  <2>1. j \in 1 .. n /\ e[j].id = New(i.id, Nr(j, n)) /\ Nr(j, n) \in Nat /\ IsInst(e[j])
    BY <1>0 DEF Nr
  <2>2. ASSUME NEW l \in DOMAIN e, e[j].id = e[l].id PROVE j = l
    <3>1. l \in 1 .. n /\ New(i.id, Nr(j, n)) = New(i.id, Nr(l, n))
      BY <1>0, <2>1, <2>2
    <3>2. Nr(j, n) = Nr(l, n)
      BY <3>1, NewIds
    <3> QED
      BY <2>1, <3>1, <3>2 DEF Nr
  <2>3. ASSUME NEW v \in ToSet(e[j].args), IsId(v)
        PROVE  (\E l \in 1 .. j - 1 : e[l].id = v) \/ Uses(v, i, erased)
    <3>1. CASE \E l \in 1 .. j - 1 : v = New(i.id, Nr(l, n))
      <4>1. PICK l \in 1 .. j - 1 : v = New(i.id, Nr(l, n))
        BY <3>1
      <4>2. l \in 1 .. n
        BY <1>0, <2>1
      <4>3. e[l].id = v
        BY <1>0, <4>1, <4>2
      <4> QED
        BY <4>3
    <3>2. CASE Uses(v, i, erased)
      BY <3>2
    <3> QED
      BY <1>0, <2>1, <2>3, <3>1, <3>2
  <2> QED
    BY <2>1, <2>2, <2>3
<1> QED
  BY <1>0, <1>1, <1>2 DEF Emits

LEMMA ConstNoId == \A n : ~IsId(Const(n))
BY DEF Const, IsId

LEMMA AddEmits ==
  ASSUME Len(passes) \in Nat, NEW i, NEW erased, i.id \in erased,
         NEW a, NEW b,
         IsId(a) => Uses(a, i, erased), IsId(b) => Uses(b, i, erased)
  PROVE  LET e == EmitMBAAdd(i.id, a, b)
         IN /\ Emits(i, e, erased)
            /\ \A j \in DOMAIN e : e[j].op \in {"xor", "and", "mul", "add"}
<1> DEFINE e == EmitMBAAdd(i.id, a, b)
           v(k) == New(i.id, k)
<1>1. /\ IsList(e) /\ DOMAIN e = 1 .. 8
      /\ e[1] = Inst(v(1), "xor", "i8", <<a, b>>, "")
      /\ e[2] = Inst(v(2), "and", "i8", <<a, b>>, "")
      /\ e[3] = Inst(v(3), "mul", "i8", <<Const(2), v(2)>>, "")
      /\ e[4] = Inst(v(4), "add", "i8", <<v(1), v(3)>>, "")
      /\ e[5] = Inst(v(5), "mul", "i8", <<v(4), Const(39)>>, "")
      /\ e[6] = Inst(v(6), "add", "i8", <<v(5), Const(23)>>, "")
      /\ e[7] = Inst(v(7), "mul", "i8", <<v(6), Const(151)>>, "")
      /\ e[8] = Inst(v(0), "add", "i8", <<v(7), Const(111)>>, "")
  <2> DEFINE i1 == Inst(v(1), "xor", "i8", <<a, b>>, "")
             i2 == Inst(v(2), "and", "i8", <<a, b>>, "")
             i3 == Inst(v(3), "mul", "i8", <<Const(2), v(2)>>, "")
             i4 == Inst(v(4), "add", "i8", <<v(1), v(3)>>, "")
             i5 == Inst(v(5), "mul", "i8", <<v(4), Const(39)>>, "")
             i6 == Inst(v(6), "add", "i8", <<v(5), Const(23)>>, "")
             i7 == Inst(v(7), "mul", "i8", <<v(6), Const(151)>>, "")
             i8 == Inst(v(0), "add", "i8", <<v(7), Const(111)>>, "")
  <2>1. e = <<i1, i2, i3, i4, i5, i6, i7, i8>>
    BY DEF EmitMBAAdd, EmitAdd
  <2> HIDE DEF e, i1, i2, i3, i4, i5, i6, i7, i8
  <2>2. <<i1, i2, i3, i4, i5, i6, i7, i8>> \in Seq({i1, i2, i3, i4, i5, i6, i7, i8})
    OBVIOUS
  <2>3. IsList(e)
    BY <2>1, <2>2, ListOf
  <2>4. /\ DOMAIN e = 1 .. 8 /\ e[1] = i1 /\ e[2] = i2 /\ e[3] = i3 /\ e[4] = i4
        /\ e[5] = i5 /\ e[6] = i6 /\ e[7] = i7 /\ e[8] = i8
    BY <2>1
  <2> QED
    BY <2>3, <2>4 DEF i1, i2, i3, i4, i5, i6, i7, i8
<1> DEFINE Fine(j, op, x, y) ==
             /\ IsInst(e[j]) /\ e[j].id = v(Nr(j, 8)) /\ e[j].op = op
             /\ ToSet(e[j].args) = {x, y}
<1>2. ASSUME NEW j, NEW op, NEW x, NEW y,
             e[j] = Inst(v(Nr(j, 8)), op, "i8", <<x, y>>, "")
      PROVE  Fine(j, op, x, y)
  <2>1. /\ IsList(<<x, y>>) /\ Len(<<x, y>>) = 2
        /\ ToSet(<<x, y>>) = {x, y}
    BY Pair
  <2> DEFINE z == Inst(v(Nr(j, 8)), op, "i8", <<x, y>>, "")
  <2> HIDE DEF e, v
  <2>2. z.id = v(Nr(j, 8)) /\ z.op = op /\ z.args = <<x, y>> /\ IsInst(z)
    BY <2>1 DEF Inst, IsInst
  <2> HIDE DEF z
  <2> QED
    BY <1>2, <2>1, <2>2 DEF z
<1>3. /\ Nr(1, 8) = 1 /\ Nr(2, 8) = 2 /\ Nr(3, 8) = 3 /\ Nr(4, 8) = 4
      /\ Nr(5, 8) = 5 /\ Nr(6, 8) = 6 /\ Nr(7, 8) = 7 /\ Nr(8, 8) = 0
  BY DEF Nr
<1> HIDE DEF e, v, Fine
<1>4. Fine(1, "xor", a, b) /\ Fine(2, "and", a, b)
  BY <1>1, <1>2, <1>3
<1>5. Fine(3, "mul", Const(2), v(2)) /\ Fine(4, "add", v(1), v(3))
  BY <1>1, <1>2, <1>3, ZenonT(40)
<1>6. Fine(5, "mul", v(4), Const(39)) /\ Fine(6, "add", v(5), Const(23))
  BY <1>1, <1>2, <1>3, ZenonT(40)
<1>7. Fine(7, "mul", v(6), Const(151)) /\ Fine(8, "add", v(7), Const(111))
  BY <1>1, <1>2, <1>3, ZenonT(40)
<1>8. ASSUME NEW j \in 1 .. 8
      PROVE  /\ IsInst(e[j]) /\ e[j].id = v(Nr(j, 8))
             /\ e[j].op \in {"xor", "and", "mul", "add"}
             /\ \A x \in ToSet(e[j].args) :
                  IsId(x) => (\E l \in 1 .. j - 1 : x = v(Nr(l, 8))) \/ Uses(x, i, erased)
  <2>1. CASE j \in {1, 2}
    BY <2>1, <1>4 DEF Fine
  <2>2. CASE j = 3
    <3>1. 2 \in 1 .. j - 1
      BY <2>2
    <3> QED
      BY <2>2, <3>1, <1>3, <1>5, ConstNoId DEF Fine
  <2>3. CASE j = 4
    <3>1. 1 \in 1 .. j - 1 /\ 3 \in 1 .. j - 1
      BY <2>3
    <3> QED
      BY <2>3, <3>1, <1>3, <1>5, ConstNoId DEF Fine
  <2>4. CASE j = 5
    <3>1. 4 \in 1 .. j - 1
      BY <2>4
    <3> QED
      BY <2>4, <3>1, <1>3, <1>6, ConstNoId DEF Fine
  <2>5. CASE j = 6
    <3>1. 5 \in 1 .. j - 1
      BY <2>5
    <3> QED
      BY <2>5, <3>1, <1>3, <1>6, ConstNoId DEF Fine
  <2>6. CASE j = 7
    <3>1. 6 \in 1 .. j - 1
      BY <2>6
    <3> QED
      BY <2>6, <3>1, <1>3, <1>7, ConstNoId DEF Fine
  <2>7. CASE j = 8
    <3>1. 7 \in 1 .. j - 1
      BY <2>7
    <3> QED
      BY <2>7, <3>1, <1>3, <1>7, ConstNoId DEF Fine
  <2> QED
    BY <2>1, <2>2, <2>3, <2>4, <2>5, <2>6, <2>7
<1>9. Emits(i, e, erased)
  <2>1. \A j \in 1 .. 8 :
          /\ IsInst(e[j]) /\ e[j].id = New(i.id, Nr(j, 8))
          /\ \A x \in ToSet(e[j].args) :
               IsId(x) => \/ \E l \in 1 .. j - 1 : x = New(i.id, Nr(l, 8))
                          \/ Uses(x, i, erased)
    BY <1>8 DEF v
  <2>2. 8 \in Nat \ {0}
    OBVIOUS
  <2>3. NewList(i, erased, 8, e)
    BY <1>1, <2>1, <2>2, Zenon DEF NewList
  <2> QED
    BY <2>3, NewEmits
<1> QED
  BY <1>1, <1>8, <1>9 DEF e

LEMMA SubEmits ==
  ASSUME Len(passes) \in Nat, NEW i, NEW erased, i.id \in erased,
         NEW ty, NEW a, NEW b,
         IsId(a) => Uses(a, i, erased), IsId(b) => Uses(b, i, erased)
  PROVE  Emits(i, EmitMBASub(i.id, ty, a, b), erased)
<1> DEFINE e == EmitMBASub(i.id, ty, a, b)
           v(k) == New(i.id, k)
           i1 == Inst(v(1), "not", ty, <<b>>, "")
           i2 == Inst(v(2), "add", ty, <<a, v(1)>>, "")
           i3 == Inst(v(0), "add", ty, <<v(2), Const(1)>>, "")
<1>1. e = <<i1, i2, i3>>
  BY DEF EmitMBASub
<1>2. /\ IsList(<<b>>) /\ ToSet(<<b>>) = {b}
      /\ IsList(<<a, v(1)>>) /\ Len(<<a, v(1)>>) = 2 /\ ToSet(<<a, v(1)>>) = {a, v(1)}
      /\ IsList(<<v(2), Const(1)>>) /\ Len(<<v(2), Const(1)>>) = 2
      /\ ToSet(<<v(2), Const(1)>>) = {v(2), Const(1)}
  BY Pair
<1> HIDE DEF e, v
<1>3. /\ IsInst(i1) /\ i1.id = v(1) /\ i1.args = <<b>>
      /\ IsInst(i2) /\ i2.id = v(2) /\ i2.args = <<a, v(1)>>
      /\ IsInst(i3) /\ i3.id = v(0) /\ i3.args = <<v(2), Const(1)>>
  BY <1>2 DEF Inst, IsInst
<1> HIDE DEF i1, i2, i3
<1>4. IsList(e) /\ DOMAIN e = 1 .. 3 /\ e[1] = i1 /\ e[2] = i2 /\ e[3] = i3
  <2>1. <<i1, i2, i3>> \in Seq({i1, i2, i3})
    OBVIOUS
  <2>2. IsList(e)
    BY <1>1, <2>1, ListOf
  <2> QED
    BY <1>1, <2>2
<1>5. Nr(1, 3) = 1 /\ Nr(2, 3) = 2 /\ Nr(3, 3) = 0
  BY DEF Nr
<1>6. ASSUME NEW j \in 1 .. 3
      PROVE  /\ IsInst(e[j]) /\ e[j].id = v(Nr(j, 3))
             /\ \A x \in ToSet(e[j].args) :
                  IsId(x) => (\E l \in 1 .. j - 1 : x = v(Nr(l, 3))) \/ Uses(x, i, erased)
  <2>1. CASE j = 1
    BY <2>1, <1>2, <1>3, <1>4, <1>5
  <2>2. CASE j = 2
    <3>1. 1 \in 1 .. j - 1
      BY <2>2
    <3> QED
      BY <2>2, <3>1, <1>2, <1>3, <1>4, <1>5
  <2>3. CASE j = 3
    <3>1. 2 \in 1 .. j - 1
      BY <2>3
    <3> QED
      BY <2>3, <3>1, <1>2, <1>3, <1>4, <1>5, ConstNoId
  <2> QED
    BY <2>1, <2>2, <2>3
<1>7. Emits(i, e, erased)
  <2>1. \A j \in 1 .. 3 :
          /\ IsInst(e[j]) /\ e[j].id = New(i.id, Nr(j, 3))
          /\ \A x \in ToSet(e[j].args) :
               IsId(x) => \/ \E l \in 1 .. j - 1 : x = New(i.id, Nr(l, 3))
                          \/ Uses(x, i, erased)
    BY <1>6 DEF v
  <2>2. 3 \in Nat \ {0}
    OBVIOUS
  <2>3. NewList(i, erased, 3, e)
    BY <1>4, <2>1, <2>2, Zenon DEF NewList
  <2> QED
    BY <2>3, NewEmits
<1> QED
  BY <1>7 DEF e

LEMMA ConvertEmits ==
  ASSUME Len(passes) \in Nat, NEW i, IsInst(i), Old(i.id, Len(passes))
  PROVE  Emits(i, convertFCmpEq(i), {})
<1> DEFINE e == convertFCmpEq(i)
           v(k) == New(i.id, k)
           i1 == Inst(v(1), "fsub", "double", i.args, "")
           i2 == Inst(v(2), "bitcast", "i64", <<v(1)>>, "")
           i3 == Inst(v(3), "fabs", "i64", <<v(2)>>, "")
           i4 == Inst(v(4), "bitcast", "double", <<v(3)>>, "")
           i5 == Inst(i.id, "fcmp", i.ty, <<v(4), Const(Epsilon)>>, convertPredicate(i.sym))
<1>1. e = <<i1, i2, i3, i4, i5>>
  BY DEF convertFCmpEq
<1>2. /\ IsList(<<v(1)>>) /\ ToSet(<<v(1)>>) = {v(1)}
      /\ IsList(<<v(2)>>) /\ ToSet(<<v(2)>>) = {v(2)}
      /\ IsList(<<v(3)>>) /\ ToSet(<<v(3)>>) = {v(3)}
      /\ IsList(<<v(4), Const(Epsilon)>>) /\ Len(<<v(4), Const(Epsilon)>>) = 2
      /\ ToSet(<<v(4), Const(Epsilon)>>) = {v(4), Const(Epsilon)}
  BY Pair
<1>4. /\ \A j, k : v(j) = v(k) => j = k
      /\ \A k : v(k) # i.id
  BY NewIds
<1> HIDE DEF e, v
<1>5. /\ IsInst(i1) /\ i1.id = v(1) /\ i1.args = i.args
      /\ IsInst(i2) /\ i2.id = v(2) /\ i2.args = <<v(1)>>
      /\ IsInst(i3) /\ i3.id = v(3) /\ i3.args = <<v(2)>>
      /\ IsInst(i4) /\ i4.id = v(4) /\ i4.args = <<v(3)>>
  BY <1>2 DEF Inst, IsInst
<1>6. IsInst(i5) /\ i5.id = i.id /\ i5.args = <<v(4), Const(Epsilon)>>
  BY <1>2 DEF Inst, IsInst
<1> HIDE DEF i1, i2, i3, i4, i5
<1>7. /\ IsList(e) /\ DOMAIN e = 1 .. 5
      /\ e[1] = i1 /\ e[2] = i2 /\ e[3] = i3 /\ e[4] = i4 /\ e[5] = i5
  <2>1. <<i1, i2, i3, i4, i5>> \in Seq({i1, i2, i3, i4, i5})
    OBVIOUS
  <2>2. IsList(e)
    BY <1>1, <2>1, ListOf
  <2> QED
    BY <1>1, <2>2
<1>8. \A w : Replaced(w, {}) = w
  BY DEF Replaced
<1>9. Defines(e, Replaced(i.id, {}))
  BY <1>6, <1>7, <1>8 DEF Defines
<1>10. ASSUME NEW j \in 1 .. 5
       PROVE  /\ IsInst(e[j])
              /\ e[j].id = IF j = 5 THEN i.id ELSE v(j)
              /\ \A x \in ToSet(e[j].args) :
                   IsId(x) => (\E l \in 1 .. j - 1 : e[l].id = x) \/ Uses(x, i, {})
  <2>1. CASE j = 1
    BY <2>1, <1>5, <1>7, <1>8 DEF Uses
  <2>2. CASE j = 2
    <3>1. 1 \in 1 .. j - 1
      BY <2>2
    <3> QED
      BY <2>2, <3>1, <1>2, <1>5, <1>7
  <2>3. CASE j = 3
    <3>1. 2 \in 1 .. j - 1
      BY <2>3
    <3> QED
      BY <2>3, <3>1, <1>2, <1>5, <1>7
  <2>4. CASE j = 4
    <3>1. 3 \in 1 .. j - 1
      BY <2>4
    <3> QED
      BY <2>4, <3>1, <1>2, <1>5, <1>7
  <2>5. CASE j = 5
    <3>1. 4 \in 1 .. j - 1
      BY <2>5
    <3> QED
      BY <2>5, <3>1, <1>2, <1>5, <1>6, <1>7, ConstNoId
  <2> QED
    BY <2>1, <2>2, <2>3, <2>4, <2>5
<1>11. ASSUME NEW j \in 1 .. 5, NEW l \in 1 .. 5, e[j].id = e[l].id PROVE j = l
  BY <1>4, <1>10, <1>11
<1>12. ASSUME NEW j \in 1 .. 5
       PROVE  e[j].id = i.id \/ \E k \in Nat : e[j].id = New(i.id, k)
  BY <1>10 DEF v
<1>13. Emits(i, e, {})
  BY <1>7, <1>9, <1>10, <1>11, <1>12, Zenon DEF Emits
<1> QED
  BY <1>13 DEF e

LEMMA SameEmits ==
  ASSUME NEW i, IsInst(i)
  PROVE  Emits(i, <<i>>, {})
<1>1. IsList(<<i>>) /\ DOMAIN <<i>> = {1} /\ <<i>>[1] = i
  <2>1. IsList(<<i>>)
    BY Pair
  <2> QED
    BY <2>1
<1>2. \A w : Replaced(w, {}) = w
  BY DEF Replaced
<1> QED
  BY <1>1, <1>2 DEF Emits, Defines, Uses

(* Nothing changes where every instruction stays.                           *)
LEMMA ExpandedSame ==
  ASSUME NEW f, CodeOf(f), NEW emit, \A i \in Insts(f) : emit[i] = <<i>>
  PROVE  Expanded(f, emit) = code[f]
<1> DEFINE e == Expanded(f, emit)
<1>1. /\ DOMAIN code[f] = 1 .. Len(code[f]) /\ Len(code[f]) \in Nat
      /\ \A b \in DOMAIN code[f] : \A k \in DOMAIN code[f][b] : code[f][b][k] \in Insts(f)
  BY BlocksTyped DEF CodeOf, Shaped, Insts
<1>2. ASSUME NEW b \in DOMAIN code[f]
      PROVE  FlattenSeq(Lists(code[f][b], emit)) = code[f][b]
  <2> DEFINE s == code[f][b]
             lists == Lists(s, emit)
  <2>1. IsList(s)
    BY DEF CodeOf, Shaped
  <2>2. /\ Len(s) \in Nat /\ DOMAIN s = 1 .. Len(s)
        /\ s = [k \in 1 .. Len(s) |-> s[k]]
        /\ \A k \in 1 .. Len(s) : s[k] \in ToSet(s)
    BY <2>1, ListTyped
  <2>3. ASSUME NEW k \in 1 .. Len(s) PROVE emit[s[k]] = <<s[k]>>
    BY <1>1, <2>2
  <2> HIDE DEF s
  <2>4. lists = [k \in 1 .. Len(s) |-> <<s[k]>>]
    BY <2>2, <2>3 DEF Lists
  <2>5. /\ \A k \in 1 .. Len(s) : /\ lists[k] = <<s[k]>>
                                  /\ lists[k] \in Seq(ToSet(s))
        /\ lists = [k \in 1 .. Len(s) |-> lists[k]]
    BY <2>2, <2>4
  <2> HIDE DEF lists
  <2>6. lists \in Seq(Seq(ToSet(s)))
    BY <2>2, <2>5, IsSequence
  <2>7. Len(lists) = Len(s)
    BY <2>2, <2>5, <2>6
  <2>8. ASSUME NEW k \in 1 .. Len(lists)
        PROVE  Len(lists[k]) = 1 /\ lists[k][1] = s[k]
    <3>1. lists[k] = <<s[k]>>
      BY <2>5, <2>7
    <3> QED
      BY <3>1
  <2>9. FlattenSeq(lists) = [k \in 1 .. Len(lists) |-> lists[k][1]]
    BY <2>6, <2>8, FlattenedSingles
  <2>10. [k \in 1 .. Len(lists) |-> lists[k][1]] = [k \in 1 .. Len(s) |-> s[k]]
    BY <2>7, <2>8
  <2> QED
    BY <2>2, <2>9, <2>10 DEF s, lists
<1>3. e = [b \in DOMAIN code[f] |-> FlattenSeq(Lists(code[f][b], emit))]
  BY DEF Expanded, Lists
<1>4. e = [b \in DOMAIN code[f] |-> code[f][b]]
  BY <1>2, <1>3
<1>5. code[f] = [b \in DOMAIN code[f] |-> code[f][b]]
  <2>1. IsList(code[f])
    BY DEF CodeOf, Shaped
  <2> QED
    BY <2>1, <1>1, ListTyped
<1> QED
  BY <1>4, <1>5
-----------------------------------------------------------------------------
(***************************************************************************)
(* The passes over the module add instructions at the entry of functions   *)
(* and a block to print_wrapper.                                           *)
(***************************************************************************)
Sound(blocks, n) ==
  /\ IsList(blocks)
  /\ \A b \in DOMAIN blocks : IsList(blocks[b]) /\ OperandsAbove(blocks[b])
  /\ \A i \in InstsOf(blocks) : IsInst(i) /\ Old(i.id, n)
  /\ \A i, j \in InstsOf(blocks) : i.id = j.id => i = j

Added(insts, blocks, n) ==
  /\ IsList(insts) /\ OperandsAbove(insts)
  /\ \A i \in ToSet(insts) : IsInst(i) /\ Old(i.id, n)
  /\ \A i, j \in ToSet(insts) : i.id = j.id => i = j
  /\ \A i \in ToSet(insts) : \A j \in InstsOf(blocks) : i.id # j.id

LEMMA CodeSound ==
  ASSUME NEW f, Len(passes) \in Nat
  PROVE  /\ CodeOf(f) <=> Sound(code[f], Len(passes)) /\ code[f] # << >>
         /\ CodeOf(f) => Sound(code[f], Len(passes) + 1)
<1>1. CodeOf(f) <=> Sound(code[f], Len(passes)) /\ code[f] # << >>
  BY DEF CodeOf, Sound, Shaped, Stamped
<1>2. ASSUME CodeOf(f) PROVE Sound(code[f], Len(passes) + 1)
  BY <1>1, <1>2, NewIds DEF Sound
<1> QED
  BY <1>1, <1>2

LEMMA AddedSound ==
  ASSUME NEW blocks, NEW n, Sound(blocks, n), NEW insts, Added(insts, blocks, n),
         NEW e, IsList(e),
         \A b \in DOMAIN e : IsList(e[b]) /\ OperandsAbove(e[b]),
         InstsOf(e) \subseteq InstsOf(blocks) \cup ToSet(insts)
  PROVE  Sound(e, n)
<1>1. ASSUME NEW i \in InstsOf(e)
      PROVE  IsInst(i) /\ Old(i.id, n) /\ i \in InstsOf(blocks) \cup ToSet(insts)
  BY DEF Sound, Added
<1>2. ASSUME NEW i \in InstsOf(e), NEW j \in InstsOf(e), i.id = j.id PROVE i = j
  BY <1>1, <1>2 DEF Sound, Added
<1> QED
  BY <1>1, <1>2 DEF Sound

LEMMA EntrySound ==
  ASSUME NEW blocks, NEW n, Sound(blocks, n), blocks # << >>,
         NEW insts, Added(insts, blocks, n)
  PROVE  LET e == AtEntry(blocks, insts)
         IN Sound(e, n) /\ e # << >> /\ InstsOf(e) \subseteq InstsOf(blocks) \cup ToSet(insts)
<1> DEFINE first == insts \o blocks[1]
           e == AtEntry(blocks, insts)
<1>1. /\ IsList(blocks) /\ IsList(insts) /\ OperandsAbove(insts)
      /\ \A b \in DOMAIN blocks : IsList(blocks[b]) /\ OperandsAbove(blocks[b])
  BY DEF Sound, Added
<1>2. /\ Len(blocks) \in Nat /\ DOMAIN blocks = 1 .. Len(blocks)
      /\ \A b \in DOMAIN blocks : ToSet(blocks[b]) \subseteq InstsOf(blocks)
  BY <1>1, BlocksTyped
<1>3. 1 \in DOMAIN blocks
  <2>1. blocks \in Seq(ToSet(blocks))
    BY <1>1 DEF IsList
  <2>2. Len(blocks) # 0
    BY <2>1
  <2> QED
    BY <1>2, <2>2
<1>4. /\ insts \in Seq(ToSet(insts)) /\ blocks[1] \in Seq(ToSet(blocks[1]))
      /\ Len(insts) \in Nat /\ DOMAIN insts = 1 .. Len(insts)
      /\ Len(blocks[1]) \in Nat /\ DOMAIN blocks[1] = 1 .. Len(blocks[1])
  BY <1>1, <1>3, ListTyped DEF IsList
<1> DEFINE X == ToSet(insts) \cup ToSet(blocks[1])
<1>5. first \in Seq(X)
  <2>1. insts \in Seq(X) /\ blocks[1] \in Seq(X)
    <3>1. ToSet(insts) \subseteq X /\ ToSet(blocks[1]) \subseteq X
      OBVIOUS
    <3> HIDE DEF X
    <3> QED
      BY <1>4, <3>1
  <2> HIDE DEF X
  <2> QED
    BY <2>1
<1>6. IsList(first) /\ ToSet(first) \subseteq X
  BY <1>5, ListOf
<1>7. /\ Len(first) = Len(insts) + Len(blocks[1]) /\ DOMAIN first = 1 .. Len(first)
      /\ \A p \in 1 .. Len(insts) : first[p] = insts[p]
      /\ \A p \in 1 .. Len(blocks[1]) : first[Len(insts) + p] = blocks[1][p]
  BY <1>4
<1> HIDE DEF first
<1>8. OperandsAbove(first)
  <2>1. SUFFICES ASSUME NEW p \in DOMAIN first, NEW v \in ToSet(first[p].args), IsId(v)
                 PROVE  \E q \in 1 .. p - 1 : first[q].id = v
    BY DEF OperandsAbove, IsId
  <2>2. CASE p <= Len(insts)
    <3>1. p \in DOMAIN insts /\ first[p] = insts[p]
      BY <2>2, <1>4, <1>7
    <3>2. PICK q \in 1 .. p - 1 : insts[q].id = v
      BY <2>1, <3>1, <1>1 DEF OperandsAbove, IsId
    <3>3. first[q] = insts[q]
      BY <2>2, <1>4, <1>7
    <3> QED
      BY <3>2, <3>3
  <2>3. CASE p > Len(insts)
    <3> DEFINE k == p - Len(insts)
    <3>1. k \in 1 .. Len(blocks[1]) /\ p = Len(insts) + k
      BY <2>3, <1>4, <1>7
    <3> HIDE DEF k
    <3>2. k \in DOMAIN blocks[1] /\ first[p] = blocks[1][k]
      BY <3>1, <1>4, <1>7
    <3>3. PICK m \in 1 .. k - 1 : blocks[1][m].id = v
      BY <2>1, <3>2, <1>1, <1>3 DEF OperandsAbove, IsId
    <3>4. m \in 1 .. Len(blocks[1])
      BY <3>1, <1>4
    <3>5. first[Len(insts) + m] = blocks[1][m]
      BY <3>4, <1>7
    <3>6. Len(insts) + m \in 1 .. p - 1
      BY <3>1, <1>4
    <3> QED
      BY <3>3, <3>5, <3>6
  <2> QED
    BY <2>2, <2>3, <1>4, <1>7
<1>9. /\ e = [b \in 1 .. Len(blocks) |-> IF b = 1 THEN first ELSE blocks[b]]
      /\ DOMAIN e = 1 .. Len(blocks)
  <2>1. blocks = [b \in 1 .. Len(blocks) |-> blocks[b]]
    BY <1>1, ListTyped
  <2>2. e = [blocks EXCEPT ![1] = first]
    BY DEF AtEntry, first
  <2> HIDE DEF e
  <2>3. e = [b \in 1 .. Len(blocks) |-> IF b = 1 THEN first ELSE blocks[b]]
    BY <1>2, <1>3, <2>1, <2>2
  <2> QED
    BY <2>3
<1> HIDE DEF e
<1>10. \A b \in DOMAIN e : /\ e[b] = IF b = 1 THEN first ELSE blocks[b]
                           /\ IsList(e[b]) /\ OperandsAbove(e[b])
  BY <1>1, <1>2, <1>6, <1>8, <1>9
<1>11. IsList(e) /\ e # << >>
  <2>1. e = [b \in 1 .. Len(blocks) |-> e[b]]
    BY <1>9, <1>10
  <2>2. \A b \in 1 .. Len(blocks) : e[b] \in {e[c] : c \in 1 .. Len(blocks)}
    OBVIOUS
  <2>3. e \in Seq({e[c] : c \in 1 .. Len(blocks)})
    BY <1>2, <2>1, <2>2, IsSequence
  <2>4. 1 \in DOMAIN e
    BY <1>2, <1>3, <1>9
  <2> QED
    BY <2>3, <2>4, ListOf
<1>12. InstsOf(e) \subseteq InstsOf(blocks) \cup ToSet(insts)
  <2>1. SUFFICES ASSUME NEW i \in InstsOf(e)
                 PROVE  i \in InstsOf(blocks) \cup ToSet(insts)
    OBVIOUS
  <2>2. PICK b \in DOMAIN e : i \in ToSet(e[b])
    BY DEF InstsOf
  <2>3. CASE b = 1
    BY <2>2, <2>3, <1>2, <1>3, <1>6, <1>10
  <2>4. CASE b # 1
    BY <2>2, <2>4, <1>2, <1>9, <1>10
  <2> QED
    BY <2>3, <2>4
<1>13. Sound(e, n)
  BY <1>10, <1>11, <1>12, AddedSound
<1> QED
  BY <1>11, <1>12, <1>13 DEF e

LEMMA AppendSound ==
  ASSUME NEW blocks, NEW n, Sound(blocks, n), NEW insts, Added(insts, blocks, n)
  PROVE  LET e == Append(blocks, insts) IN Sound(e, n) /\ e # << >>
<1> DEFINE e == Append(blocks, insts)
           X == ToSet(blocks) \cup {insts}
<1>1. blocks \in Seq(ToSet(blocks))
  BY DEF Sound, IsList
<1>2. blocks \in Seq(X)
  <2>1. ToSet(blocks) \subseteq X
    OBVIOUS
  <2> HIDE DEF X
  <2> QED
    BY <1>1, <2>1
<1>3. insts \in X
  OBVIOUS
<1> HIDE DEF X
<1>4. /\ e \in Seq(X) /\ e # << >> /\ Len(blocks) \in Nat
      /\ DOMAIN blocks = 1 .. Len(blocks) /\ DOMAIN e = 1 .. Len(blocks) + 1
      /\ \A b \in 1 .. Len(blocks) : e[b] = blocks[b]
      /\ e[Len(blocks) + 1] = insts
  BY <1>2, <1>3
<1> HIDE DEF e
<1>5. IsList(e)
  BY <1>4, ListOf
<1>6. ASSUME NEW b \in DOMAIN e
      PROVE  (b \in DOMAIN blocks /\ e[b] = blocks[b]) \/ e[b] = insts
  <2>1. CASE b = Len(blocks) + 1
    BY <2>1, <1>4
  <2>2. CASE b # Len(blocks) + 1
    <3>1. b \in 1 .. Len(blocks)
      BY <2>2, <1>4
    <3> QED
      BY <3>1, <1>4
  <2> QED
    BY <2>1, <2>2
<1>7. \A b \in DOMAIN e : IsList(e[b]) /\ OperandsAbove(e[b])
  BY <1>6 DEF Sound, Added
<1>8. InstsOf(e) \subseteq InstsOf(blocks) \cup ToSet(insts)
  <2>1. SUFFICES ASSUME NEW i \in InstsOf(e)
                 PROVE  i \in InstsOf(blocks) \cup ToSet(insts)
    OBVIOUS
  <2>2. PICK b \in DOMAIN e : i \in ToSet(e[b])
    BY DEF InstsOf
  <2> QED
    BY <2>2, <1>6 DEF InstsOf
<1>9. Sound(e, n)
  BY <1>5, <1>7, <1>8, AddedSound
<1> QED
  BY <1>4, <1>9 DEF e
-----------------------------------------------------------------------------
(***************************************************************************)
(* The code of every function stays sound.                                 *)
(***************************************************************************)
CodeInv == /\ IsList(passes) /\ IsList(names) /\ DOMAIN code = Defs
           /\ \A f \in Defs : CodeOf(f)

LEMMA Length ==
  ASSUME IsList(passes), NEW p, passes' = Append(passes, p)
  PROVE  /\ Len(passes) \in Nat
         /\ IsList(passes') /\ Len(passes') = Len(passes) + 1
<1> DEFINE X == ToSet(passes) \cup {p}
<1>1. passes \in Seq(X) /\ p \in X
  <2>1. passes \in Seq(ToSet(passes)) /\ ToSet(passes) \subseteq X /\ p \in X
    BY DEF IsList
  <2> HIDE DEF X
  <2> QED
    BY <2>1
<1> HIDE DEF X
<1>2. Append(passes, p) \in Seq(X) /\ Len(Append(passes, p)) = Len(passes) + 1
  BY <1>1
<1>3. IsList(Append(passes, p))
  BY <1>2, ListOf
<1> QED
  BY <1>1, <1>2, <1>3

LEMMA NextCode ==
  ASSUME IsList(passes), NEW p, passes' = Append(passes, p),
         IsList(names'), DOMAIN code' = Defs',
         \A f \in Defs' : Sound(code'[f], Len(passes) + 1) /\ code'[f] # << >>
  PROVE  CodeInv'
<1>1. Len(passes) \in Nat /\ IsList(passes') /\ Len(passes') = Len(passes) + 1
  BY Length
<1>2. ASSUME NEW f \in Defs' PROVE CodeOf(f)'
  <2>1. Sound(code'[f], Len(passes')) /\ code'[f] # << >>
    BY <1>1
  <2> QED
    BY <2>1 DEF CodeOf, Sound, Shaped, Stamped
<1> QED
  BY <1>1, <1>2 DEF CodeInv

LEMMA ExpandedSound ==
  ASSUME NEW f, CodeOf(f), Len(passes) \in Nat, NEW emit, NEW erased,
         \A i \in Insts(f) : Emits(i, emit[i], erased)
  PROVE  Sound(Expanded(f, emit), Len(passes) + 1) /\ Expanded(f, emit) # << >>
<1>1. /\ Shaped(Expanded(f, emit))
      /\ Stamped(Expanded(f, emit), Len(passes) + 1)
      /\ \A b \in DOMAIN Expanded(f, emit) : OperandsAbove(Expanded(f, emit)[b])
  BY ExpandedCode
<1> QED
  BY <1>1 DEF Sound, Shaped, Stamped

LEMMA InitCode == Init => CodeInv
<1> SUFFICES ASSUME Init PROVE CodeInv
  OBVIOUS
<1>1. passes = << >> /\ names = Order /\ code = [f \in DOMAIN Source |-> Source[f].blocks]
  BY DEF Init
<1>2. IsList(passes) /\ Len(passes) = 0
  BY <1>1, Pair
<1>3. IsList(names) /\ Defs = DOMAIN Source /\ DOMAIN code = Defs
  BY <1>1, SourceAssumption DEF Defs
<1>4. ASSUME NEW f \in Defs PROVE CodeOf(f)
  <2>1. f \in DOMAIN Source /\ code[f] = Source[f].blocks
    BY <1>1, <1>3
  <2>2. /\ Shaped(code[f])
        /\ \A i \in InstsOf(code[f]) : i.id[1] = "id"
        /\ \A b \in DOMAIN code[f] : OperandsAbove(code[f][b])
    BY <2>1, SourceAssumption
  <2> QED
    BY <2>2 DEF CodeOf, Stamped, Old
<1> QED
  BY <1>2, <1>3, <1>4 DEF CodeInv

(* The printers leave it as it is.                                          *)
LEMMA SameCode ==
  ASSUME CodeInv, NEW p, passes' = Append(passes, p), UNCHANGED <<names, code>>
  PROVE  CodeInv'
<1>1. Len(passes) \in Nat /\ IsList(passes') /\ Len(passes') = Len(passes) + 1
  BY Length DEF CodeInv
<1>2. IsList(names') /\ Defs' = Defs /\ DOMAIN code' = Defs'
  BY DEF CodeInv, Defs
<1>3. \A f \in Defs : Sound(code[f], Len(passes) + 1) /\ code[f] # << >>
  BY <1>1, CodeSound DEF CodeInv
<1> QED
  BY <1>2, <1>3, NextCode DEF CodeInv

(***************************************************************************)
(* MBAAdd: what each instruction of f gives way to.                        *)
(***************************************************************************)
KeepsCalls(i, list) ==
  IF i.op = "call" THEN Len(list) = 1 /\ list[1].op = "call" /\ list[1].sym = i.sym
                   ELSE \A j \in DOMAIN list : list[j].op # "call"

AddEmit(f) ==
  [inst \in Insts(f) |->
     IF inst \in Adds8(f)
     THEN EmitMBAAdd(inst.id, Operands(inst, Ids(Adds8(f)))[1],
                              Operands(inst, Ids(Adds8(f)))[2])
     ELSE <<[inst EXCEPT !.args = Operands(inst, Ids(Adds8(f)))]>>]

LEMMA AddRewrite ==
  ASSUME MBAAdd
  PROVE  code' = [f \in Defs |-> Expanded(f, AddEmit(f))]
<1>1. ASSUME NEW f
      PROVE  Rewrite(f, [inst \in Adds8(f) |->
                  LET args == Operands(inst, Ids(Adds8(f)))
                  IN EmitMBAAdd(inst.id, args[1], args[2])]) = Expanded(f, AddEmit(f))
  <2> DEFINE e == [inst \in Adds8(f) |->
                  LET args == Operands(inst, Ids(Adds8(f)))
                  IN EmitMBAAdd(inst.id, args[1], args[2])]
             r == [inst \in Insts(f) |->
                     IF inst \in DOMAIN e THEN e[inst]
                     ELSE <<[inst EXCEPT !.args = Operands(inst, Ids(DOMAIN e))]>>]
  <2>1. DOMAIN e = Adds8(f)
    OBVIOUS
  <2>2. \A inst \in Adds8(f) : e[inst] = EmitMBAAdd(inst.id, Operands(inst, Ids(Adds8(f)))[1],
                                                   Operands(inst, Ids(Adds8(f)))[2])
    OBVIOUS
  <2>3. Rewrite(f, e) = Expanded(f, r)
    BY DEF Rewrite
  <2> HIDE DEF e
  <2>4. r = AddEmit(f)
    BY <2>1, <2>2 DEF AddEmit
  <2> QED
    BY <2>3, <2>4 DEF e
<1> QED
  BY <1>1 DEF MBAAdd

LEMMA AddEmitted ==
  ASSUME NEW f, CodeOf(f), Len(passes) \in Nat, NEW i \in Insts(f)
  PROVE  /\ Emits(i, AddEmit(f)[i], Ids(Adds8(f)))
         /\ KeepsEqualities(i, AddEmit(f)[i]) /\ KeepsCalls(i, AddEmit(f)[i])
<1> DEFINE erased == Adds8(f)
           e == AddEmit(f)[i]
<1>1. erased \in SUBSET Insts(f) /\ \A x \in erased : x.op = "add"
  BY DEF Adds8
<1>2. CASE i \in erased
  <2> DEFINE a == Operands(i, Ids(erased))
             list == EmitMBAAdd(i.id, a[1], a[2])
  <2>1. e = list
    BY <1>2 DEF AddEmit
  <2>2. i.id \in Ids(erased) /\ i.op = "add"
    BY <1>1, <1>2 DEF Ids
  <2>3. /\ DOMAIN a = DOMAIN i.args
        /\ \A k \in DOMAIN i.args : IsId(a[k]) => Uses(a[k], i, Ids(erased))
    BY <1>1, OperandsFollow
  <2>4. 1 \in DOMAIN i.args /\ 2 \in DOMAIN i.args
    <3>1. IsInst(i)
      BY DEF CodeOf, Shaped, Insts
    <3>2. IsList(i.args) /\ Len(i.args) = 2
      BY <2>2, <3>1 DEF IsInst
    <3> QED
      BY <3>2, ListTyped
  <2> HIDE DEF a, erased, list
  <2>5. Emits(i, list, Ids(erased)) /\ \A j \in DOMAIN list : list[j].op \in {"xor", "and", "mul", "add"}
    BY <2>2, <2>3, <2>4, AddEmits DEF list
  <2>6. KeepsEqualities(i, list) /\ KeepsCalls(i, list)
    BY <2>2, <2>5 DEF KeepsEqualities, KeepsCalls, IsEquality
  <2> QED
    BY <2>1, <2>5, <2>6 DEF erased
<1>3. CASE i \notin erased
  <2> DEFINE new == [i EXCEPT !.args = Operands(i, Ids(erased))]
  <2>1. e = <<new>>
    BY <1>3 DEF AddEmit
  <2>2. Emits(i, <<new>>, Ids(erased)) /\ new.id = i.id /\ new.op = i.op /\ new.sym = i.sym
    BY <1>1, <1>3, StayingEmits
  <2> HIDE DEF new
  <2>3. Len(<<new>>) = 1 /\ DOMAIN <<new>> = {1} /\ <<new>>[1] = new
    OBVIOUS
  <2>4. KeepsEqualities(i, <<new>>) /\ KeepsCalls(i, <<new>>)
    BY <2>2, <2>3 DEF KeepsEqualities, KeepsCalls, IsEquality
  <2> QED
    BY <2>1, <2>2, <2>4
<1> QED
  BY <1>2, <1>3

LEMMA MBAAddCode == ASSUME CodeInv, MBAAdd PROVE CodeInv'
<1>1. IsList(passes) /\ passes' = Append(passes, "mba-add") /\ names' = names
  BY DEF CodeInv, MBAAdd, Run
<1>2. Len(passes) \in Nat
  BY <1>1, Length
<1>3. code' = [f \in Defs |-> Expanded(f, AddEmit(f))]
  BY AddRewrite
<1>4. ASSUME NEW f \in Defs
      PROVE  Sound(code'[f], Len(passes) + 1) /\ code'[f] # << >>
  <2>1. CodeOf(f)
    BY DEF CodeInv
  <2>2. \A i \in Insts(f) : Emits(i, AddEmit(f)[i], Ids(Adds8(f)))
    BY <1>2, <2>1, AddEmitted
  <2>3. code'[f] = Expanded(f, AddEmit(f))
    BY <1>3
  <2> QED
    BY <1>2, <2>1, <2>2, <2>3, ExpandedSound
<1>5. IsList(names') /\ Defs' = Defs /\ DOMAIN code' = Defs'
  BY <1>1, <1>3 DEF CodeInv, Defs
<1> QED
  BY <1>1, <1>4, <1>5, NextCode

(***************************************************************************)
(* MBASub and ConvertFCmpEq, in the same way.                              *)
(***************************************************************************)
SubEmit(f) ==
  [inst \in Insts(f) |->
     IF inst \in Subs(f)
     THEN EmitMBASub(inst.id, inst.ty, Operands(inst, Ids(Subs(f)))[1],
                                       Operands(inst, Ids(Subs(f)))[2])
     ELSE <<[inst EXCEPT !.args = Operands(inst, Ids(Subs(f)))]>>]

LEMMA SubRewrite ==
  ASSUME MBASub
  PROVE  code' = [f \in Defs |-> Expanded(f, SubEmit(f))]
<1>1. ASSUME NEW f
      PROVE  Rewrite(f, [inst \in Subs(f) |->
                  LET args == Operands(inst, Ids(Subs(f)))
                  IN EmitMBASub(inst.id, inst.ty, args[1], args[2])])
               = Expanded(f, SubEmit(f))
  <2> DEFINE e == [inst \in Subs(f) |->
                  LET args == Operands(inst, Ids(Subs(f)))
                  IN EmitMBASub(inst.id, inst.ty, args[1], args[2])]
             r == [inst \in Insts(f) |->
                     IF inst \in DOMAIN e THEN e[inst]
                     ELSE <<[inst EXCEPT !.args = Operands(inst, Ids(DOMAIN e))]>>]
  <2>1. DOMAIN e = Subs(f)
    OBVIOUS
  <2>2. \A inst \in Subs(f) :
          e[inst] = EmitMBASub(inst.id, inst.ty, Operands(inst, Ids(Subs(f)))[1],
                                                 Operands(inst, Ids(Subs(f)))[2])
    OBVIOUS
  <2>3. Rewrite(f, e) = Expanded(f, r)
    BY DEF Rewrite
  <2> HIDE DEF e
  <2>4. r = SubEmit(f)
    BY <2>1, <2>2 DEF SubEmit
  <2> QED
    BY <2>3, <2>4 DEF e
<1> QED
  BY <1>1 DEF MBASub

LEMMA SubEmitted ==
  ASSUME NEW f, CodeOf(f), Len(passes) \in Nat, NEW i \in Insts(f)
  PROVE  Emits(i, SubEmit(f)[i], Ids(Subs(f)))
<1> DEFINE erased == Subs(f)
           e == SubEmit(f)[i]
<1>1. erased \in SUBSET Insts(f) /\ \A x \in erased : x.op = "sub"
  BY DEF Subs
<1>2. CASE i \in erased
  <2> DEFINE a == Operands(i, Ids(erased))
             list == EmitMBASub(i.id, i.ty, a[1], a[2])
  <2>1. e = list
    BY <1>2 DEF SubEmit
  <2>2. i.id \in Ids(erased) /\ i.op = "sub"
    BY <1>1, <1>2 DEF Ids
  <2>3. /\ DOMAIN a = DOMAIN i.args
        /\ \A k \in DOMAIN i.args : IsId(a[k]) => Uses(a[k], i, Ids(erased))
    BY <1>1, OperandsFollow
  <2>4. 1 \in DOMAIN i.args /\ 2 \in DOMAIN i.args
    <3>1. IsInst(i)
      BY DEF CodeOf, Shaped, Insts
    <3>2. IsList(i.args) /\ Len(i.args) = 2
      BY <2>2, <3>1 DEF IsInst
    <3> QED
      BY <3>2, ListTyped
  <2> HIDE DEF a, erased, list
  <2>5. Emits(i, list, Ids(erased))
    BY <2>2, <2>3, <2>4, SubEmits DEF list
  <2> QED
    BY <2>1, <2>5 DEF erased
<1>3. CASE i \notin erased
  <2> DEFINE new == [i EXCEPT !.args = Operands(i, Ids(erased))]
  <2>1. e = <<new>>
    BY <1>3 DEF SubEmit
  <2>2. Emits(i, <<new>>, Ids(erased))
    BY <1>1, <1>3, StayingEmits
  <2> QED
    BY <2>1, <2>2
<1> QED
  BY <1>2, <1>3

LEMMA MBASubCode == ASSUME CodeInv, MBASub PROVE CodeInv'
<1>1. IsList(passes) /\ passes' = Append(passes, "mba-sub") /\ names' = names
  BY DEF CodeInv, MBASub, Run
<1>2. Len(passes) \in Nat
  BY <1>1, Length
<1>3. code' = [f \in Defs |-> Expanded(f, SubEmit(f))]
  BY SubRewrite
<1>4. ASSUME NEW f \in Defs
      PROVE  Sound(code'[f], Len(passes) + 1) /\ code'[f] # << >>
  <2>1. CodeOf(f)
    BY DEF CodeInv
  <2>2. \A i \in Insts(f) : Emits(i, SubEmit(f)[i], Ids(Subs(f)))
    BY <1>2, <2>1, SubEmitted
  <2>3. code'[f] = Expanded(f, SubEmit(f))
    BY <1>3
  <2> QED
    BY <1>2, <2>1, <2>2, <2>3, ExpandedSound
<1>5. IsList(names') /\ Defs' = Defs /\ DOMAIN code' = Defs'
  BY <1>1, <1>3 DEF CodeInv, Defs
<1> QED
  BY <1>1, <1>4, <1>5, NextCode

ConvertEmit(f) ==
  [inst \in Insts(f) |->
     IF inst \in Converted(f) THEN convertFCmpEq(inst) ELSE <<inst>>]

LEMMA ConvertFCmpEqCode == ASSUME CodeInv, ConvertFCmpEq PROVE CodeInv'
<1>1. IsList(passes) /\ passes' = Append(passes, "convert-fcmp-eq") /\ names' = names
  BY DEF CodeInv, ConvertFCmpEq, Run
<1>2. Len(passes) \in Nat
  BY <1>1, Length
<1>3. code' = [f \in Defs |-> Expanded(f, ConvertEmit(f))]
  BY DEF ConvertFCmpEq, ConvertEmit
<1>4. ASSUME NEW f \in Defs
      PROVE  Sound(code'[f], Len(passes) + 1) /\ code'[f] # << >>
  <2>1. CodeOf(f)
    BY DEF CodeInv
  <2>2. ASSUME NEW i \in Insts(f) PROVE Emits(i, ConvertEmit(f)[i], {})
    <3>1. IsInst(i) /\ Old(i.id, Len(passes))
      BY <2>1 DEF CodeOf, Shaped, Stamped, Insts
    <3>2. Emits(i, convertFCmpEq(i), {}) /\ Emits(i, <<i>>, {})
      BY <1>2, <3>1, ConvertEmits, SameEmits
    <3> QED
      BY <3>2 DEF ConvertEmit
  <2>3. code'[f] = Expanded(f, ConvertEmit(f))
    BY <1>3
  <2> QED
    BY <1>2, <2>1, <2>2, <2>3, ExpandedSound
<1>5. IsList(names') /\ Defs' = Defs /\ DOMAIN code' = Defs'
  BY <1>1, <1>3 DEF CodeInv, Defs
<1> QED
  BY <1>1, <1>4, <1>5, NextCode

(***************************************************************************)
(* InjectFuncCall and DynamicCallCounter.                                  *)
(***************************************************************************)

\* Instructions made for a function are none of those that are there.
LEMMA MadeAdded ==
  ASSUME NEW blocks, Len(passes) \in Nat, NEW insts, IsList(insts), OperandsAbove(insts),
         \A i \in ToSet(insts) : IsInst(i) /\ \E of, k : i.id = New(of, k),
         \A i, j \in ToSet(insts) : i.id = j.id => i = j,
         \A i \in ToSet(insts) : \A j \in InstsOf(blocks) : i.id # j.id
  PROVE  Added(insts, blocks, Len(passes) + 1)
<1>1. \A i \in ToSet(insts) : Old(i.id, Len(passes) + 1)
  BY NewIds
<1> QED
  BY <1>1 DEF Added

LEMMA InjectFuncCallCode == ASSUME CodeInv, InjectFuncCall PROVE CodeInv'
<1>1. IsList(passes) /\ passes' = Append(passes, "injectfunccall") /\ names' = names
  BY DEF CodeInv, InjectFuncCall, Run
<1>2. Len(passes) \in Nat
  BY <1>1, Length
<1> DEFINE call(f) == Inst(New(f, 1), "call", "i32",
                           <<<<"name", f>>, Const(arg_size(f))>>, "printf")
<1>3. code' = [f \in Defs |-> AtEntry(code[f], <<call(f)>>)]
  BY DEF InjectFuncCall
<1>4. ASSUME NEW f \in Defs
      PROVE  Sound(code'[f], Len(passes) + 1) /\ code'[f] # << >>
  <2>1. CodeOf(f)
    BY DEF CodeInv
  <2>2. Sound(code[f], Len(passes) + 1) /\ code[f] # << >>
    BY <1>2, <2>1, CodeSound
  <2> DEFINE c == call(f)
             x == <<"name", f>>
             y == Const(arg_size(f))
  <2>3. /\ IsList(<<x, y>>) /\ Len(<<x, y>>) = 2 /\ ToSet(<<x, y>>) = {x, y}
        /\ IsList(<<c>>) /\ ToSet(<<c>>) = {c}
    BY Pair
  <2>4. ~IsId(x) /\ ~IsId(y)
    BY ConstNoId DEF IsId
  <2>5. c = Inst(New(f, 1), "call", "i32", <<x, y>>, "printf")
    OBVIOUS
  <2> HIDE DEF x, y, c
  <2>6. IsInst(c) /\ c.id = New(f, 1) /\ c.args = <<x, y>>
    BY <2>3, <2>5, InstRecord
  <2>7. OperandsAbove(<<c>>)
    <3>1. DOMAIN <<c>> = {1} /\ <<c>>[1] = c
      OBVIOUS
    <3> QED
      BY <3>1, <2>3, <2>4, <2>6 DEF OperandsAbove, IsId
  <2>8. \A j \in InstsOf(code[f]) : c.id # j.id
    BY <1>2, <2>1, <2>6, NewIds DEF CodeOf, Stamped
  <2>9. Added(<<c>>, code[f], Len(passes) + 1)
    BY <1>2, <2>3, <2>6, <2>7, <2>8, MadeAdded
  <2>10. code'[f] = AtEntry(code[f], <<c>>)
    BY <1>3 DEF c, x, y
  <2> QED
    BY <2>2, <2>9, <2>10, EntrySound
<1>5. IsList(names') /\ Defs' = Defs /\ DOMAIN code' = Defs'
  BY <1>1, <1>3 DEF CodeInv, Defs
<1> QED
  BY <1>1, <1>4, <1>5, NextCode

LEMMA IncrementAdded ==
  ASSUME NEW f, CodeOf(f), Len(passes) \in Nat
  PROVE  /\ Added(Increment(f), code[f], Len(passes) + 1)
         /\ \A i \in ToSet(Increment(f)) : \E k \in 1 .. 3 : i.id = New(f, k)
<1> DEFINE i1 == Inst(New(f, 1), "load", "i32", <<>>, Counter(f))
           i2 == Inst(New(f, 2), "add", "i32", <<New(f, 1), Const(1)>>, "")
           i3 == Inst(New(f, 3), "store", "i32", <<New(f, 2)>>, Counter(f))
           e == Increment(f)
<1>1. e = <<i1, i2, i3>>
  BY DEF Increment
<1>2. /\ IsList(<< >>) /\ ToSet(<< >>) = {}
      /\ IsList(<<New(f, 1), Const(1)>>) /\ Len(<<New(f, 1), Const(1)>>) = 2
      /\ ToSet(<<New(f, 1), Const(1)>>) = {New(f, 1), Const(1)}
      /\ IsList(<<New(f, 2)>>) /\ ToSet(<<New(f, 2)>>) = {New(f, 2)}
  <2>1. ToSet(<< >>) = {}
    BY DEF ToSet
  <2> QED
    BY <2>1, Pair
<1>3. /\ IsInst(i1) /\ i1.id = New(f, 1) /\ i1.args = << >>
      /\ IsInst(i2) /\ i2.id = New(f, 2) /\ i2.args = <<New(f, 1), Const(1)>>
      /\ IsInst(i3) /\ i3.id = New(f, 3) /\ i3.args = <<New(f, 2)>>
  BY <1>2 DEF Inst, IsInst
<1> HIDE DEF i1, i2, i3, e
<1>4. /\ IsList(e) /\ DOMAIN e = 1 .. 3 /\ e[1] = i1 /\ e[2] = i2 /\ e[3] = i3
      /\ ToSet(e) = {i1, i2, i3}
  <2>1. <<i1, i2, i3>> \in Seq({i1, i2, i3}) /\ DOMAIN <<i1, i2, i3>> = 1 .. 3
    OBVIOUS
  <2>2. IsList(e) /\ DOMAIN e = 1 .. 3
    BY <1>1, <2>1, ListOf
  <2>3. e[1] = i1 /\ e[2] = i2 /\ e[3] = i3
    BY <1>1
  <2>4. ToSet(e) = {i1, i2, i3}
    <3>1. ToSet(e) = {e[k] : k \in 1 .. 3}
      BY <2>2 DEF ToSet
    <3>2. \A k \in 1 .. 3 : k = 1 \/ k = 2 \/ k = 3
      OBVIOUS
    <3> QED
      BY <2>3, <3>1, <3>2
  <2> QED
    BY <2>2, <2>3, <2>4
<1>5. OperandsAbove(e)
  <2>1. SUFFICES ASSUME NEW p \in 1 .. 3, NEW v \in ToSet(e[p].args), IsId(v)
                 PROVE  \E q \in 1 .. p - 1 : e[q].id = v
    BY <1>4 DEF OperandsAbove, IsId
  <2>2. CASE p = 1
    BY <2>1, <2>2, <1>2, <1>3, <1>4
  <2>3. CASE p = 2
    <3>1. 1 \in 1 .. p - 1
      BY <2>3
    <3> QED
      BY <2>1, <2>3, <3>1, <1>2, <1>3, <1>4, ConstNoId
  <2>4. CASE p = 3
    <3>1. 2 \in 1 .. p - 1
      BY <2>4
    <3> QED
      BY <2>1, <2>4, <3>1, <1>2, <1>3, <1>4
  <2> QED
    BY <2>2, <2>3, <2>4
<1>6. \A i \in ToSet(e) : IsInst(i) /\ \E k \in 1 .. 3 : i.id = New(f, k)
  BY <1>3, <1>4
<1>7. \A i, j \in ToSet(e) : i.id = j.id => i = j
  <2>1. New(f, 1) # New(f, 2) /\ New(f, 1) # New(f, 3) /\ New(f, 2) # New(f, 3)
    BY NewIds
  <2> QED
    BY <2>1, <1>3, <1>4
<1>8. \A i \in ToSet(e) : \A j \in InstsOf(code[f]) : i.id # j.id
  BY <1>6, NewIds DEF CodeOf, Stamped
<1>9. Added(e, code[f], Len(passes) + 1)
  BY <1>4, <1>5, <1>6, <1>7, <1>8, MadeAdded
<1> QED
  BY <1>6, <1>9 DEF e

\* The block that print_wrapper gets.
Show(f) == <<Inst(New(f, 4), "load", "i32", <<>>, Counter(f)),
             Inst(New(f, 5), "call", "i32", <<<<"name", f>>, New(f, 4)>>, "printf")>>
Return == Inst(New(Wrapper, 6), "ret", "void", <<>>, "")
Enter == FlattenSeq([k \in DOMAIN names |-> Show(names[k])]) \o <<Return>>

LEMMA ShowInsts ==
  ASSUME NEW f, Len(passes) \in Nat
  PROVE  /\ IsList(Show(f)) /\ DOMAIN Show(f) = {1, 2}
         /\ IsInst(Show(f)[1]) /\ Show(f)[1].id = New(f, 4)
         /\ ToSet(Show(f)[1].args) = {}
         /\ IsInst(Show(f)[2]) /\ Show(f)[2].id = New(f, 5)
         /\ \A v \in ToSet(Show(f)[2].args) : IsId(v) => v = New(f, 4)
<1> DEFINE x == <<"name", f>>
           i1 == Inst(New(f, 4), "load", "i32", <<>>, Counter(f))
           i2 == Inst(New(f, 5), "call", "i32", <<x, New(f, 4)>>, "printf")
<1>1. Show(f) = <<i1, i2>>
  BY DEF Show
<1>2. ~IsId(x)
  BY DEF IsId
<1> HIDE DEF x
<1>3. /\ IsList(<< >>) /\ ToSet(<< >>) = {}
      /\ IsList(<<x, New(f, 4)>>) /\ Len(<<x, New(f, 4)>>) = 2
      /\ ToSet(<<x, New(f, 4)>>) = {x, New(f, 4)}
  <2>1. ToSet(<< >>) = {}
    BY DEF ToSet
  <2> QED
    BY <2>1, Pair
<1>4. /\ IsInst(i1) /\ i1.id = New(f, 4) /\ i1.args = << >>
      /\ IsInst(i2) /\ i2.id = New(f, 5) /\ i2.args = <<x, New(f, 4)>>
  BY <1>3 DEF Inst, IsInst
<1> HIDE DEF i1, i2
<1>5. IsList(<<i1, i2>>) /\ DOMAIN <<i1, i2>> = {1, 2}
      /\ <<i1, i2>>[1] = i1 /\ <<i1, i2>>[2] = i2
  <2>1. IsList(<<i1, i2>>)
    BY Pair
  <2> QED
    BY <2>1
<1> QED
  BY <1>1, <1>2, <1>3, <1>4, <1>5

LEMMA EnterInsts ==
  ASSUME IsList(names), Len(passes) \in Nat
  PROVE  /\ IsList(Enter) /\ OperandsAbove(Enter)
         /\ \A i \in ToSet(Enter) : \/ \E f \in Defs : i = Show(f)[1] \/ i = Show(f)[2]
                                    \/ i = Return
         /\ IsInst(Return) /\ Return.id = New(Wrapper, 6)
<1> DEFINE emit == [f \in Defs |-> Show(f)]
           t == FlattenSeq(Lists(names, emit))
<1>1. /\ Len(names) \in Nat /\ DOMAIN names = 1 .. Len(names)
      /\ \A k \in DOMAIN names : names[k] \in Defs
  BY ListTyped DEF Defs
<1>2. \A f \in Defs : emit[f] = Show(f) /\ IsList(emit[f])
  BY ShowInsts
<1>3. Enter = t \o <<Return>>
  <2>1. Lists(names, emit) = [k \in DOMAIN names |-> Show(names[k])]
    BY <1>1, <1>2 DEF Lists
  <2> QED
    BY <2>1 DEF Enter
<1> HIDE DEF emit
<1>4. IsList(t) /\ \E start : Laid(names, emit, t, start)
  BY <1>2, ExpandedBlock DEF Defs
<1> HIDE DEF t
<1>5. PICK start : Laid(names, emit, t, start)
  BY <1>4
<1>6. /\ t \in Seq(ToSet(t)) /\ Len(t) \in Nat /\ DOMAIN t = 1 .. Len(t)
  BY <1>4, ListTyped DEF IsList
<1>7. IsInst(Return) /\ Return.id = New(Wrapper, 6) /\ ToSet(Return.args) = {}
  <2>1. IsList(<< >>) /\ ToSet(<< >>) = {}
    <3>1. ToSet(<< >>) = {}
      BY DEF ToSet
    <3> QED
      BY <3>1, Pair
  <2> QED
    BY <2>1 DEF Return, Inst, IsInst
<1> DEFINE r == Return
           e == t \o <<r>>
           X == ToSet(t) \cup {r}
<1> HIDE DEF r
<1>8. e \in Seq(X)
  <2>1. t \in Seq(X) /\ r \in X
    <3>1. ToSet(t) \subseteq X /\ r \in X
      OBVIOUS
    <3> HIDE DEF X
    <3> QED
      BY <1>6, <3>1
  <2> HIDE DEF X
  <2> QED
    BY <2>1
<1>9. /\ IsList(e) /\ DOMAIN e = 1 .. Len(t) + 1
      /\ \A p \in 1 .. Len(t) : e[p] = t[p]
      /\ e[Len(t) + 1] = r
  <2>1. IsList(e)
    BY <1>8, ListOf
  <2> QED
    BY <2>1, <1>6
<1> HIDE DEF e
<1>10. ASSUME NEW p \in 1 .. Len(t)
       PROVE  \E k \in DOMAIN names : \/ p = start[k] + 1 /\ t[p] = Show(names[k])[1]
                                      \/ p = start[k] + 2 /\ t[p] = Show(names[k])[2]
  <2>1. PICK k \in DOMAIN names : \E i \in DOMAIN emit[names[k]] : p = start[k] + i
    BY <1>5, <1>6 DEF Laid
  <2>2. PICK i \in DOMAIN emit[names[k]] : p = start[k] + i
    BY <2>1
  <2>3. t[p] = emit[names[k]][i]
    BY <1>5, <2>2 DEF Laid
  <2>4. emit[names[k]] = Show(names[k]) /\ DOMAIN Show(names[k]) = {1, 2}
    BY <1>1, <1>2, ShowInsts
  <2> QED
    BY <2>2, <2>3, <2>4
<1>11. OperandsAbove(e)
  <2>1. SUFFICES ASSUME NEW p \in DOMAIN e, NEW v \in ToSet(e[p].args), IsId(v)
                 PROVE  \E q \in 1 .. p - 1 : e[q].id = v
    BY DEF OperandsAbove, IsId
  <2>2. CASE p = Len(t) + 1
    BY <2>1, <2>2, <1>7, <1>9 DEF r
  <2>3. CASE p # Len(t) + 1
    <3>1. p \in 1 .. Len(t) /\ e[p] = t[p]
      BY <2>3, <1>6, <1>9
    <3>2. PICK k \in DOMAIN names : \/ p = start[k] + 1 /\ t[p] = Show(names[k])[1]
                                    \/ p = start[k] + 2 /\ t[p] = Show(names[k])[2]
      BY <3>1, <1>10
    <3> DEFINE s == Show(names[k])
    <3>3. /\ DOMAIN s = {1, 2} /\ s[1].id = New(names[k], 4) /\ ToSet(s[1].args) = {}
          /\ \A w \in ToSet(s[2].args) : IsId(w) => w = New(names[k], 4)
      BY ShowInsts
    <3>4. emit[names[k]] = s
      BY <1>1, <1>2
    <3> HIDE DEF s
    <3>5. p = start[k] + 2 /\ t[p] = s[2] /\ v = New(names[k], 4)
      BY <2>1, <3>1, <3>2, <3>3 DEF s
    <3>6. 1 \in DOMAIN emit[names[k]] /\ start[k] \in Nat
      BY <1>5, <3>3, <3>4 DEF Laid
    <3>7. start[k] + 1 \in DOMAIN t /\ t[start[k] + 1] = s[1]
      BY <1>5, <3>4, <3>6 DEF Laid
    <3>8. start[k] + 1 \in 1 .. p - 1 /\ e[start[k] + 1] = s[1]
      BY <3>5, <3>6, <3>7, <1>6, <1>9
    <3> QED
      BY <3>3, <3>5, <3>8
  <2> QED
    BY <2>2, <2>3
<1>12. ASSUME NEW i \in ToSet(e)
       PROVE  (\E f \in Defs : i = Show(f)[1] \/ i = Show(f)[2]) \/ i = r
  <2>1. PICK p \in DOMAIN e : e[p] = i
    BY <1>9, ListTyped
  <2>2. CASE p = Len(t) + 1
    BY <2>1, <2>2, <1>9
  <2>3. CASE p # Len(t) + 1
    <3>1. p \in 1 .. Len(t) /\ e[p] = t[p]
      BY <2>3, <1>6, <1>9
    <3> QED
      BY <2>1, <3>1, <1>1, <1>10
  <2> QED
    BY <2>2, <2>3
<1> QED
  BY <1>3, <1>7, <1>9, <1>11, <1>12 DEF e, r

LEMMA EnterAdded ==
  ASSUME IsList(names), Len(passes) \in Nat, NEW blocks,
         \A i \in InstsOf(blocks) : \/ Old(i.id, Len(passes))
                                    \/ \E k \in 1 .. 3 : i.id = New(Wrapper, k)
  PROVE  Added(Enter, blocks, Len(passes) + 1)
<1>1. /\ IsList(Enter) /\ OperandsAbove(Enter)
      /\ \A i \in ToSet(Enter) : \/ \E f \in Defs : i = Show(f)[1] \/ i = Show(f)[2]
                                 \/ i = Return
      /\ IsInst(Return) /\ Return.id = New(Wrapper, 6)
  BY EnterInsts
<1>2. ASSUME NEW i \in ToSet(Enter)
      PROVE  /\ IsInst(i)
             /\ \/ \E f \in Defs : \/ i.id = New(f, 4) /\ i = Show(f)[1]
                                   \/ i.id = New(f, 5) /\ i = Show(f)[2]
                \/ i.id = New(Wrapper, 6) /\ i = Return
  BY <1>1, ShowInsts
<1>3. ASSUME NEW i \in ToSet(Enter), NEW j \in ToSet(Enter), i.id = j.id PROVE i = j
  BY <1>2, <1>3, NewIds
<1>4. ASSUME NEW i \in ToSet(Enter), NEW j \in InstsOf(blocks) PROVE i.id # j.id
  BY <1>2, NewIds
<1>5. \A i \in ToSet(Enter) : \E of, k : i.id = New(of, k)
  BY <1>2
<1> QED
  BY <1>1, <1>2, <1>3, <1>4, <1>5, MadeAdded

LEMMA NamesGrow ==
  ASSUME IsList(names), names' = IF Wrapper \in Defs THEN names ELSE Append(names, Wrapper)
  PROVE  IsList(names') /\ Defs' = Defs \cup {Wrapper}
<1>1. CASE Wrapper \in Defs
  BY <1>1 DEF Defs
<1>2. CASE Wrapper \notin Defs
  <2> DEFINE w == Wrapper
             e == Append(names, w)
             X == ToSet(names) \cup {w}
  <2>1. names \in Seq(X) /\ w \in X
    <3>1. names \in Seq(ToSet(names)) /\ ToSet(names) \subseteq X /\ w \in X
      BY DEF IsList
    <3> HIDE DEF X
    <3> QED
      BY <3>1
  <2> HIDE DEF w, X
  <2>2. e \in Seq(X) /\ DOMAIN e = 1 .. Len(names) + 1 /\ e[Len(names) + 1] = w
        /\ \A k \in 1 .. Len(names) : e[k] = names[k]
    BY <2>1
  <2> HIDE DEF e
  <2>3. IsList(e) /\ ToSet(e) \subseteq X
    BY <2>2, ListOf
  <2>4. X \subseteq ToSet(e)
    <3>1. /\ \A k \in DOMAIN e : e[k] \in ToSet(e)
          /\ \A x \in ToSet(names) : \E k \in DOMAIN names : names[k] = x
          /\ DOMAIN names = 1 .. Len(names) /\ Len(names) \in Nat
      BY <2>3, ListTyped
    <3>2. w \in ToSet(e)
      BY <2>2, <3>1
    <3>3. ASSUME NEW x \in ToSet(names) PROVE x \in ToSet(e)
      <4>1. PICK k \in 1 .. Len(names) : names[k] = x
        BY <3>1
      <4> QED
        BY <2>2, <3>1, <4>1
    <3> QED
      BY <3>2, <3>3 DEF X
  <2>5. names' = e
    BY <1>2 DEF e, w
  <2> QED
    BY <2>3, <2>4, <2>5 DEF Defs, X, w
<1> QED
  BY <1>1, <1>2

LEMMA DynamicCallCounterCode == ASSUME CodeInv, DynamicCallCounter PROVE CodeInv'
<1>1. IsList(passes) /\ passes' = Append(passes, "dynamic-call-counter")
  BY DEF CodeInv, DynamicCallCounter, Run
<1>2. Len(passes) \in Nat /\ IsList(names)
  BY <1>1, Length DEF CodeInv
<1> DEFINE counted == [f \in Defs |-> AtEntry(code[f], Increment(f))]
<1>3. /\ names' = IF Wrapper \in Defs THEN names ELSE Append(names, Wrapper)
      /\ code' = [f \in ToSet(names') |->
                    IF f # Wrapper THEN counted[f]
                    ELSE Append(IF f \in Defs THEN counted[f] ELSE <<>>, Enter)]
  BY DEF DynamicCallCounter, Enter, Show, Return
<1>4. ASSUME NEW f \in Defs
      PROVE  /\ Sound(counted[f], Len(passes) + 1) /\ counted[f] # << >>
             /\ \A i \in InstsOf(counted[f]) : \/ Old(i.id, Len(passes))
                                               \/ \E k \in 1 .. 3 : i.id = New(f, k)
  <2>1. CodeOf(f)
    BY DEF CodeInv
  <2>2. Sound(code[f], Len(passes) + 1) /\ code[f] # << >>
    BY <1>2, <2>1, CodeSound
  <2>3. /\ Added(Increment(f), code[f], Len(passes) + 1)
        /\ \A i \in ToSet(Increment(f)) : \E k \in 1 .. 3 : i.id = New(f, k)
    BY <1>2, <2>1, IncrementAdded
  <2>4. counted[f] = AtEntry(code[f], Increment(f))
    OBVIOUS
  <2> HIDE DEF counted
  <2>5. /\ Sound(counted[f], Len(passes) + 1) /\ counted[f] # << >>
        /\ InstsOf(counted[f]) \subseteq InstsOf(code[f]) \cup ToSet(Increment(f))
    BY <2>2, <2>3, <2>4, EntrySound
  <2> QED
    BY <2>1, <2>3, <2>5 DEF CodeOf, Stamped
<1> HIDE DEF counted
<1>5. IsList(names') /\ Defs' = Defs \cup {Wrapper}
  BY <1>2, <1>3, NamesGrow
<1>6. ASSUME NEW f \in Defs'
      PROVE  Sound(code'[f], Len(passes) + 1) /\ code'[f] # << >>
  <2>1. f \in ToSet(names')
    BY DEF Defs
  <2>2. CASE f # Wrapper
    <3>1. f \in Defs /\ code'[f] = counted[f]
      BY <2>1, <2>2, <1>3, <1>5
    <3> QED
      BY <3>1, <1>4
  <2>3. CASE f = Wrapper
    <3> DEFINE blocks == IF f \in Defs THEN counted[f] ELSE << >>
    <3>1. code'[f] = Append(blocks, Enter)
      BY <2>1, <2>3, <1>3
    <3>2. /\ Sound(blocks, Len(passes) + 1)
          /\ \A i \in InstsOf(blocks) : \/ Old(i.id, Len(passes))
                                        \/ \E k \in 1 .. 3 : i.id = New(Wrapper, k)
      <4>1. CASE f \in Defs
        BY <4>1, <2>3, <1>4
      <4>2. CASE f \notin Defs
        <5>1. blocks = << >> /\ IsList(<< >>)
          BY <4>2, Pair
        <5> HIDE DEF blocks
        <5>2. DOMAIN blocks = {} /\ InstsOf(blocks) = {}
          BY <5>1 DEF InstsOf
        <5> QED
          BY <5>1, <5>2 DEF Sound
      <4> QED
        BY <4>1, <4>2
    <3> HIDE DEF blocks
    <3>3. Added(Enter, blocks, Len(passes) + 1)
      BY <1>2, <3>2, EnterAdded
    <3> QED
      BY <3>1, <3>2, <3>3, AppendSound
  <2> QED
    BY <2>2, <2>3
<1>7. DOMAIN code' = Defs'
  BY <1>3 DEF Defs
<1> QED
  BY <1>1, <1>5, <1>6, <1>7, NextCode

LEMMA NextInv == ASSUME CodeInv, [Next]_vars PROVE CodeInv'
<1>1. CASE PrintFCmpEq
  BY <1>1, SameCode DEF PrintFCmpEq, Run
<1>2. CASE PrintOpcodes
  BY <1>2, SameCode DEF PrintOpcodes, Run
<1>3. CASE PrintCalls
  BY <1>3, SameCode DEF PrintCalls, Run
<1>4. CASE MBAAdd
  BY <1>4, MBAAddCode
<1>5. CASE MBASub
  BY <1>5, MBASubCode
<1>6. CASE ConvertFCmpEq
  BY <1>6, ConvertFCmpEqCode
<1>7. CASE DynamicCallCounter
  BY <1>7, DynamicCallCounterCode
<1>8. CASE InjectFuncCall
  BY <1>8, InjectFuncCallCode
<1>9. CASE UNCHANGED vars
  BY <1>9 DEF vars, CodeInv, CodeOf, Defs
<1> QED
  BY <1>1, <1>2, <1>3, <1>4, <1>5, <1>6, <1>7, <1>8, <1>9 DEF Next

(***************************************************************************)
(* Whatever passes have run, in any order and on any module, every operand *)
(* of an instruction is of one above it in its block: the uses of what     *)
(* MBAAdd and MBASub have erased are all replaced (MBAAdd.cpp 33-40,       *)
(* MBASub.cpp 28-37).                                                      *)
(***************************************************************************)
THEOREM NoErasedOperandThm == Spec => []NoErasedOperand
<1>1. CodeInv => NoErasedOperand
  BY DEF CodeInv, CodeOf, NoErasedOperand
<1> QED
  BY <1>1, InitCode, NextInv, PTL DEF Spec
-----------------------------------------------------------------------------
(***************************************************************************)
(* The analyses in the cache.                                              *)
(***************************************************************************)
Cached == [opcodes |-> cache.opcodes, fcmps |-> cache.fcmps, calls |-> cache.calls]

FreshFor(f) ==
  /\ cache.fcmps[f] \in {Miss, Hit(FindFCmpEq(f))}
  /\ cache.opcodes[f] \in {Miss, Hit(OpcodeCounter(f))} \/ f \in silent

CacheInv ==
  /\ cache = Cached
  /\ \A f \in Defs : FreshFor(f)
  /\ cache.calls \in {Miss, Hit(StaticCallCounter)}

LEMMA Caches ==
  ASSUME NEW o, NEW c, NEW s
  PROVE  LET r == [opcodes |-> o, fcmps |-> c, calls |-> s]
         IN r.opcodes = o /\ r.fcmps = c /\ r.calls = s
OBVIOUS

LEMMA InitCache == Init => CacheInv
<1> SUFFICES ASSUME Init PROVE CacheInv
  OBVIOUS
<1>1. Defs = DOMAIN Source
  BY SourceAssumption DEF Init, Defs
<1>2. cache = NoCache(Defs)
  BY <1>1 DEF Init
<1> QED
  BY <1>2 DEF CacheInv, Cached, FreshFor, NoCache

(* What an analysis finds depends on the code alone.                        *)
LEMMA SameFound ==
  ASSUME NEW f \in Defs, f \in Defs', code'[f] = code[f]
  PROVE  FindFCmpEq(f)' = FindFCmpEq(f) /\ OpcodeCounter(f)' = OpcodeCounter(f)
BY DEF FindFCmpEq, OpcodeCounter, Insts, Places

LEMMA SameCounted ==
  ASSUME UNCHANGED <<names, code>>
  PROVE  StaticCallCounter' = StaticCallCounter /\ Defs' = Defs
BY DEF StaticCallCounter, Calls, CallsIn, Callee, Places, Defs

\* What a pass over the functions leaves of the cache.
LEMMA InvalidatedFresh ==
  ASSUME NEW c, NEW fs \in SUBSET Defs
  PROVE  LET i == Invalidated(c, fs)
         IN /\ fs = {} => i = c
            /\ fs # {} => /\ i = [opcodes |-> i.opcodes, fcmps |-> i.fcmps, calls |-> Miss]
                          /\ i.calls = Miss
                          /\ \A f \in Defs :
                               /\ i.fcmps[f] = IF f \in fs THEN Miss ELSE c.fcmps[f]
                               /\ i.opcodes[f] = IF f \in fs THEN Miss ELSE c.opcodes[f]
BY DEF Invalidated

LEMMA PrintFCmpEqCache == ASSUME CacheInv, PrintFCmpEq PROVE CacheInv'
<1>1. /\ UNCHANGED <<names, code>> /\ silent' = silent
      /\ cache' = [cache EXCEPT !.fcmps = GetFCmpEq]
  BY DEF PrintFCmpEq
<1>2. cache = Cached
  BY DEF CacheInv
<1>3. cache' = [opcodes |-> cache.opcodes, fcmps |-> GetFCmpEq, calls |-> cache.calls]
  BY <1>1, <1>2 DEF Cached
<1>4. /\ cache'.opcodes = cache.opcodes /\ cache'.fcmps = GetFCmpEq
      /\ cache'.calls = cache.calls
  BY <1>3
<1>5. StaticCallCounter' = StaticCallCounter /\ Defs' = Defs
  BY <1>1, SameCounted
<1>6. ASSUME NEW f \in Defs PROVE FreshFor(f)'
  <2>1. FindFCmpEq(f)' = FindFCmpEq(f) /\ OpcodeCounter(f)' = OpcodeCounter(f)
    BY <1>1, <1>5, SameFound
  <2>2. GetFCmpEq[f] = IF cache.fcmps[f] = Miss THEN Hit(FindFCmpEq(f)) ELSE cache.fcmps[f]
    BY DEF GetFCmpEq, Get
  <2>3. FreshFor(f)
    BY DEF CacheInv
  <2> QED
    BY <1>1, <1>4, <2>1, <2>2, <2>3 DEF FreshFor
<1> QED
  BY <1>3, <1>4, <1>5, <1>6 DEF CacheInv, Cached

LEMMA PrintOpcodesCache == ASSUME CacheInv, PrintOpcodes PROVE CacheInv'
<1>1. /\ UNCHANGED <<names, code>>
      /\ silent' = {f \in silent : cache.opcodes[f] # Miss}
      /\ cache' = [cache EXCEPT !.opcodes = GetOpcodes]
  BY DEF PrintOpcodes
<1>2. cache = Cached
  BY DEF CacheInv
<1>3. cache' = [opcodes |-> GetOpcodes, fcmps |-> cache.fcmps, calls |-> cache.calls]
  BY <1>1, <1>2 DEF Cached
<1>4. /\ cache'.opcodes = GetOpcodes /\ cache'.fcmps = cache.fcmps
      /\ cache'.calls = cache.calls
  BY <1>3
<1>5. StaticCallCounter' = StaticCallCounter /\ Defs' = Defs
  BY <1>1, SameCounted
<1>6. ASSUME NEW f \in Defs PROVE FreshFor(f)'
  <2>1. FindFCmpEq(f)' = FindFCmpEq(f) /\ OpcodeCounter(f)' = OpcodeCounter(f)
    BY <1>1, <1>5, SameFound
  <2>2. GetOpcodes[f] = IF cache.opcodes[f] = Miss THEN Hit(OpcodeCounter(f))
                        ELSE cache.opcodes[f]
    BY DEF GetOpcodes, Get
  <2>3. FreshFor(f)
    BY DEF CacheInv
  <2>4. f \in silent /\ cache.opcodes[f] # Miss => f \in silent'
    BY <1>1
  <2> QED
    BY <1>4, <2>1, <2>2, <2>3, <2>4 DEF FreshFor
<1> QED
  BY <1>3, <1>4, <1>5, <1>6 DEF CacheInv, Cached

LEMMA PrintCallsCache == ASSUME CacheInv, PrintCalls PROVE CacheInv'
<1> DEFINE found == IF cache.calls = Miss THEN Hit(StaticCallCounter) ELSE cache.calls
<1>1. /\ UNCHANGED <<names, code>> /\ silent' = silent
      /\ cache' = [cache EXCEPT !.calls = found]
  BY DEF PrintCalls
<1>2. cache = Cached
  BY DEF CacheInv
<1> HIDE DEF found
<1>3. cache' = [opcodes |-> cache.opcodes, fcmps |-> cache.fcmps, calls |-> found]
  BY <1>1, <1>2 DEF Cached
<1>4. /\ cache'.opcodes = cache.opcodes /\ cache'.fcmps = cache.fcmps
      /\ cache'.calls = found
  BY <1>3
<1>5. StaticCallCounter' = StaticCallCounter /\ Defs' = Defs
  BY <1>1, SameCounted
<1>6. ASSUME NEW f \in Defs PROVE FreshFor(f)'
  <2>1. FindFCmpEq(f)' = FindFCmpEq(f) /\ OpcodeCounter(f)' = OpcodeCounter(f)
    BY <1>1, <1>5, SameFound
  <2>2. FreshFor(f)
    BY DEF CacheInv
  <2> QED
    BY <1>1, <1>4, <2>1, <2>2 DEF FreshFor
<1>7. found \in {Miss, Hit(StaticCallCounter)}
  BY DEF found, CacheInv
<1> QED
  BY <1>3, <1>4, <1>5, <1>6, <1>7 DEF CacheInv, Cached

(***************************************************************************)
(* Calls are counted alike after a pass that gives each instruction a list *)
(* with the same calls: a call of the one code is at another place of the  *)
(* other, and none is lost or made.                                        *)
(***************************************************************************)
PlacesOn(blocks) == UNION {{b} \X DOMAIN blocks[b] : b \in DOMAIN blocks}
CallPlaces(blocks) == {p \in PlacesOn(blocks) : blocks[p[1]][p[2]].op = "call"}
CallsOn(defs, c) == UNION {{f} \X CallPlaces(c[f]) : f \in defs}
CalleeOn(c, x) == c[x[1]][x[2][1]][x[2][2]].sym
Counts(defs, c) ==
  [g \in {CalleeOn(c, x) : x \in CallsOn(defs, c)} |->
     Cardinality({x \in CallsOn(defs, c) : CalleeOn(c, x) = g})]

LEMMA CounterCounts ==
  StaticCallCounter = Counts(Defs, code) /\ StaticCallCounter' = Counts(Defs', code')
BY DEF StaticCallCounter, Calls, CallsIn, Callee, Places,
       Counts, CallsOn, CallPlaces, PlacesOn, CalleeOn

LEMMA ImageFinite ==
  ASSUME NEW S, IsFiniteSet(S), NEW g
  PROVE  IsFiniteSet({g[x] : x \in S})
<1> DEFINE T == {g[x] : x \in S}
           h == [x \in S |-> g[x]]
<1>1. h \in Surjection(S, T)
  BY DEF Surjection
<1> QED
  BY <1>1, FS_Surjection

LEMMA ListFinite ==
  ASSUME NEW s, IsList(s)
  PROVE  IsFiniteSet(DOMAIN s) /\ IsFiniteSet(ToSet(s))
<1>1. Len(s) \in Nat /\ DOMAIN s = 1 .. Len(s)
  BY ListTyped
<1>2. IsFiniteSet(1 .. Len(s))
  BY <1>1, FS_Interval
<1>3. IsFiniteSet(DOMAIN s)
  BY <1>1, <1>2
<1>4. ToSet(s) = {s[k] : k \in DOMAIN s}
  BY DEF ToSet
<1> QED
  BY <1>3, <1>4, ImageFinite

LEMMA InCallsOn ==
  ASSUME NEW defs, NEW c
  PROVE  /\ \A f \in defs : \A b \in DOMAIN c[f] : \A k \in DOMAIN c[f][b] :
              c[f][b][k].op = "call" => <<f, <<b, k>>>> \in CallsOn(defs, c)
         /\ \A x \in CallsOn(defs, c) :
              /\ x = <<x[1], <<x[2][1], x[2][2]>>>>
              /\ x[1] \in defs /\ x[2][1] \in DOMAIN c[x[1]]
              /\ x[2][2] \in DOMAIN c[x[1]][x[2][1]]
              /\ c[x[1]][x[2][1]][x[2][2]].op = "call"
<1>1. ASSUME NEW f \in defs, NEW b \in DOMAIN c[f], NEW k \in DOMAIN c[f][b],
             c[f][b][k].op = "call"
      PROVE  <<f, <<b, k>>>> \in CallsOn(defs, c)
  <2> DEFINE p == <<b, k>>
  <2>1. p \in {b} \X DOMAIN c[f][b]
    OBVIOUS
  <2>2. p \in PlacesOn(c[f])
    BY <2>1 DEF PlacesOn
  <2>3. p[1] = b /\ p[2] = k
    OBVIOUS
  <2> HIDE DEF p
  <2>4. p \in CallPlaces(c[f])
    BY <1>1, <2>2, <2>3 DEF CallPlaces
  <2>5. <<f, p>> \in {f} \X CallPlaces(c[f])
    BY <2>4
  <2>6. <<f, p>> \in CallsOn(defs, c)
    BY <2>5 DEF CallsOn
  <2> QED
    BY <2>6 DEF p
<1>2. ASSUME NEW x \in CallsOn(defs, c)
      PROVE  /\ x = <<x[1], <<x[2][1], x[2][2]>>>>
             /\ x[1] \in defs /\ x[2][1] \in DOMAIN c[x[1]]
             /\ x[2][2] \in DOMAIN c[x[1]][x[2][1]]
             /\ c[x[1]][x[2][1]][x[2][2]].op = "call"
  <2>1. PICK f \in defs : x \in {f} \X CallPlaces(c[f])
    BY DEF CallsOn
  <2>2. x = <<x[1], x[2]>> /\ x[1] = f /\ x[2] \in CallPlaces(c[f])
    BY <2>1
  <2> DEFINE p == x[2]
  <2> HIDE DEF p
  <2>3. p \in PlacesOn(c[f]) /\ c[f][p[1]][p[2]].op = "call"
    BY <2>2 DEF CallPlaces, p
  <2>4. PICK b \in DOMAIN c[f] : p \in {b} \X DOMAIN c[f][b]
    BY <2>3 DEF PlacesOn
  <2>5. p = <<p[1], p[2]>> /\ p[1] = b /\ p[2] \in DOMAIN c[f][b]
    BY <2>4
  <2> QED
    BY <2>2, <2>3, <2>5 DEF p
<1> QED
  BY <1>1, <1>2

LEMMA CallsFinite ==
  ASSUME NEW defs, IsFiniteSet(defs), NEW c,
         \A f \in defs : IsList(c[f]) /\ \A b \in DOMAIN c[f] : IsList(c[f][b])
  PROVE  IsFiniteSet(CallsOn(defs, c))
<1>1. ASSUME NEW f \in defs PROVE IsFiniteSet({f} \X CallPlaces(c[f]))
  <2> DEFINE g == [b \in DOMAIN c[f] |-> {b} \X DOMAIN c[f][b]]
             S == {g[b] : b \in DOMAIN c[f]}
  <2>1. IsFiniteSet(DOMAIN c[f])
    BY ListFinite
  <2>2. IsFiniteSet(S)
    <3> HIDE DEF g
    <3> QED
      BY <2>1, ImageFinite
  <2>3. ASSUME NEW T \in S PROVE IsFiniteSet(T)
    <3>1. PICK b \in DOMAIN c[f] : T = {b} \X DOMAIN c[f][b]
      OBVIOUS
    <3>2. IsFiniteSet({b})
      BY FS_Singleton
    <3>3. IsFiniteSet(DOMAIN c[f][b])
      BY ListFinite
    <3> QED
      BY <3>1, <3>2, <3>3, FS_Product
  <2>4. PlacesOn(c[f]) = UNION S
    BY DEF PlacesOn
  <2> HIDE DEF S
  <2>5. IsFiniteSet(PlacesOn(c[f]))
    BY <2>2, <2>3, <2>4, FS_UNION
  <2>6. CallPlaces(c[f]) \subseteq PlacesOn(c[f])
    BY DEF CallPlaces
  <2>7. IsFiniteSet(CallPlaces(c[f]))
    BY <2>5, <2>6, FS_Subset
  <2>8. IsFiniteSet({f})
    BY FS_Singleton
  <2> QED
    BY <2>7, <2>8, FS_Product
<1> DEFINE g == [f \in defs |-> {f} \X CallPlaces(c[f])]
           S == {g[f] : f \in defs}
<1>2. IsFiniteSet(S)
  <2> HIDE DEF g
  <2> QED
    BY ImageFinite
<1>3. ASSUME NEW T \in S PROVE IsFiniteSet(T)
  BY <1>1
<1>4. CallsOn(defs, c) = UNION S
  BY DEF CallsOn
<1> HIDE DEF S
<1> QED
  BY <1>2, <1>3, <1>4, FS_UNION

LEMMA CountsAlike ==
  ASSUME NEW defs, NEW a, NEW b, IsFiniteSet(CallsOn(defs, a)),
         NEW h \in Bijection(CallsOn(defs, a), CallsOn(defs, b)),
         \A x \in CallsOn(defs, a) : CalleeOn(b, h[x]) = CalleeOn(a, x)
  PROVE  Counts(defs, a) = Counts(defs, b)
<1> DEFINE A == CallsOn(defs, a)
           B == CallsOn(defs, b)
           Of(c, C, g) == {x \in C : CalleeOn(c, x) = g}
<1>1. /\ h \in [A -> B]
      /\ \A x, y \in A : h[x] = h[y] => x = y
      /\ \A y \in B : \E x \in A : h[x] = y
  BY DEF Bijection, Injection, Surjection, IsInjective
<1>2. IsFiniteSet(A)
  OBVIOUS
<1>3. \A x \in A : CalleeOn(b, h[x]) = CalleeOn(a, x)
  OBVIOUS
<1> HIDE DEF A, B
<1>4. {CalleeOn(a, x) : x \in A} = {CalleeOn(b, y) : y \in B}
  <2>1. ASSUME NEW x \in A PROVE \E y \in B : CalleeOn(b, y) = CalleeOn(a, x)
    BY <1>1, <1>3
  <2>2. ASSUME NEW y \in B PROVE \E x \in A : CalleeOn(a, x) = CalleeOn(b, y)
    BY <1>1, <1>3
  <2> QED
    BY <2>1, <2>2
<1>5. ASSUME NEW g PROVE Cardinality(Of(a, A, g)) = Cardinality(Of(b, B, g))
  <2> DEFINE S == Of(a, A, g)
             T == Of(b, B, g)
             r == [x \in S |-> h[x]]
  <2>1. S \in SUBSET A
    OBVIOUS
  <2>2. IsFiniteSet(S)
    BY <1>2, <2>1, FS_Subset
  <2>3. ASSUME NEW x \in S PROVE h[x] \in T
    BY <1>1, <1>3
  <2>4. r \in [S -> T]
    BY <2>3
  <2>5. ASSUME NEW x \in S, NEW y \in S, r[x] = r[y] PROVE x = y
    BY <2>5, <1>1, <2>1
  <2>6. ASSUME NEW y \in T PROVE \E x \in S : r[x] = y
    BY <1>1, <1>3
  <2> HIDE DEF S, T, r
  <2>7. r \in Bijection(S, T)
    BY <2>4, <2>5, <2>6 DEF Bijection, Injection, Surjection, IsInjective
  <2>8. ExistsBijection(S, T)
    BY <2>7 DEF ExistsBijection
  <2> QED
    BY <2>2, <2>8, FS_Bijection DEF S, T
<1>6. [g \in {CalleeOn(a, x) : x \in A} |-> Cardinality(Of(a, A, g))]
        = [g \in {CalleeOn(b, y) : y \in B} |-> Cardinality(Of(b, B, g))]
  <2> HIDE DEF Of
  <2> QED
    BY <1>4, <1>5
<1> QED
  BY <1>6 DEF Counts, A, B

Kept(from, to, emit) ==
  /\ \A b \in DOMAIN from : IsList(from[b])
  /\ DOMAIN to = DOMAIN from
  /\ \A b \in DOMAIN from : \E start : Laid(from[b], emit, to[b], start)
  /\ \A b \in DOMAIN from : \A i \in ToSet(from[b]) :
       IsList(emit[i]) /\ KeepsCalls(i, emit[i])

StartOf(from, to, emit) == CHOOSE start : Laid(from, emit, to, start)

LEMMA CallsStay ==
  ASSUME NEW defs, IsFiniteSet(defs), NEW a, NEW c, NEW emit,
         \A f \in defs : IsList(a[f]) /\ Kept(a[f], c[f], emit[f])
  PROVE  Counts(defs, a) = Counts(defs, c)
<1> DEFINE A == CallsOn(defs, a)
           C == CallsOn(defs, c)
           st(f, b) == StartOf(a[f][b], c[f][b], emit[f])
           to(x) == st(x[1], x[2][1])[x[2][2]] + 1
           h == [x \in A |-> <<x[1], <<x[2][1], to(x)>>>>]
<1>1. IsFiniteSet(A)
  BY CallsFinite DEF Kept
<1>2. ASSUME NEW f \in defs, NEW b \in DOMAIN a[f]
      PROVE  /\ Laid(a[f][b], emit[f], c[f][b], st(f, b))
             /\ b \in DOMAIN c[f] /\ DOMAIN c[f] = DOMAIN a[f]
             /\ IsList(a[f][b])
             /\ \A k \in DOMAIN a[f][b] : a[f][b][k] \in ToSet(a[f][b])
             /\ \A i \in ToSet(a[f][b]) :
                  /\ IsList(emit[f][i]) /\ KeepsCalls(i, emit[f][i])
                  /\ DOMAIN emit[f][i] = 1 .. Len(emit[f][i])
             /\ DOMAIN a[f][b] = 1 .. Len(a[f][b]) /\ Len(a[f][b]) \in Nat
  <2>1. Kept(a[f], c[f], emit[f])
    OBVIOUS
  <2>2. \E start : Laid(a[f][b], emit[f], c[f][b], start)
    BY <2>1 DEF Kept
  <2>3. Laid(a[f][b], emit[f], c[f][b], st(f, b))
    BY <2>2 DEF StartOf
  <2>4. IsList(a[f][b]) /\ b \in DOMAIN c[f] /\ DOMAIN c[f] = DOMAIN a[f]
    BY <2>1 DEF Kept
  <2>5. ASSUME NEW i \in ToSet(a[f][b])
        PROVE  /\ IsList(emit[f][i]) /\ KeepsCalls(i, emit[f][i])
               /\ DOMAIN emit[f][i] = 1 .. Len(emit[f][i])
    <3>1. IsList(emit[f][i]) /\ KeepsCalls(i, emit[f][i])
      BY <2>1 DEF Kept
    <3> QED
      BY <3>1, ListTyped
  <2> QED
    BY <2>3, <2>4, <2>5, ListTyped
<1> HIDE DEF st
<1>3. ASSUME NEW x \in A
      PROVE  LET f == x[1]  b == x[2][1]  k == x[2][2]  s == st(x[1], x[2][1])
             IN /\ f \in defs /\ b \in DOMAIN a[f] /\ k \in DOMAIN a[f][b]
                /\ x = <<f, <<b, k>>>>
                /\ b \in DOMAIN c[f] /\ s[k] \in Nat /\ s[k] + 1 \in DOMAIN c[f][b]
                /\ c[f][b][s[k] + 1].op = "call"
                /\ c[f][b][s[k] + 1].sym = a[f][b][k].sym
                /\ Len(emit[f][a[f][b][k]]) = 1
  <2> DEFINE f == x[1]
             b == x[2][1]
             k == x[2][2]
             s == st(f, b)
  <2>1. /\ f \in defs /\ b \in DOMAIN a[f] /\ k \in DOMAIN a[f][b]
        /\ x = <<f, <<b, k>>>> /\ a[f][b][k].op = "call"
    BY InCallsOn
  <2> HIDE DEF f, b, k, s
  <2>2. /\ Laid(a[f][b], emit[f], c[f][b], s) /\ b \in DOMAIN c[f]
        /\ a[f][b][k] \in ToSet(a[f][b])
    BY <1>2, <2>1 DEF s
  <2> DEFINE i == a[f][b][k]
  <2>3. KeepsCalls(i, emit[f][i]) /\ DOMAIN emit[f][i] = 1 .. Len(emit[f][i])
    BY <1>2, <2>1, <2>2
  <2>4. /\ Len(emit[f][i]) = 1 /\ emit[f][i][1].op = "call" /\ emit[f][i][1].sym = i.sym
    BY <2>1, <2>3 DEF KeepsCalls
  <2>5. 1 \in DOMAIN emit[f][i]
    BY <2>3, <2>4
  <2>6. s[k] \in Nat /\ s[k] + 1 \in DOMAIN c[f][b] /\ c[f][b][s[k] + 1] = emit[f][i][1]
    BY <2>1, <2>2, <2>5 DEF Laid
  <2> QED
    BY <2>1, <2>2, <2>4, <2>6 DEF f, b, k, s
<1>4. ASSUME NEW x \in A
      PROVE  /\ h[x] = <<x[1], <<x[2][1], to(x)>>>> /\ h[x] \in C
             /\ CalleeOn(c, h[x]) = CalleeOn(a, x)
  <2>1. h[x] = <<x[1], <<x[2][1], to(x)>>>>
    OBVIOUS
  <2> HIDE DEF h
  <2>2. /\ x[1] \in defs /\ x[2][1] \in DOMAIN c[x[1]] /\ to(x) \in DOMAIN c[x[1]][x[2][1]]
        /\ c[x[1]][x[2][1]][to(x)].op = "call"
        /\ c[x[1]][x[2][1]][to(x)].sym = a[x[1]][x[2][1]][x[2][2]].sym
    BY <1>3
  <2> HIDE DEF to, A, C
  <2>3. h[x] \in C
    <3> DEFINE f == x[1]
               b == x[2][1]
               k == to(x)
    <3>1. f \in defs /\ b \in DOMAIN c[f] /\ k \in DOMAIN c[f][b] /\ c[f][b][k].op = "call"
      BY <2>2
    <3> HIDE DEF f, b, k
    <3>2. <<f, <<b, k>>>> \in C
      BY <3>1, InCallsOn DEF C
    <3> QED
      BY <2>1, <3>2 DEF f, b, k
  <2>4. /\ h[x][1] = x[1] /\ h[x][2][1] = x[2][1] /\ h[x][2][2] = to(x)
    BY <2>1
  <2> QED
    BY <2>1, <2>2, <2>3, <2>4 DEF CalleeOn
<1>5. ASSUME NEW x \in A, NEW y \in A, h[x] = h[y] PROVE x = y
  <2>1. x[1] = y[1] /\ x[2][1] = y[2][1] /\ to(x) = to(y)
    <3> HIDE DEF h, to
    <3> QED
      BY <1>4, <1>5
  <2> DEFINE f == x[1]
             b == x[2][1]
             s == st(f, b)
             k == x[2][2]
             l == y[2][2]
  <2>2. /\ f \in defs /\ b \in DOMAIN a[f] /\ k \in DOMAIN a[f][b]
        /\ x = <<f, <<b, k>>>> /\ Len(emit[f][a[f][b][k]]) = 1
        /\ s[k] \in Nat
    BY <1>3
  <2>3. /\ l \in DOMAIN a[f][b] /\ y = <<f, <<b, l>>>> /\ Len(emit[f][a[f][b][l]]) = 1
        /\ s[l] \in Nat
    BY <1>3, <2>1
  <2>4. s[k] + 1 = s[l] + 1
    BY <2>1
  <2> HIDE DEF f, b, k, l, s
  <2>5. Laid(a[f][b], emit[f], c[f][b], s) /\ DOMAIN a[f][b] = 1 .. Len(a[f][b])
    BY <1>2, <2>2 DEF s
  <2>6. ~(k < l)
    <3>1. k < l => s[k] + 1 <= s[l]
      BY <2>2, <2>3, <2>5 DEF Laid
    <3> QED
      BY <2>2, <2>3, <2>4, <3>1
  <2>7. ~(l < k)
    <3>1. l < k => s[l] + 1 <= s[k]
      BY <2>2, <2>3, <2>5 DEF Laid
    <3> QED
      BY <2>2, <2>3, <2>4, <3>1
  <2>8. k = l
    BY <2>2, <2>3, <2>5, <2>6, <2>7
  <2> QED
    BY <2>2, <2>3, <2>8
<1>6. ASSUME NEW y \in C PROVE \E x \in A : h[x] = y
  <2> DEFINE f == y[1]
             b == y[2][1]
             p == y[2][2]
             s == st(f, b)
  <2>1. /\ f \in defs /\ b \in DOMAIN c[f] /\ p \in DOMAIN c[f][b]
        /\ y = <<f, <<b, p>>>> /\ c[f][b][p].op = "call"
    BY InCallsOn
  <2> HIDE DEF f, b, p
  <2>2. b \in DOMAIN a[f]
    BY <2>1 DEF Kept
  <2>3. /\ Laid(a[f][b], emit[f], c[f][b], s)
        /\ \A k \in DOMAIN a[f][b] : a[f][b][k] \in ToSet(a[f][b])
        /\ \A i \in ToSet(a[f][b]) :
             KeepsCalls(i, emit[f][i]) /\ DOMAIN emit[f][i] = 1 .. Len(emit[f][i])
    BY <1>2, <2>1, <2>2
  <2> HIDE DEF s
  <2>4. PICK k \in DOMAIN a[f][b] : \E j \in DOMAIN emit[f][a[f][b][k]] : p = s[k] + j
    BY <2>1, <2>3 DEF Laid
  <2>5. PICK j \in DOMAIN emit[f][a[f][b][k]] : p = s[k] + j
    BY <2>4
  <2> DEFINE i == a[f][b][k]
  <2>6. c[f][b][p] = emit[f][i][j]
    BY <2>3, <2>5 DEF Laid
  <2>7. KeepsCalls(i, emit[f][i]) /\ DOMAIN emit[f][i] = 1 .. Len(emit[f][i])
    BY <2>3
  <2>8. i.op = "call" /\ Len(emit[f][i]) = 1
    BY <2>1, <2>5, <2>6, <2>7 DEF KeepsCalls
  <2>9. j = 1
    BY <2>5, <2>7, <2>8
  <2>10. <<f, <<b, k>>>> \in A
    BY <2>1, <2>2, <2>8, InCallsOn
  <2> DEFINE x == <<f, <<b, k>>>>
  <2>11. x \in A /\ x[1] = f /\ x[2][1] = b /\ x[2][2] = k
    BY <2>10
  <2> HIDE DEF x
  <2>12. to(x) = p
    BY <2>5, <2>9, <2>11 DEF s
  <2>13. h[x] = <<f, <<b, p>>>>
    <3> HIDE DEF h, to, A
    <3> QED
      BY <1>4, <2>11, <2>12
  <2> QED
    BY <2>1, <2>11, <2>13
<1>7. h \in Bijection(A, C)
  <2>1. h = [x \in A |-> h[x]]
    OBVIOUS
  <2> HIDE DEF h, A, C
  <2>2. h \in [A -> C]
    BY <1>4, <2>1
  <2> QED
    BY <1>5, <1>6, <2>2 DEF Bijection, Injection, Surjection, IsInjective
<1>8. \A x \in A : CalleeOn(c, h[x]) = CalleeOn(a, x)
  BY <1>4
<1> HIDE DEF h
<1> QED
  BY <1>1, <1>7, <1>8, CountsAlike

\* The calls are where they were when the code of every function is.
LEMMA CountsSame ==
  ASSUME NEW defs, NEW a, NEW c, \A f \in defs : c[f] = a[f]
  PROVE  Counts(defs, a) = Counts(defs, c)
<1>1. CallsOn(defs, a) = CallsOn(defs, c)
  BY DEF CallsOn
<1>2. \A x \in CallsOn(defs, a) : CalleeOn(c, x) = CalleeOn(a, x)
  BY InCallsOn DEF CalleeOn
<1> DEFINE A == CallsOn(defs, a)
<1>3. /\ CallsOn(defs, c) = A
      /\ \A x \in A : CalleeOn(c, x) = CalleeOn(a, x)
  BY <1>1, <1>2
<1> HIDE DEF A
<1>4. {CalleeOn(a, x) : x \in A} = {CalleeOn(c, x) : x \in A}
  BY <1>3
<1>5. \A g : {x \in A : CalleeOn(a, x) = g} = {x \in A : CalleeOn(c, x) = g}
  BY <1>3
<1>6. [g \in {CalleeOn(a, x) : x \in A} |-> Cardinality({x \in A : CalleeOn(a, x) = g})]
        = [g \in {CalleeOn(c, x) : x \in A} |-> Cardinality({x \in A : CalleeOn(c, x) = g})]
  BY <1>4, <1>5
<1> QED
  BY <1>1, <1>6 DEF Counts, A

(* What a pass over the functions leaves in the cache is fresh, when the    *)
(* functions in fs are all that it has changed.                             *)
LEMMA LeftFresh ==
  ASSUME UNCHANGED names, NEW c, c = [opcodes |-> c.opcodes, fcmps |-> c.fcmps, calls |-> c.calls],
         \A f \in Defs : /\ c.fcmps[f] \in {Miss, Hit(FindFCmpEq(f))}
                         /\ c.opcodes[f] \in {Miss, Hit(OpcodeCounter(f))} \/ f \in silent,
         c.calls \in {Miss, Hit(StaticCallCounter)},
         NEW fs \in SUBSET Defs, \A f \in Defs \ fs : code'[f] = code[f],
         cache' = Invalidated(c, fs), silent' = silent \ fs
  PROVE  CacheInv'
<1>1. Defs' = Defs
  BY DEF Defs
<1> DEFINE i == Invalidated(c, fs)
<1>2. ASSUME NEW f \in Defs \ fs
      PROVE  FindFCmpEq(f)' = FindFCmpEq(f) /\ OpcodeCounter(f)' = OpcodeCounter(f)
  BY <1>1, SameFound
<1>3. CASE fs = {}
  <2>1. cache' = c /\ silent' = silent
    BY <1>3 DEF Invalidated
  <2>2. StaticCallCounter' = StaticCallCounter
    <3>1. \A f \in Defs : code'[f] = code[f]
      BY <1>3
    <3>2. Counts(Defs, code) = Counts(Defs, code')
      BY <3>1, CountsSame
    <3> QED
      BY <1>1, <3>2, CounterCounts
  <2>3. \A f \in Defs : FreshFor(f)'
    BY <1>2, <1>3, <2>1 DEF FreshFor
  <2> QED
    BY <1>1, <2>1, <2>2, <2>3 DEF CacheInv, Cached
<1>4. CASE fs # {}
  <2>1. /\ i = [opcodes |-> i.opcodes, fcmps |-> i.fcmps, calls |-> Miss]
        /\ i.calls = Miss
        /\ \A f \in Defs : /\ i.fcmps[f] = IF f \in fs THEN Miss ELSE c.fcmps[f]
                           /\ i.opcodes[f] = IF f \in fs THEN Miss ELSE c.opcodes[f]
    BY <1>4, InvalidatedFresh
  <2>2. cache' = i
    OBVIOUS
  <2> HIDE DEF i
  <2>3. ASSUME NEW f \in Defs PROVE FreshFor(f)'
    <3>1. CASE f \in fs
      BY <2>1, <2>2, <3>1 DEF FreshFor
    <3>2. CASE f \notin fs
      <4>1. cache'.fcmps[f] = c.fcmps[f] /\ cache'.opcodes[f] = c.opcodes[f]
        BY <2>1, <2>2, <3>2
      <4>2. FindFCmpEq(f)' = FindFCmpEq(f) /\ OpcodeCounter(f)' = OpcodeCounter(f)
        BY <1>2, <3>2
      <4>3. f \in silent => f \in silent'
        BY <3>2
      <4> QED
        BY <4>1, <4>2, <4>3 DEF FreshFor
    <3> QED
      BY <3>1, <3>2
  <2>4. cache' = Cached'
    BY <2>1, <2>2 DEF Cached
  <2> QED
    BY <1>1, <2>1, <2>2, <2>3, <2>4 DEF CacheInv
<1> QED
  BY <1>3, <1>4

LEMMA MBASubCache == ASSUME CacheInv, MBASub PROVE CacheInv'
<1> DEFINE changed == {f \in Defs : code'[f] # code[f]}
<1>1. /\ UNCHANGED names
      /\ cache' = Invalidated(cache, changed) /\ silent' = silent \ changed
  BY DEF MBASub, NonePreserved
<1>2. \A f \in Defs \ changed : code'[f] = code[f]
  OBVIOUS
<1>3. changed \in SUBSET Defs
  OBVIOUS
<1> HIDE DEF changed
<1>4. /\ cache = [opcodes |-> cache.opcodes, fcmps |-> cache.fcmps, calls |-> cache.calls]
      /\ \A f \in Defs : /\ cache.fcmps[f] \in {Miss, Hit(FindFCmpEq(f))}
                         /\ cache.opcodes[f] \in {Miss, Hit(OpcodeCounter(f))} \/ f \in silent
      /\ cache.calls \in {Miss, Hit(StaticCallCounter)}
  BY DEF CacheInv, Cached, FreshFor
<1> QED
  BY <1>1, <1>2, <1>3, <1>4, LeftFresh

LEMMA ConvertFCmpEqCache == ASSUME CodeInv, CacheInv, ConvertFCmpEq PROVE CacheInv'
<1> DEFINE changed == {f \in Defs : Converted(f) # {}}
           c == [cache EXCEPT !.fcmps = GetFCmpEq]
<1>1. /\ UNCHANGED names
      /\ code' = [f \in Defs |-> Expanded(f, ConvertEmit(f))]
      /\ cache' = Invalidated(c, changed) /\ silent' = silent \ changed
  BY DEF ConvertFCmpEq, ConvertEmit
<1>2. ASSUME NEW f \in Defs \ changed PROVE code'[f] = code[f]
  <2>1. Converted(f) = {} /\ code'[f] = Expanded(f, ConvertEmit(f))
    BY <1>1
  <2>2. \A i \in Insts(f) : ConvertEmit(f)[i] = <<i>>
    BY <2>1 DEF ConvertEmit
  <2>3. CodeOf(f)
    BY DEF CodeInv
  <2> QED
    BY <2>1, <2>2, <2>3, ExpandedSame
<1>3. changed \in SUBSET Defs
  OBVIOUS
<1>4. c = [opcodes |-> cache.opcodes, fcmps |-> GetFCmpEq, calls |-> cache.calls]
  <2>1. cache = Cached
    BY DEF CacheInv
  <2> QED
    BY <2>1 DEF Cached
<1>5. c.opcodes = cache.opcodes /\ c.fcmps = GetFCmpEq /\ c.calls = cache.calls
  BY <1>4
<1> HIDE DEF changed, c
<1>6. ASSUME NEW f \in Defs
      PROVE  /\ c.fcmps[f] \in {Miss, Hit(FindFCmpEq(f))}
             /\ c.opcodes[f] \in {Miss, Hit(OpcodeCounter(f))} \/ f \in silent
  <2>1. GetFCmpEq[f] = IF cache.fcmps[f] = Miss THEN Hit(FindFCmpEq(f)) ELSE cache.fcmps[f]
    BY DEF GetFCmpEq, Get
  <2>2. FreshFor(f)
    BY DEF CacheInv
  <2> QED
    BY <1>5, <2>1, <2>2 DEF FreshFor
<1>7. c.calls \in {Miss, Hit(StaticCallCounter)}
  BY <1>5 DEF CacheInv
<1>8. c = [opcodes |-> c.opcodes, fcmps |-> c.fcmps, calls |-> c.calls]
  BY <1>4, <1>5
<1> QED
  BY <1>1, <1>2, <1>3, <1>6, <1>7, <1>8, LeftFresh

(* MBAAdd reports that all is preserved, and so it is, but for the opcodes: *)
(* it makes and takes no comparison and no call.                            *)
LEMMA MBAAddCache == ASSUME CodeInv, CacheInv, MBAAdd PROVE CacheInv'
<1>1. /\ UNCHANGED <<names, cache>>
      /\ silent' = silent \cup {f \in Defs : code'[f] # code[f]}
  BY DEF MBAAdd
<1>2. code' = [f \in Defs |-> Expanded(f, AddEmit(f))]
  BY AddRewrite
<1>3. Defs' = Defs /\ IsList(names) /\ IsList(passes) /\ DOMAIN code = Defs
  BY <1>1 DEF Defs, CodeInv
<1>4. Len(passes) \in Nat
  BY <1>3, ListTyped
<1>5. ASSUME NEW f \in Defs
      PROVE  /\ code'[f] = Expanded(f, AddEmit(f)) /\ CodeOf(f)
             /\ DOMAIN code'[f] = DOMAIN code[f]
             /\ \A b \in DOMAIN code[f] :
                  code'[f][b] = FlattenSeq(Lists(code[f][b], AddEmit(f)))
             /\ IsList(code[f])
             /\ \A b \in DOMAIN code[f] :
                  /\ IsList(code[f][b])
                  /\ \A i \in ToSet(code[f][b]) : /\ IsList(AddEmit(f)[i])
                                                  /\ KeepsEqualities(i, AddEmit(f)[i])
                                                  /\ KeepsCalls(i, AddEmit(f)[i])
  <2>1. CodeOf(f) /\ code'[f] = Expanded(f, AddEmit(f))
    BY <1>2 DEF CodeInv
  <2>2. ASSUME NEW i \in Insts(f)
        PROVE  /\ Emits(i, AddEmit(f)[i], Ids(Adds8(f))) /\ IsList(AddEmit(f)[i])
               /\ KeepsEqualities(i, AddEmit(f)[i]) /\ KeepsCalls(i, AddEmit(f)[i])
    <3>1. /\ Emits(i, AddEmit(f)[i], Ids(Adds8(f)))
          /\ KeepsEqualities(i, AddEmit(f)[i]) /\ KeepsCalls(i, AddEmit(f)[i])
      BY <1>4, <2>1, AddEmitted
    <3> QED
      BY <3>1 DEF Emits
  <2>3. /\ DOMAIN Expanded(f, AddEmit(f)) = DOMAIN code[f]
        /\ \A b \in DOMAIN code[f] :
             Expanded(f, AddEmit(f))[b] = FlattenSeq(Lists(code[f][b], AddEmit(f)))
    BY <1>4, <2>1, <2>2, ExpandedCode
  <2>4. IsList(code[f]) /\ \A b \in DOMAIN code[f] : IsList(code[f][b])
    BY <2>1 DEF CodeOf, Shaped
  <2>5. \A b \in DOMAIN code[f] : ToSet(code[f][b]) \subseteq Insts(f)
    BY <2>4, BlocksTyped DEF Insts
  <2> QED
    BY <2>1, <2>2, <2>3, <2>4, <2>5
<1>6. ASSUME NEW f \in Defs PROVE FreshFor(f)'
  <2>1. FindFCmpEq(f)' = FindFCmpEq(f)
    <3>1. \A b \in DOMAIN code[f] : EqualitiesOf(code'[f][b]) = EqualitiesOf(code[f][b])
      BY <1>5, EqualitiesStay
    <3>2. [b \in DOMAIN code'[f] |-> EqualitiesOf(code'[f][b])]
            = [b \in DOMAIN code[f] |-> EqualitiesOf(code[f][b])]
      BY <1>5, <3>1
    <3> QED
      BY <3>2 DEF FindFCmpEq
  <2>2. FreshFor(f)
    BY DEF CacheInv
  <2>3. CASE code'[f] = code[f]
    <3>1. OpcodeCounter(f)' = OpcodeCounter(f)
      BY <1>3, <2>3, SameFound
    <3>2. f \in silent => f \in silent'
      BY <1>1
    <3> QED
      BY <1>1, <2>1, <2>2, <3>1, <3>2 DEF FreshFor
  <2>4. CASE code'[f] # code[f]
    <3>1. f \in silent'
      BY <1>1, <2>4
    <3> QED
      BY <1>1, <2>1, <2>2, <3>1 DEF FreshFor
  <2> QED
    BY <2>3, <2>4
<1>7. StaticCallCounter' = StaticCallCounter
  <2> DEFINE emit == [f \in Defs |-> AddEmit(f)]
  <2>1. IsFiniteSet(Defs)
    BY <1>3, ListFinite DEF Defs
  <2>2. ASSUME NEW f \in Defs
        PROVE  IsList(code[f]) /\ Kept(code[f], code'[f], emit[f])
    <3>1. emit[f] = AddEmit(f)
      OBVIOUS
    <3> HIDE DEF emit
    <3>2. ASSUME NEW b \in DOMAIN code[f]
          PROVE  \E start : Laid(code[f][b], emit[f], code'[f][b], start)
      <4>1. /\ IsList(code[f][b]) /\ \A i \in ToSet(code[f][b]) : IsList(AddEmit(f)[i])
            /\ code'[f][b] = FlattenSeq(Lists(code[f][b], AddEmit(f)))
        BY <1>5
      <4> QED
        BY <3>1, <4>1, ExpandedBlock
    <3> QED
      BY <1>5, <3>1, <3>2 DEF Kept
  <2> HIDE DEF emit
  <2>3. Counts(Defs, code) = Counts(Defs, code')
    BY <2>1, <2>2, CallsStay
  <2> QED
    BY <1>3, <2>3, CounterCounts
<1>8. cache = Cached /\ Cached' = Cached
  BY <1>1 DEF CacheInv, Cached
<1> QED
  BY <1>1, <1>3, <1>6, <1>7, <1>8 DEF CacheInv

(* The passes over the module leave nothing.                                *)
LEMMA ModuleCache == ASSUME ModuleChanged PROVE CacheInv'
<1>1. cache' = NoCache(Defs')
  BY DEF ModuleChanged, Defs
<1> QED
  BY <1>1 DEF CacheInv, Cached, FreshFor, NoCache

LEMMA NextCache == ASSUME CodeInv, CacheInv, [Next]_vars PROVE CacheInv'
<1>1. CASE PrintFCmpEq
  BY <1>1, PrintFCmpEqCache
<1>2. CASE PrintOpcodes
  BY <1>2, PrintOpcodesCache
<1>3. CASE PrintCalls
  BY <1>3, PrintCallsCache
<1>4. CASE MBAAdd
  BY <1>4, MBAAddCache
<1>5. CASE MBASub
  BY <1>5, MBASubCache
<1>6. CASE ConvertFCmpEq
  BY <1>6, ConvertFCmpEqCache
<1>7. CASE DynamicCallCounter
  BY <1>7, ModuleCache DEF DynamicCallCounter
<1>8. CASE InjectFuncCall
  BY <1>8, ModuleCache DEF InjectFuncCall
<1>9. CASE UNCHANGED vars
  <2>1. UNCHANGED <<names, code, cache, silent>>
    BY <1>9 DEF vars
  <2>2. StaticCallCounter' = StaticCallCounter /\ Defs' = Defs
    BY <2>1, SameCounted
  <2>3. ASSUME NEW f \in Defs PROVE FreshFor(f)'
    <3>1. FindFCmpEq(f)' = FindFCmpEq(f) /\ OpcodeCounter(f)' = OpcodeCounter(f)
      BY <2>1, <2>2, SameFound
    <3>2. FreshFor(f)
      BY DEF CacheInv
    <3> QED
      BY <2>1, <3>1, <3>2 DEF FreshFor
  <2> QED
    BY <2>1, <2>2, <2>3 DEF CacheInv, Cached
<1> QED
  BY <1>1, <1>2, <1>3, <1>4, <1>5, <1>6, <1>7, <1>8, <1>9 DEF Next

(***************************************************************************)
(* Whatever passes have run, in any order and on any module, an analysis   *)
(* in the cache is what would be computed now, and only opcode counts may  *)
(* be stale, of functions that MBAAdd has changed since while it reported  *)
(* everything preserved (MBAAdd.cpp 41); what it leaves of the other       *)
(* two is right, as it makes and takes no call and no comparison.          *)
(***************************************************************************)
THEOREM CacheFreshThm == Spec => []CacheFresh
<1>1. CacheInv => CacheFresh
  BY DEF CacheInv, FreshFor, CacheFresh
<1>2. Init => CodeInv /\ CacheInv
  BY InitCode, InitCache
<1>3. (CodeInv /\ CacheInv) /\ [Next]_vars => (CodeInv /\ CacheInv)'
  BY NextInv, NextCache
<1> QED
  BY <1>1, <1>2, <1>3, PTL DEF Spec
-----------------------------------------------------------------------------
(***************************************************************************)
(* The two replacements are exact, for all bytes and for all integers of   *)
(* any width.                                                              *)
(***************************************************************************)

(* A byte is the sum of its bits.                                           *)
LEMMA BitsOfByte ==
  ASSUME NEW a \in Bytes
  PROVE  /\ \A w \in Weights : Bit(a, w) \in {0, 1}
         /\ a = Byte([w \in Weights |-> Bit(a, w)])
<1>1. /\ a \div 1 = 2 * (a \div 2) + Bit(a, 1)
      /\ a \div 2 = 2 * (a \div 4) + Bit(a, 2)
      /\ a \div 4 = 2 * (a \div 8) + Bit(a, 4)
      /\ a \div 8 = 2 * (a \div 16) + Bit(a, 8)
      /\ a \div 16 = 2 * (a \div 32) + Bit(a, 16)
      /\ a \div 32 = 2 * (a \div 64) + Bit(a, 32)
      /\ a \div 64 = 2 * (a \div 128) + Bit(a, 64)
      /\ a \div 128 = Bit(a, 128)
      /\ a \div 1 = a
  BY DEF Bytes, Bit
<1>2. \A w \in Weights : Bit(a, w) \in {0, 1}
  BY DEF Bytes, Bit, Weights
<1> QED
  BY <1>1, <1>2 DEF Byte, Weights

LEMMA BitSum ==
  \A u, v \in {0, 1} : /\ (u + v) % 2 \in Int /\ u * v \in Int
                       /\ ((u + v) % 2) + 2 * (u * v) = u + v
OBVIOUS

(* The sum of a column x, y, p, q and of what the columns above it sum to.   *)
Column(x, y, p, q, x2, y2, p2, q2) ==
  x + 2 * y = p + q /\ x2 + 2 * y2 = p2 + q2
    => /\ x + 2 * x2 \in Int /\ y + 2 * y2 \in Int
       /\ p + 2 * p2 \in Int /\ q + 2 * q2 \in Int
       /\ (x + 2 * x2) + 2 * (y + 2 * y2) = (p + 2 * p2) + (q + 2 * q2)

LEMMA ColumnAdds ==
  \A x, y, p, q, x2, y2, p2, q2 \in Int : Column(x, y, p, q, x2, y2, p2, q2)
BY DEF Column

(* Bits x without carries and carries y make up the sum of the bits p and q. *)
Columns(x, y, p, q) ==
  \A w \in Weights : /\ x[w] \in Int /\ y[w] \in Int /\ p[w] \in Int /\ q[w] \in Int
                     /\ x[w] + 2 * y[w] = p[w] + q[w]

(* Weighted sums add up position by position.                               *)
LEMMA ByteSum ==
  ASSUME NEW x, NEW y, NEW p, NEW q, Columns(x, y, p, q)
  PROVE  /\ Byte(x) \in Int /\ Byte(y) \in Int
         /\ Byte(x) + 2 * Byte(y) = Byte(p) + Byte(q)
<1> DEFINE s6(b) == b[64] + 2 * b[128]
           s5(b) == b[32] + 2 * s6(b)
           s4(b) == b[16] + 2 * s5(b)
           s3(b) == b[8] + 2 * s4(b)
           s2(b) == b[4] + 2 * s3(b)
           s1(b) == b[2] + 2 * s2(b)
           s0(b) == b[1] + 2 * s1(b)
<1> HIDE DEF s0, s1, s2, s3, s4, s5, s6
<1>1. /\ s6(x) \in Int /\ s6(y) \in Int /\ s6(p) \in Int /\ s6(q) \in Int
      /\ s6(x) + 2 * s6(y) = s6(p) + s6(q)
  <2>1. /\ x[64] \in Int /\ y[64] \in Int /\ p[64] \in Int /\ q[64] \in Int
        /\ x[64] + 2 * y[64] = p[64] + q[64]
    BY DEF Weights, Columns
  <2>a. /\ x[128] \in Int /\ y[128] \in Int /\ p[128] \in Int /\ q[128] \in Int
        /\ x[128] + 2 * y[128] = p[128] + q[128]
    BY DEF Weights, Columns
  <2>2. Column(x[64], y[64], p[64], q[64], x[128], y[128], p[128], q[128])
    BY <2>a, <2>1, ColumnAdds
  <2> QED
    BY <2>a, <2>1, <2>2 DEF Column, s6
<1>2. /\ s5(x) \in Int /\ s5(y) \in Int /\ s5(p) \in Int /\ s5(q) \in Int
      /\ s5(x) + 2 * s5(y) = s5(p) + s5(q)
  <2>1. /\ x[32] \in Int /\ y[32] \in Int /\ p[32] \in Int /\ q[32] \in Int
        /\ x[32] + 2 * y[32] = p[32] + q[32]
    BY DEF Weights, Columns
  <2>2. Column(x[32], y[32], p[32], q[32], s6(x), s6(y), s6(p), s6(q))
    BY <1>1, <2>1, ColumnAdds
  <2> QED
    BY <1>1, <2>1, <2>2 DEF Column, s5
<1>3. /\ s4(x) \in Int /\ s4(y) \in Int /\ s4(p) \in Int /\ s4(q) \in Int
      /\ s4(x) + 2 * s4(y) = s4(p) + s4(q)
  <2>1. /\ x[16] \in Int /\ y[16] \in Int /\ p[16] \in Int /\ q[16] \in Int
        /\ x[16] + 2 * y[16] = p[16] + q[16]
    BY DEF Weights, Columns
  <2>2. Column(x[16], y[16], p[16], q[16], s5(x), s5(y), s5(p), s5(q))
    BY <1>2, <2>1, ColumnAdds
  <2> QED
    BY <1>2, <2>1, <2>2 DEF Column, s4
<1>4. /\ s3(x) \in Int /\ s3(y) \in Int /\ s3(p) \in Int /\ s3(q) \in Int
      /\ s3(x) + 2 * s3(y) = s3(p) + s3(q)
  <2>1. /\ x[8] \in Int /\ y[8] \in Int /\ p[8] \in Int /\ q[8] \in Int
        /\ x[8] + 2 * y[8] = p[8] + q[8]
    BY DEF Weights, Columns
  <2>2. Column(x[8], y[8], p[8], q[8], s4(x), s4(y), s4(p), s4(q))
    BY <1>3, <2>1, ColumnAdds
  <2> QED
    BY <1>3, <2>1, <2>2 DEF Column, s3
<1>5. /\ s2(x) \in Int /\ s2(y) \in Int /\ s2(p) \in Int /\ s2(q) \in Int
      /\ s2(x) + 2 * s2(y) = s2(p) + s2(q)
  <2>1. /\ x[4] \in Int /\ y[4] \in Int /\ p[4] \in Int /\ q[4] \in Int
        /\ x[4] + 2 * y[4] = p[4] + q[4]
    BY DEF Weights, Columns
  <2>2. Column(x[4], y[4], p[4], q[4], s3(x), s3(y), s3(p), s3(q))
    BY <1>4, <2>1, ColumnAdds
  <2> QED
    BY <1>4, <2>1, <2>2 DEF Column, s2
<1>6. /\ s1(x) \in Int /\ s1(y) \in Int /\ s1(p) \in Int /\ s1(q) \in Int
      /\ s1(x) + 2 * s1(y) = s1(p) + s1(q)
  <2>1. /\ x[2] \in Int /\ y[2] \in Int /\ p[2] \in Int /\ q[2] \in Int
        /\ x[2] + 2 * y[2] = p[2] + q[2]
    BY DEF Weights, Columns
  <2>2. Column(x[2], y[2], p[2], q[2], s2(x), s2(y), s2(p), s2(q))
    BY <1>5, <2>1, ColumnAdds
  <2> QED
    BY <1>5, <2>1, <2>2 DEF Column, s1
<1>7. /\ s0(x) \in Int /\ s0(y) \in Int /\ s0(p) \in Int /\ s0(q) \in Int
      /\ s0(x) + 2 * s0(y) = s0(p) + s0(q)
  <2>1. /\ x[1] \in Int /\ y[1] \in Int /\ p[1] \in Int /\ q[1] \in Int
        /\ x[1] + 2 * y[1] = p[1] + q[1]
    BY DEF Weights, Columns
  <2>2. Column(x[1], y[1], p[1], q[1], s1(x), s1(y), s1(p), s1(q))
    BY <1>6, <2>1, ColumnAdds
  <2> QED
    BY <1>6, <2>1, <2>2 DEF Column, s0
<1>8. Byte(x) = s0(x) /\ Byte(y) = s0(y) /\ Byte(p) = s0(p) /\ Byte(q) = s0(q)
  BY DEF Byte, s0, s1, s2, s3, s4, s5, s6
<1> QED
  BY <1>7, <1>8

(* Without carries, and the carries: position by position.                  *)
LEMMA XorAnd ==
  ASSUME NEW a \in Bytes, NEW b \in Bytes
  PROVE  /\ Xor(a, b) \in Int /\ And(a, b) \in Int
         /\ Xor(a, b) + 2 * And(a, b) = a + b
<1> DEFINE x == [w \in Weights |-> (Bit(a, w) + Bit(b, w)) % 2]
           y == [w \in Weights |-> Bit(a, w) * Bit(b, w)]
           p == [w \in Weights |-> Bit(a, w)]
           q == [w \in Weights |-> Bit(b, w)]
<1>1. ASSUME NEW w \in Weights
      PROVE  /\ x[w] \in Int /\ y[w] \in Int /\ p[w] \in Int /\ q[w] \in Int
             /\ x[w] + 2 * y[w] = p[w] + q[w]
  <2>1. Bit(a, w) \in {0, 1} /\ Bit(b, w) \in {0, 1}
    BY BitsOfByte
  <2>2. ((Bit(a, w) + Bit(b, w)) % 2) + 2 * (Bit(a, w) * Bit(b, w))
          = Bit(a, w) + Bit(b, w)
    BY <2>1, BitSum
  <2>3. /\ x[w] = (Bit(a, w) + Bit(b, w)) % 2
        /\ y[w] = Bit(a, w) * Bit(b, w)
        /\ p[w] = Bit(a, w) /\ q[w] = Bit(b, w)
    OBVIOUS
  <2>4. x[w] \in Int /\ y[w] \in Int /\ p[w] \in Int /\ q[w] \in Int
    BY <2>1, <2>3, BitSum
  <2> QED
    BY <2>2, <2>3, <2>4
<1>2. a = Byte(p) /\ b = Byte(q)
  BY BitsOfByte
<1>3. Xor(a, b) = Byte(x) /\ And(a, b) = Byte(y)
  BY DEF Xor, And
<1> HIDE DEF x, y, p, q
<1>4. Columns(x, y, p, q)
  BY <1>1 DEF Columns
<1> QED
  BY <1>2, <1>3, <1>4, ByteSum

(* The linear map and its inverse cancel modulo 2^8: 39 * 151 = 1 + 23 * 2^8 *)
(* and 23 * 151 + 111 = 14 * 2^8 (MBAAdd.cpp:25-32).                        *)
LEMMA MapsCancel == \A x \in Bytes : InverseMap(LinearMap(x)) = x
BY DEF Bytes, InverseMap, LinearMap, AddM, MulM, M8

(* MBAAdd computes the sum it replaces, for all operands.                   *)
THEOREM AddExact == \A a, b \in Bytes : AddReplaced(a, b) = AddM(M8, a, b)
<1> SUFFICES ASSUME NEW a \in Bytes, NEW b \in Bytes
             PROVE  AddReplaced(a, b) = AddM(M8, a, b)
  OBVIOUS
<1>1. AddM(M8, Xor(a, b), MulM(M8, 2, And(a, b))) = AddM(M8, a, b)
  BY XorAnd DEF AddM, MulM, M8
<1>2. AddM(M8, a, b) \in Bytes
  BY DEF AddM, M8, Bytes
<1> QED
  BY <1>1, <1>2, MapsCancel DEF AddReplaced

(* MBASub computes the difference it replaces, at every width.              *)
THEOREM SubExact ==
  \A m \in Nat \ {0} : \A a, b \in 0 .. m - 1 :
    SubReplaced(m, a, b) = SubM(m, a, b)
<1> SUFFICES ASSUME NEW m \in Nat \ {0}, NEW a \in 0 .. m - 1, NEW b \in 0 .. m - 1
             PROVE  SubReplaced(m, a, b) = SubM(m, a, b)
  OBVIOUS
<1> DEFINE s == a + (m - 1 - b)
<1>1. CASE s < m
  <2>1. s % m = s
    BY <1>1
  <2> QED
    BY <1>1, <2>1 DEF SubReplaced, AddM, SubM, NotM
<1>2. CASE ~(s < m)
  <2>1. s % m = s - m
    BY <1>2
  <2>2. (s % m) + 1 = a - b
    BY <2>1
  <2> QED
    BY <2>2 DEF SubReplaced, AddM, SubM, NotM
<1> QED
  BY <1>1, <1>2
-----------------------------------------------------------------------------
(***************************************************************************)
(* The comparisons that ConvertFCmpEq puts in the place of equality        *)
(* comparisons (ConvertFCmpEq.cpp 10-46) decide as they do for all doubles *)
(* that are equal or epsilon apart, NaN and infinities included; and oeq   *)
(* stays the negation of une, and ueq that of one, for all doubles.        *)
(***************************************************************************)
THEOREM ConvertExact ==
  \A x, y \in Doubles :
    LET d == FAbs(FSub(x, y))
    IN /\ \A pred \in Equalities : Decided(pred, x, y) =>
            (FCmp(convertPredicate(pred), d, Epsilon) <=> FCmp(pred, x, y))
       /\ FCmp(convertPredicate("oeq"), d, Epsilon) <=> ~FCmp(convertPredicate("une"), d, Epsilon)
       /\ FCmp(convertPredicate("ueq"), d, Epsilon) <=> ~FCmp(convertPredicate("one"), d, Epsilon)
<1> SUFFICES ASSUME NEW x \in Doubles, NEW y \in Doubles
             PROVE  LET d == FAbs(FSub(x, y))
                    IN /\ \A pred \in Equalities : Decided(pred, x, y) =>
                            (FCmp(convertPredicate(pred), d, Epsilon) <=> FCmp(pred, x, y))
                       /\ FCmp(convertPredicate("oeq"), d, Epsilon)
                            <=> ~FCmp(convertPredicate("une"), d, Epsilon)
                       /\ FCmp(convertPredicate("ueq"), d, Epsilon)
                            <=> ~FCmp(convertPredicate("one"), d, Epsilon)
  OBVIOUS
<1> DEFINE d == FAbs(FSub(x, y))
<1>1. /\ convertPredicate("oeq") = "olt" /\ convertPredicate("ueq") = "ult"
      /\ convertPredicate("one") = "oge" /\ convertPredicate("une") = "uge"
  BY DEF convertPredicate
<1>2. x \in Int /\ y \in Int /\ x \in -100 .. 100 \cup {1000} /\ y \in -100 .. 100 \cup {1000}
  BY DEF Doubles, Inf, NaN
<1>3. d \in Int
  BY <1>2 DEF FAbs, FSub, Inf, NaN, IsInf
<1>4. /\ FCmp("olt", d, 2) <=> d # 1000 /\ d < 2
      /\ FCmp("ult", d, 2) <=> d = 1000 \/ d < 2
      /\ FCmp("oge", d, 2) <=> d # 1000 /\ d >= 2
      /\ FCmp("uge", d, 2) <=> d = 1000 \/ d >= 2
  BY <1>3 DEF FCmp, NaN
<1>5. /\ FCmp("oeq", x, y) <=> x # 1000 /\ y # 1000 /\ x = y
      /\ FCmp("ueq", x, y) <=> x = 1000 \/ y = 1000 \/ x = y
      /\ FCmp("one", x, y) <=> x # 1000 /\ y # 1000 /\ x # y
      /\ FCmp("une", x, y) <=> x = 1000 \/ y = 1000 \/ x # y
  BY <1>2 DEF FCmp, NaN
<1>6. /\ d = 1000 <=> (x = 1000 \/ y = 1000 \/ (x = y /\ (x = 100 \/ x = -100)))
      /\ d < 2 /\ x = y <=> x # 1000 /\ x = y /\ x # 100 /\ x # -100
  BY <1>2 DEF FAbs, FSub, Inf, NaN, IsInf
<1>7. ASSUME NEW pred \in Equalities, Decided(pred, x, y)
      PROVE  FCmp(convertPredicate(pred), d, 2) <=> FCmp(pred, x, y)
  <2>1. x = y \/ d = 1000 \/ d >= 2
    BY <1>4, <1>7 DEF Decided, FarApart, Epsilon
  <2>2. pred \in {"oeq", "une"} => ~(x = y /\ (x = 100 \/ x = -100))
    BY <1>2, <1>7 DEF Decided, IsInf, Inf
  <2> HIDE DEF d
  <2>3. CASE pred = "oeq"
    BY <1>1, <1>2, <1>3, <1>4, <1>5, <1>6, <2>1, <2>2, <2>3
  <2>4. CASE pred = "ueq"
    BY <1>1, <1>2, <1>3, <1>4, <1>5, <1>6, <2>1, <2>4
  <2>5. CASE pred = "one"
    BY <1>1, <1>2, <1>3, <1>4, <1>5, <1>6, <2>1, <2>5
  <2>6. CASE pred = "une"
    BY <1>1, <1>2, <1>3, <1>4, <1>5, <1>6, <2>1, <2>2, <2>6
  <2> QED
    BY <2>3, <2>4, <2>5, <2>6 DEF Equalities
<1>8. Epsilon = 2
  BY DEF Epsilon
<1> HIDE DEF d
<1>9. /\ FCmp(convertPredicate("oeq"), d, 2) <=> ~FCmp(convertPredicate("une"), d, 2)
      /\ FCmp(convertPredicate("ueq"), d, 2) <=> ~FCmp(convertPredicate("one"), d, 2)
  BY <1>1, <1>3, <1>4
<1> QED
  BY <1>7, <1>8, <1>9 DEF d
-----------------------------------------------------------------------------
(***************************************************************************)
(* To implement is reflexive and transitive.                               *)
(***************************************************************************)
LEMMA SeenSame ==
  ASSUME NEW given, NEW val, NEW i
  PROVE  Stands(given, val, i, val, i)
BY DEF Stands

\* Code that keeps every instruction as it is implements what it was.
LEMMA SameValues ==
  ASSUME NEW from, NEW to, Keeps(from, to), InstsOf(from) \subseteq InstsOf(to)
  PROVE  Implements(from, to)
<1>1. ASSUME NEW given, NEW val, Computes(given, val, to)
      PROVE  /\ Computes(given, val, from)
             /\ \A i \in InstsOf(from) : ~Erasable(i) =>
                  \E j \in InstsOf(to) : Stands(given, val, i, val, j)
  BY <1>1, SeenSame DEF Computes
<1> QED
  BY <1>1 DEF Implements

LEMMA SameImplements ==
  ASSUME NEW blocks
  PROVE  Implements(blocks, blocks)
<1>1. Keeps(blocks, blocks)
  BY DEF Keeps
<1> QED
  BY <1>1, SameValues

LEMMA StandsFurther ==
  ASSUME NEW given, NEW v1, NEW i1, NEW v2, NEW i2, NEW v3, NEW i3,
         Stands(given, v1, i1, v2, i2), Stands(given, v2, i2, v3, i3)
  PROVE  Stands(given, v1, i1, v3, i3) /\ (Erasable(i2) => Erasable(i1))
BY DEF Stands, IsEquality, Erasable

LEMMA KeepsFurther ==
  ASSUME NEW a, NEW b, NEW c, Keeps(a, b), Keeps(b, c)
  PROVE  Keeps(a, c)
<1>1. ASSUME NEW i \in InstsOf(a), ~Erasable(i)
      PROVE  \E j \in InstsOf(b) : ~Erasable(j) /\ j.id = i.id /\ j.op = i.op /\ j.ty = i.ty
  BY <1>1 DEF Keeps, Erasable
<1>2. ASSUME NEW i \in InstsOf(a), ~Erasable(i)
      PROVE  \E j \in InstsOf(c) : j.id = i.id /\ j.op = i.op /\ j.ty = i.ty
  <2>1. PICK j \in InstsOf(b) : ~Erasable(j) /\ j.id = i.id /\ j.op = i.op /\ j.ty = i.ty
    BY <1>1, <1>2
  <2>2. PICK l \in InstsOf(c) : l.id = j.id /\ l.op = j.op /\ l.ty = j.ty
    BY <2>1 DEF Keeps
  <2> QED
    BY <2>1, <2>2
<1>3. ASSUME NEW i \in InstsOf(a), NEW j \in InstsOf(a), ~Erasable(i), ~Erasable(j),
             Before(a, i, j)
      PROVE  Before(c, i, j)
  <2>1. PICK i2 \in InstsOf(b) : ~Erasable(i2) /\ i2.id = i.id
    BY <1>1, <1>3
  <2>2. PICK j2 \in InstsOf(b) : ~Erasable(j2) /\ j2.id = j.id
    BY <1>1, <1>3
  <2>3. Before(b, i, j)
    BY <1>3 DEF Keeps
  <2>4. Before(b, i2, j2)
    BY <2>1, <2>2, <2>3 DEF Before
  <2>5. Before(c, i2, j2)
    BY <2>1, <2>2, <2>4 DEF Keeps
  <2> QED
    BY <2>1, <2>2, <2>5 DEF Before
<1>4. ASSUME NEW j \in InstsOf(c), HasEffect(j), ~IsCount(j)
      PROVE  \E i \in InstsOf(a) : i.id = j.id /\ i.op = j.op /\ i.sym = j.sym
  <2>1. PICK l \in InstsOf(b) : l.id = j.id /\ l.op = j.op /\ l.sym = j.sym
    BY <1>4 DEF Keeps
  <2>2. HasEffect(l) /\ ~IsCount(l)
    BY <1>4, <2>1 DEF HasEffect, IsCount
  <2>3. PICK i \in InstsOf(a) : i.id = l.id /\ i.op = l.op /\ i.sym = l.sym
    BY <2>1, <2>2 DEF Keeps
  <2> QED
    BY <2>1, <2>3
<1> QED
  BY <1>2, <1>3, <1>4 DEF Keeps

LEMMA ImplementsFurther ==
  ASSUME NEW a, NEW b, NEW c, Implements(a, b), Implements(b, c)
  PROVE  Implements(a, c)
<1>1. Keeps(a, c)
  BY KeepsFurther DEF Implements
<1>2. ASSUME NEW given, NEW val, Computes(given, val, c)
      PROVE  \E was : /\ Computes(given, was, a)
                      /\ \A i \in InstsOf(a) : ~Erasable(i) =>
                           \E j \in InstsOf(c) : Stands(given, was, i, val, j)
  <2>1. PICK mid : /\ Computes(given, mid, b)
                   /\ \A i \in InstsOf(b) : ~Erasable(i) =>
                        \E j \in InstsOf(c) : Stands(given, mid, i, val, j)
    BY <1>2 DEF Implements
  <2>2. PICK was : /\ Computes(given, was, a)
                   /\ \A i \in InstsOf(a) : ~Erasable(i) =>
                        \E j \in InstsOf(b) : Stands(given, was, i, mid, j)
    BY <2>1 DEF Implements
  <2>3. ASSUME NEW i \in InstsOf(a), ~Erasable(i)
        PROVE  \E j \in InstsOf(c) : Stands(given, was, i, val, j)
    <3>1. PICK l \in InstsOf(b) : Stands(given, was, i, mid, l)
      BY <2>2, <2>3
    <3>2. ~Erasable(l)
      BY <2>3, <3>1 DEF Stands, Erasable
    <3>3. PICK j \in InstsOf(c) : Stands(given, mid, l, val, j)
      BY <2>1, <3>2
    <3> QED
      BY <3>1, <3>3, StandsFurther
  <2> QED
    BY <2>2, <2>3
<1> QED
  BY <1>1, <1>2 DEF Implements
-----------------------------------------------------------------------------
(***************************************************************************)
(* A pass that gives each instruction a list in its place keeps what is    *)
(* not erased in its order.                                                *)
(***************************************************************************)
InPlace(i, list) ==
  /\ ~Erasable(i) => \E j \in DOMAIN list :
                       list[j].id = i.id /\ list[j].op = i.op /\ list[j].ty = i.ty
  /\ \A j \in DOMAIN list : HasEffect(list[j]) =>
       list[j].id = i.id /\ list[j].op = i.op /\ list[j].sym = i.sym

LEMMA ExpandedKeeps ==
  ASSUME NEW f, CodeOf(f), Len(passes) \in Nat, NEW emit, NEW erased,
         \A i \in Insts(f) : Emits(i, emit[i], erased),
         \A i \in Insts(f) : InPlace(i, emit[i])
  PROVE  /\ Keeps(code[f], Expanded(f, emit))
         /\ \A i \in Insts(f) : \A n \in DOMAIN emit[i] :
              emit[i][n] \in InstsOf(Expanded(f, emit))
<1> DEFINE e == Expanded(f, emit)
<1>1. /\ Shaped(e) /\ DOMAIN e = DOMAIN code[f]
      /\ \A b \in DOMAIN code[f] : e[b] = FlattenSeq(Lists(code[f][b], emit))
  BY ExpandedCode
<1> HIDE DEF e
<1>2. /\ IsList(code[f]) /\ \A b \in DOMAIN code[f] : IsList(code[f][b])
      /\ \A i, j \in Insts(f) : i.id = j.id => i = j
      /\ IsList(e) /\ \A b \in DOMAIN e : IsList(e[b])
  BY <1>1 DEF CodeOf, Shaped, Insts
<1>3. /\ \A b \in DOMAIN code[f] : \A k \in DOMAIN code[f][b] : code[f][b][k] \in Insts(f)
      /\ \A b \in DOMAIN code[f] : ToSet(code[f][b]) \subseteq Insts(f)
      /\ \A i \in Insts(f) : \E b \in DOMAIN code[f] : \E k \in DOMAIN code[f][b] :
           i = code[f][b][k]
  BY <1>2, BlocksTyped DEF Insts
<1>4. /\ \A b \in DOMAIN e : \A k \in DOMAIN e[b] : e[b][k] \in InstsOf(e)
      /\ \A i \in InstsOf(e) : \E b \in DOMAIN e : \E k \in DOMAIN e[b] : i = e[b][k]
  BY <1>2, BlocksTyped
<1>5. ASSUME NEW b \in DOMAIN code[f]
      PROVE  \E start : Laid(code[f][b], emit, e[b], start)
  <2>1. \A i \in ToSet(code[f][b]) : IsList(emit[i])
    BY <1>3 DEF Emits
  <2>2. IsList(code[f][b])
    BY <1>2
  <2> QED
    BY <1>1, <2>1, <2>2, ExpandedBlock
<1>6. \A i \in Insts(f) : DOMAIN emit[i] = 1 .. Len(emit[i]) /\ Len(emit[i]) \in Nat
  BY ListTyped DEF Emits
<1>7. ASSUME NEW i \in Insts(f), NEW n \in DOMAIN emit[i]
      PROVE  emit[i][n] \in InstsOf(e)
  <2>1. PICK b \in DOMAIN code[f] : \E k \in DOMAIN code[f][b] : i = code[f][b][k]
    BY <1>3
  <2>2. PICK k \in DOMAIN code[f][b] : i = code[f][b][k]
    BY <2>1
  <2>3. PICK start : Laid(code[f][b], emit, e[b], start)
    BY <1>5
  <2>4. start[k] + n \in DOMAIN e[b] /\ e[b][start[k] + n] = emit[i][n]
    BY <2>2, <2>3 DEF Laid
  <2> QED
    BY <1>1, <1>4, <2>4
<1>8. ASSUME NEW i \in Insts(f), ~Erasable(i)
      PROVE  \E j \in InstsOf(e) : j.id = i.id /\ j.op = i.op /\ j.ty = i.ty
  <2>1. PICK n \in DOMAIN emit[i] :
          emit[i][n].id = i.id /\ emit[i][n].op = i.op /\ emit[i][n].ty = i.ty
    BY <1>8 DEF InPlace
  <2> QED
    BY <1>7, <2>1
<1>9. ASSUME NEW i \in Insts(f), NEW j \in Insts(f), ~Erasable(i), ~Erasable(j),
             Before(code[f], i, j)
      PROVE  Before(e, i, j)
  <2>1. PICK b \in DOMAIN code[f] : \E k, l \in DOMAIN code[f][b] :
          k < l /\ code[f][b][k].id = i.id /\ code[f][b][l].id = j.id
    BY <1>9 DEF Before
  <2>2. PICK k \in DOMAIN code[f][b], l \in DOMAIN code[f][b] :
          k < l /\ code[f][b][k].id = i.id /\ code[f][b][l].id = j.id
    BY <2>1
  <2>3. code[f][b][k] = i /\ code[f][b][l] = j
    BY <1>2, <1>3, <2>2
  <2>4. PICK start : Laid(code[f][b], emit, e[b], start)
    BY <1>5
  <2>5. PICK m \in DOMAIN emit[i] : emit[i][m].id = i.id
    BY <1>9 DEF InPlace
  <2>6. PICK n \in DOMAIN emit[j] : emit[j][n].id = j.id
    BY <1>9 DEF InPlace
  <2>7. /\ start[k] + m \in DOMAIN e[b] /\ e[b][start[k] + m].id = i.id
        /\ start[l] + n \in DOMAIN e[b] /\ e[b][start[l] + n].id = j.id
    BY <2>3, <2>4, <2>5, <2>6 DEF Laid
  <2>8. start[k] + m < start[l] + n
    <3>1. /\ start[k] \in Nat /\ start[l] \in Nat
          /\ start[k] + Len(emit[i]) <= start[l]
      BY <2>2, <2>3, <2>4 DEF Laid
    <3>2. /\ m \in 1 .. Len(emit[i]) /\ n \in 1 .. Len(emit[j])
          /\ Len(emit[i]) \in Nat /\ Len(emit[j]) \in Nat
      BY <1>6
    <3> QED
      BY <3>1, <3>2
  <2> QED
    BY <1>1, <2>7, <2>8 DEF Before
<1>10. ASSUME NEW j \in InstsOf(e), HasEffect(j)
       PROVE  \E i \in Insts(f) : i.id = j.id /\ i.op = j.op /\ i.sym = j.sym
  <2>1. PICK b \in DOMAIN e : \E p \in DOMAIN e[b] : j = e[b][p]
    BY <1>4
  <2>2. PICK p \in DOMAIN e[b] : j = e[b][p]
    BY <2>1
  <2>3. b \in DOMAIN code[f]
    BY <1>1
  <2>4. PICK start : Laid(code[f][b], emit, e[b], start)
    BY <1>5, <2>3
  <2>5. PICK k \in DOMAIN code[f][b] :
          \E n \in DOMAIN emit[code[f][b][k]] : p = start[k] + n
    BY <2>4 DEF Laid
  <2>6. PICK n \in DOMAIN emit[code[f][b][k]] : p = start[k] + n
    BY <2>5
  <2>7. e[b][p] = emit[code[f][b][k]][n] /\ code[f][b][k] \in Insts(f)
    BY <1>3, <2>3, <2>4, <2>6 DEF Laid
  <2> QED
    BY <1>10, <2>2, <2>7, SMTT(30) DEF InPlace
<1>11. Keeps(code[f], e)
  BY <1>8, <1>9, <1>10 DEF Keeps, Insts
<1> QED
  BY <1>7, <1>11 DEF e
-----------------------------------------------------------------------------
(***************************************************************************)
(* The values of operands, and what single instructions do.                *)
(***************************************************************************)
LEMMA OperandValues ==
  ASSUME NEW given, NEW val
  PROVE  /\ \A n : ValueOf(given, val, Const(n)) = n
         /\ \A of, k : ValueOf(given, val, New(of, k)) = val[New(of, k)]
BY DEF ValueOf, Const, New

LEMMA SeenArgs ==
  ASSUME NEW given, NEW val, NEW i, NEW a, NEW b
  PROVE  /\ i.args = <<a, b>> => Seen(given, val, i)
                = <<ValueOf(given, val, a), ValueOf(given, val, b)>>
         /\ i.args = <<a>> => Seen(given, val, i) = <<ValueOf(given, val, a)>>
<1>1. DOMAIN <<a, b>> = {1, 2} /\ DOMAIN <<a>> = {1}
  OBVIOUS
<1> QED
  BY <1>1 DEF Seen

LEMMA TuplePlaces ==
  ASSUME NEW x, NEW y
  PROVE  /\ DOMAIN <<x, y>> = {1, 2} /\ <<x, y>>[1] = x /\ <<x, y>>[2] = y
         /\ DOMAIN <<x>> = {1} /\ <<x>>[1] = x
OBVIOUS

LEMMA IntegerStep ==
  ASSUME NEW given, NEW val, NEW i, NEW a, NEW b, i.args = <<a, b>>,
         \/ i.ty = "i8" /\ i.op \in {"add", "mul", "xor", "and"}
         \/ i.ty = "i16" /\ i.op = "add",
         Obeys(given, val, i),
         OfType(i.ty, ValueOf(given, val, a)), OfType(i.ty, ValueOf(given, val, b))
  PROVE  /\ i.op = "add" => val[i.id]
              = AddM(Modulus(i.ty), ValueOf(given, val, a), ValueOf(given, val, b))
         /\ i.op = "mul" => val[i.id]
              = MulM(Modulus(i.ty), ValueOf(given, val, a), ValueOf(given, val, b))
         /\ i.op = "xor" => val[i.id] = Xor(ValueOf(given, val, a), ValueOf(given, val, b))
         /\ i.op = "and" => val[i.id] = And(ValueOf(given, val, a), ValueOf(given, val, b))
<1> DEFINE x == ValueOf(given, val, a)
           y == ValueOf(given, val, b)
<1>1. OfType(i.ty, x) /\ OfType(i.ty, y)
  OBVIOUS
<1>2. Seen(given, val, i) = <<x, y>>
  BY SeenArgs
<1> HIDE DEF x, y
<1> DEFINE v == <<x, y>>
<1>3. v[1] = x /\ v[2] = y /\ DOMAIN v = {1, 2} /\ Seen(given, val, i) = v
  BY <1>2, TuplePlaces
<1> HIDE DEF v
<1>4. IsInteger(i)
  BY DEF IsInteger
<1>5. Determined(i, v)
  BY <1>1, <1>3, <1>4 DEF Determined
<1>6. val[i.id] = Compute(i, v)
  BY <1>3, <1>5 DEF Obeys
<1>7. i.ty # "i32"
  OBVIOUS
<1>8. i.op = "add" => Compute(i, v) = AddM(Modulus(i.ty), x, y)
  BY <1>3, <1>7 DEF Compute
<1>9. i.op = "mul" => Compute(i, v) = MulM(Modulus(i.ty), x, y)
  BY <1>3, <1>7 DEF Compute
<1>10. i.op = "xor" => Compute(i, v) = Xor(x, y)
  BY <1>3, <1>7 DEF Compute
<1>11. i.op = "and" => Compute(i, v) = And(x, y)
  BY <1>3, <1>7 DEF Compute
<1> QED
  BY <1>6, <1>8, <1>9, <1>10, <1>11 DEF x, y

LEMMA ByteType ==
  /\ Modulus("i8") = 256 /\ Modulus("i16") = 65536
  /\ \A x : OfType("i8", x) <=> x \in Bytes
  /\ \A ty : OfType(ty, 1)
  /\ \A ty : \A x, y \in Int : OfType(ty, AddM(Modulus(ty), x, y)) /\ OfType(ty, MulM(Modulus(ty), x, y))
BY DEF Modulus, OfType, Bytes, AddM, MulM

LEMMA XorAndBytes ==
  ASSUME NEW a \in Bytes, NEW b \in Bytes
  PROVE  Xor(a, b) \in Bytes /\ And(a, b) \in Bytes
<1> DEFINE x == [w \in Weights |-> (Bit(a, w) + Bit(b, w)) % 2]
           y == [w \in Weights |-> Bit(a, w) * Bit(b, w)]
<1>1. ASSUME NEW w \in Weights
      PROVE  x[w] \in {0, 1} /\ y[w] \in {0, 1}
  <2>1. Bit(a, w) \in {0, 1} /\ Bit(b, w) \in {0, 1}
    BY BitsOfByte
  <2>2. (Bit(a, w) + Bit(b, w)) % 2 \in {0, 1} /\ Bit(a, w) * Bit(b, w) \in {0, 1}
    BY <2>1
  <2> QED
    BY <2>2
<1>2. Xor(a, b) = Byte(x) /\ And(a, b) = Byte(y)
  BY DEF Xor, And
<1> HIDE DEF x, y
<1>3. ASSUME NEW z, \A w \in Weights : z[w] \in {0, 1} PROVE Byte(z) \in Bytes
  <2>1. /\ z[1] \in {0, 1} /\ z[2] \in {0, 1} /\ z[4] \in {0, 1} /\ z[8] \in {0, 1}
        /\ z[16] \in {0, 1} /\ z[32] \in {0, 1} /\ z[64] \in {0, 1} /\ z[128] \in {0, 1}
    BY <1>3 DEF Weights
  <2> QED
    BY <2>1 DEF Byte, Bytes
<1> QED
  BY <1>1, <1>2, <1>3

(* What MBAAdd emits for an addition computes its sum, if the instructions  *)
(* do what they say.                                                       *)
LEMMA AddValue ==
  ASSUME NEW given, NEW val, NEW id, NEW a, NEW b,
         NEW e, e = EmitMBAAdd(id, a, b),
         \A j \in DOMAIN e : Obeys(given, val, e[j]),
         NEW x \in Bytes, x = ValueOf(given, val, a),
         NEW y \in Bytes, y = ValueOf(given, val, b)
  PROVE  val[New(id, 0)] = AddM(256, x, y)
<1> DEFINE v(k) == New(id, k)
           i1 == Inst(v(1), "xor", "i8", <<a, b>>, "")
           i2 == Inst(v(2), "and", "i8", <<a, b>>, "")
           i3 == Inst(v(3), "mul", "i8", <<Const(2), v(2)>>, "")
           i4 == Inst(v(4), "add", "i8", <<v(1), v(3)>>, "")
           i5 == Inst(v(5), "mul", "i8", <<v(4), Const(39)>>, "")
           i6 == Inst(v(6), "add", "i8", <<v(5), Const(23)>>, "")
           i7 == Inst(v(7), "mul", "i8", <<v(6), Const(151)>>, "")
           i0 == Inst(v(0), "add", "i8", <<v(7), Const(111)>>, "")
           Does(k, op, p, q) == Obeys(given, val, Inst(v(k), op, "i8", <<p, q>>, ""))
<1>1. /\ Does(1, "xor", a, b) /\ Does(2, "and", a, b)
      /\ Does(3, "mul", Const(2), v(2)) /\ Does(4, "add", v(1), v(3))
      /\ Does(5, "mul", v(4), Const(39)) /\ Does(6, "add", v(5), Const(23))
      /\ Does(7, "mul", v(6), Const(151)) /\ Does(0, "add", v(7), Const(111))
  <2>1. e = <<i1, i2, i3, i4, i5, i6, i7, i0>>
    BY DEF EmitMBAAdd, EmitAdd
  <2> HIDE DEF i1, i2, i3, i4, i5, i6, i7, i0
  <2>2. /\ DOMAIN e = 1 .. 8 /\ e[1] = i1 /\ e[2] = i2 /\ e[3] = i3 /\ e[4] = i4
        /\ e[5] = i5 /\ e[6] = i6 /\ e[7] = i7 /\ e[8] = i0
    BY <2>1
  <2>3. /\ Obeys(given, val, i1) /\ Obeys(given, val, i2) /\ Obeys(given, val, i3)
        /\ Obeys(given, val, i4) /\ Obeys(given, val, i5) /\ Obeys(given, val, i6)
        /\ Obeys(given, val, i7) /\ Obeys(given, val, i0)
    BY <2>2
  <2> QED
    BY <2>3 DEF i1, i2, i3, i4, i5, i6, i7, i0
<1>2. /\ \A k : ValueOf(given, val, v(k)) = val[v(k)]
      /\ \A n : ValueOf(given, val, Const(n)) = n
  BY OperandValues
<1> HIDE DEF v
<1> DEFINE X(z) == z \in Bytes
<1>3. \A z : OfType("i8", z) <=> X(z)
  BY ByteType
<1>4. \A z, w : X(z) /\ X(w) => X(AddM(256, z, w)) /\ X(MulM(256, z, w))
  BY DEF AddM, MulM, Bytes
<1>5. X(2) /\ X(39) /\ X(23) /\ X(151) /\ X(111) /\ X(x) /\ X(y)
  BY DEF Bytes
<1>6. X(Xor(x, y)) /\ X(And(x, y))
  BY XorAndBytes
<1> HIDE DEF X
<1>7. ASSUME NEW k, NEW op \in {"add", "mul", "xor", "and"}, NEW p, NEW q,
             Does(k, op, p, q), X(ValueOf(given, val, p)), X(ValueOf(given, val, q))
      PROVE  /\ op = "add" => val[v(k)] = AddM(256, ValueOf(given, val, p), ValueOf(given, val, q))
             /\ op = "mul" => val[v(k)] = MulM(256, ValueOf(given, val, p), ValueOf(given, val, q))
             /\ op = "xor" => val[v(k)] = Xor(ValueOf(given, val, p), ValueOf(given, val, q))
             /\ op = "and" => val[v(k)] = And(ValueOf(given, val, p), ValueOf(given, val, q))
  <2> DEFINE i == Inst(v(k), op, "i8", <<p, q>>, "")
  <2>1. OfType("i8", ValueOf(given, val, p)) /\ OfType("i8", ValueOf(given, val, q))
    BY <1>3, <1>7
  <2>2. Modulus("i8") = 256
    BY ByteType
  <2>3. i.id = v(k) /\ i.op = op /\ i.ty = "i8" /\ i.args = <<p, q>>
    BY DEF Inst
  <2>4. Obeys(given, val, i)
    BY <1>7
  <2> HIDE DEF i, Does
  <2> DEFINE u == ValueOf(given, val, p)
             w == ValueOf(given, val, q)
             m == Modulus("i8")
  <2>5. /\ op = "add" => val[v(k)] = AddM(m, u, w)
        /\ op = "mul" => val[v(k)] = MulM(m, u, w)
        /\ op = "xor" => val[v(k)] = Xor(u, w)
        /\ op = "and" => val[v(k)] = And(u, w)
    BY <1>7, <2>1, <2>3, <2>4, IntegerStep
  <2> QED
    BY <2>2, <2>5
<1> HIDE DEF Does
<1>11. val[v(1)] = Xor(x, y) /\ X(val[v(1)])
  BY <1>1, <1>5, <1>6, <1>7
<1>12. val[v(2)] = And(x, y) /\ X(val[v(2)])
  BY <1>1, <1>5, <1>6, <1>7
<1>13. val[v(3)] = MulM(256, 2, val[v(2)]) /\ X(val[v(3)])
  BY <1>1, <1>2, <1>4, <1>5, <1>7, <1>12
<1>14. val[v(4)] = AddM(256, val[v(1)], val[v(3)]) /\ X(val[v(4)])
  BY <1>1, <1>2, <1>4, <1>5, <1>7, <1>11, <1>13
<1>15. val[v(5)] = MulM(256, val[v(4)], 39) /\ X(val[v(5)])
  BY <1>1, <1>2, <1>4, <1>5, <1>7, <1>14
<1>16. val[v(6)] = AddM(256, val[v(5)], 23) /\ X(val[v(6)])
  BY <1>1, <1>2, <1>4, <1>5, <1>7, <1>15
<1>17. val[v(7)] = MulM(256, val[v(6)], 151) /\ X(val[v(7)])
  BY <1>1, <1>2, <1>4, <1>5, <1>7, <1>16
<1>18. val[v(0)] = AddM(256, val[v(7)], 111)
  BY <1>1, <1>2, <1>4, <1>5, <1>7, <1>17
<1>19. val[v(0)] = AddReplaced(x, y)
  <2>1. val[v(4)] = AddM(256, Xor(x, y), MulM(256, 2, And(x, y)))
    BY <1>11, <1>12, <1>13, <1>14
  <2>2. val[v(6)] = LinearMap(val[v(4)])
    BY <1>15, <1>16 DEF LinearMap, M8
  <2>3. val[v(0)] = InverseMap(val[v(6)])
    BY <1>17, <1>18 DEF InverseMap, M8
  <2> QED
    BY <2>1, <2>2, <2>3 DEF AddReplaced, M8
<1> QED
  BY <1>19, AddExact DEF v, M8

LEMMA NotStep ==
  ASSUME NEW given, NEW val, NEW i, NEW a, i.args = <<a>>,
         i.ty \in {"i8", "i16"}, i.op = "not", Obeys(given, val, i),
         OfType(i.ty, ValueOf(given, val, a))
  PROVE  val[i.id] = NotM(Modulus(i.ty), ValueOf(given, val, a))
<1> DEFINE x == ValueOf(given, val, a)
<1>1. OfType(i.ty, x)
  OBVIOUS
<1>2. Seen(given, val, i) = <<x>>
  BY SeenArgs
<1> HIDE DEF x
<1> DEFINE v == <<x>>
<1>3. v[1] = x /\ DOMAIN v = {1} /\ Seen(given, val, i) = v
  BY <1>2, TuplePlaces
<1> HIDE DEF v
<1>4. IsInteger(i)
  BY DEF IsInteger
<1>5. Determined(i, v)
  BY <1>1, <1>3, <1>4 DEF Determined
<1>6. val[i.id] = Compute(i, v)
  BY <1>3, <1>5 DEF Obeys
<1>7. Compute(i, v) = NotM(Modulus(i.ty), x)
  BY <1>3 DEF Compute
<1> QED
  BY <1>6, <1>7 DEF x

(* What MBASub emits for a subtraction computes its difference.             *)
LEMMA SubValue ==
  ASSUME NEW given, NEW val, NEW id, NEW ty, ty \in {"i8", "i16"}, NEW a, NEW b,
         NEW e, e = EmitMBASub(id, ty, a, b),
         \A j \in DOMAIN e : Obeys(given, val, e[j]),
         NEW x, x = ValueOf(given, val, a), OfType(ty, x),
         NEW y, y = ValueOf(given, val, b), OfType(ty, y)
  PROVE  val[New(id, 0)] = SubM(Modulus(ty), x, y)
<1> DEFINE v(k) == New(id, k)
           i1 == Inst(v(1), "not", ty, <<b>>, "")
           i2 == Inst(v(2), "add", ty, <<a, v(1)>>, "")
           i3 == Inst(v(0), "add", ty, <<v(2), Const(1)>>, "")
           m == Modulus(ty)
<1>1. Obeys(given, val, i1) /\ Obeys(given, val, i2) /\ Obeys(given, val, i3)
  <2>1. e = <<i1, i2, i3>>
    BY DEF EmitMBASub
  <2> HIDE DEF i1, i2, i3
  <2>2. DOMAIN e = 1 .. 3 /\ e[1] = i1 /\ e[2] = i2 /\ e[3] = i3
    BY <2>1
  <2> QED
    BY <2>2
<1>2. /\ i1.id = v(1) /\ i1.op = "not" /\ i1.ty = ty /\ i1.args = <<b>>
      /\ i2.id = v(2) /\ i2.op = "add" /\ i2.ty = ty /\ i2.args = <<a, v(1)>>
      /\ i3.id = v(0) /\ i3.op = "add" /\ i3.ty = ty /\ i3.args = <<v(2), Const(1)>>
  BY DEF Inst
<1>3. /\ \A k : ValueOf(given, val, v(k)) = val[v(k)]
      /\ ValueOf(given, val, Const(1)) = 1
  BY OperandValues
<1>4. OfType(ty, x) /\ OfType(ty, y)
  OBVIOUS
<1>5. m \in Nat \ {0} /\ \A z : OfType(ty, z) <=> z \in 0 .. m - 1
  BY DEF Modulus, OfType
<1> HIDE DEF v, i1, i2, i3
<1>6. val[v(1)] = NotM(m, y) /\ OfType(ty, val[v(1)])
  <2>1. val[v(1)] = NotM(m, y)
    BY <1>1, <1>2, <1>4, NotStep
  <2> HIDE DEF m
  <2>2. NotM(m, y) \in 0 .. m - 1
    BY <1>4, <1>5 DEF NotM
  <2> QED
    BY <1>5, <2>1, <2>2
<1>7. val[v(2)] = AddM(m, x, val[v(1)]) /\ OfType(ty, val[v(2)])
  <2>1. OfType(i2.ty, ValueOf(given, val, v(1)))
    BY <1>2, <1>3, <1>6
  <2>2. OfType(i2.ty, ValueOf(given, val, a))
    BY <1>2
  <2>3. val[v(2)] = AddM(m, x, val[v(1)])
    BY <1>1, <1>2, <1>3, <2>1, <2>2, IntegerStep
  <2> HIDE DEF m
  <2>4. AddM(m, x, val[v(1)]) \in 0 .. m - 1
    BY <1>4, <1>5, <1>6 DEF AddM
  <2> QED
    BY <1>5, <2>3, <2>4
<1>8. val[v(0)] = AddM(m, val[v(2)], 1)
  <2>1. OfType(i3.ty, ValueOf(given, val, v(2)))
    BY <1>2, <1>3, <1>7
  <2>2. OfType(i3.ty, ValueOf(given, val, Const(1)))
    BY <1>2, <1>3, ByteType
  <2>3. ValueOf(given, val, v(2)) = val[v(2)] /\ ValueOf(given, val, Const(1)) = 1
    BY <1>3
  <2>4. val[v(0)] = AddM(m, ValueOf(given, val, v(2)), ValueOf(given, val, Const(1)))
    BY <1>1, <1>2, <2>1, <2>2, IntegerStep
  <2> QED
    BY <2>3, <2>4
<1> HIDE DEF m
<1>9. val[v(0)] = SubReplaced(m, x, y)
  BY <1>6, <1>7, <1>8 DEF SubReplaced
<1>10. x \in 0 .. m - 1 /\ y \in 0 .. m - 1
  BY <1>4, <1>5
<1>11. val[v(0)] = SubM(m, x, y)
  BY <1>5, <1>9, <1>10, SubExact
<1> QED
  BY <1>11 DEF v, m

LEMMA DoubleStep ==
  ASSUME NEW given, NEW val, NEW i, NEW v, Seen(given, val, i) = v,
         IsDouble(i), ~IsEquality(i), Obeys(given, val, i)
  PROVE  /\ i.op = "fsub" => val[i.id] = FSub(v[1], v[2])
         /\ i.op = "fabs" => val[i.id] = FAbs(v[1])
         /\ i.op = "bitcast" => val[i.id] = v[1]
         /\ i.op = "fcmp" => val[i.id] = IF FCmp(i.sym, v[1], v[2]) THEN 1 ELSE 0
<1>1. val[i.id] = Compute(i, v)
  BY DEF Obeys, Determined
<1>2. i.op = "fsub" => Compute(i, v) = FSub(v[1], v[2])
  BY DEF Compute
<1>3. i.op = "fabs" => Compute(i, v) = FAbs(v[1])
  BY DEF Compute
<1>4. i.op = "bitcast" => Compute(i, v) = v[1]
  BY DEF Compute
<1>5. i.op = "fcmp" => Compute(i, v) = IF FCmp(i.sym, v[1], v[2]) THEN 1 ELSE 0
  BY DEF Compute
<1> QED
  BY <1>1, <1>2, <1>3, <1>4, <1>5

(* What ConvertFCmpEq puts in front of a comparison and makes of it decides *)
(* as it does, where the comparison is decided.                            *)
LEMMA ConvertValue ==
  ASSUME NEW given, NEW val, NEW i, IsEquality(i),
         NEW e, e = convertFCmpEq(i),
         \A j \in DOMAIN e : Obeys(given, val, e[j])
  PROVE  /\ Obeys(given, val, i)
         /\ Stands(given, val, i, val, e[5])
<1> DEFINE v(k) == New(i.id, k)
           i1 == Inst(v(1), "fsub", "double", i.args, "")
           i2 == Inst(v(2), "bitcast", "i64", <<v(1)>>, "")
           i3 == Inst(v(3), "fabs", "i64", <<v(2)>>, "")
           i4 == Inst(v(4), "bitcast", "double", <<v(3)>>, "")
           i5 == Inst(i.id, "fcmp", i.ty, <<v(4), Const(Epsilon)>>, convertPredicate(i.sym))
           s == Seen(given, val, i)
<1>1. /\ Obeys(given, val, i1) /\ Obeys(given, val, i2) /\ Obeys(given, val, i3)
      /\ Obeys(given, val, i4) /\ Obeys(given, val, i5) /\ e[5] = i5
  <2>1. e = <<i1, i2, i3, i4, i5>>
    BY DEF convertFCmpEq
  <2> HIDE DEF i1, i2, i3, i4, i5
  <2>2. /\ DOMAIN e = 1 .. 5 /\ e[1] = i1 /\ e[2] = i2 /\ e[3] = i3
        /\ e[4] = i4 /\ e[5] = i5
    BY <2>1
  <2> QED
    BY <2>2
<1>2. /\ i1.id = v(1) /\ i1.op = "fsub" /\ i1.args = i.args
      /\ i2.id = v(2) /\ i2.op = "bitcast" /\ i2.args = <<v(1)>>
      /\ i3.id = v(3) /\ i3.op = "fabs" /\ i3.args = <<v(2)>>
      /\ i4.id = v(4) /\ i4.op = "bitcast" /\ i4.args = <<v(3)>>
  BY DEF Inst
<1>3. /\ i5.id = i.id /\ i5.op = "fcmp" /\ i5.ty = i.ty
      /\ i5.args = <<v(4), Const(Epsilon)>> /\ i5.sym = convertPredicate(i.sym)
  BY DEF Inst
<1>4. /\ \A k : ValueOf(given, val, v(k)) = val[v(k)]
      /\ ValueOf(given, val, Const(Epsilon)) = Epsilon
  BY OperandValues
<1> HIDE DEF v, i1, i2, i3, i4, i5
<1>5. i.op = "fcmp" /\ i.sym \in Equalities
  BY DEF IsEquality
<1>6. i5.sym \notin Equalities
  BY <1>3, <1>5 DEF convertPredicate, Equalities
<1>7. /\ IsDouble(i1) /\ IsDouble(i2) /\ IsDouble(i3) /\ IsDouble(i4) /\ IsDouble(i5)
      /\ ~IsEquality(i1) /\ ~IsEquality(i2) /\ ~IsEquality(i3) /\ ~IsEquality(i4)
      /\ ~IsEquality(i5)
  BY <1>2, <1>3, <1>6 DEF IsDouble, IsEquality
<1>8. val[v(1)] = FSub(s[1], s[2])
  <2>1. Seen(given, val, i1) = s
    BY <1>2 DEF Seen
  <2> QED
    BY <1>1, <1>2, <1>7, <2>1, DoubleStep
<1> HIDE DEF s
<1>9. ASSUME NEW x, NEW j, Obeys(given, val, j), IsDouble(j), ~IsEquality(j),
             NEW k, j.args = <<v(k)>>, val[v(k)] = x
      PROVE  /\ j.op = "fabs" => val[j.id] = FAbs(x)
             /\ j.op = "bitcast" => val[j.id] = x
  <2>1. Seen(given, val, j) = <<x>>
    BY <1>4, <1>9, SeenArgs
  <2> DEFINE w == <<x>>
  <2>2. w[1] = x /\ Seen(given, val, j) = w
    BY <2>1
  <2> HIDE DEF w
  <2> QED
    BY <1>9, <2>2, DoubleStep
<1> DEFINE d == FAbs(FSub(s[1], s[2]))
<1>10. val[v(2)] = FSub(s[1], s[2])
  BY <1>1, <1>2, <1>7, <1>8, <1>9
<1>11. val[v(3)] = d
  BY <1>1, <1>2, <1>7, <1>9, <1>10
<1>12. val[v(4)] = d
  BY <1>1, <1>2, <1>7, <1>9, <1>11
<1> HIDE DEF d
<1>13. val[i.id] = IF FCmp(convertPredicate(i.sym), d, Epsilon) THEN 1 ELSE 0
  <2>1. Seen(given, val, i5) = <<d, Epsilon>>
    BY <1>3, <1>4, <1>12, SeenArgs
  <2> DEFINE w == <<d, Epsilon>>
  <2>2. w[1] = d /\ w[2] = Epsilon /\ Seen(given, val, i5) = w
    BY <2>1
  <2> HIDE DEF w
  <2> QED
    BY <1>1, <1>3, <1>7, <2>2, DoubleStep
<1>14. Obeys(given, val, i)
  <2>1. SUFFICES ASSUME Determined(i, s)
                 PROVE  val[i.id] = Compute(i, s)
    BY DEF Obeys, s
  <2>2. s[1] \in Doubles /\ s[2] \in Doubles /\ Decided(i.sym, s[1], s[2])
    BY <1>5, <2>1 DEF Determined, IsInteger, IsEquality
  <2>3. FCmp(convertPredicate(i.sym), d, Epsilon) <=> FCmp(i.sym, s[1], s[2])
    BY <1>5, <2>2, ConvertExact DEF d
  <2>4. Compute(i, s) = IF FCmp(i.sym, s[1], s[2]) THEN 1 ELSE 0
    BY <1>5 DEF Compute
  <2> QED
    BY <1>13, <2>3, <2>4
<1>15. Stands(given, val, i, val, i5)
  BY <1>3, <1>5 DEF Stands
<1> QED
  BY <1>1, <1>14, <1>15
-----------------------------------------------------------------------------
(***************************************************************************)
(* A pass that erases instructions: an execution of what it makes of a     *)
(* function is one of the function, where the value of an erased           *)
(* instruction is that of its replacement.                                 *)
(***************************************************************************)
LEMMA ReplacedValue ==
  ASSUME NEW given, NEW val, NEW gone, \A v \in gone : IsId(v),
         NEW W, NEW was, was = [v \in W |-> val[Replaced(v, gone)]], NEW v \in W
  PROVE  ValueOf(given, was, v) = ValueOf(given, val, Replaced(v, gone))
<1>1. was[v] = val[Replaced(v, gone)]
  OBVIOUS
<1>2. CASE v \in gone
  <2>1. Replaced(v, gone) = New(v, 0) /\ v[1] \in {"id", "new"}
    BY <1>2 DEF Replaced, IsId
  <2>2. ValueOf(given, was, v) = was[v]
    BY <2>1 DEF ValueOf
  <2>3. ValueOf(given, val, New(v, 0)) = val[New(v, 0)]
    BY OperandValues
  <2> QED
    BY <1>1, <2>1, <2>2, <2>3
<1>3. CASE v \notin gone
  <2>1. Replaced(v, gone) = v
    BY <1>3 DEF Replaced
  <2> QED
    BY <1>1, <2>1 DEF ValueOf
<1> QED
  BY <1>2, <1>3

\* What the operands of i show after a replacement.
SeenThrough(given, val, i, gone) ==
  [k \in DOMAIN i.args |-> ValueOf(given, val, Operands(i, gone)[k])]

Renamed(i, gone) == [i EXCEPT !.args = Operands(i, gone)]

LEMMA ReplacedSeen ==
  ASSUME NEW given, NEW val, NEW gone, \A v \in gone : IsId(v),
         NEW W, NEW was, was = [v \in W |-> val[Replaced(v, gone)]],
         NEW i, IsInst(i), ToSet(i.args) \subseteq W
  PROVE  /\ Seen(given, was, i) = SeenThrough(given, val, i, gone)
         /\ Seen(given, val, Renamed(i, gone)) = Seen(given, was, i)
         /\ Renamed(i, gone).id = i.id /\ Renamed(i, gone).op = i.op
         /\ Renamed(i, gone).ty = i.ty /\ Renamed(i, gone).sym = i.sym
<1> DEFINE new == Renamed(i, gone)
<1>1. \A k \in DOMAIN i.args : i.args[k] \in W
  BY ListTyped DEF IsInst
<1>2. \A k \in DOMAIN i.args : Operands(i, gone)[k] = Replaced(i.args[k], gone)
  BY DEF Operands
<1>3. \A k \in DOMAIN i.args :
        ValueOf(given, was, i.args[k]) = ValueOf(given, val, Operands(i, gone)[k])
  BY <1>1, <1>2, ReplacedValue
<1>4. Seen(given, was, i) = SeenThrough(given, val, i, gone)
  BY <1>3 DEF Seen, SeenThrough
<1>5. /\ new.id = i.id /\ new.op = i.op /\ new.ty = i.ty /\ new.sym = i.sym
      /\ new.args = Operands(i, gone)
  <2>1. i = Inst(i.id, i.op, i.ty, i.args, i.sym)
    BY DEF IsInst
  <2> DEFINE id == i.id  op == i.op  ty == i.ty  args == i.args  sym == i.sym  o == Operands(i, gone)
  <2> HIDE DEF id, op, ty, args, sym, o
  <2>2. i = [id |-> id, op |-> op, ty |-> ty, args |-> args, sym |-> sym]
    BY <2>1 DEF Inst, id, op, ty, args, sym
  <2>3. [i EXCEPT !.args = o] = [id |-> id, op |-> op, ty |-> ty, args |-> o, sym |-> sym]
    BY <2>2
  <2> QED
    BY <2>3 DEF id, op, ty, sym, o, Renamed
<1> HIDE DEF new
<1>6. DOMAIN Operands(i, gone) = DOMAIN i.args
  BY DEF Operands
<1>7. Seen(given, val, new) = SeenThrough(given, val, i, gone)
  BY <1>5, <1>6 DEF Seen, SeenThrough
<1> QED
  BY <1>4, <1>5, <1>7 DEF new

LEMMA SameKind ==
  ASSUME NEW i, NEW j, j.op = i.op, j.ty = i.ty, j.sym = i.sym, NEW v
  PROVE  Determined(j, v) = Determined(i, v) /\ Compute(j, v) = Compute(i, v)
<1>1. Determined(j, v) = Determined(i, v)
  BY DEF Determined, IsInteger, IsDouble, IsEquality
<1>2. Compute(j, v) = Compute(i, v)
  BY DEF Compute
<1> QED
  BY <1>1, <1>2

\* The value of the replacement is what i computes on the replaced operands.
Replaces(given, val, i, gone) ==
  LET v == SeenThrough(given, val, i, gone)
  IN (\A k \in DOMAIN v : OfType(i.ty, v[k])) => val[New(i.id, 0)] = Compute(i, v)

Rewrites(f, erased, emit) ==
  /\ \A i \in erased : Erasable(i)
  /\ \A i \in Insts(f) : Emits(i, emit[i], Ids(erased))
  /\ \A i \in Insts(f) \ erased :
       emit[i] = <<Renamed(i, Ids(erased))>>
  /\ \A i \in erased : \A j \in DOMAIN emit[i] : ~HasEffect(emit[i][j])
  /\ \A given, val : \A i \in erased :
       (\A j \in DOMAIN emit[i] : Obeys(given, val, emit[i][j]))
         => Replaces(given, val, i, Ids(erased))

LEMMA RewriteImplements ==
  ASSUME NEW f, CodeOf(f), Len(passes) \in Nat, NEW erased \in SUBSET Insts(f),
         NEW emit, Rewrites(f, erased, emit)
  PROVE  Implements(code[f], Expanded(f, emit))
<1> DEFINE gone == Ids(erased)
           e == Expanded(f, emit)
           new(i) == Renamed(i, gone)
           W == {i.id : i \in Insts(f)} \cup UNION {ToSet(i.args) : i \in Insts(f)}
<1>1. /\ \A i \in Insts(f) : IsInst(i) /\ Old(i.id, Len(passes))
      /\ \A i, j \in Insts(f) : i.id = j.id => i = j
  BY DEF CodeOf, Shaped, Stamped, Insts
<1>2. \A v \in gone : IsId(v)
  BY <1>1, NewIds DEF Ids
<1>3. /\ \A i \in erased : i.id \in gone
      /\ \A i \in Insts(f) \ erased : i.id \notin gone
  BY <1>1 DEF Ids
<1>4. ASSUME NEW i \in Insts(f)
      PROVE  new(i).id = i.id /\ new(i).op = i.op /\ new(i).ty = i.ty /\ new(i).sym = i.sym
  <2> DEFINE w == [v \in ToSet(i.args) |-> i[Replaced(v, gone)]]
  <2>1. IsInst(i) /\ ToSet(i.args) \subseteq ToSet(i.args)
    BY <1>1
  <2>2. w = [v \in ToSet(i.args) |-> i[Replaced(v, gone)]]
    OBVIOUS
  <2> HIDE DEF w
  <2> QED
    BY <1>2, <2>1, <2>2, ReplacedSeen, SMTT(30)
<1>5. /\ \A i \in Insts(f) : Emits(i, emit[i], gone)
      /\ \A i \in Insts(f) \ erased : emit[i] = <<new(i)>>
      /\ \A i \in erased : Erasable(i) /\ \A j \in DOMAIN emit[i] : ~HasEffect(emit[i][j])
  BY DEF Rewrites
<1> HIDE DEF gone, new
<1>6. ASSUME NEW i \in Insts(f)
      PROVE  InPlace(i, emit[i])
  <2>1. CASE i \in erased
    BY <1>5, <2>1 DEF InPlace
  <2>2. CASE i \notin erased
    <3> DEFINE n == new(i)
    <3>1. emit[i] = <<n>> /\ n.id = i.id /\ n.op = i.op /\ n.ty = i.ty /\ n.sym = i.sym
      BY <1>4, <1>5, <2>2
    <3> HIDE DEF n
    <3>2. DOMAIN emit[i] = {1} /\ emit[i][1] = n
      BY <3>1
    <3> QED
      BY <3>1, <3>2 DEF InPlace
  <2> QED
    BY <2>1, <2>2
<1>7. /\ Keeps(code[f], e)
      /\ \A i \in Insts(f) : \A n \in DOMAIN emit[i] : emit[i][n] \in InstsOf(e)
  BY <1>5, <1>6, ExpandedKeeps
<1>8. \A i \in Insts(f) \ erased : new(i) \in InstsOf(e)
  <2> TAKE i \in Insts(f) \ erased
  <2>1. 1 \in DOMAIN emit[i] /\ emit[i][1] = new(i)
    BY <1>5
  <2> QED
    BY <1>7, <2>1
<1> HIDE DEF e
<1>9. ASSUME NEW given, NEW val, Computes(given, val, e)
      PROVE  \E was : /\ Computes(given, was, code[f])
                      /\ \A i \in InstsOf(code[f]) : ~Erasable(i) =>
                           \E j \in InstsOf(e) : Stands(given, was, i, val, j)
  <2> DEFINE was == [v \in W |-> val[Replaced(v, gone)]]
  <2>1. was = [v \in W |-> val[Replaced(v, gone)]]
    OBVIOUS
  <2>2. \A i \in Insts(f) : i.id \in W /\ ToSet(i.args) \subseteq W
    OBVIOUS
  <2>3. \A i \in Insts(f) : was[i.id] = val[Replaced(i.id, gone)]
    BY <2>2
  <2> HIDE DEF was, W
  <2>4. ASSUME NEW i \in Insts(f)
        PROVE  /\ Seen(given, was, i) = SeenThrough(given, val, i, gone)
               /\ Seen(given, val, new(i)) = Seen(given, was, i)
    <3>1. IsInst(i) /\ ToSet(i.args) \subseteq W
      BY <1>1, <2>2
    <3> QED
      BY <1>2, <2>1, <3>1, ReplacedSeen DEF new
  <2>5. ASSUME NEW i \in Insts(f) \ erased
        PROVE  Obeys(given, was, i) /\ Stands(given, was, i, val, new(i))
    <3>1. Obeys(given, val, new(i))
      BY <1>8, <1>9 DEF Computes
    <3>2. was[i.id] = val[i.id]
      BY <1>3, <2>3 DEF Replaced
    <3> DEFINE s == Seen(given, was, i)
               n == new(i)
    <3>3. n.id = i.id /\ n.op = i.op /\ n.ty = i.ty /\ n.sym = i.sym
      BY <1>4
    <3>4. Seen(given, val, n) = s
      BY <2>4
    <3>5. Obeys(given, val, n)
      BY <3>1
    <3> HIDE DEF n
    <3>6. Stands(given, was, i, val, n)
      BY <3>2, <3>3, <3>4 DEF Stands
    <3>7. Determined(n, s) => val[n.id] = Compute(n, s)
      BY <3>4, <3>5 DEF Obeys
    <3>8. Determined(n, s) = Determined(i, s) /\ Compute(n, s) = Compute(i, s)
      BY <3>3, SameKind
    <3>9. Obeys(given, was, i)
      BY <3>2, <3>3, <3>7, <3>8 DEF Obeys
    <3> QED
      BY <3>6, <3>9 DEF n
  <2>6. ASSUME NEW i \in erased
        PROVE  Obeys(given, was, i)
    <3>1. \A j \in DOMAIN emit[i] : Obeys(given, val, emit[i][j])
      BY <1>7, <1>9 DEF Computes
    <3>2. Replaces(given, val, i, gone)
      BY <3>1 DEF Rewrites, gone
    <3> DEFINE s == SeenThrough(given, val, i, gone)
    <3>3. Seen(given, was, i) = s
      BY <2>4
    <3>4. was[i.id] = val[New(i.id, 0)]
      BY <1>3, <2>3 DEF Replaced
    <3>5. (\A k \in DOMAIN s : OfType(i.ty, s[k])) => val[New(i.id, 0)] = Compute(i, s)
      BY <3>2 DEF Replaces
    <3> HIDE DEF s
    <3>6. Determined(i, s) => \A k \in DOMAIN s : OfType(i.ty, s[k])
      BY <1>5 DEF Erasable, Determined, IsDouble, IsEquality
    <3> QED
      BY <3>3, <3>4, <3>5, <3>6 DEF Obeys
  <2>7. Computes(given, was, code[f])
    BY <2>5, <2>6 DEF Computes, Insts
  <2>8. \A i \in InstsOf(code[f]) : ~Erasable(i) =>
          \E j \in InstsOf(e) : Stands(given, was, i, val, j)
    BY <1>5, <1>8, <2>5 DEF Insts
  <2> QED
    BY <2>7, <2>8
<1>10. Implements(code[f], e)
  BY <1>7, <1>9 DEF Implements
<1> QED
  BY <1>10 DEF e

\* What the two operands of an instruction that is erased show.
LEMMA TwoSeen ==
  ASSUME NEW given, NEW val, NEW i, IsInst(i), i.op \in {"add", "sub"}, NEW gone
  PROVE  LET s == SeenThrough(given, val, i, gone)
         IN /\ 1 \in DOMAIN s /\ 2 \in DOMAIN s
            /\ s[1] = ValueOf(given, val, Operands(i, gone)[1])
            /\ s[2] = ValueOf(given, val, Operands(i, gone)[2])
<1>1. IsList(i.args) /\ Len(i.args) = 2
  BY DEF IsInst
<1>2. 1 \in DOMAIN i.args /\ 2 \in DOMAIN i.args
  BY <1>1, ListTyped
<1> QED
  BY <1>2 DEF SeenThrough

LEMMA AddOps ==
  ASSUME NEW id, NEW a, NEW b, NEW j \in DOMAIN EmitMBAAdd(id, a, b)
  PROVE  ~HasEffect(EmitMBAAdd(id, a, b)[j])
<1> DEFINE v(k) == New(id, k)
           step(k, op, x, y) == Inst(v(k), op, "i8", <<x, y>>, "")
           i1 == step(1, "xor", a, b)
           i2 == step(2, "and", a, b)
           i3 == step(3, "mul", Const(2), v(2))
           i4 == step(4, "add", v(1), v(3))
           i5 == step(5, "mul", v(4), Const(39))
           i6 == step(6, "add", v(5), Const(23))
           i7 == step(7, "mul", v(6), Const(151))
           i8 == step(0, "add", v(7), Const(111))
           e == <<i1, i2, i3, i4, i5, i6, i7, i8>>
<1>1. EmitMBAAdd(id, a, b) = e
  BY DEF EmitMBAAdd, EmitAdd
<1>2. /\ i1.op = "xor" /\ i2.op = "and" /\ i3.op = "mul" /\ i4.op = "add"
      /\ i5.op = "mul" /\ i6.op = "add" /\ i7.op = "mul" /\ i8.op = "add"
  BY DEF Inst
<1> HIDE DEF i1, i2, i3, i4, i5, i6, i7, i8
<1>3. \A k \in DOMAIN e : e[k] \in {i1, i2, i3, i4, i5, i6, i7, i8}
  OBVIOUS
<1> HIDE DEF e
<1>4. e[j].op \in {"xor", "and", "mul", "add"}
  BY <1>1, <1>2, <1>3
<1> QED
  BY <1>1, <1>4 DEF HasEffect

LEMMA SubOps ==
  ASSUME NEW id, NEW ty, NEW a, NEW b, NEW j \in DOMAIN EmitMBASub(id, ty, a, b)
  PROVE  ~HasEffect(EmitMBASub(id, ty, a, b)[j])
<1> DEFINE i1 == Inst(New(id, 1), "not", ty, <<b>>, "")
           i2 == Inst(New(id, 2), "add", ty, <<a, New(id, 1)>>, "")
           i3 == Inst(New(id, 0), "add", ty, <<New(id, 2), Const(1)>>, "")
           e == <<i1, i2, i3>>
<1>1. EmitMBASub(id, ty, a, b) = e
  BY DEF EmitMBASub
<1>2. i1.op = "not" /\ i2.op = "add" /\ i3.op = "add"
  BY DEF Inst
<1> HIDE DEF i1, i2, i3
<1>3. \A k \in DOMAIN e : e[k] \in {i1, i2, i3}
  OBVIOUS
<1> HIDE DEF e
<1>4. e[j].op \in {"not", "add"}
  BY <1>1, <1>2, <1>3
<1> QED
  BY <1>1, <1>4 DEF HasEffect

LEMMA AddImplements ==
  ASSUME NEW f, CodeOf(f), Len(passes) \in Nat
  PROVE  Implements(code[f], Expanded(f, AddEmit(f)))
<1> DEFINE erased == Adds8(f)
           emit == AddEmit(f)
           gone == Ids(erased)
           a(i) == Operands(i, gone)[1]
           b(i) == Operands(i, gone)[2]
<1>1. /\ erased \in SUBSET Insts(f)
      /\ \A i \in erased : i.op = "add" /\ i.ty = "i8" /\ Erasable(i) /\ IsInst(i)
  <2>1. \A i \in Insts(f) : IsInst(i)
    BY DEF CodeOf, Shaped, Insts
  <2> QED
    BY <2>1 DEF Adds8, Erasable
<1>2. \A i \in Insts(f) : Emits(i, emit[i], gone)
  BY AddEmitted
<1>3. /\ \A i \in Insts(f) \ erased : emit[i] = <<Renamed(i, gone)>>
      /\ \A i \in erased : emit[i] = EmitMBAAdd(i.id, a(i), b(i))
  BY <1>1 DEF AddEmit, Renamed
<1> HIDE DEF erased, emit, gone
<1>4. \A i \in erased : \A j \in DOMAIN emit[i] : ~HasEffect(emit[i][j])
  BY <1>3, AddOps
<1>5. ASSUME NEW given, NEW val, NEW i \in erased,
             \A j \in DOMAIN emit[i] : Obeys(given, val, emit[i][j])
      PROVE  Replaces(given, val, i, gone)
  <2> DEFINE s == SeenThrough(given, val, i, gone)
             x == ValueOf(given, val, a(i))
             y == ValueOf(given, val, b(i))
  <2>1. SUFFICES ASSUME \A k \in DOMAIN s : OfType(i.ty, s[k])
                 PROVE  val[New(i.id, 0)] = Compute(i, s)
    BY DEF Replaces
  <2>2. 1 \in DOMAIN s /\ 2 \in DOMAIN s /\ s[1] = x /\ s[2] = y
    BY <1>1, TwoSeen
  <2> HIDE DEF s
  <2>3. x \in Bytes /\ y \in Bytes
    BY <1>1, <2>1, <2>2, ByteType
  <2> DEFINE e == EmitMBAAdd(i.id, a(i), b(i))
  <2>4. e = EmitMBAAdd(i.id, a(i), b(i)) /\ \A j \in DOMAIN e : Obeys(given, val, e[j])
    BY <1>3, <1>5
  <2> HIDE DEF e, a, b
  <2>5. x = ValueOf(given, val, a(i)) /\ y = ValueOf(given, val, b(i))
    OBVIOUS
  <2> HIDE DEF x, y
  <2>6. val[New(i.id, 0)] = AddM(256, x, y)
    BY <2>3, <2>4, <2>5, AddValue
  <2>7. i.op = "add" /\ i.ty = "i8" /\ Modulus(i.ty) = 256
    BY <1>1, ByteType
  <2>8. Compute(i, s) = AddM(Modulus(i.ty), s[1], s[2])
    BY <2>7 DEF Compute
  <2> QED
    BY <2>2, <2>6, <2>7, <2>8
<1>6. Rewrites(f, erased, emit)
  BY <1>1, <1>2, <1>3, <1>4, <1>5 DEF Rewrites, gone
<1>7. Implements(code[f], Expanded(f, emit))
  BY <1>1, <1>6, RewriteImplements
<1> QED
  BY <1>7 DEF emit

LEMMA SubImplements ==
  ASSUME NEW f, CodeOf(f), Len(passes) \in Nat
  PROVE  Implements(code[f], Expanded(f, SubEmit(f)))
<1> DEFINE erased == Subs(f)
           emit == SubEmit(f)
           gone == Ids(erased)
           a(i) == Operands(i, gone)[1]
           b(i) == Operands(i, gone)[2]
<1>1. /\ erased \in SUBSET Insts(f)
      /\ \A i \in erased : /\ i.op = "sub" /\ i.ty \in {"i8", "i16"}
                           /\ Erasable(i) /\ IsInst(i)
  <2>1. \A i \in Insts(f) : IsInst(i)
    BY DEF CodeOf, Shaped, Insts
  <2> QED
    BY <2>1 DEF Subs, Erasable
<1>2. \A i \in Insts(f) : Emits(i, emit[i], gone)
  BY SubEmitted
<1>3. /\ \A i \in Insts(f) \ erased : emit[i] = <<Renamed(i, gone)>>
      /\ \A i \in erased : emit[i] = EmitMBASub(i.id, i.ty, a(i), b(i))
  BY <1>1 DEF SubEmit, Renamed
<1> HIDE DEF erased, emit, gone
<1>4. \A i \in erased : \A j \in DOMAIN emit[i] : ~HasEffect(emit[i][j])
  BY <1>3, SubOps
<1>5. ASSUME NEW given, NEW val, NEW i \in erased,
             \A j \in DOMAIN emit[i] : Obeys(given, val, emit[i][j])
      PROVE  Replaces(given, val, i, gone)
  <2> DEFINE s == SeenThrough(given, val, i, gone)
  <2>1. SUFFICES ASSUME \A k \in DOMAIN s : OfType(i.ty, s[k])
                 PROVE  val[New(i.id, 0)] = Compute(i, s)
    BY DEF Replaces
  <2>2. /\ 1 \in DOMAIN s /\ 2 \in DOMAIN s
        /\ s[1] = ValueOf(given, val, a(i)) /\ s[2] = ValueOf(given, val, b(i))
    BY <1>1, TwoSeen
  <2> HIDE DEF s
  <2>3. /\ OfType(i.ty, ValueOf(given, val, a(i)))
        /\ OfType(i.ty, ValueOf(given, val, b(i)))
    BY <2>1, <2>2
  <2> DEFINE e == EmitMBASub(i.id, i.ty, a(i), b(i))
  <2>4. e = EmitMBASub(i.id, i.ty, a(i), b(i)) /\ \A j \in DOMAIN e : Obeys(given, val, e[j])
    BY <1>3, <1>5
  <2> HIDE DEF e, a, b
  <2>5. i.op = "sub" /\ i.ty \in {"i8", "i16"}
    BY <1>1
  <2>6. val[New(i.id, 0)] = SubM(Modulus(i.ty), ValueOf(given, val, a(i)),
                                                ValueOf(given, val, b(i)))
    <3> DEFINE x == ValueOf(given, val, a(i))
               y == ValueOf(given, val, b(i))
    <3>1. x = ValueOf(given, val, a(i)) /\ y = ValueOf(given, val, b(i))
      OBVIOUS
    <3>2. OfType(i.ty, x) /\ OfType(i.ty, y)
      BY <2>3
    <3> HIDE DEF x, y
    <3>3. val[New(i.id, 0)] = SubM(Modulus(i.ty), x, y)
      BY <2>4, <2>5, <3>1, <3>2, SubValue
    <3> QED
      BY <3>3 DEF x, y
  <2>7. Compute(i, s) = SubM(Modulus(i.ty), s[1], s[2])
    BY <2>5 DEF Compute
  <2> QED
    BY <2>2, <2>6, <2>7
<1>6. Rewrites(f, erased, emit)
  BY <1>1, <1>2, <1>3, <1>4, <1>5 DEF Rewrites, gone
<1>7. Implements(code[f], Expanded(f, emit))
  BY <1>1, <1>6, RewriteImplements
<1> QED
  BY <1>7 DEF emit
-----------------------------------------------------------------------------
(***************************************************************************)
(* ConvertFCmpEq erases nothing: the execution stays the same.             *)
(***************************************************************************)
LEMMA ConvertInPlace ==
  ASSUME NEW i, IsEquality(i)
  PROVE  /\ InPlace(i, convertFCmpEq(i))
         /\ 5 \in DOMAIN convertFCmpEq(i)
<1> DEFINE v(k) == New(i.id, k)
           i1 == Inst(v(1), "fsub", "double", i.args, "")
           i2 == Inst(v(2), "bitcast", "i64", <<v(1)>>, "")
           i3 == Inst(v(3), "fabs", "i64", <<v(2)>>, "")
           i4 == Inst(v(4), "bitcast", "double", <<v(3)>>, "")
           i5 == Inst(i.id, "fcmp", i.ty, <<v(4), Const(Epsilon)>>, convertPredicate(i.sym))
           e == <<i1, i2, i3, i4, i5>>
<1>1. convertFCmpEq(i) = e
  BY DEF convertFCmpEq
<1>2. /\ i1.op = "fsub" /\ i2.op = "bitcast" /\ i3.op = "fabs" /\ i4.op = "bitcast"
      /\ i5.op = "fcmp" /\ i5.id = i.id /\ i5.ty = i.ty
  BY DEF Inst
<1> HIDE DEF i1, i2, i3, i4, i5
<1>3. 5 \in DOMAIN e /\ e[5] = i5 /\ \A k \in DOMAIN e : e[k] \in {i1, i2, i3, i4, i5}
  OBVIOUS
<1> HIDE DEF e
<1>4. \A k \in DOMAIN e : ~HasEffect(e[k])
  BY <1>2, <1>3 DEF HasEffect
<1>5. i.op = "fcmp"
  BY DEF IsEquality
<1>6. InPlace(i, e)
  BY <1>2, <1>3, <1>4, <1>5 DEF InPlace
<1> QED
  BY <1>1, <1>3, <1>6

LEMMA ConvertImplements ==
  ASSUME NEW f, CodeOf(f), Len(passes) \in Nat
  PROVE  Implements(code[f], Expanded(f, ConvertEmit(f)))
<1> DEFINE emit == ConvertEmit(f)
           e == Expanded(f, emit)
<1>1. \A i \in Insts(f) : IsInst(i) /\ Old(i.id, Len(passes))
  BY DEF CodeOf, Shaped, Stamped, Insts
<1>2. /\ \A i \in Converted(f) : IsEquality(i) /\ emit[i] = convertFCmpEq(i)
      /\ \A i \in Insts(f) \ Converted(f) : emit[i] = <<i>>
  BY DEF Converted, ConvertEmit
<1> HIDE DEF emit
<1>3. ASSUME NEW i \in Insts(f)
      PROVE  Emits(i, emit[i], {}) /\ InPlace(i, emit[i])
  <2>1. CASE i \in Converted(f)
    BY <1>1, <1>2, <2>1, ConvertEmits, ConvertInPlace
  <2>2. CASE i \notin Converted(f)
    <3>1. emit[i] = <<i>>
      BY <1>2, <2>2
    <3>2. DOMAIN emit[i] = {1} /\ emit[i][1] = i
      BY <3>1
    <3>3. InPlace(i, emit[i])
      BY <3>2 DEF InPlace
    <3> QED
      BY <1>1, <3>1, <3>3, SameEmits
  <2> QED
    BY <2>1, <2>2
<1>4. /\ Keeps(code[f], e)
      /\ \A i \in Insts(f) : \A n \in DOMAIN emit[i] : emit[i][n] \in InstsOf(e)
  BY <1>3, ExpandedKeeps
<1> HIDE DEF e
<1>5. ASSUME NEW given, NEW val, Computes(given, val, e)
      PROVE  /\ Computes(given, val, code[f])
             /\ \A i \in InstsOf(code[f]) :
                  \E j \in InstsOf(e) : Stands(given, val, i, val, j)
  <2>1. ASSUME NEW i \in Insts(f)
        PROVE  Obeys(given, val, i) /\ \E j \in InstsOf(e) : Stands(given, val, i, val, j)
    <3>1. CASE i \in Converted(f)
      <4> DEFINE c == convertFCmpEq(i)
      <4>1. c = convertFCmpEq(i) /\ emit[i] = c /\ IsEquality(i) /\ 5 \in DOMAIN c
        BY <1>2, <3>1, ConvertInPlace
      <4> HIDE DEF c
      <4>2. \A j \in DOMAIN c : c[j] \in InstsOf(e) /\ Obeys(given, val, c[j])
        BY <1>4, <1>5, <4>1 DEF Computes
      <4>3. Obeys(given, val, i) /\ Stands(given, val, i, val, c[5])
        BY <4>1, <4>2, ConvertValue
      <4> QED
        BY <4>1, <4>2, <4>3
    <3>2. CASE i \notin Converted(f)
      <4>1. 1 \in DOMAIN emit[i] /\ emit[i][1] = i
        BY <1>2, <3>2
      <4>2. i \in InstsOf(e)
        BY <1>4, <4>1
      <4> QED
        BY <1>5, <4>2, SeenSame DEF Computes
    <3> QED
      BY <3>1, <3>2
  <2> QED
    BY <2>1 DEF Computes, Insts
<1>6. Implements(code[f], e)
  BY <1>4, <1>5 DEF Implements
<1> QED
  BY <1>6 DEF e, emit
-----------------------------------------------------------------------------
(***************************************************************************)
(* The instrumenting passes add instructions at the entry.                 *)
(***************************************************************************)
LEMMA EntryImplements ==
  ASSUME NEW blocks, NEW n, Sound(blocks, n), blocks # << >>,
         NEW insts, IsList(insts),
         \A k \in DOMAIN insts : HasEffect(insts[k]) => IsCount(insts[k])
  PROVE  Implements(blocks, AtEntry(blocks, insts))
<1> DEFINE first == insts \o blocks[1]
           e == AtEntry(blocks, insts)
<1>1. IsList(blocks) /\ \A b \in DOMAIN blocks : IsList(blocks[b])
  BY DEF Sound
<1>2. /\ Len(blocks) \in Nat /\ DOMAIN blocks = 1 .. Len(blocks)
      /\ \A b \in DOMAIN blocks : \A k \in DOMAIN blocks[b] : blocks[b][k] \in InstsOf(blocks)
      /\ \A i \in InstsOf(blocks) : \E b \in DOMAIN blocks :
           \E k \in DOMAIN blocks[b] : i = blocks[b][k]
  BY <1>1, BlocksTyped
<1>3. 1 \in DOMAIN blocks
  <2>1. blocks \in Seq(ToSet(blocks))
    BY <1>1 DEF IsList
  <2>2. Len(blocks) # 0
    BY <2>1
  <2> QED
    BY <1>2, <2>2
<1>4. /\ insts \in Seq(ToSet(insts)) /\ blocks[1] \in Seq(ToSet(blocks[1]))
      /\ Len(insts) \in Nat /\ DOMAIN insts = 1 .. Len(insts)
      /\ Len(blocks[1]) \in Nat /\ DOMAIN blocks[1] = 1 .. Len(blocks[1])
  BY <1>1, <1>3, ListTyped DEF IsList
<1> DEFINE X == ToSet(insts) \cup ToSet(blocks[1])
<1>5. first \in Seq(X)
  <2>1. insts \in Seq(X) /\ blocks[1] \in Seq(X)
    <3>1. ToSet(insts) \subseteq X /\ ToSet(blocks[1]) \subseteq X
      OBVIOUS
    <3> HIDE DEF X
    <3> QED
      BY <1>4, <3>1
  <2> HIDE DEF X
  <2> QED
    BY <2>1
<1>6. IsList(first)
  BY <1>5, ListOf
<1>7. /\ Len(first) = Len(insts) + Len(blocks[1]) /\ DOMAIN first = 1 .. Len(first)
      /\ \A p \in 1 .. Len(insts) : first[p] = insts[p]
      /\ \A p \in 1 .. Len(blocks[1]) : first[Len(insts) + p] = blocks[1][p]
  BY <1>4
<1>8. /\ DOMAIN e = DOMAIN blocks /\ e[1] = first
      /\ \A b \in DOMAIN blocks \ {1} : e[b] = blocks[b]
  BY <1>3 DEF AtEntry
<1> HIDE DEF first, e
\* Where an instruction has moved to.
<1> DEFINE at(b, k) == IF b = 1 THEN Len(insts) + k ELSE k
<1>9. ASSUME NEW b \in DOMAIN blocks, NEW k \in DOMAIN blocks[b]
      PROVE  /\ at(b, k) \in DOMAIN e[b] /\ e[b][at(b, k)] = blocks[b][k]
  <2>1. CASE b = 1
    <3>1. k \in 1 .. Len(blocks[1]) /\ at(b, k) = Len(insts) + k
      BY <1>4, <2>1
    <3>2. Len(insts) + k \in DOMAIN first
      BY <1>4, <1>7, <3>1
    <3> QED
      BY <1>7, <1>8, <2>1, <3>1, <3>2
  <2>2. CASE b # 1
    BY <1>8, <2>2
  <2> QED
    BY <2>1, <2>2
<1>10. /\ \A b \in DOMAIN e : IsList(e[b])
       /\ \A b \in DOMAIN e : \A k \in DOMAIN e[b] : e[b][k] \in InstsOf(e)
  <2>1. \A b \in DOMAIN e : IsList(e[b])
    BY <1>1, <1>6, <1>8
  <2>2. ASSUME NEW b \in DOMAIN e, NEW k \in DOMAIN e[b] PROVE e[b][k] \in InstsOf(e)
    <3>1. e[b][k] \in ToSet(e[b])
      BY <2>1, ListTyped
    <3> QED
      BY <3>1 DEF InstsOf
  <2> QED
    BY <2>1, <2>2
<1>11. InstsOf(blocks) \subseteq InstsOf(e)
  <2> SUFFICES ASSUME NEW i \in InstsOf(blocks) PROVE i \in InstsOf(e)
    OBVIOUS
  <2>1. PICK b \in DOMAIN blocks : \E k \in DOMAIN blocks[b] : i = blocks[b][k]
    BY <1>2
  <2>2. PICK k \in DOMAIN blocks[b] : i = blocks[b][k]
    BY <2>1
  <2> QED
    BY <1>8, <1>9, <1>10, <2>2
<1>12. ASSUME NEW i, NEW j, Before(blocks, i, j)
       PROVE  Before(e, i, j)
  <2>1. PICK b \in DOMAIN blocks : \E k, l \in DOMAIN blocks[b] :
          k < l /\ blocks[b][k].id = i.id /\ blocks[b][l].id = j.id
    BY <1>12 DEF Before
  <2>2. PICK k \in DOMAIN blocks[b], l \in DOMAIN blocks[b] :
          k < l /\ blocks[b][k].id = i.id /\ blocks[b][l].id = j.id
    BY <2>1
  <2>3. /\ at(b, k) \in DOMAIN e[b] /\ e[b][at(b, k)].id = i.id
        /\ at(b, l) \in DOMAIN e[b] /\ e[b][at(b, l)].id = j.id
    BY <1>9, <2>2
  <2>4. at(b, k) < at(b, l)
    <3>1. DOMAIN blocks[b] = 1 .. Len(blocks[b]) /\ Len(blocks[b]) \in Nat
      BY <1>1, ListTyped
    <3> QED
      BY <1>4, <2>2, <3>1
  <2> HIDE DEF at
  <2> QED
    BY <1>8, <2>3, <2>4 DEF Before
<1>13. ASSUME NEW j \in InstsOf(e), HasEffect(j), ~IsCount(j)
       PROVE  j \in InstsOf(blocks)
  <2>1. PICK b \in DOMAIN e : j \in ToSet(e[b])
    BY DEF InstsOf
  <2>2. PICK p \in DOMAIN e[b] : e[b][p] = j
    BY <1>10, <2>1, ListTyped
  <2>3. CASE b = 1 /\ p <= Len(insts)
    <3>1. p \in DOMAIN insts /\ insts[p] = j
      BY <1>4, <1>7, <1>8, <2>2, <2>3
    <3> QED
      BY <1>13, <3>1
  <2>4. CASE b = 1 /\ p > Len(insts)
    <3> DEFINE k == p - Len(insts)
    <3>1. k \in 1 .. Len(blocks[1]) /\ p = Len(insts) + k
      BY <1>4, <1>7, <1>8, <2>2, <2>4
    <3> HIDE DEF k
    <3>2. k \in DOMAIN blocks[1] /\ blocks[1][k] = j
      BY <1>4, <1>7, <1>8, <2>2, <2>4, <3>1
    <3> QED
      BY <1>2, <1>3, <3>2
  <2>5. CASE b # 1
    BY <1>2, <1>8, <2>2, <2>5
  <2>6. p \in Nat
    BY <1>10, <2>2, ListTyped
  <2> QED
    BY <1>4, <2>3, <2>4, <2>5, <2>6
<1>14. Keeps(blocks, e)
  BY <1>11, <1>12, <1>13 DEF Keeps
<1>15. Implements(blocks, e)
  BY <1>11, <1>14, SameValues
<1> QED
  BY <1>15 DEF e
-----------------------------------------------------------------------------
(***************************************************************************)
(* Every pass.                                                             *)
(***************************************************************************)
\* What a step makes of the functions of the source.
StepKeeps == \A f \in Defs \ {Wrapper} : f \in Defs' /\ Implements(code[f], code'[f])

LEMMA SameKeeps ==
  ASSUME UNCHANGED <<names, code>>
  PROVE  StepKeeps
BY SameImplements DEF StepKeeps, Defs

LEMMA PassLength ==
  ASSUME CodeInv
  PROVE  Len(passes) \in Nat /\ \A f \in Defs : CodeOf(f)
BY ListTyped DEF CodeInv

LEMMA MBAAddKeeps == ASSUME CodeInv, MBAAdd PROVE StepKeeps
<1>1. code' = [f \in Defs |-> Expanded(f, AddEmit(f))]
  BY AddRewrite
<1>2. Defs' = Defs
  BY DEF MBAAdd, Defs
<1>3. ASSUME NEW f \in Defs PROVE Implements(code[f], code'[f])
  <2>1. Implements(code[f], Expanded(f, AddEmit(f)))
    BY PassLength, AddImplements
  <2> QED
    BY <1>1, <2>1
<1> QED
  BY <1>2, <1>3 DEF StepKeeps

LEMMA MBASubKeeps == ASSUME CodeInv, MBASub PROVE StepKeeps
<1>1. code' = [f \in Defs |-> Expanded(f, SubEmit(f))]
  BY SubRewrite
<1>2. Defs' = Defs
  BY DEF MBASub, Defs
<1>3. ASSUME NEW f \in Defs PROVE Implements(code[f], code'[f])
  <2>1. Implements(code[f], Expanded(f, SubEmit(f)))
    BY PassLength, SubImplements
  <2> QED
    BY <1>1, <2>1
<1> QED
  BY <1>2, <1>3 DEF StepKeeps

LEMMA ConvertFCmpEqKeeps == ASSUME CodeInv, ConvertFCmpEq PROVE StepKeeps
<1>1. code' = [f \in Defs |-> Expanded(f, ConvertEmit(f))]
  BY DEF ConvertFCmpEq, ConvertEmit
<1>2. Defs' = Defs
  BY DEF ConvertFCmpEq, Defs
<1>3. ASSUME NEW f \in Defs PROVE Implements(code[f], code'[f])
  <2>1. Implements(code[f], Expanded(f, ConvertEmit(f)))
    BY PassLength, ConvertImplements
  <2> QED
    BY <1>1, <2>1
<1> QED
  BY <1>2, <1>3 DEF StepKeeps

LEMMA InjectFuncCallKeeps == ASSUME CodeInv, InjectFuncCall PROVE StepKeeps
<1> DEFINE call(f) == Inst(New(f, 1), "call", "i32",
                           <<<<"name", f>>, Const(arg_size(f))>>, "printf")
<1>1. code' = [f \in Defs |-> AtEntry(code[f], <<call(f)>>)] /\ Defs' = Defs
  BY DEF InjectFuncCall, Defs
<1>2. ASSUME NEW f \in Defs PROVE Implements(code[f], code'[f])
  <2> DEFINE c == call(f)
  <2>1. c.op = "call" /\ c.sym = "printf"
    BY DEF Inst
  <2>2. code'[f] = AtEntry(code[f], <<c>>)
    BY <1>1
  <2> HIDE DEF c
  <2>3. IsList(<<c>>) /\ DOMAIN <<c>> = {1} /\ <<c>>[1] = c
    <3>1. IsList(<<c>>)
      BY Pair
    <3>2. DOMAIN <<c>> = {1} /\ <<c>>[1] = c
      OBVIOUS
    <3> QED
      BY <3>1, <3>2
  <2>4. ~HasEffect(c)
    BY <2>1 DEF HasEffect
  <2>5. Sound(code[f], Len(passes)) /\ code[f] # << >>
    BY PassLength, CodeSound
  <2> QED
    BY <2>2, <2>3, <2>4, <2>5, EntryImplements
<1> QED
  BY <1>1, <1>2 DEF StepKeeps

\* Increment computes, and stores in the counter only.
LEMMA IncrementEffects ==
  ASSUME NEW f, NEW k \in DOMAIN Increment(f), HasEffect(Increment(f)[k])
  PROVE  IsCount(Increment(f)[k])
<1> DEFINE i1 == Inst(New(f, 1), "load", "i32", <<>>, Counter(f))
           i2 == Inst(New(f, 2), "add", "i32", <<New(f, 1), Const(1)>>, "")
           i3 == Inst(New(f, 3), "store", "i32", <<New(f, 2)>>, Counter(f))
           e == <<i1, i2, i3>>
<1>1. Increment(f) = e
  BY DEF Increment
<1>2. i1.op = "load" /\ i2.op = "add" /\ i3.op = "store" /\ i3.id = New(f, 3)
  BY DEF Inst
<1> HIDE DEF i1, i2, i3
<1>3. \A j \in DOMAIN e : e[j] \in {i1, i2, i3}
  OBVIOUS
<1> HIDE DEF e
<1>4. New(f, 3)[1] = "new"
  BY DEF New
<1>5. ~HasEffect(i1) /\ ~HasEffect(i2) /\ IsCount(i3)
  BY <1>2, <1>4 DEF HasEffect, IsCount
<1> QED
  BY <1>1, <1>3, <1>5

LEMMA DynamicCallCounterKeeps == ASSUME CodeInv, DynamicCallCounter PROVE StepKeeps
<1> DEFINE counted == [f \in Defs |-> AtEntry(code[f], Increment(f))]
<1>1. /\ names' = IF Wrapper \in Defs THEN names ELSE Append(names, Wrapper)
      /\ code' = [f \in ToSet(names') |->
                    IF f # Wrapper THEN counted[f]
                    ELSE Append(IF f \in Defs THEN counted[f] ELSE <<>>, Enter)]
  BY DEF DynamicCallCounter, Enter, Show, Return
<1>2. Defs' = Defs \cup {Wrapper} /\ ToSet(names') = Defs'
  BY <1>1, NamesGrow DEF CodeInv, Defs
<1>3. ASSUME NEW f \in Defs \ {Wrapper} PROVE Implements(code[f], code'[f])
  <2>1. code'[f] = AtEntry(code[f], Increment(f))
    BY <1>1, <1>2
  <2>2. Len(passes) \in Nat /\ CodeOf(f)
    BY PassLength
  <2>3. Sound(code[f], Len(passes)) /\ code[f] # << >>
    BY <2>2, CodeSound
  <2>4. IsList(Increment(f))
    BY <2>2, IncrementAdded DEF Added
  <2>5. Implements(code[f], AtEntry(code[f], Increment(f)))
    BY <2>3, <2>4, IncrementEffects, EntryImplements
  <2> QED
    BY <2>1, <2>5
<1> QED
  BY <1>2, <1>3 DEF StepKeeps

LEMMA NextKeeps == ASSUME CodeInv, [Next]_vars PROVE StepKeeps
<1>1. CASE PrintFCmpEq
  BY <1>1, SameKeeps DEF PrintFCmpEq
<1>2. CASE PrintOpcodes
  BY <1>2, SameKeeps DEF PrintOpcodes
<1>3. CASE PrintCalls
  BY <1>3, SameKeeps DEF PrintCalls
<1>4. CASE MBAAdd
  BY <1>4, MBAAddKeeps
<1>5. CASE MBASub
  BY <1>5, MBASubKeeps
<1>6. CASE ConvertFCmpEq
  BY <1>6, ConvertFCmpEqKeeps
<1>7. CASE DynamicCallCounter
  BY <1>7, DynamicCallCounterKeeps
<1>8. CASE InjectFuncCall
  BY <1>8, InjectFuncCallKeeps
<1>9. CASE UNCHANGED vars
  BY <1>9, SameKeeps DEF vars
<1> QED
  BY <1>1, <1>2, <1>3, <1>4, <1>5, <1>6, <1>7, <1>8, <1>9 DEF Next

ValuesInv == DOMAIN Source \subseteq Defs /\ ValuesKept

LEMMA InitValues == Init => ValuesInv
<1> SUFFICES ASSUME Init PROVE ValuesInv
  OBVIOUS
<1>1. Defs = DOMAIN Source /\ \A f \in DOMAIN Source : code[f] = Source[f].blocks
  BY SourceAssumption DEF Init, Defs
<1> QED
  BY <1>1, SameImplements DEF ValuesInv, ValuesKept

LEMMA NextValues == ASSUME CodeInv, ValuesInv, [Next]_vars PROVE ValuesInv'
<1>1. StepKeeps
  BY NextKeeps
<1>2. ASSUME NEW f \in DOMAIN Source \ {Wrapper}
      PROVE  f \in Defs' /\ Implements(Source[f].blocks, code'[f])
  <2>1. f \in Defs \ {Wrapper} /\ Implements(Source[f].blocks, code[f])
    BY DEF ValuesInv, ValuesKept
  <2>2. f \in Defs' /\ Implements(code[f], code'[f])
    BY <1>1, <2>1 DEF StepKeeps
  <2> QED
    BY <2>1, <2>2, ImplementsFurther
<1>3. Wrapper \in DOMAIN Source => Wrapper \in Defs'
  <2>1. ASSUME Wrapper \in Defs PROVE Wrapper \in Defs'
    <3>1. CASE DynamicCallCounter
      <4>1. names' = names
        BY <2>1, <3>1 DEF DynamicCallCounter
      <4> QED
        BY <2>1, <4>1 DEF Defs
    <3>2. CASE ~DynamicCallCounter
      <4>1. names' = names
        BY <3>2 DEF Next, vars, PrintFCmpEq, PrintOpcodes, PrintCalls, MBAAdd, MBASub,
                    ConvertFCmpEq, InjectFuncCall
      <4> QED
        BY <2>1, <4>1 DEF Defs
    <3> QED
      BY <3>1, <3>2
  <2> QED
    BY <2>1 DEF ValuesInv
<1> QED
  BY <1>2, <1>3 DEF ValuesInv, ValuesKept

(***************************************************************************)
(* Whatever passes run on whatever module, every execution of the code     *)
(* they leave is one of the source, with the same values for every         *)
(* instruction that is not erased, on the same operands and in its order   *)
(* (MBAAdd.cpp 11-40, MBASub.cpp 16-37, ConvertFCmpEq.cpp 24-58,           *)
(* DynamicCallCounter.cpp 18-36, InjectFuncCall.cpp 38-51).                *)
(***************************************************************************)
THEOREM ValuesKeptThm == Spec => []ValuesKept
<1>1. Init => CodeInv /\ ValuesInv
  BY InitCode, InitValues
<1>2. CodeInv /\ ValuesInv /\ [Next]_vars => CodeInv' /\ ValuesInv'
  BY NextInv, NextValues
<1>3. ValuesInv => ValuesKept
  BY DEF ValuesInv
<1> QED
  BY <1>1, <1>2, <1>3, PTL DEF Spec
=============================================================================
