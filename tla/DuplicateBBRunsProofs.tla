----------------------- MODULE DuplicateBBRunsProofs -----------------------
(***************************************************************************)
(* DuplicateBB keeps what a function does: along every route, whichever    *)
(* copy is taken at each test, the function executes the instructions of   *)
(* the source on the values that the source computes, and each test sees   *)
(* the value that was chosen for it.                                       *)
(***************************************************************************)
EXTENDS DuplicateBBProofs

(***************************************************************************)
(* What the blocks hold, seen from the source: a block that is whole is    *)
(* the source's, one that was duplicated has the source's phis in its      *)
(* head, the rest in both copies and a phi for each result in its tail.    *)
(***************************************************************************)
\* What an instruction of the source may take.
Usable == Outside(F) \cup ((UNION {Ids(F.code[b]) : b \in F.blocks}) \ VoidIds(F))
\* Where control comes from that came from block x of the source.
EndOf(x) == IF TailOf(x[2]) \in DOMAIN code THEN TailOf(x[2]) ELSE x
\* What a use of v became.
M(v) == Mapped(valueToPhi, v)
Like(y, e) ==
  /\ y.id = e.id /\ y.kind = e.kind
  /\ y.ops = [j \in DOMAIN e.ops |-> M(e.ops[j])]
LikePhi(y, e) == Like(y, e) /\ y.from = [j \in DOMAIN e.from |-> EndOf(e.from[j])]

\* The phis of a block, and what follows them; all but the terminator is work.
Phis(b) == FirstNonPHI(F.code[b]) - 1
Size(b) == Len(F.code[b]) - Phis(b)
Body(b, i) == F.code[b][Phis(b) + i]
Branches(b) == Size(b) # 0 /\ Body(b, Size(b)).kind = "br"
Work(b) == IF Branches(b) THEN Size(b) - 1 ELSE Size(b)

\* How much of the work on b's tail is done.
InWork(b) == at # Idle /\ at.b = b
Passed(b) == IF InWork(b) THEN at.k - 1 ELSE Size(b)
Done(b) == IF Passed(b) < Work(b) THEN Passed(b) ELSE Work(b)

\* A copy uses what was copied above, and of the rest what everything uses.
Above(b, i, v) == \E l \in 1 .. i - 1 : Body(b, l).id = v
InCopy(part, b, i, v) == IF Above(b, i, v) THEN <<part, v[2], v[3]>> ELSE M(v)
CopyOf(part, b, i, y) ==
  LET e == Body(b, i)
  IN /\ y.id = <<part, b, e.id[3]>> /\ y.kind = e.kind
     /\ y.ops = [j \in DOMAIN e.ops |-> InCopy(part, b, i, e.ops[j])]
PhiFor(y, b, e) ==
  /\ y.id = <<"phi", b, e.id[3]>> /\ y.kind = "phi"
  /\ y.ops = <<<<"then", b, e.id[3]>>, <<"else", b, e.id[3]>>>>
  /\ y.from = <<ThenOf(b), ElseOf(b)>>

WholeMirrored(b) ==
  LET s == code[Original(b)]
  IN /\ Len(s) = Len(F.code[b])
     /\ \A i \in 1 .. Len(s) : LikePhi(s[i], F.code[b][i])
HeadMirrored(b) ==
  LET s == code[Original(b)]
      test == s[Phis(b) + 1]
  IN /\ Len(s) = Phis(b) + 1
     /\ \A i \in 1 .. Phis(b) : LikePhi(s[i], F.code[b][i])
     /\ test.id = <<"cond", b, 0>> /\ test.kind = "isnull" /\ test.ops = <<M(targets[b])>>
CopyMirrored(part, b) ==
  LET s == code[Block(part, b)]
  IN /\ Len(s) = Done(b)
     /\ \A i \in 1 .. Len(s) : CopyOf(part, b, i, s[i])
\* The tail of the block in work still has its void instructions.
OpenTailMirrored(b) ==
  LET t == code[TailOf(b)]
  IN /\ Len(t) = Size(b) /\ at.k <= Size(b) + 1
     /\ \A i \in 1 .. Len(t) :
          IF i <= Done(b) /\ Body(b, i).kind # "void" THEN PhiFor(t[i], b, Body(b, i))
          ELSE Like(t[i], Body(b, i))
     /\ at.freeList = {i \in 1 .. Done(b) : Body(b, i).kind = "void"}
TailMirrored(b) ==
  LET t == code[TailOf(b)]
  IN /\ \A i \in 1 .. Len(t) :
          \/ \E l \in 1 .. Work(b) : Body(b, l).kind # "void" /\ PhiFor(t[i], b, Body(b, l))
          \/ Branches(b) /\ i = Len(t) /\ Like(t[i], Body(b, Size(b)))
     /\ \A l \in 1 .. Work(b) :
          Body(b, l).kind # "void" => \E i \in 1 .. Len(t) : PhiFor(t[i], b, Body(b, l))
     /\ Branches(b) => t # <<>> /\ Like(t[Len(t)], Body(b, Size(b)))

\* The maps of the block in work.
KeyOf(b, i) == IF Body(b, i).kind = "void" THEN Body(b, i).id
                                           ELSE <<"phi", b, Body(b, i).id[3]>>
MapMirrored(part, m, b) ==
  /\ DOMAIN m = {KeyOf(b, i) : i \in 1 .. Done(b)}
  /\ \A i \in 1 .. Done(b) : m[KeyOf(b, i)] = <<part, b, Body(b, i).id[3]>>

\* A result has a phi when its block has a tail and the loop has passed it.
Replaced(v) ==
  \E b \in F.blocks : /\ HasTail(b)
                      /\ \E i \in 1 .. Done(b) : Body(b, i).kind # "void" /\ v = Body(b, i).id
Replacements ==
  /\ \A v \in DOMAIN valueToPhi : Replaced(v) /\ valueToPhi[v] = <<"phi", v[2], v[3]>>
  /\ \A b \in F.blocks : HasTail(b) =>
       \A i \in 1 .. Done(b) : Body(b, i).kind # "void" => Body(b, i).id \in DOMAIN valueToPhi
\* The values chosen reach their blocks.
Chosen ==
  /\ todo \subseteq DOMAIN targets
  /\ \A b \in DOMAIN targets : b \in F.blocks /\ targets[b] \in ReachingValues(F, b)

WholeBlocks == \A b \in F.blocks : ~HasTail(b) => WholeMirrored(b)
Heads == \A b \in F.blocks : HasTail(b) => b \in DOMAIN targets /\ HeadMirrored(b)
BothCopies ==
  \A b \in F.blocks : HasTail(b) => CopyMirrored("then", b) /\ CopyMirrored("else", b)
ClosedTails == \A b \in F.blocks : HasTail(b) /\ ~InWork(b) => TailMirrored(b)
OpenTail ==
  at # Idle => /\ OpenTailMirrored(at.b)
               /\ MapMirrored("then", at.thenVMap, at.b)
               /\ MapMirrored("else", at.elseVMap, at.b)

Mirror ==
  /\ Replacements /\ Chosen
  /\ WholeBlocks /\ Heads /\ BothCopies /\ ClosedTails /\ OpenTail

(***************************************************************************)
(* What LLVM promises of the source, in these words.                       *)
(***************************************************************************)
LEMMA SourceBody ==
  ASSUME CodeSound(F), NEW b \in F.blocks
  PROVE  /\ F.code[b] \in Seq(Instructions(F)) /\ DOMAIN F.code[b] = 1 .. Len(F.code[b])
         /\ Phis(b) \in Nat /\ Size(b) \in Nat /\ Len(F.code[b]) = Phis(b) + Size(b)
         /\ \A i \in 1 .. Phis(b) : i \in DOMAIN F.code[b] /\ IsPhi(F.code[b][i])
         /\ \A i \in 1 .. Size(b) :
              /\ Phis(b) + i \in DOMAIN F.code[b] /\ ~IsPhi(Body(b, i))
              /\ \A j \in 1 .. Size(b) : Body(b, i).id = Body(b, j).id => i = j
         /\ Work(b) \in 0 .. Size(b)
         /\ \A i \in 1 .. Size(b) : i <= Work(b) <=> Body(b, i).kind # "br"
         /\ Branches(b) => Size(b) = Work(b) + 1
         /\ ~Branches(b) => Size(b) = Work(b)
<1> DEFINE s == F.code[b]
           n == FirstNonPHI(s)
<1>1. s \in Seq(Instructions(F)) /\ Len(s) \in Nat /\ DOMAIN s = 1 .. Len(s)
  BY DEF CodeSound
<1>2. \A i, j \in DOMAIN s : /\ s[i].id = s[j].id => i = j
                             /\ i < j /\ IsPhi(s[j]) => IsPhi(s[i])
                             /\ i < j => s[i].kind # "br"
  BY DEF CodeSound
<1>3. Phis(b) = n - 1 /\ Size(b) = Len(s) - (n - 1)
  BY DEF Phis, Size
<1>4. \A i : Body(b, i) = s[Phis(b) + i]
  BY DEF Body
<1> HIDE DEF s
<1>5. /\ n \in 1 .. Len(s) + 1
      /\ \A i \in DOMAIN s : i < n => IsPhi(s[i])
      /\ n \in DOMAIN s => ~IsPhi(s[n])
  BY <1>1, FirstNonPHIPlace
<1> HIDE DEF n
<1>6. /\ Phis(b) \in Nat /\ Size(b) \in Nat /\ Len(s) = Phis(b) + Size(b)
      /\ \A i \in 1 .. Phis(b) : i \in DOMAIN s /\ IsPhi(s[i])
  BY <1>1, <1>3, <1>5
<1>7. ASSUME NEW i \in 1 .. Size(b)
      PROVE  /\ Phis(b) + i \in DOMAIN s /\ ~IsPhi(Body(b, i))
             /\ \A j \in 1 .. Size(b) : Body(b, i).id = Body(b, j).id => i = j
             /\ i < Size(b) => Body(b, i).kind # "br"
  <2> DEFINE k == Phis(b) + i
  <2>1. k \in DOMAIN s /\ n \in DOMAIN s /\ (k = n \/ n < k)
    BY <1>1, <1>3, <1>5, <1>6
  <2>2. ~IsPhi(s[k])
    BY <2>1, <1>2, <1>5
  <2>3. ASSUME NEW j \in 1 .. Size(b), Body(b, i).id = Body(b, j).id PROVE i = j
    <3>1. Phis(b) + j \in DOMAIN s
      BY <1>1, <1>6
    <3>2. Phis(b) + i = Phis(b) + j
      BY <1>2, <1>4, <2>1, <2>3, <3>1
    <3> QED
      BY <1>6, <3>2
  <2>4. ASSUME i < Size(b) PROVE Body(b, i).kind # "br"
    <3>1. Phis(b) + Size(b) \in DOMAIN s /\ k < Phis(b) + Size(b)
      BY <1>1, <1>6, <2>4
    <3> QED
      BY <1>2, <1>4, <2>1, <3>1
  <2> QED
    BY <1>4, <2>1, <2>2, <2>3, <2>4
<1>8. /\ Work(b) \in 0 .. Size(b)
      /\ Branches(b) => Size(b) = Work(b) + 1
      /\ ~Branches(b) => Size(b) = Work(b)
  BY <1>6 DEF Work, Branches
<1>9. \A i \in 1 .. Size(b) : i <= Work(b) <=> Body(b, i).kind # "br"
  <2> SUFFICES ASSUME NEW i \in 1 .. Size(b)
               PROVE  i <= Work(b) <=> Body(b, i).kind # "br"
    OBVIOUS
  <2>1. CASE Branches(b)
    <3>1. i <= Work(b) <=> i < Size(b)
      BY <1>6, <1>8, <2>1
    <3>2. i = Size(b) \/ i < Size(b)
      BY <1>6
    <3>3. Body(b, Size(b)).kind = "br"
      BY <2>1 DEF Branches
    <3> QED
      BY <1>7, <3>1, <3>2, <3>3
  <2>2. CASE ~Branches(b)
    <3>1. i <= Work(b) /\ Size(b) # 0 /\ (i = Size(b) \/ i < Size(b))
      BY <1>6, <1>8, <2>2
    <3>2. Body(b, Size(b)).kind # "br"
      BY <2>2, <3>1 DEF Branches
    <3> QED
      BY <1>7, <3>1, <3>2
  <2> QED
    BY <2>1, <2>2
<1> QED
  BY <1>1, <1>6, <1>7, <1>8, <1>9 DEF s

LEMMA UsableIs ==
  ASSUME CodeSound(F), NEW v \in Usable
  PROVE  \/ v \in Outside(F) /\ v \notin Results(F)
         \/ /\ v = <<"orig", v[2], v[3]>> /\ v \in Results(F) /\ v \notin VoidIds(F)
            /\ v[2] \in F.blocks /\ v[3] \in Nat /\ v[1] = "orig"
<1>1. CASE v \in Outside(F)
  BY <1>1 DEF CodeSound
<1>2. CASE v \notin Outside(F)
  <2>1. PICK b \in F.blocks : v \in Ids(F.code[b])
    BY <1>2 DEF Usable
  <2>2. v \notin VoidIds(F)
    BY <1>2 DEF Usable
  <2>3. F.code[b] \in Seq(Instructions(F))
    BY DEF CodeSound
  <2>4. PICK e \in Elems(F.code[b]) : e.id = v
    BY <2>1, <2>3, IdsOf
  <2>5. v = <<"orig", b, v[3]>> /\ v[3] \in Nat /\ v \in Results(F)
    BY <2>4, SourceIds DEF Source
  <2>6. v[2] = b /\ v[1] = "orig"
    BY <2>5
  <2> QED
    BY <2>2, <2>5, <2>6
<1> QED
  BY <1>1, <1>2

LEMMA SourceInst ==
  ASSUME CodeSound(F), NEW b \in F.blocks, NEW i \in DOMAIN F.code[b]
  PROVE  LET e == F.code[b][i]
         IN /\ Source(b, e) /\ e.id = <<"orig", b, e.id[3]>> /\ e.id[3] \in Nat \ {0}
            /\ e.id \in Results(F) /\ e.id[1] = "orig" /\ e.id[2] = b
            /\ e.kind \in {"phi", "int", "void", "br"}
            /\ e.kind = "void" <=> e.id \in VoidIds(F)
            /\ e.id \in Ids(F.code[b])
            /\ DOMAIN e.ops = 1 .. Len(e.ops) /\ Len(e.ops) \in Nat
            /\ \A j \in DOMAIN e.ops : e.ops[j] \in Usable
            /\ DOMAIN e.from = 1 .. Len(e.from)
            /\ \A j \in DOMAIN e.from :
                 \E p \in F.blocks : e.from[j] = Original(p) /\ (IsPhi(e) => b \in F.succ[p])
            /\ IsPhi(e) => DOMAIN e.from = DOMAIN e.ops
            /\ IsPhi(e) => \A p \in F.blocks : b \in F.succ[p] =>
                             \E j \in DOMAIN e.from : e.from[j] = Original(p)
<1> DEFINE e == F.code[b][i]
<1>1. F.code[b] \in Seq(Instructions(F))
  BY DEF CodeSound
<1>2. e \in Elems(F.code[b]) /\ e \in Instructions(F)
  BY <1>1, ElemsOf
<1>3. /\ Operands(F.code[b]) \subseteq Usable
      /\ \A phi \in PhisOf(F.code[b]) :
           /\ Len(phi.ops) = Len(phi.from)
           /\ Elems(phi.from) = {Original(p) : p \in {q \in F.blocks : b \in F.succ[q]}}
  BY DEF CodeSound, Usable
<1>4. Elems(e.ops) \subseteq Operands(F.code[b])
  BY DEF Operands
<1>5. e.id \in Ids(F.code[b])
  BY DEF Ids
<1> HIDE DEF e
<1>6. Source(b, e)
  BY <1>2 DEF Source
<1>7. /\ e.id = <<"orig", b, e.id[3]>> /\ e.id[3] \in Nat
      /\ e.id \in Results(F)
      /\ e.kind \in {"phi", "int", "void", "br"}
      /\ e.kind = "void" <=> e.id \in VoidIds(F)
  BY <1>6, SourceIds
<1>8. /\ e.id \in {"orig"} \X F.blocks \X (Nat \ {0})
      /\ e.ops \in Seq(Outside(F) \cup Results(F)) /\ e.from \in Seq({"head"} \X F.blocks)
  BY <1>2 DEF Instructions
<1>9. /\ DOMAIN e.ops = 1 .. Len(e.ops) /\ Len(e.ops) \in Nat
      /\ DOMAIN e.from = 1 .. Len(e.from)
      /\ \A j \in DOMAIN e.ops : e.ops[j] \in Elems(e.ops)
      /\ \A j \in DOMAIN e.from : e.from[j] \in Elems(e.from) /\ e.from[j] \in {"head"} \X F.blocks
      /\ \A x \in Elems(e.from) : \E j \in DOMAIN e.from : e.from[j] = x
  BY <1>8, ElemsOf
<1>10. e.id[3] \in Nat \ {0}
  BY <1>8
<1>11. e.id[1] = "orig" /\ e.id[2] = b
  BY <1>7
<1>12. \A j \in DOMAIN e.ops : e.ops[j] \in Usable
  BY <1>3, <1>4, <1>9
<1>13. ASSUME IsPhi(e)
       PROVE  /\ DOMAIN e.from = DOMAIN e.ops
              /\ Elems(e.from) = {Original(p) : p \in {q \in F.blocks : b \in F.succ[q]}}
  <2>1. e \in PhisOf(F.code[b])
    BY <1>2, <1>13 DEF PhisOf
  <2> QED
    BY <1>3, <1>9, <2>1
<1>14. ASSUME NEW j \in DOMAIN e.from
       PROVE  \E p \in F.blocks : e.from[j] = Original(p) /\ (IsPhi(e) => b \in F.succ[p])
  <2>1. CASE IsPhi(e)
    BY <1>9, <1>13, <2>1
  <2>2. CASE ~IsPhi(e)
    BY <1>9, <2>2 DEF Original
  <2> QED
    BY <2>1, <2>2
<1>15. ASSUME IsPhi(e), NEW p \in F.blocks, b \in F.succ[p]
       PROVE  \E j \in DOMAIN e.from : e.from[j] = Original(p)
  <2>1. Original(p) \in Elems(e.from)
    BY <1>13, <1>15
  <2> QED
    BY <1>9, <2>1
<1> QED
  BY <1>5, <1>6, <1>7, <1>9, <1>10, <1>11, <1>12, <1>13, <1>14, <1>15 DEF e

(***************************************************************************)
(* The beginning, and the steps that leave the code alone.                 *)
(***************************************************************************)
LEMMA SameSource ==
  ASSUME F' = F
  PROVE  /\ \A b : /\ Phis(b)' = Phis(b) /\ Size(b)' = Size(b) /\ Work(b)' = Work(b)
                   /\ Branches(b)' = Branches(b)
         /\ \A b, i : Body(b, i)' = Body(b, i) /\ KeyOf(b, i)' = KeyOf(b, i)
<1>1. ASSUME NEW b PROVE Phis(b)' = Phis(b) /\ Size(b)' = Size(b)
  BY DEF Phis, Size
<1>2. ASSUME NEW b, NEW i PROVE Body(b, i)' = Body(b, i)
  BY <1>1 DEF Body
<1>3. ASSUME NEW b PROVE Branches(b)' = Branches(b)
  BY <1>1, <1>2 DEF Branches
<1>4. ASSUME NEW b PROVE Work(b)' = Work(b)
  BY <1>1, <1>3, Zenon DEF Work
<1>5. ASSUME NEW b, NEW i PROVE KeyOf(b, i)' = KeyOf(b, i)
  BY <1>2, Zenon DEF KeyOf
<1> QED
  BY <1>1, <1>2, <1>3, <1>4, <1>5

LEMMA InitMirror == DInit => Mirror
<1> SUFFICES ASSUME DInit PROVE Mirror
  OBVIOUS
<1>1. DupInv /\ CodeSound(F)
  BY InitDup DEF DupInv, Structure, CodeTyped
<1>2. at = Idle /\ targets = <<>> /\ valueToPhi = <<>> /\ todo = {}
  BY DEF DInit, Unchosen
<1>3. \A b \in F.blocks : ~HasTail(b) /\ code[Original(b)] = F.code[b]
  BY DEF DInit, Original, TailOf, Block, HasTail
<1>4. \A v : M(v) = v
  BY <1>2 DEF M, Mapped
<1>5. WholeBlocks
  <2> SUFFICES ASSUME NEW b \in F.blocks PROVE WholeMirrored(b)
    BY DEF WholeBlocks
  <2>1. F.code[b] \in Seq(Instructions(F)) /\ DOMAIN F.code[b] = 1 .. Len(F.code[b])
    BY <1>1, SourceBody
  <2>2. ASSUME NEW i \in 1 .. Len(F.code[b]) PROVE LikePhi(F.code[b][i], F.code[b][i])
    <3> DEFINE e == F.code[b][i]
    <3>1. e.ops \in Seq(Outside(F) \cup Results(F)) /\ e.from \in Seq({"head"} \X F.blocks)
      <4>1. e \in Instructions(F)
        BY <2>1, ElemsOf
      <4> QED
        BY <4>1 DEF Instructions
    <3>2. \A j \in DOMAIN e.from : e.from[j] \in {"head"} \X F.blocks
      BY <3>1, ElemsOf
    <3> HIDE DEF e
    <3>3. e.ops = [j \in DOMAIN e.ops |-> M(e.ops[j])]
      BY <1>4, <3>1
    <3>4. \A j \in DOMAIN e.from : EndOf(e.from[j]) = e.from[j]
      BY <1>3, <3>2 DEF EndOf, HasTail
    <3>5. e.from = [j \in DOMAIN e.from |-> EndOf(e.from[j])]
      BY <3>1, <3>4
    <3> QED
      BY <3>3, <3>5 DEF LikePhi, Like, e
  <2> QED
    BY <1>3, <2>1, <2>2 DEF WholeMirrored
<1>6. Replacements /\ Chosen
  BY <1>2, <1>3 DEF Replacements, Chosen
<1> QED
  BY <1>2, <1>3, <1>5, <1>6 DEF Mirror, Heads, BothCopies, ClosedTails, OpenTail

\* What the mirror is made of, when no value is replaced and no block begun.
LEMMA SameWords ==
  ASSUME F' = F, valueToPhi' = valueToPhi, DOMAIN code' = DOMAIN code,
         \A b \in F.blocks : Done(b)' = Done(b)
  PROVE  /\ \A b : HasTail(b)' = HasTail(b)
         /\ \A v : M(v)' = M(v) /\ EndOf(v)' = EndOf(v) /\ Replaced(v)' = Replaced(v)
         /\ \A y, e : Like(y, e)' = Like(y, e) /\ LikePhi(y, e)' = LikePhi(y, e)
         /\ \A part, b, i, y : CopyOf(part, b, i, y)' = CopyOf(part, b, i, y)
         /\ \A part, m : \A b \in F.blocks : MapMirrored(part, m, b)' = MapMirrored(part, m, b)
         /\ Replacements' = Replacements
<1>1. /\ \A b : /\ Phis(b)' = Phis(b) /\ Size(b)' = Size(b) /\ Work(b)' = Work(b)
                /\ Branches(b)' = Branches(b)
      /\ \A b, i : Body(b, i)' = Body(b, i) /\ KeyOf(b, i)' = KeyOf(b, i)
  BY SameSource
<1>2. ASSUME NEW b PROVE HasTail(b)' = HasTail(b)
  BY DEF HasTail
<1>3. ASSUME NEW v PROVE M(v)' = M(v) /\ EndOf(v)' = EndOf(v)
  BY DEF M, EndOf
<1>4. ASSUME NEW v PROVE Replaced(v)' = Replaced(v)
  BY <1>1, <1>2 DEF Replaced
<1>5. ASSUME NEW y, NEW e PROVE Like(y, e)' = Like(y, e) /\ LikePhi(y, e)' = LikePhi(y, e)
  BY <1>3 DEF Like, LikePhi
<1>6. ASSUME NEW part, NEW b, NEW i, NEW y PROVE CopyOf(part, b, i, y)' = CopyOf(part, b, i, y)
  BY <1>1, <1>3 DEF CopyOf, InCopy, Above
<1>7. ASSUME NEW part, NEW m, NEW b \in F.blocks
      PROVE  MapMirrored(part, m, b)' = MapMirrored(part, m, b)
  BY <1>1 DEF MapMirrored
<1>8. Replacements' = Replacements
  BY <1>1, <1>2, <1>4 DEF Replacements
<1> QED
  BY <1>2, <1>3, <1>4, <1>5, <1>6, <1>7, <1>8

\* The mirror of the blocks but for the tails, when those do not change.
LEMMA SameBlocks ==
  ASSUME F' = F, valueToPhi' = valueToPhi, targets' = targets, DOMAIN code' = DOMAIN code,
         \A b \in F.blocks : Done(b)' = Done(b),
         \A b \in F.blocks : code'[Original(b)] = code[Original(b)],
         \A b \in F.blocks :
           HasTail(b) => code'[ThenOf(b)] = code[ThenOf(b)] /\ code'[ElseOf(b)] = code[ElseOf(b)],
         Mirror
  PROVE  WholeBlocks' /\ Heads' /\ BothCopies'
<1>1. /\ \A b : HasTail(b)' = HasTail(b)
      /\ \A v : M(v)' = M(v)
      /\ \A y, e : LikePhi(y, e)' = LikePhi(y, e)
      /\ \A part, b, i, y : CopyOf(part, b, i, y)' = CopyOf(part, b, i, y)
  BY SameWords
<1>2. \A b : Phis(b)' = Phis(b)
  BY SameSource
<1>3. ASSUME NEW b \in F.blocks PROVE WholeMirrored(b)' <=> WholeMirrored(b)
  BY <1>1 DEF WholeMirrored
<1>4. ASSUME NEW b \in F.blocks PROVE HeadMirrored(b)' <=> HeadMirrored(b)
  BY <1>1, <1>2 DEF HeadMirrored
<1>5. ASSUME NEW b \in F.blocks, HasTail(b)
      PROVE  /\ CopyMirrored("then", b)' <=> CopyMirrored("then", b)
             /\ CopyMirrored("else", b)' <=> CopyMirrored("else", b)
  BY <1>1, <1>5 DEF CopyMirrored, ThenOf, ElseOf
<1> QED
  BY <1>1, <1>3, <1>4, <1>5 DEF Mirror, WholeBlocks, Heads, BothCopies

LEMMA SameTail ==
  ASSUME F' = F, valueToPhi' = valueToPhi, DOMAIN code' = DOMAIN code,
         \A b \in F.blocks : Done(b)' = Done(b),
         NEW c \in F.blocks, code'[TailOf(c)] = code[TailOf(c)]
  PROVE  TailMirrored(c)' <=> TailMirrored(c)
<1>1. \A y, e : Like(y, e)' = Like(y, e)
  BY SameWords
<1>2. /\ Size(c)' = Size(c) /\ Work(c)' = Work(c) /\ Branches(c)' = Branches(c)
      /\ \A i : Body(c, i)' = Body(c, i)
  BY SameSource
<1> QED
  BY <1>1, <1>2 DEF TailMirrored

LEMMA SameCode ==
  ASSUME Mirror, F' = F, code' = code, valueToPhi' = valueToPhi, targets' = targets,
         \A b \in F.blocks : Done(b)' = Done(b) /\ InWork(b)' = InWork(b)
  PROVE  Replacements' /\ WholeBlocks' /\ Heads' /\ BothCopies' /\ ClosedTails'
<1>1. Replacements' /\ \A b : HasTail(b)' = HasTail(b)
  BY SameWords DEF Mirror
<1>2. WholeBlocks' /\ Heads' /\ BothCopies'
  BY SameBlocks
<1>3. \A c \in F.blocks : TailMirrored(c)' <=> TailMirrored(c)
  BY SameTail
<1>4. ClosedTails'
  BY <1>1, <1>3 DEF Mirror, ClosedTails
<1> QED
  BY <1>1, <1>2, <1>4

LEMMA AnalyseMirror ==
  ASSUME DupInv, Mirror, F' = F, UNCHANGED dvars
  PROVE  Mirror'
<1>1. F' = F /\ UNCHANGED <<code, valueToPhi, at>> /\ targets' = targets /\ todo' = todo
  BY DEF dvars
<1>2. /\ \A b : Size(b)' = Size(b) /\ Work(b)' = Work(b)
      /\ \A b, i : Body(b, i)' = Body(b, i)
  BY <1>1, SameSource
<1>3. \A b : Done(b)' = Done(b) /\ InWork(b)' = InWork(b)
  BY <1>1, <1>2 DEF Done, Passed, InWork
<1>4. Chosen'
  BY <1>1 DEF Mirror, Chosen, ReachingValues
<1>5. Replacements' /\ WholeBlocks' /\ Heads' /\ BothCopies' /\ ClosedTails'
  BY <1>1, <1>3, SameCode
<1>6. OpenTail'
  <2> SUFFICES ASSUME at # Idle
               PROVE  /\ OpenTailMirrored(at.b)'
                      /\ MapMirrored("then", at.thenVMap, at.b)'
                      /\ MapMirrored("else", at.elseVMap, at.b)'
    BY <1>1 DEF OpenTail
  <2>1. at.b \in F.blocks
    BY DEF DupInv, Structure, CodeTyped, InTail
  <2>2. /\ \A y, e : Like(y, e)' = Like(y, e)
        /\ \A part, m : MapMirrored(part, m, at.b)' = MapMirrored(part, m, at.b)
    BY <1>1, <1>3, <2>1, SameWords
  <2>3. OpenTailMirrored(at.b)'
    BY <1>1, <1>2, <1>3, <2>2 DEF Mirror, OpenTail, OpenTailMirrored, PhiFor
  <2> QED
    BY <1>1, <2>2, <2>3 DEF Mirror, OpenTail
<1> QED
  BY <1>4, <1>5, <1>6 DEF Mirror

LEMMA ChooseMirror == DupInv /\ Mirror /\ Choose => Mirror'
<1> SUFFICES ASSUME DupInv, Mirror, Choose PROVE Mirror'
  OBVIOUS
<1>1. /\ F' = F /\ UNCHANGED <<code, valueToPhi, at>> /\ targets = Unchosen
      /\ todo' = Targets /\ DOMAIN targets' = Targets
      /\ \A b \in Targets : b \in F.blocks /\ targets'[b] \in result[b]
  BY DEF Choose, vars, Targets
<1>2. at = Idle /\ \A b \in F.blocks : ~HasTail(b)
  BY <1>1 DEF DupInv, Structure, Coming
<1>3. \A b : Size(b)' = Size(b) /\ Work(b)' = Work(b)
  BY <1>1, SameSource
<1>4. \A b : Done(b)' = Done(b)
  BY <1>1, <1>3 DEF Done, Passed, InWork
<1>5. /\ Replacements' /\ \A b : HasTail(b)' = HasTail(b)
      /\ \A y, e : LikePhi(y, e)' = LikePhi(y, e)
  BY <1>1, <1>4, SameWords DEF Mirror
<1>6. Chosen'
  <2>1. \A b \in F.blocks : result[b] \subseteq ReachingValues(F, b)
    BY DEF DupInv, RIVInv, Sound
  <2>2. \A b : ReachingValues(F, b)' = ReachingValues(F, b)
    BY <1>1 DEF ReachingValues
  <2> QED
    BY <1>1, <2>1, <2>2 DEF Chosen
<1>7. WholeBlocks'
  <2>1. \A b : WholeMirrored(b)' = WholeMirrored(b)
    BY <1>1, <1>5 DEF WholeMirrored
  <2> QED
    BY <1>1, <1>2, <1>5, <2>1 DEF Mirror, WholeBlocks
<1>8. Heads' /\ BothCopies' /\ ClosedTails' /\ OpenTail'
  BY <1>1, <1>2, <1>5 DEF Heads, BothCopies, ClosedTails, OpenTail
<1> QED
  BY <1>5, <1>6, <1>7, <1>8 DEF Mirror

(***************************************************************************)
(* The beginning of a target.                                              *)
(***************************************************************************)
\* The phis of a list like the source's are those of the source.
LEMMA SamePhis ==
  ASSUME NEW s, NEW t, Len(s) = Len(t), Len(s) \in Nat,
         \A i \in 1 .. Len(s) : s[i].kind = t[i].kind
  PROVE  FirstNonPHI(s) = FirstNonPHI(t)
<1> DEFINE S(q) == {i \in 1 .. Len(q) + 1 : i <= Len(q) => ~IsPhi(q[i])}
<1>1. \A i \in 1 .. Len(s) + 1 : (i <= Len(s) => ~IsPhi(s[i])) <=> (i <= Len(t) => ~IsPhi(t[i]))
  BY DEF IsPhi
<1>2. S(s) = S(t)
  BY <1>1
<1> QED
  BY <1>2, Zenon DEF FirstNonPHI

\* A phi that does not name a block keeps its sources.
LEMMA SourcesStay ==
  ASSUME NEW inst \in Made, NEW old, NEW new, \A i \in DOMAIN inst.from : inst.from[i] # old
  PROVE  NewSources(inst, old, new).from = inst.from
<1>1. inst.from \in Seq(Names)
  BY DEF Made
<1>2. [i \in DOMAIN inst.from |-> IF inst.from[i] = old THEN new ELSE inst.from[i]] = inst.from
  BY <1>1
<1>3. inst = [inst EXCEPT !.from = @] /\ "from" \in DOMAIN inst
  BY DEF Made
<1> QED
  BY <1>2, <1>3 DEF NewSources

LEMMA PhiForMoved ==
  ASSUME NEW b \in F.blocks, NEW c \in F.blocks, NEW y \in Made, NEW e, PhiFor(y, c, e)
  PROVE  PhiFor(NewSources(y, Original(b), TailOf(b)), c, e)
<1> DEFINE z == NewSources(y, Original(b), TailOf(b))
<1>1. y.from = <<ThenOf(c), ElseOf(c)>>
  BY DEF PhiFor
<1>2. \A i \in DOMAIN y.from : y.from[i] # Original(b)
  BY <1>1, NamesDiffer
<1>3. Original(b) \in Names /\ TailOf(b) \in Names
  BY DEF Names, Parts, Original, TailOf, Block
<1>4. z.id = y.id /\ z.kind = y.kind /\ z.ops = y.ops /\ z.from = y.from
  BY <1>2, <1>3, NewSourcesKeep, SourcesStay
<1> QED
  BY <1>4 DEF PhiFor

\* What changes for the mirror when a target is split.
LEMMA SplitFrame ==
  ASSUME DupInv, NEW b \in todo, Split(b)
  PROVE  /\ b \in F.blocks /\ CodeSound(F) /\ ~HasTail(b) /\ ~InWork(b)
         /\ F' = F /\ UNCHANGED <<targets, todo, valueToPhi>>
         /\ \A c \in F.blocks : /\ HasTail(c)' <=> HasTail(c) \/ c = b
                                /\ ~InWork(c) /\ (InWork(c)' <=> c = b)
                                /\ c # b => Done(c)' = Done(c)
         /\ Done(b)' = 0
         /\ \A v : M(v)' = M(v)
         /\ \A y, e : Like(y, e)' = Like(y, e)
         /\ \A c \in F.blocks : EndOf(Original(c))' = IF c = b THEN TailOf(b) ELSE EndOf(Original(c))
<1>1. /\ b \in F.blocks /\ at = Idle /\ ~HasTail(b)
      /\ DOMAIN code' = DOMAIN code \cup {TailOf(b), ThenOf(b), ElseOf(b)}
      /\ at' = [b |-> b, k |-> 1, thenVMap |-> <<>>, elseVMap |-> <<>>, freeList |-> {}]
      /\ UNCHANGED <<vars, targets, todo, valueToPhi>>
  BY SplitBlocks
<1>2. F' = F /\ CodeSound(F)
  BY <1>1 DEF vars, DupInv, Structure, CodeTyped
<1>3. at' # Idle /\ at'.b = b /\ at'.k = 1
  BY <1>1, Working
<1>4. \A c \in F.blocks : HasTail(c)' <=> HasTail(c) \/ c = b
  BY <1>1, NamesDiffer DEF HasTail
<1>5. \A c \in F.blocks : ~InWork(c) /\ (InWork(c)' <=> c = b)
  BY <1>1, <1>3 DEF InWork
<1>6. \A c : Size(c)' = Size(c) /\ Work(c)' = Work(c)
  BY <1>2, SameSource
<1>7. \A c \in F.blocks : c # b => Done(c)' = Done(c)
  BY <1>5, <1>6 DEF Done, Passed
<1>8. Done(b)' = 0
  <2>1. Work(b) \in Nat
    BY <1>1, <1>2, SourceBody
  <2> QED
    BY <1>1, <1>3, <1>5, <1>6, <2>1 DEF Done, Passed
<1>9. \A v : M(v)' = M(v)
  BY <1>1 DEF M
<1>10. \A y, e : Like(y, e)' = Like(y, e)
  BY <1>9 DEF Like
<1>11. ASSUME NEW c \in F.blocks
       PROVE  EndOf(Original(c))' = IF c = b THEN TailOf(b) ELSE EndOf(Original(c))
  <2>1. Original(c)[2] = c
    BY DEF Original
  <2> QED
    BY <1>1, <1>4, <2>1, Zenon DEF EndOf, HasTail
<1> QED
  BY <1>1, <1>2, <1>4, <1>5, <1>7, <1>8, <1>9, <1>10, <1>11

\* A phi of the source goes on naming the ends of its sources.
LEMMA MovedLike ==
  ASSUME DupInv, NEW b \in todo, Split(b), NEW y \in Made, NEW e, LikePhi(y, e),
         \A j \in DOMAIN e.from : \E p \in F.blocks : e.from[j] = Original(p),
         NEW z, z = NewSources(y, Original(b), TailOf(b))
  PROVE  LikePhi(z, e)'
<1>1. /\ b \in F.blocks /\ ~HasTail(b)
      /\ \A v, w : Like(v, w)' = Like(v, w)
      /\ \A p \in F.blocks : EndOf(Original(p))' = IF p = b THEN TailOf(b) ELSE EndOf(Original(p))
  BY SplitFrame
<1>3. Original(b) \in Names /\ TailOf(b) \in Names
  BY <1>1 DEF Names, Parts, Original, TailOf, Block
<1>4. z.id = y.id /\ z.kind = y.kind /\ z.ops = y.ops /\ "from" \in DOMAIN y
  BY <1>3, NewSourcesKeep DEF Made
<1>5. z.from = [j \in DOMAIN y.from |-> IF y.from[j] = Original(b) THEN TailOf(b) ELSE y.from[j]]
  BY <1>4 DEF NewSources
<1>6. Like(z, e)'
  <2>1. Like(z, e)
    BY <1>4 DEF LikePhi, Like
  <2> QED
    BY <1>1, <2>1
<1>7. y.from = [j \in DOMAIN e.from |-> EndOf(e.from[j])]
  BY DEF LikePhi
<1>8. ASSUME NEW j \in DOMAIN e.from
      PROVE  (IF y.from[j] = Original(b) THEN TailOf(b) ELSE y.from[j]) = EndOf(e.from[j])'
  <2>1. PICK p \in F.blocks : e.from[j] = Original(p)
    OBVIOUS
  <2>2. y.from[j] = EndOf(Original(p))
    BY <1>7, <2>1
  <2>3. EndOf(Original(p)) = IF HasTail(p) THEN TailOf(p) ELSE Original(p)
    BY DEF EndOf, HasTail, Original
  <2>4. EndOf(Original(p)) = Original(b) <=> p = b
    BY <1>1, <2>3, NamesDiffer
  <2>5. EndOf(e.from[j])' = EndOf(Original(p))'
    BY <2>1
  <2> QED
    BY <1>1, <2>2, <2>4, <2>5
<1>9. z.from = [j \in DOMAIN e.from |-> EndOf(e.from[j])']
  BY <1>5, <1>7, <1>8
<1> QED
  BY <1>6, <1>9 DEF LikePhi

\* A block that is not the target keeps all but the names of its sources.
LEMMA SplitElsewhere ==
  ASSUME DupInv, NEW b \in todo, Split(b), NEW x \in DOMAIN code \ {Original(b)}
  PROVE  /\ code[x] \in Seq(Made) /\ Len(code'[x]) = Len(code[x]) /\ Len(code[x]) \in Nat
         /\ \A i \in 1 .. Len(code[x]) :
              /\ code[x][i] \in Made
              /\ code'[x][i] = NewSources(code[x][i], Original(b), TailOf(b))
              /\ code'[x][i].id = code[x][i].id /\ code'[x][i].kind = code[x][i].kind
              /\ code'[x][i].ops = code[x][i].ops
<1>1. b \in F.blocks /\ code \in [DOMAIN code -> Seq(Made)]
  BY SplitFrame DEF DupInv, Structure, CodeTyped
<1>2. code[x] \in Seq(Made) /\ Len(code[x]) \in Nat /\ DOMAIN code[x] = 1 .. Len(code[x])
  BY <1>1
<1>3. /\ Len(code'[x]) = Len(code[x])
      /\ \A i \in DOMAIN code[x] : code'[x][i] = NewSources(code[x][i], Original(b), TailOf(b))
  BY SplitInsts
<1>4. Original(b) \in Names /\ TailOf(b) \in Names
  BY <1>1 DEF Names, Parts, Original, TailOf, Block
<1>5. \A i \in 1 .. Len(code[x]) : code[x][i] \in Made
  BY <1>2
<1> QED
  BY <1>2, <1>3, <1>4, <1>5, NewSourcesKeep

\* Everything but a phi's sources stays what it was for a block elsewhere.
LEMMA SplitCopies ==
  ASSUME DupInv, NEW b \in todo, Split(b), NEW c \in F.blocks, c # b, HasTail(c),
         NEW part \in {"then", "else"}, CopyMirrored(part, c)
  PROVE  CopyMirrored(part, c)'
<1>1. /\ F' = F /\ \A v : M(v)' = M(v)
      /\ Done(c)' = Done(c)
  BY SplitFrame
<1>2. \A a, i : Body(a, i)' = Body(a, i)
  BY <1>1, SameSource
<1>3. Block(part, c) \in DOMAIN code \ {Original(b)}
  BY NamesDiffer DEF DupInv, Structure, CodeTyped, ThenOf, ElseOf
<1> DEFINE x == Block(part, c)
<1>4. /\ Len(code'[x]) = Len(code[x])
      /\ \A i \in 1 .. Len(code[x]) :
              /\ code'[x][i].id = code[x][i].id /\ code'[x][i].kind = code[x][i].kind
              /\ code'[x][i].ops = code[x][i].ops
  BY <1>3, SplitElsewhere
<1>5. /\ Len(code[x]) = Done(c)
      /\ \A i \in 1 .. Len(code[x]) : CopyOf(part, c, i, code[x][i])
  BY DEF CopyMirrored
<1> HIDE DEF x
<1>6. x' = x
  BY DEF x
<1>7. \A i, v : InCopy(part, c, i, v)' = InCopy(part, c, i, v)
  BY <1>1, <1>2 DEF InCopy, Above
<1>8. ASSUME NEW i \in 1 .. Len(code[x]) PROVE CopyOf(part, c, i, code[x][i])'
  <2>1. CopyOf(part, c, i, code'[x][i])
    BY <1>4, <1>5 DEF CopyOf
  <2>2. ASSUME NEW y PROVE CopyOf(part, c, i, y)' = CopyOf(part, c, i, y)
    BY <1>2, <1>7 DEF CopyOf
  <2> QED
    BY <1>6, <2>1, <2>2
<1> QED
  BY <1>1, <1>4, <1>5, <1>6, <1>8 DEF CopyMirrored, x

LEMMA SplitTails ==
  ASSUME DupInv, NEW b \in todo, Split(b), NEW c \in F.blocks, c # b, HasTail(c), TailMirrored(c)
  PROVE  TailMirrored(c)'
<1> DEFINE t == code[TailOf(c)]
           u == code'[TailOf(c)]
<1>1. /\ F' = F /\ b \in F.blocks /\ \A y, e : Like(y, e)' = Like(y, e)
  BY SplitFrame
<1>2. /\ Size(c)' = Size(c) /\ Work(c)' = Work(c) /\ Branches(c)' = Branches(c)
      /\ \A i : Body(c, i)' = Body(c, i)
  BY <1>1, SameSource
<1>3. TailOf(c) \in DOMAIN code \ {Original(b)}
  BY NamesDiffer DEF HasTail
<1>4. /\ Len(u) = Len(t) /\ Len(t) \in Nat /\ t \in Seq(Made) /\ code[TailOf(c)] \in Seq(Made)
      /\ \A i \in 1 .. Len(t) :
              /\ t[i] \in Made /\ u[i] = NewSources(t[i], Original(b), TailOf(b))
              /\ u[i].id = t[i].id /\ u[i].kind = t[i].kind /\ u[i].ops = t[i].ops
  BY <1>3, SplitElsewhere
<1>5. /\ \A i \in 1 .. Len(t) :
          \/ \E l \in 1 .. Work(c) : Body(c, l).kind # "void" /\ PhiFor(t[i], c, Body(c, l))
          \/ Branches(c) /\ i = Len(t) /\ Like(t[i], Body(c, Size(c)))
      /\ \A l \in 1 .. Work(c) :
           Body(c, l).kind # "void" => \E i \in 1 .. Len(t) : PhiFor(t[i], c, Body(c, l))
      /\ Branches(c) => t # <<>> /\ Like(t[Len(t)], Body(c, Size(c)))
  BY DEF TailMirrored
<1> HIDE DEF t, u
<1>6. \A i \in 1 .. Len(t) : \A e : PhiFor(t[i], c, e) => PhiFor(u[i], c, e)
  BY <1>1, <1>4, PhiForMoved
<1>7. \A i \in 1 .. Len(t) : \A e : Like(t[i], e) => Like(u[i], e)
  BY <1>4 DEF Like
<1>8. /\ \A i \in 1 .. Len(u) :
          \/ \E l \in 1 .. Work(c) : Body(c, l).kind # "void" /\ PhiFor(u[i], c, Body(c, l))
          \/ Branches(c) /\ i = Len(u) /\ Like(u[i], Body(c, Size(c)))
      /\ \A l \in 1 .. Work(c) :
           Body(c, l).kind # "void" => \E i \in 1 .. Len(u) : PhiFor(u[i], c, Body(c, l))
      /\ Branches(c) => u # <<>> /\ Like(u[Len(u)], Body(c, Size(c)))
  <2>1. Branches(c) => Len(t) \in 1 .. Len(t)
    BY <1>4, <1>5
  <2>2. Branches(c) => u # <<>>
    BY <1>4, <1>5
  <2> QED
    BY <1>4, <1>5, <1>6, <1>7, <2>1, <2>2
<1> QED
  BY <1>1, <1>2, <1>8 DEF TailMirrored, u

\* The target itself: where its phis end, and what goes to the tail.
LEMMA SplitTarget ==
  ASSUME DupInv, Mirror, NEW b \in todo, Split(b)
  PROVE  LET head == code'[Original(b)]
             tail == code'[TailOf(b)]
         IN /\ Len(head) = Phis(b) + 1 /\ head[Phis(b) + 1] = Test(b)
            /\ \A i \in 1 .. Phis(b) : LikePhi(code[Original(b)][i], F.code[b][i])'
            /\ Len(tail) = Size(b)
            /\ \A i \in 1 .. Size(b) : Like(tail[i], Body(b, i))
<1> DEFINE s == code[Original(b)]
           n == Phis(b) + 1
           front == FrontOf(b)
<1>0. F' = F
  BY SplitFrame
<1>1. b \in F.blocks /\ CodeSound(F) /\ ~HasTail(b) /\ s \in Seq(Made)
  BY SplitFrame DEF DupInv, Structure, CodeTyped
<1>2. /\ Len(s) = Len(F.code[b]) /\ Len(s) \in Nat /\ DOMAIN s = 1 .. Len(s)
      /\ \A i \in 1 .. Len(s) : LikePhi(s[i], F.code[b][i])
  BY <1>1 DEF Mirror, WholeBlocks, WholeMirrored
<1>3. /\ Phis(b) \in Nat /\ Size(b) \in Nat /\ Len(F.code[b]) = Phis(b) + Size(b)
      /\ DOMAIN F.code[b] = 1 .. Len(F.code[b])
  BY <1>1, SourceBody
<1>4. FirstNonPHI(s) = n
  <2>1. \A i \in 1 .. Len(s) : s[i].kind = F.code[b][i].kind
    BY <1>2 DEF LikePhi, Like
  <2>2. FirstNonPHI(s) = FirstNonPHI(F.code[b])
    BY <1>2, <2>1, SamePhis
  <2>3. FirstNonPHI(F.code[b]) \in Int
    <3>1. F.code[b] \in Seq(Instructions(F))
      BY <1>1, SourceBody
    <3>2. Len(F.code[b]) \in Nat
      BY <1>2
    <3> QED
      BY <3>1, <3>2, FirstNonPHIPlace
  <2> QED
    BY <2>2, <2>3 DEF Phis
<1>5. front = SubSeq(s, 1, n - 1) /\ Rest(b) = SubSeq(s, n, Len(s))
  BY <1>4 DEF FrontOf, Rest
<1>6. /\ code'[Original(b)] = Append(Moved(front, Original(b), TailOf(b)), Test(b))
      /\ code'[TailOf(b)] = Rest(b) /\ {Original(b), TailOf(b)} \subseteq Names
  BY SplitBlocks
<1>7. Test(b) \in Made
  BY SplitInsts
<1> HIDE DEF s, front
<1>8. n \in 1 .. Len(s) + 1 /\ n - 1 = Phis(b)
  BY <1>2, <1>3
<1> HIDE DEF n
<1>9. /\ front \in Seq(Made) /\ Len(front) = n - 1 /\ DOMAIN front = 1 .. n - 1
      /\ \A i \in 1 .. n - 1 : front[i] = s[i] /\ i \in DOMAIN s
      /\ Rest(b) \in Seq(Made) /\ Len(Rest(b)) = Len(s) - (n - 1)
      /\ DOMAIN Rest(b) = 1 .. Len(s) - (n - 1)
      /\ \A i \in DOMAIN Rest(b) : Rest(b)[i] = s[n - 1 + i] /\ n - 1 + i \in n .. Len(s)
  BY <1>1, <1>5, <1>8, CutSeq
<1> DEFINE m == Moved(front, Original(b), TailOf(b))
<1>10. /\ m \in Seq(Made) /\ Len(m) = Len(front)
       /\ \A i \in DOMAIN front : m[i] = NewSources(front[i], Original(b), TailOf(b))
  BY <1>6, <1>9, MovedSeq
<1>11. DOMAIN m = 1 .. Phis(b) /\ Len(m) = Phis(b)
  BY <1>3, <1>8, <1>9, <1>10
<1> HIDE DEF m
<1>12. /\ code'[Original(b)] = Append(m, Test(b))
       /\ Len(Append(m, Test(b))) = Phis(b) + 1 /\ Append(m, Test(b))[Phis(b) + 1] = Test(b)
       /\ \A i \in 1 .. Phis(b) : Append(m, Test(b))[i] = m[i]
  BY <1>6, <1>7, <1>10, <1>11, AppendElems DEF m
<1>13. ASSUME NEW i \in 1 .. Phis(b) PROVE LikePhi(code[Original(b)][i], F.code[b][i])'
  <2>1. i \in DOMAIN s /\ front[i] = s[i] /\ m[i] = NewSources(s[i], Original(b), TailOf(b))
    BY <1>3, <1>8, <1>9, <1>10
  <2>2. LikePhi(s[i], F.code[b][i]) /\ s[i] \in Made /\ i \in DOMAIN F.code[b]
    BY <1>1, <1>2, <1>3, <2>1 DEF s
  <2>3. \A j \in DOMAIN F.code[b][i].from : \E p \in F.blocks : F.code[b][i].from[j] = Original(p)
    BY <1>1, <2>2, SourceInst
  <2>4. \A z, e : z = m[i] /\ e = F.code[b][i] => LikePhi(z, e)'
    <3> SUFFICES ASSUME NEW z, NEW e, NEW y \in Made, y = s[i], e = F.code[b][i],
                        z = NewSources(y, Original(b), TailOf(b))
                 PROVE  LikePhi(z, e)'
      BY <2>1, <2>2
    <3> QED
      BY <2>1, <2>2, <2>3, MovedLike
  <2>5. code'[Original(b)][i] = m[i]
    BY <1>6, <1>12
  <2>6. (F.code[b][i])' = F.code[b][i] /\ (code[Original(b)][i])' = m[i]
    BY <1>0, <2>5
  <2> QED
    BY <2>4, <2>6
<1>14. /\ Phis(b) \in Nat /\ Size(b) \in Nat
       /\ Len(s) = Phis(b) + Size(b) /\ Len(s) - (n - 1) = Size(b)
  <2>1. Phis(b) \in Nat /\ Size(b) \in Nat /\ Len(s) = Phis(b) + Size(b)
    BY <1>2, <1>3
  <2>2. n - 1 = Phis(b)
    BY <1>8
  <2> QED
    BY <2>1, <2>2
<1>15. ASSUME NEW i \in 1 .. Size(b) PROVE Like(Rest(b)[i], Body(b, i))
  <2>1. Phis(b) + i \in 1 .. Len(s)
    BY <1>14
  <2>2. i \in DOMAIN Rest(b) /\ Rest(b)[i] = s[Phis(b) + i]
    BY <1>8, <1>9, <1>14
  <2>3. LikePhi(s[Phis(b) + i], F.code[b][Phis(b) + i])
    BY <1>2, <2>1
  <2> QED
    BY <2>2, <2>3 DEF LikePhi, Body
<1>16. Len(Rest(b)) = Size(b)
  BY <1>9, <1>14
<1> QED
  BY <1>6, <1>12, <1>13, <1>15, <1>16 DEF m

LEMMA SplitMirror == DupInv /\ Mirror /\ (\E b \in todo : Split(b)) => Mirror'
<1> SUFFICES ASSUME DupInv, Mirror, NEW b \in todo, Split(b) PROVE Mirror'
  OBVIOUS
<1>1. /\ b \in F.blocks /\ CodeSound(F) /\ ~HasTail(b) /\ ~InWork(b)
      /\ F' = F /\ UNCHANGED <<targets, todo, valueToPhi>>
      /\ \A c \in F.blocks : /\ HasTail(c)' <=> HasTail(c) \/ c = b
                             /\ ~InWork(c) /\ (InWork(c)' <=> c = b)
                             /\ c # b => Done(c)' = Done(c)
      /\ Done(b)' = 0
      /\ \A v : M(v)' = M(v)
      /\ \A y, e : Like(y, e)' = Like(y, e)
  BY SplitFrame
<1>2. /\ \A c : /\ Phis(c)' = Phis(c) /\ Size(c)' = Size(c) /\ Work(c)' = Work(c)
                /\ Branches(c)' = Branches(c)
      /\ \A c, i : Body(c, i)' = Body(c, i) /\ KeyOf(c, i)' = KeyOf(c, i)
  BY <1>1, SameSource
<1>3. /\ code'[ThenOf(b)] = <<>> /\ code'[ElseOf(b)] = <<>> /\ code'[TailOf(b)] = Rest(b)
      /\ at' = [b |-> b, k |-> 1, thenVMap |-> <<>>, elseVMap |-> <<>>, freeList |-> {}]
  BY SplitBlocks
<1>4. /\ at'.b = b /\ at'.k = 1 /\ at' # Idle /\ at'.thenVMap = <<>> /\ at'.elseVMap = <<>>
      /\ at'.freeList = {}
  BY <1>3, Working
<1>5. /\ Replacements /\ Chosen /\ WholeBlocks /\ Heads /\ BothCopies /\ ClosedTails
  BY DEF Mirror
<1>6. Replacements'
  <2>1. ASSUME NEW v \in DOMAIN valueToPhi PROVE Replaced(v)'
    <3>1. PICK c \in F.blocks : /\ HasTail(c)
                                /\ \E i \in 1 .. Done(c) : Body(c, i).kind # "void" /\ v = Body(c, i).id
      BY <1>5 DEF Replacements, Replaced
    <3>2. HasTail(c)' /\ Done(c)' = Done(c)
      BY <1>1, <3>1
    <3> QED
      BY <1>1, <1>2, <3>1, <3>2 DEF Replaced
  <2>2. ASSUME NEW c \in F.blocks, HasTail(c)', NEW i \in 1 .. Done(c)', Body(c, i).kind # "void"
        PROVE  Body(c, i).id \in DOMAIN valueToPhi
    <3>1. c # b
      BY <1>1, <2>2
    <3> QED
      BY <1>1, <1>5, <2>2, <3>1 DEF Replacements
  <2> QED
    BY <1>1, <1>2, <1>5, <2>1, <2>2 DEF Replacements
<1>7. Chosen'
  BY <1>1, <1>5 DEF Chosen, ReachingValues
<1>8. WholeBlocks'
  <2> SUFFICES ASSUME NEW c \in F.blocks, ~HasTail(c)' PROVE WholeMirrored(c)'
    BY <1>1 DEF WholeBlocks
  <2>1. c # b /\ WholeMirrored(c)
    BY <1>1, <1>5 DEF WholeBlocks
  <2> DEFINE x == Original(c)
  <2>2. x \in DOMAIN code \ {Original(b)}
    BY <2>1, NamesDiffer DEF DupInv, Structure, CodeTyped
  <2>3. /\ Len(code'[x]) = Len(code[x]) /\ Len(code[x]) \in Nat
        /\ \A i \in 1 .. Len(code[x]) :
             code[x][i] \in Made /\ code'[x][i] = NewSources(code[x][i], Original(b), TailOf(b))
    BY <2>2, SplitElsewhere
  <2>4. /\ Len(code[x]) = Len(F.code[c])
        /\ \A i \in 1 .. Len(code[x]) : LikePhi(code[x][i], F.code[c][i])
    BY <2>1 DEF WholeMirrored
  <2>5. ASSUME NEW i \in 1 .. Len(code[x]) PROVE LikePhi(code[x][i], F.code[c][i])'
    <3>1. i \in DOMAIN F.code[c]
      BY <1>1, <2>4, SourceBody
    <3>2. \A j \in DOMAIN F.code[c][i].from : \E p \in F.blocks : F.code[c][i].from[j] = Original(p)
      BY <1>1, <3>1, SourceInst
    <3>3. \A z, e : z = NewSources(code[x][i], Original(b), TailOf(b)) /\ e = F.code[c][i] => LikePhi(z, e)'
      <4> SUFFICES ASSUME NEW z, NEW e, NEW y \in Made, y = code[x][i], e = F.code[c][i],
                          z = NewSources(y, Original(b), TailOf(b))
                   PROVE  LikePhi(z, e)'
        BY <2>3
      <4> QED
        BY <2>4, <3>2, MovedLike
    <3>4. /\ (F.code[c][i])' = F.code[c][i]
          /\ (code[x][i])' = NewSources(code[x][i], Original(b), TailOf(b))
      BY <1>1, <2>3
    <3> QED
      BY <3>3, <3>4
  <2>6. x' = x
    OBVIOUS
  <2> HIDE DEF x
  <2> QED
    BY <1>1, <2>3, <2>4, <2>5, <2>6 DEF WholeMirrored, x
<1>9. Heads'
  <2> SUFFICES ASSUME NEW c \in F.blocks, HasTail(c)' PROVE c \in DOMAIN targets /\ HeadMirrored(c)'
    BY <1>1 DEF Heads
  <2> DEFINE x == Original(c)
  <2>1. CASE c = b
    <3>1. /\ Len(code'[Original(b)]) = Phis(b) + 1 /\ code'[Original(b)][Phis(b) + 1] = Test(b)
          /\ \A i \in 1 .. Phis(b) : LikePhi(code[Original(b)][i], F.code[b][i])'
      BY SplitTarget
    <3>2. Test(b).id = <<"cond", b, 0>> /\ Test(b).kind = "isnull" /\ Test(b).ops = <<M(targets[b])>>
      BY DEF Test, Checked, M
    <3>3. b \in DOMAIN targets
      BY <1>5 DEF Chosen
    <3> QED
      BY <1>1, <1>2, <2>1, <3>1, <3>2, <3>3 DEF HeadMirrored
  <2>2. CASE c # b
    <3>1. HasTail(c) /\ HeadMirrored(c) /\ c \in DOMAIN targets
      BY <1>1, <1>5, <2>2 DEF Heads
    <3>2. x \in DOMAIN code \ {Original(b)}
      BY <2>2, NamesDiffer DEF DupInv, Structure, CodeTyped
    <3>3. /\ Len(code'[x]) = Len(code[x]) /\ Len(code[x]) \in Nat
          /\ \A i \in 1 .. Len(code[x]) :
               /\ code[x][i] \in Made /\ code'[x][i] = NewSources(code[x][i], Original(b), TailOf(b))
               /\ code'[x][i].id = code[x][i].id /\ code'[x][i].kind = code[x][i].kind
               /\ code'[x][i].ops = code[x][i].ops
      BY <3>2, SplitElsewhere
    <3>4. /\ Len(code[x]) = Phis(c) + 1
          /\ \A i \in 1 .. Phis(c) : LikePhi(code[x][i], F.code[c][i])
          /\ code[x][Phis(c) + 1].id = <<"cond", c, 0>> /\ code[x][Phis(c) + 1].kind = "isnull"
          /\ code[x][Phis(c) + 1].ops = <<M(targets[c])>>
      BY <3>1 DEF HeadMirrored
    <3>5. Phis(c) \in Nat /\ \A i \in 1 .. Phis(c) : i \in DOMAIN F.code[c]
      BY <1>1, SourceBody
    <3>6. ASSUME NEW i \in 1 .. Phis(c) PROVE LikePhi(code[x][i], F.code[c][i])'
      <4>1. i \in DOMAIN F.code[c] /\ i \in 1 .. Len(code[x])
        BY <3>4, <3>5
      <4>2. \A j \in DOMAIN F.code[c][i].from : \E p \in F.blocks : F.code[c][i].from[j] = Original(p)
        BY <1>1, <4>1, SourceInst
      <4>3. \A z, e : z = NewSources(code[x][i], Original(b), TailOf(b)) /\ e = F.code[c][i] => LikePhi(z, e)'
        <5> SUFFICES ASSUME NEW z, NEW e, NEW y \in Made, y = code[x][i], e = F.code[c][i],
                            z = NewSources(y, Original(b), TailOf(b))
                     PROVE  LikePhi(z, e)'
          BY <3>3, <4>1
        <5> QED
          BY <3>4, <4>2, MovedLike
      <4>4. /\ (F.code[c][i])' = F.code[c][i]
            /\ (code[x][i])' = NewSources(code[x][i], Original(b), TailOf(b))
        BY <1>1, <3>3, <4>1
      <4> QED
        BY <4>3, <4>4
    <3>7. Phis(c) + 1 \in 1 .. Len(code[x])
      BY <3>4, <3>5
    <3>8. x' = x
      OBVIOUS
    <3> HIDE DEF x
    <3>9. /\ code'[x][Phis(c) + 1].id = <<"cond", c, 0>> /\ code'[x][Phis(c) + 1].kind = "isnull"
          /\ code'[x][Phis(c) + 1].ops = <<M(targets[c])>>
      BY <3>3, <3>4, <3>7
    <3> QED
      BY <1>1, <1>2, <3>1, <3>3, <3>4, <3>6, <3>8, <3>9 DEF HeadMirrored, x
  <2> QED
    BY <2>1, <2>2
<1>10. BothCopies'
  <2> SUFFICES ASSUME NEW c \in F.blocks, HasTail(c)'
               PROVE  CopyMirrored("then", c)' /\ CopyMirrored("else", c)'
    BY <1>1 DEF BothCopies
  <2>1. CASE c = b
    BY <1>1, <1>3, <2>1 DEF CopyMirrored, ThenOf, ElseOf
  <2>2. CASE c # b
    <3>1. HasTail(c) /\ CopyMirrored("then", c) /\ CopyMirrored("else", c)
      BY <1>1, <1>5, <2>2 DEF BothCopies
    <3> QED
      BY <2>2, <3>1, SplitCopies
  <2> QED
    BY <2>1, <2>2
<1>11. ClosedTails'
  <2> SUFFICES ASSUME NEW c \in F.blocks, HasTail(c)', ~InWork(c)' PROVE TailMirrored(c)'
    BY <1>1 DEF ClosedTails
  <2>1. c # b /\ HasTail(c) /\ TailMirrored(c)
    BY <1>1, <1>5 DEF ClosedTails
  <2> QED
    BY <2>1, SplitTails
<1>12. OpenTail'
  <2>1. /\ Len(Rest(b)) = Size(b) /\ Size(b) \in Nat
        /\ \A i \in 1 .. Size(b) : Like(Rest(b)[i], Body(b, i))
    BY <1>1, <1>3, SplitTarget, SourceBody
  <2>2. \A i \in 1 .. Size(b) : ~(i <= 0)
    BY <2>1
  <2>3. \A i \in 1 .. Size(b) : Like(code[TailOf(b)][i], Body(b, i))'
    BY <1>1, <1>2, <1>3, <2>1
  <2>4. OpenTailMirrored(b)'
    BY <1>1, <1>2, <1>3, <1>4, <2>1, <2>2, <2>3 DEF OpenTailMirrored
  <2>5. MapMirrored("then", at.thenVMap, at.b)' /\ MapMirrored("else", at.elseVMap, at.b)'
    BY <1>1, <1>4 DEF MapMirrored
  <2> QED
    BY <1>4, <2>4, <2>5 DEF OpenTail
<1> QED
  BY <1>6, <1>7, <1>8, <1>9, <1>10, <1>11, <1>12 DEF Mirror

(***************************************************************************)
(* The end of a target.                                                    *)
(***************************************************************************)
\* The last place taken is the last of a list's.
LEMMA LastNth ==
  ASSUME NEW n \in Nat, NEW S \in SUBSET (1 .. n), n \in S
  PROVE  /\ Cardinality(S) \in Nat \ {0}
         /\ \A k \in 1 .. Cardinality(S) : Nth(S, k) = n <=> k = Cardinality(S)
<1>1. /\ IsFiniteSet(S) /\ Cardinality(S) \in Nat /\ Cardinality(Below(S, n)) \in Nat
  BY BelowFinite
<1>2. Below(S, n) = S \ {n}
  <2>1. \A j \in S : j \in 1 .. n
    OBVIOUS
  <2>2. \A j \in 1 .. n : j < n <=> j # n
    OBVIOUS
  <2> QED
    BY <2>1, <2>2 DEF Below
<1>3. Cardinality(S \ {n}) = Cardinality(S) - 1
  BY <1>1, FS_RemoveElement
<1>4. ASSUME NEW k \in 1 .. Cardinality(S) PROVE Nth(S, k) = n <=> k = Cardinality(S)
  <2>1. Nth(S, k) \in S /\ Cardinality(Below(S, Nth(S, k))) = k - 1
    BY NthPlace
  <2>2. ASSUME Nth(S, k) # n PROVE k # Cardinality(S)
    <3>1. Nth(S, k) \in 1 .. n /\ Nth(S, k) < n /\ n \in 1 .. n
      <4>1. \A j \in S : j \in 1 .. n
        OBVIOUS
      <4>2. \A i \in 1 .. n : i # n => i < n
        OBVIOUS
      <4> QED
        BY <2>1, <2>2, <4>1, <4>2, Zenon
    <3>2. Cardinality(Below(S, Nth(S, k))) < Cardinality(Below(S, n))
      BY <2>1, <3>1, RankGrows
    <3> QED
      BY <1>1, <1>2, <1>3, <2>1, <3>2
  <2> QED
    BY <1>1, <1>2, <1>3, <2>1, <2>2
<1> QED
  BY <1>1, <1>2, <1>3, <1>4

\* The tail without its void instructions.
LEMMA FinishTail ==
  ASSUME DupInv, Mirror, Finish
  PROVE  LET t == code[TheTail]
             u == code'[TheTail]
             b == at.b
         IN /\ Passed(b) = Size(b) /\ Done(b) = Work(b)
            /\ \A i \in 1 .. Len(u) :
                 \/ \E l \in 1 .. Work(b) : Body(b, l).kind # "void" /\ PhiFor(u[i], b, Body(b, l))
                 \/ Branches(b) /\ i = Len(u) /\ Like(u[i], Body(b, Size(b)))
            /\ \A l \in 1 .. Work(b) :
                 Body(b, l).kind # "void" => \E i \in 1 .. Len(u) : PhiFor(u[i], b, Body(b, l))
            /\ Branches(b) => u # <<>> /\ Like(u[Len(u)], Body(b, Size(b)))
<1> DEFINE t == code[TheTail]
           u == code'[TheTail]
           b == at.b
           S == DOMAIN t \ at.freeList
<1>1. /\ at # Idle /\ b \in F.blocks /\ CodeSound(F) /\ t \in Seq(Made) /\ at.k \in Nat
      /\ TheTail \in DOMAIN code /\ HasTail(b)
  BY FinishStep DEF DupInv, Structure, CodeTyped, InTail, HasTail, TheTail
<1>2. at.k > Len(t)
  BY DEF Finish, TheTail, TailOf
<1>3. /\ Len(t) = Size(b) /\ at.k <= Size(b) + 1
      /\ \A i \in 1 .. Len(t) :
           IF i <= Done(b) /\ Body(b, i).kind # "void" THEN PhiFor(t[i], b, Body(b, i))
           ELSE Like(t[i], Body(b, i))
      /\ at.freeList = {i \in 1 .. Done(b) : Body(b, i).kind = "void"}
  BY <1>1 DEF Mirror, OpenTail, OpenTailMirrored, TheTail
<1>4. /\ Size(b) \in Nat /\ Work(b) \in 0 .. Size(b)
      /\ \A i \in 1 .. Size(b) : i <= Work(b) <=> Body(b, i).kind # "br"
      /\ Branches(b) => Size(b) = Work(b) + 1
      /\ ~Branches(b) => Size(b) = Work(b)
  BY <1>1, SourceBody
<1>5. Passed(b) = Size(b) /\ Done(b) = Work(b)
  <2>1. InWork(b)
    BY <1>1 DEF InWork
  <2>2. at.k - 1 = Size(b)
    BY <1>1, <1>2, <1>3, <1>4
  <2> QED
    BY <1>4, <2>1, <2>2 DEF Done, Passed
<1>6. u = At(t, S)
  BY <1>1 DEF Finish, TheTail, TailOf, Freed
<1> HIDE DEF t, u, b
<1>7. S \in SUBSET (1 .. Size(b)) /\ DOMAIN t = 1 .. Size(b) /\ S \in SUBSET DOMAIN t
  BY <1>1, <1>3
<1>8. \A i \in 1 .. Size(b) : i \in S <=> ~(i <= Work(b) /\ Body(b, i).kind = "void")
  BY <1>3, <1>4, <1>5, <1>7
<1> HIDE DEF S
<1>9. Cardinality(S) \in Nat /\ Len(u) = Cardinality(S)
      /\ DOMAIN At(t, S) = 1 .. Cardinality(S)
  BY <1>1, <1>6, <1>7, AtMembers
<1>10. \A k \in 1 .. Len(u) : u[k] = t[Nth(S, k)] /\ Nth(S, k) \in S
  BY <1>4, <1>6, <1>7, <1>9, NthPlace DEF At
<1>11. ASSUME Branches(b) PROVE Size(b) \in S /\ Like(t[Size(b)], Body(b, Size(b)))
  <2>1. Size(b) \in 1 .. Size(b) /\ ~(Size(b) <= Work(b))
    BY <1>4, <1>11
  <2> QED
    BY <1>3, <1>5, <1>8, <2>1
<1>12. ASSUME NEW k \in 1 .. Len(u)
       PROVE  \/ \E l \in 1 .. Work(b) : Body(b, l).kind # "void" /\ PhiFor(u[k], b, Body(b, l))
              \/ Branches(b) /\ k = Len(u) /\ Like(u[k], Body(b, Size(b)))
  <2> DEFINE i == Nth(S, k)
  <2>1. u[k] = t[i] /\ i \in S /\ i \in 1 .. Size(b)
    BY <1>7, <1>10
  <2> HIDE DEF i
  <2>2. CASE i <= Work(b)
    <3>1. i \in 1 .. Work(b) /\ Body(b, i).kind # "void"
      BY <1>4, <1>8, <2>1, <2>2
    <3> QED
      BY <1>3, <1>5, <2>1, <2>2, <3>1
  <2>3. CASE ~(i <= Work(b))
    <3>1. Branches(b) /\ i = Size(b)
      BY <1>4, <2>1, <2>3
    <3>2. k = Len(u)
      BY <1>4, <1>7, <1>9, <1>11, <3>1, LastNth DEF i
    <3> QED
      BY <1>11, <2>1, <3>1, <3>2
  <2> QED
    BY <2>2, <2>3
<1>13. ASSUME NEW l \in 1 .. Work(b), Body(b, l).kind # "void"
       PROVE  \E i \in 1 .. Len(u) : PhiFor(u[i], b, Body(b, l))
  <2>1. l \in S /\ l \in 1 .. Size(b) /\ l <= Work(b)
    BY <1>4, <1>8, <1>13
  <2>2. PICK k \in 1 .. Cardinality(S) : Nth(S, k) = l
    BY <1>4, <1>7, <2>1, PlaceNth
  <2>3. PhiFor(t[l], b, Body(b, l))
    BY <1>3, <1>5, <1>13, <2>1
  <2> QED
    BY <1>9, <1>10, <2>2, <2>3
<1>14. ASSUME Branches(b) PROVE u # <<>> /\ Like(u[Len(u)], Body(b, Size(b)))
  <2>1. Cardinality(S) \in Nat \ {0} /\ Nth(S, Cardinality(S)) = Size(b)
    BY <1>4, <1>7, <1>11, <1>14, LastNth
  <2>2. Len(u) \in 1 .. Len(u) /\ u # <<>>
    BY <1>9, <2>1
  <2> QED
    BY <1>9, <1>10, <1>11, <1>14, <2>1, <2>2
<1> QED
  BY <1>5, <1>12, <1>13, <1>14 DEF t, u, b

LEMMA FinishMirror == DupInv /\ Mirror /\ Finish => Mirror'
<1> SUFFICES ASSUME DupInv, Mirror, Finish PROVE Mirror'
  OBVIOUS
<1>1. /\ F' = F /\ UNCHANGED <<valueToPhi, targets>> /\ todo' = todo \ {at.b} /\ at' = Idle
      /\ at # Idle /\ at.b \in F.blocks /\ DOMAIN code' = DOMAIN code
      /\ \A x \in DOMAIN code \ {TheTail} : code'[x] = code[x]
  BY FinishStep DEF DupInv, Structure, CodeTyped, InTail
<1>2. /\ \A b : Size(b)' = Size(b) /\ Work(b)' = Work(b) /\ Branches(b)' = Branches(b)
      /\ \A b, i : Body(b, i)' = Body(b, i)
  BY <1>1, SameSource
<1>3. Passed(at.b) = Size(at.b)
  BY FinishTail
<1>4. \A b : Passed(b)' = Passed(b) /\ ~InWork(b)'
  BY <1>1, <1>2, <1>3 DEF Passed, InWork
<1>5. \A b : Done(b)' = Done(b)
  BY <1>2, <1>4 DEF Done
<1>6. /\ Replacements' /\ \A b : HasTail(b)' = HasTail(b)
      /\ \A y, e : Like(y, e)' = Like(y, e)
  BY <1>1, <1>5, SameWords DEF Mirror
<1>7. Chosen'
  BY <1>1 DEF Mirror, Chosen, ReachingValues
<1>8. WholeBlocks' /\ Heads' /\ BothCopies'
  <2>1. ASSUME NEW b \in F.blocks
        PROVE  /\ code'[Original(b)] = code[Original(b)]
               /\ HasTail(b) => /\ code'[ThenOf(b)] = code[ThenOf(b)]
                                /\ code'[ElseOf(b)] = code[ElseOf(b)]
    <3>1. Original(b) \in DOMAIN code \ {TheTail}
      BY NamesDiffer DEF DupInv, Structure, CodeTyped, TheTail
    <3>2. HasTail(b) => ThenOf(b) \in DOMAIN code \ {TheTail} /\ ElseOf(b) \in DOMAIN code \ {TheTail}
      BY NamesDiffer DEF DupInv, Structure, CodeTyped, TheTail
    <3> QED
      BY <1>1, <3>1, <3>2
  <2> QED
    BY <1>1, <1>5, <2>1, SameBlocks
<1>9. ClosedTails'
  <2> SUFFICES ASSUME NEW c \in F.blocks, HasTail(c) PROVE TailMirrored(c)'
    BY <1>1, <1>6 DEF ClosedTails
  <2>1. CASE c = at.b
    <3> DEFINE u == code'[TheTail]
    <3>1. /\ \A i \in 1 .. Len(u) :
               \/ \E l \in 1 .. Work(c) : Body(c, l).kind # "void" /\ PhiFor(u[i], c, Body(c, l))
               \/ Branches(c) /\ i = Len(u) /\ Like(u[i], Body(c, Size(c)))
          /\ \A l \in 1 .. Work(c) :
               Body(c, l).kind # "void" => \E i \in 1 .. Len(u) : PhiFor(u[i], c, Body(c, l))
          /\ Branches(c) => u # <<>> /\ Like(u[Len(u)], Body(c, Size(c)))
      BY <2>1, FinishTail
    <3>2. u = code'[TailOf(c)]
      BY <2>1 DEF TheTail
    <3> HIDE DEF u
    <3> QED
      BY <1>2, <1>6, <3>1, <3>2 DEF TailMirrored, PhiFor
  <2>2. CASE c # at.b
    <3>1. TailOf(c) \in DOMAIN code \ {TheTail}
      BY <2>2, NamesDiffer DEF HasTail, TheTail
    <3>2. TailMirrored(c)' <=> TailMirrored(c)
      BY <1>1, <1>5, <3>1, SameTail
    <3>3. ~InWork(c)
      BY <2>2 DEF InWork
    <3> QED
      BY <3>2, <3>3 DEF Mirror, ClosedTails
  <2> QED
    BY <2>1, <2>2
<1>10. OpenTail'
  BY <1>1 DEF OpenTail
<1> QED
  BY <1>6, <1>7, <1>8, <1>9, <1>10 DEF Mirror

(***************************************************************************)
(* One instruction of the tail.                                            *)
(***************************************************************************)
\* What replaceAllUsesWith makes of a use of v.
Sw(v) == IF ~IsVoid /\ v = Current.id THEN PhiId ELSE v
TheInst == Body(at.b, at.k)

LEMMA CloneFrame ==
  ASSUME DupInv, Mirror, Clone
  PROVE  /\ CodeSound(F) /\ F' = F /\ targets' = targets /\ todo' = todo
         /\ at.b \in F.blocks /\ HasTail(at.b) /\ InWork(at.b)
         /\ at.k \in 1 .. Size(at.b) /\ Like(Current, TheInst)
         /\ at'.b = at.b /\ at'.k = at.k + 1 /\ at' # Idle
         /\ \A c : HasTail(c)' <=> HasTail(c)
         /\ \A c : InWork(c)' <=> InWork(c)
         /\ \A c \in F.blocks : c # at.b => Done(c)' = Done(c)
         /\ Current.kind = "br" => Done(at.b) = Work(at.b) /\ Done(at.b)' = Work(at.b)
         /\ Current.kind # "br" => /\ at.k <= Work(at.b)
                                   /\ Done(at.b) = at.k - 1 /\ Done(at.b)' = at.k
<1> DEFINE b == at.b
<1>1. /\ CodeSound(F) /\ F' = F /\ targets' = targets /\ todo' = todo
      /\ b \in F.blocks /\ at # Idle /\ TheTail \in DOMAIN code /\ at.k \in DOMAIN code[TheTail]
      /\ at.k \in Nat \ {0}
  BY CurrentIs, CloneStep
<1>2. HasTail(b)
  BY <1>1 DEF HasTail, TheTail
<1>3. OpenTailMirrored(b)
  BY <1>1 DEF Mirror, OpenTail
<1>4. /\ Len(code[TheTail]) = Size(b)
      /\ \A i \in 1 .. Len(code[TheTail]) :
           IF i <= Done(b) /\ Body(b, i).kind # "void" THEN PhiFor(code[TheTail][i], b, Body(b, i))
           ELSE Like(code[TheTail][i], Body(b, i))
  BY <1>3 DEF OpenTailMirrored, TheTail
<1>5. /\ Size(b) \in Nat /\ Work(b) \in 0 .. Size(b)
      /\ \A i \in 1 .. Size(b) : i <= Work(b) <=> Body(b, i).kind # "br"
  BY <1>1, SourceBody
<1>6. at.k \in 1 .. Size(b)
  <2>1. code[TheTail] \in Seq(Made)
    BY <1>1, CurrentIs
  <2>2. DOMAIN code[TheTail] = 1 .. Size(b)
    BY <1>4, <2>1
  <2> QED
    BY <1>1, <2>2
<1>7. InWork(b) /\ \A c : InWork(c) => c = b
  BY <1>1 DEF InWork
<1>8. Done(b) = IF at.k - 1 < Work(b) THEN at.k - 1 ELSE Work(b)
  BY <1>7 DEF Done, Passed
<1>9. Like(Current, TheInst)
  <2>1. ~(at.k <= Done(b))
    BY <1>5, <1>6, <1>8
  <2> QED
    BY <1>4, <1>6, <2>1 DEF Current, TheInst
<1>10. Current.kind = TheInst.kind
  BY <1>9 DEF Like
<1>11. at'.b = b /\ at'.k = at.k + 1 /\ at' # Idle /\ DOMAIN code' = DOMAIN code
  <2>1. CASE Current.kind = "br"
    <3>1. /\ at = [b |-> at.b, k |-> at.k, thenVMap |-> at.thenVMap, elseVMap |-> at.elseVMap,
                  freeList |-> at.freeList]
          /\ at' = [at EXCEPT !.k = @ + 1] /\ code' = code
      BY <1>1, <2>1, CloneStep DEF DupInv, Structure, InTail
    <3>2. at' = [b |-> at.b, k |-> at.k + 1, thenVMap |-> at.thenVMap, elseVMap |-> at.elseVMap,
                 freeList |-> at.freeList]
      BY <3>1
    <3> QED
      BY <3>1, <3>2, Working
  <2>2. CASE Current.kind # "br"
    <3>1. at' = [b |-> at.b, k |-> at.k + 1,
                 thenVMap |-> Set(at.thenVMap, Key, CopyId("then")),
                 elseVMap |-> Set(at.elseVMap, Key, CopyId("else")),
                 freeList |-> at.freeList \cup IF IsVoid THEN {at.k} ELSE {}]
      BY <2>2, CloneStep
    <3> QED
      BY <2>2, <3>1, Working, CloneBlocks
  <2> QED
    BY <2>1, <2>2
<1>12. \A c : HasTail(c)' <=> HasTail(c)
  BY <1>11 DEF HasTail
<1>13. \A c : InWork(c)' <=> InWork(c)
  BY <1>1, <1>11 DEF InWork
<1>14. \A c : Size(c)' = Size(c) /\ Work(c)' = Work(c)
  BY <1>1, SameSource
<1>15. \A c \in F.blocks : c # b => Done(c)' = Done(c)
  BY <1>7, <1>13, <1>14 DEF Done, Passed
<1>16. Done(b)' = IF at.k < Work(b) THEN at.k ELSE Work(b)
  <2>1. ASSUME NEW c, c = b PROVE Passed(c)' = at.k
    BY <1>6, <1>7, <1>11, <1>13, <2>1 DEF Passed
  <2>2. ASSUME NEW c, c = b PROVE Done(c)' = IF at.k < Work(c) THEN at.k ELSE Work(c)
    BY <1>14, <2>1, <2>2 DEF Done
  <2> QED
    BY <1>11, <2>2
<1>17. at.k <= Work(b) <=> Current.kind # "br"
  BY <1>5, <1>6, <1>10 DEF TheInst
<1>18. /\ Current.kind = "br" => Done(b) = Work(b) /\ Done(b)' = Work(b)
       /\ Current.kind # "br" => Done(b) = at.k - 1 /\ Done(b)' = at.k
  BY <1>5, <1>6, <1>8, <1>16, <1>17
<1> QED
  BY <1>1, <1>2, <1>6, <1>7, <1>9, <1>11, <1>12, <1>13, <1>15, <1>17, <1>18

\* What a use becomes when one more value is replaced.
LEMMA CloneWords ==
  ASSUME DupInv, Mirror, Clone, Current.kind # "br"
  PROVE  /\ \A v \in Usable : M(v)' = Sw(M(v))
         /\ Current.id = TheInst.id /\ Current.id \notin DOMAIN valueToPhi
         /\ \A v : EndOf(v)' = EndOf(v)
         /\ valueToPhi' = IF IsVoid THEN valueToPhi ELSE Set(valueToPhi, Current.id, PhiId)
<1> DEFINE b == at.b
<1>1. /\ CodeSound(F) /\ b \in F.blocks /\ at.k \in 1 .. Size(b) /\ Like(Current, TheInst)
      /\ at.k <= Work(b) /\ Done(b) = at.k - 1
  BY CloneFrame
<1>2. /\ Current.id = <<"orig", b, Current.id[3]>> /\ Current.id \in Results(F)
      /\ valueToPhi' = IF IsVoid THEN valueToPhi ELSE Set(valueToPhi, Current.id, PhiId)
      /\ DOMAIN code' = DOMAIN code
  BY CurrentIs, CloneStep, CloneBlocks
<1>3. Current.id = TheInst.id
  BY <1>1 DEF Like
<1>4. Current.id \notin DOMAIN valueToPhi
  <2> SUFFICES ASSUME Current.id \in DOMAIN valueToPhi PROVE FALSE
    OBVIOUS
  <2>1. PICK c \in F.blocks : \E i \in 1 .. Done(c) : Current.id = Body(c, i).id
    BY DEF Mirror, Replacements, Replaced
  <2>2. PICK i \in 1 .. Done(c) : Current.id = Body(c, i).id
    BY <2>1
  <2>3. Done(c) <= Work(c) /\ Work(c) \in 0 .. Size(c) /\ Size(c) \in Nat /\ Done(c) \in Int
    <3>1. Work(c) \in 0 .. Size(c) /\ Size(c) \in Nat
      BY <1>1, SourceBody
    <3>2. CASE c = b
      BY <1>1, <3>1, <3>2
    <3>3. CASE c # b
      <4>1. ~InWork(c)
        BY <3>3 DEF InWork
      <4>2. Passed(c) = Size(c)
        BY <4>1 DEF Passed
      <4> QED
        BY <3>1, <4>2 DEF Done
    <3> QED
      BY <3>2, <3>3
  <2>4. i \in 1 .. Size(c)
    BY <2>3
  <2>5. Phis(c) + i \in DOMAIN F.code[c]
    BY <1>1, <2>4, SourceBody
  <2>6. Body(c, i).id[2] = c
    BY <1>1, <2>5, SourceInst DEF Body
  <2>7. c = b
    BY <1>2, <2>2, <2>6
  <2>8. Body(b, i).id = Body(b, at.k).id
    BY <1>3, <2>2, <2>7 DEF TheInst
  <2>9. i = at.k
    BY <1>1, <2>4, <2>7, <2>8, SourceBody
  <2> QED
    BY <1>1, <2>7, <2>9
<1>5. ASSUME NEW v \in Usable PROVE M(v)' = Sw(M(v))
  <2>1. \/ v \in Outside(F) /\ v \notin Results(F)
        \/ v[1] = "orig"
    BY <1>1, UsableIs
  <2>2. CASE IsVoid
    BY <1>2, <2>2 DEF M, Sw
  <2>3. CASE ~IsVoid
    <3>1. valueToPhi' = [x \in DOMAIN valueToPhi \cup {Current.id} |->
                           IF x = Current.id THEN PhiId ELSE valueToPhi[x]]
      BY <1>2, <2>3 DEF Set
    <3>2. CASE v = Current.id
      <4>1. M(v) = v
        BY <1>4, <3>2 DEF M, Mapped
      <4>2. M(v)' = PhiId
        BY <3>1, <3>2 DEF M, Mapped
      <4> QED
        BY <2>3, <3>2, <4>1, <4>2 DEF Sw
    <3>3. CASE v # Current.id
      <4>1. M(v)' = M(v)
        BY <3>1, <3>3 DEF M, Mapped
      <4>2. M(v) # Current.id
        <5>1. CASE v \in DOMAIN valueToPhi
          <6>1. M(v) = <<"phi", v[2], v[3]>>
            BY <5>1 DEF M, Mapped, Mirror, Replacements
          <6> QED
            BY <1>2, <6>1
        <5>2. CASE v \notin DOMAIN valueToPhi
          BY <3>3, <5>2 DEF M, Mapped
        <5> QED
          BY <5>1, <5>2
      <4> QED
        BY <4>1, <4>2 DEF Sw
    <3> QED
      BY <3>2, <3>3
  <2> QED
    BY <2>2, <2>3
<1>6. \A v : EndOf(v)' = EndOf(v)
  BY <1>2 DEF EndOf
<1> QED
  BY <1>2, <1>3, <1>4, <1>5, <1>6

\* What an iteration makes of an instruction that is there.
LEMMA SwappedOps ==
  ASSUME DupInv, Clone, NEW e \in Made
  PROVE  /\ Swapped(e).ops = [j \in DOMAIN e.ops |-> Sw(e.ops[j])]
         /\ Swapped(e).id = e.id /\ Swapped(e).kind = e.kind /\ Swapped(e).from = e.from
<1>1. Swapped(e).id = e.id /\ Swapped(e).kind = e.kind /\ Swapped(e).from = e.from
  BY SwappedKeep
<1>2. Swapped(e).ops = [j \in DOMAIN e.ops |-> Sw(e.ops[j])]
  <2>1. CASE IsVoid
    <3>1. e.ops \in Seq(Values)
      BY DEF Made
    <3>2. e.ops = [j \in DOMAIN e.ops |-> e.ops[j]]
      BY <3>1
    <3> QED
      BY <2>1, <3>2 DEF Swapped, Sw
  <2>2. CASE ~IsVoid
    <3> DEFINE one == One(Current.id, PhiId)
    <3>1. \A v : Mapped(one, v) = IF v = Current.id THEN PhiId ELSE v
      BY OneMapped
    <3>2. Swapped(e) = [e EXCEPT !.ops = [j \in DOMAIN @ |-> Mapped(one, @[j])]]
      BY <2>2 DEF Swapped, Remapped
    <3> HIDE DEF one
    <3>3. "ops" \in DOMAIN e
      BY DEF Made
    <3>4. Swapped(e).ops = [j \in DOMAIN e.ops |-> Mapped(one, e.ops[j])]
      BY <3>2, <3>3
    <3> QED
      BY <2>2, <3>1, <3>4 DEF Sw
  <2> QED
    BY <2>1, <2>2
<1> QED
  BY <1>1, <1>2

LEMMA LikeSwapped ==
  ASSUME DupInv, Mirror, Clone, Current.kind # "br",
         NEW y \in Made, NEW e, \A j \in DOMAIN e.ops : e.ops[j] \in Usable,
         NEW z, z = Swapped(y)
  PROVE  /\ Like(y, e) => Like(z, e)'
         /\ LikePhi(y, e) => LikePhi(z, e)'
<1>1. /\ z.ops = [j \in DOMAIN y.ops |-> Sw(y.ops[j])]
      /\ z.id = y.id /\ z.kind = y.kind /\ z.from = y.from
  BY SwappedOps
<1>2. \A v \in Usable : M(v)' = Sw(M(v))
  BY CloneWords
<1>3. \A v : EndOf(v)' = EndOf(v)
  BY CloneWords
<1>4. ASSUME Like(y, e) PROVE Like(z, e)'
  <2>1. y.ops = [j \in DOMAIN e.ops |-> M(e.ops[j])] /\ y.id = e.id /\ y.kind = e.kind
    BY <1>4 DEF Like
  <2>2. z.ops = [j \in DOMAIN e.ops |-> Sw(M(e.ops[j]))]
    BY <1>1, <2>1
  <2>3. z.ops = [j \in DOMAIN e.ops |-> M(e.ops[j])']
    BY <1>2, <2>2
  <2> QED
    BY <1>1, <2>1, <2>3 DEF Like
<1>5. ASSUME LikePhi(y, e) PROVE LikePhi(z, e)'
  <2>1. Like(z, e)' /\ y.from = [j \in DOMAIN e.from |-> EndOf(e.from[j])]
    BY <1>4, <1>5 DEF LikePhi
  <2>2. z.from = [j \in DOMAIN e.from |-> EndOf(e.from[j])']
    BY <1>1, <1>3, <2>1
  <2> QED
    BY <2>1, <2>2 DEF LikePhi
<1> QED
  BY <1>4, <1>5

LEMMA CopySwapped ==
  ASSUME DupInv, Mirror, Clone, Current.kind # "br",
         NEW part \in {"then", "else"}, NEW c \in F.blocks, NEW i \in 1 .. Size(c),
         NEW y \in Made, CopyOf(part, c, i, y), NEW z, z = Swapped(y)
  PROVE  CopyOf(part, c, i, z)'
<1>1. /\ z.ops = [j \in DOMAIN y.ops |-> Sw(y.ops[j])]
      /\ z.id = y.id /\ z.kind = y.kind
  BY SwappedOps
<1>2. \A v \in Usable : M(v)' = Sw(M(v))
  BY CloneWords
<1>3. F' = F /\ CodeSound(F)
  BY CloneFrame
<1>4. \A a, l : Body(a, l)' = Body(a, l)
  BY <1>3, SameSource
<1>5. Current.id[1] = "orig"
  <2>1. Current.id = <<"orig", at.b, Current.id[3]>>
    BY CurrentIs
  <2> QED
    BY <2>1
<1>6. \A v : Above(c, i, v)' <=> Above(c, i, v)
  BY <1>4 DEF Above
<1>7. ASSUME NEW v \in Usable PROVE InCopy(part, c, i, v)' = Sw(InCopy(part, c, i, v))
  <2>1. CASE Above(c, i, v)
    <3>1. InCopy(part, c, i, v)' = <<part, v[2], v[3]>> /\ InCopy(part, c, i, v) = <<part, v[2], v[3]>>
      BY <1>6, <2>1 DEF InCopy
    <3>2. <<part, v[2], v[3]>> # Current.id
      BY <1>5
    <3> QED
      BY <3>1, <3>2 DEF Sw
  <2>2. CASE ~Above(c, i, v)
    BY <1>2, <1>6, <2>2 DEF InCopy
  <2> QED
    BY <2>1, <2>2
<1>8. \A j \in DOMAIN Body(c, i).ops : Body(c, i).ops[j] \in Usable
  <2>1. Phis(c) + i \in DOMAIN F.code[c]
    BY <1>3, SourceBody
  <2> QED
    BY <1>3, <2>1, SourceInst DEF Body
<1>9. \A e : e = Body(c, i) =>
        /\ y.id = <<part, c, e.id[3]>> /\ y.kind = e.kind
        /\ y.ops = [j \in DOMAIN e.ops |-> InCopy(part, c, i, e.ops[j])]
  BY DEF CopyOf
<1>10. ASSUME NEW e, e = Body(c, i)
       PROVE  /\ z.id = <<part, c, e.id[3]>> /\ z.kind = e.kind
              /\ z.ops = [j \in DOMAIN e.ops |-> InCopy(part, c, i, e.ops[j])']
  <2>0. y.ops = [j \in DOMAIN e.ops |-> InCopy(part, c, i, e.ops[j])]
    BY <1>9, <1>10
  <2>1. z.ops = [j \in DOMAIN e.ops |-> Sw(InCopy(part, c, i, e.ops[j]))]
    BY <1>1, <2>0
  <2>2. \A j \in DOMAIN e.ops : Sw(InCopy(part, c, i, e.ops[j])) = InCopy(part, c, i, e.ops[j])'
    BY <1>7, <1>8, <1>10
  <2> QED
    BY <1>1, <1>9, <1>10, <2>1, <2>2
<1> QED
  BY <1>4, <1>10 DEF CopyOf

LEMMA PhiForSwapped ==
  ASSUME DupInv, Clone, NEW y \in Made, NEW c, NEW e, PhiFor(y, c, e)
  PROVE  PhiFor(Swapped(y), c, e)
<1>1. /\ Swapped(y).ops = [j \in DOMAIN y.ops |-> Sw(y.ops[j])]
      /\ Swapped(y).id = y.id /\ Swapped(y).kind = y.kind /\ Swapped(y).from = y.from
  BY SwappedOps
<1>2. Current.id[1] = "orig"
  <2>1. Current.id = <<"orig", at.b, Current.id[3]>>
    BY CurrentIs
  <2> QED
    BY <2>1
<1>3. y.ops = <<<<"then", c, e.id[3]>>, <<"else", c, e.id[3]>>>>
  BY DEF PhiFor
<1>4. \A j \in DOMAIN y.ops : Sw(y.ops[j]) = y.ops[j]
  BY <1>2, <1>3 DEF Sw
<1>5. Swapped(y).ops = y.ops
  BY <1>1, <1>3, <1>4
<1> QED
  BY <1>1, <1>5 DEF PhiFor

LEMMA NewPhiFor ==
  ASSUME DupInv, Mirror, Clone
  PROVE  PhiFor(NewPhi, at.b, TheInst)
<1>1. Current.id = TheInst.id
  BY CloneFrame DEF Like
<1> QED
  BY <1>1 DEF PhiFor, NewPhi, PhiId, CopyId

\* The map of a copy takes what the copy computed already, and nothing else.
LEMMA CopyMapped ==
  ASSUME DupInv, Mirror, Clone, Current.kind # "br", NEW part \in {"then", "else"},
         NEW v \in Usable
  PROVE  Mapped(MapOf(part), M(v)) = InCopy(part, at.b, at.k, v)
<1> DEFINE b == at.b
           m == MapOf(part)
<1>1. /\ CodeSound(F) /\ b \in F.blocks /\ HasTail(b) /\ at.k \in 1 .. Size(b)
      /\ at.k <= Work(b) /\ Done(b) = at.k - 1
  BY CloneFrame
<1>2. MapMirrored(part, m, b)
  <2>1. at # Idle
    BY CurrentIs
  <2> QED
    BY <2>1 DEF Mirror, OpenTail, MapOf
<1>3. /\ DOMAIN m = {KeyOf(b, i) : i \in 1 .. at.k - 1}
      /\ \A i \in 1 .. at.k - 1 : m[KeyOf(b, i)] = <<part, b, Body(b, i).id[3]>>
  BY <1>1, <1>2 DEF MapMirrored
<1>4. Size(b) \in Nat /\ \A i \in 1 .. at.k - 1 : i \in 1 .. Size(b) /\ i \in 1 .. Done(b)
  BY <1>1, SourceBody
<1>5. ASSUME NEW i \in 1 .. at.k - 1
      PROVE  LET e == Body(b, i)
             IN /\ e.id = <<"orig", b, e.id[3]>> /\ e.id[1] = "orig" /\ e.id[2] = b
                /\ e.kind = "void" <=> e.id \in VoidIds(F)
                /\ <<"phi", b, e.id[3]>> \in Results(F)
  <2>1. Phis(b) + i \in DOMAIN F.code[b]
    BY <1>1, <1>4, SourceBody
  <2>2. LET e == Body(b, i)
        IN /\ e.id = <<"orig", b, e.id[3]>> /\ e.id[1] = "orig" /\ e.id[2] = b /\ e.id[3] \in Nat
           /\ e.kind = "void" <=> e.id \in VoidIds(F)
    BY <1>1, <2>1, SourceInst, SMTT(30) DEF Body
  <2> QED
    BY <1>1, <2>2 DEF Results, Roles
<1>6. \/ v \in Outside(F) /\ v \notin Results(F)
      \/ v = <<"orig", v[2], v[3]>> /\ v \notin VoidIds(F)
  BY <1>1, UsableIs
<1> HIDE DEF m, b
<1>7. CASE Above(b, at.k, v)
  <2>1. PICK l \in 1 .. at.k - 1 : Body(b, l).id = v
    BY <1>7 DEF Above
  <2>2. v = <<"orig", v[2], v[3]>> /\ v[2] = b /\ v[1] = "orig" /\ v \notin VoidIds(F)
        /\ v \in Results(F)
    <3>1. v[1] = "orig" /\ v[2] = b
      BY <1>5, <2>1
    <3>2. Phis(b) + l \in DOMAIN F.code[b]
      BY <1>1, <1>4, SourceBody
    <3>3. v \in Results(F)
      BY <1>1, <2>1, <3>2, SourceInst DEF Body
    <3> QED
      BY <1>6, <3>1, <3>3
  <2>3. Body(b, l).kind # "void"
    BY <1>5, <2>1, <2>2
  <2>4. v \in DOMAIN valueToPhi
    BY <1>1, <1>4, <2>1, <2>3 DEF Mirror, Replacements
  <2>5. M(v) = <<"phi", b, v[3]>>
    BY <2>2, <2>4 DEF Mirror, Replacements, M, Mapped
  <2>6. KeyOf(b, l) = M(v)
    BY <2>1, <2>3, <2>5 DEF KeyOf
  <2>7. M(v) \in DOMAIN m /\ m[M(v)] = <<part, b, v[3]>>
    BY <1>3, <2>1, <2>6
  <2>8. InCopy(part, b, at.k, v) = <<part, b, v[3]>>
    BY <1>7, <2>2 DEF InCopy
  <2> QED
    BY <2>7, <2>8 DEF Mapped, m, b
<1>8. CASE ~Above(b, at.k, v)
  <2>1. M(v) \notin DOMAIN m
    <3> SUFFICES ASSUME NEW i \in 1 .. at.k - 1, M(v) = KeyOf(b, i) PROVE FALSE
      BY <1>3
    <3>1. Body(b, i).id # v
      BY <1>8 DEF Above
    <3>2. LET e == Body(b, i)
          IN /\ e.id = <<"orig", b, e.id[3]>> /\ e.id[1] = "orig" /\ e.id[2] = b
             /\ e.kind = "void" <=> e.id \in VoidIds(F)
             /\ <<"phi", b, e.id[3]>> \in Results(F)
             /\ KeyOf(b, i) = IF e.kind = "void" THEN e.id ELSE <<"phi", b, e.id[3]>>
      BY <1>5 DEF KeyOf
    <3>3. CASE v \in DOMAIN valueToPhi
      <4>1. M(v) = <<"phi", v[2], v[3]>> /\ Replaced(v)
        BY <3>3 DEF Mirror, Replacements, M, Mapped
      <4>2. v[2] = b /\ v[3] = Body(b, i).id[3]
        BY <3>2, <4>1
      <4>3. v \in Results(F)
        <5>1. PICK c \in F.blocks : \E l \in 1 .. Done(c) : v = Body(c, l).id
          BY <4>1 DEF Replaced
        <5>2. PICK l \in 1 .. Done(c) : v = Body(c, l).id
          BY <5>1
        <5>3. Work(c) \in 0 .. Size(c) /\ Size(c) \in Nat
          BY <1>1, SourceBody
        <5>4. Done(c) = IF Passed(c) < Work(c) THEN Passed(c) ELSE Work(c)
          BY DEF Done
        <5>5. Passed(c) \in Int
          <6>1. InWork(c) => at.k \in Nat
            BY <1>1, <1>4, CurrentIs
          <6> QED
            BY <5>3, <6>1 DEF Passed
        <5>6. l \in 1 .. Size(c)
          BY <5>3, <5>4, <5>5
        <5>7. Phis(c) + l \in DOMAIN F.code[c]
          BY <1>1, <5>6, SourceBody
        <5> QED
          BY <1>1, <5>2, <5>7, SourceInst DEF Body
      <4> QED
        BY <1>6, <3>1, <3>2, <4>2, <4>3
    <3>4. CASE v \notin DOMAIN valueToPhi
      <4>1. M(v) = v
        BY <3>4 DEF M, Mapped
      <4>2. v \in Results(F)
        <5>1. Phis(b) + i \in DOMAIN F.code[b]
          BY <1>1, <1>4, SourceBody
        <5>2. Body(b, i).id \in Results(F)
          BY <1>1, <5>1, SourceInst DEF Body
        <5> QED
          BY <3>2, <4>1, <5>2
      <4>3. v[1] = "orig"
        BY <1>6, <4>2
      <4> QED
        BY <1>6, <3>1, <3>2, <4>1, <4>2, <4>3
    <3> QED
      BY <3>3, <3>4
  <2> QED
    BY <1>8, <2>1 DEF Mapped, InCopy, m, b
<1> QED
  BY <1>7, <1>8

LEMMA CopyMade ==
  ASSUME DupInv, Mirror, Clone, Current.kind # "br", NEW part \in {"then", "else"}
  PROVE  CopyOf(part, at.b, at.k, Copy(part))
<1>1. /\ CodeSound(F) /\ at.b \in F.blocks /\ at.k \in 1 .. Size(at.b) /\ Like(Current, TheInst)
  BY CloneFrame
<1>2. Copy(part).id = CopyId(part) /\ Copy(part).kind = Current.kind /\ Current \in Made
  BY CopyIs, CurrentIs
<1>3. Copy(part).ops = [j \in DOMAIN Current.ops |-> Mapped(MapOf(part), Current.ops[j])]
  BY <1>2 DEF Copy, Remapped, Made
<1>4. /\ Current.ops = [j \in DOMAIN TheInst.ops |-> M(TheInst.ops[j])]
      /\ Current.id = TheInst.id /\ Current.kind = TheInst.kind
  BY <1>1 DEF Like
<1>5. \A j \in DOMAIN TheInst.ops : TheInst.ops[j] \in Usable
  <2>1. Phis(at.b) + at.k \in DOMAIN F.code[at.b]
    BY <1>1, SourceBody
  <2> QED
    BY <1>1, <2>1, SourceInst, SMTT(30) DEF Body, TheInst
<1>6. \A j \in DOMAIN TheInst.ops :
        Mapped(MapOf(part), M(TheInst.ops[j])) = InCopy(part, at.b, at.k, TheInst.ops[j])
  BY <1>5, CopyMapped
<1>7. Copy(part).ops = [j \in DOMAIN TheInst.ops |-> InCopy(part, at.b, at.k, TheInst.ops[j])]
  BY <1>3, <1>4, <1>6
<1> QED
  BY <1>2, <1>4, <1>7 DEF CopyOf, TheInst, CopyId

\* One more place is in the maps, one more value replaced.
LEMMA CloneMap ==
  ASSUME DupInv, Mirror, Clone, Current.kind # "br", NEW part \in {"then", "else"},
         NEW m, m = Set(MapOf(part), Key, CopyId(part)), NEW c, c = at.b
  PROVE  MapMirrored(part, m, c)'
<1>1. /\ CodeSound(F) /\ F' = F /\ c \in F.blocks /\ at.k \in 1 .. Size(c) /\ Like(Current, TheInst)
      /\ Done(c) = at.k - 1 /\ \A d : d = c => Done(d)' = at.k
  BY CloneFrame
<1>2. \A a, i : Body(a, i)' = Body(a, i) /\ KeyOf(a, i)' = KeyOf(a, i)
  BY <1>1, SameSource
<1>3. MapMirrored(part, MapOf(part), c)
  <2>1. at # Idle
    BY CurrentIs
  <2> QED
    BY <2>1 DEF Mirror, OpenTail, MapOf
<1>4. /\ DOMAIN MapOf(part) = {KeyOf(c, i) : i \in 1 .. at.k - 1}
      /\ \A i \in 1 .. at.k - 1 : MapOf(part)[KeyOf(c, i)] = <<part, c, Body(c, i).id[3]>>
  BY <1>1, <1>3 DEF MapMirrored
<1>5. Current.id = TheInst.id /\ Current.kind = TheInst.kind /\ TheInst = Body(c, at.k)
  BY <1>1 DEF Like, TheInst
<1>6. Key = KeyOf(c, at.k) /\ CopyId(part) = <<part, c, Body(c, at.k).id[3]>>
  BY <1>5 DEF Key, KeyOf, IsVoid, PhiId, CopyId
<1>7. \A i : KeyOf(c, i)[3] = Body(c, i).id[3]
  BY DEF KeyOf
<1>8. Size(c) \in Nat /\ \A i : i \in 1 .. at.k <=> i \in 1 .. at.k - 1 \/ i = at.k
  <2>1. Size(c) \in Nat
    BY <1>1, SourceBody
  <2> QED
    BY <1>1, <2>1
<1>9. /\ DOMAIN m = DOMAIN MapOf(part) \cup {Key}
      /\ \A x \in DOMAIN m : m[x] = IF x = Key THEN CopyId(part) ELSE MapOf(part)[x]
  BY DEF Set
<1>10. DOMAIN m = {KeyOf(c, i) : i \in 1 .. at.k}
  BY <1>4, <1>6, <1>8, <1>9
<1>11. ASSUME NEW i \in 1 .. at.k PROVE m[KeyOf(c, i)] = <<part, c, Body(c, i).id[3]>>
  <2>1. CASE KeyOf(c, i) = Key
    <3>1. Body(c, i).id[3] = Body(c, at.k).id[3]
      BY <1>6, <1>7, <2>1
    <3> QED
      BY <1>6, <1>9, <2>1, <3>1
  <2>2. CASE KeyOf(c, i) # Key
    <3>1. i \in 1 .. at.k - 1
      BY <1>6, <1>8, <2>2
    <3> QED
      BY <1>4, <1>9, <2>2, <3>1
  <2> QED
    BY <2>1, <2>2
<1> QED
  BY <1>1, <1>2, <1>10, <1>11 DEF MapMirrored

LEMMA CloneReplacements ==
  ASSUME DupInv, Mirror, Clone, Current.kind # "br"
  PROVE  Replacements'
<1> DEFINE b == at.b
<1>1. /\ CodeSound(F) /\ F' = F /\ b \in F.blocks /\ HasTail(b) /\ at.k \in 1 .. Size(b)
      /\ Like(Current, TheInst) /\ \A c : HasTail(c)' <=> HasTail(c)
      /\ Done(b) = at.k - 1 /\ \A d : d = b => Done(d)' = at.k
      /\ \A c \in F.blocks : c # b => Done(c)' = Done(c)
  BY CloneFrame
<1>2. \A a, i : Body(a, i)' = Body(a, i)
  BY <1>1, SameSource
<1>3. /\ valueToPhi' = IF IsVoid THEN valueToPhi ELSE Set(valueToPhi, Current.id, PhiId)
      /\ Current.id = TheInst.id
  BY CloneWords
<1>4. Size(b) \in Nat /\ \A i : i \in 1 .. at.k <=> i \in 1 .. at.k - 1 \/ i = at.k
  <2>1. Size(b) \in Nat
    BY <1>1, SourceBody
  <2> QED
    BY <1>1, <2>1
<1>5. Current.kind = TheInst.kind /\ TheInst = Body(b, at.k) /\ Current.id[2] = b
  <2>1. Current.id = <<"orig", b, Current.id[3]>>
    BY CurrentIs
  <2> QED
    BY <1>1, <2>1 DEF Like, TheInst
<1>6. /\ DOMAIN valueToPhi' = DOMAIN valueToPhi \cup IF IsVoid THEN {} ELSE {Current.id}
      /\ \A v \in DOMAIN valueToPhi' :
           valueToPhi'[v] = IF ~IsVoid /\ v = Current.id THEN PhiId ELSE valueToPhi[v]
  BY <1>3 DEF Set
<1> HIDE DEF b
<1>7. ASSUME NEW c \in F.blocks, NEW i \in 1 .. Done(c) PROVE i \in 1 .. Done(c)'
  <2>1. CASE c = b
    BY <1>1, <1>4, <1>7, <2>1
  <2>2. CASE c # b
    BY <1>1, <1>7, <2>2
  <2> QED
    BY <2>1, <2>2
<1>8. ASSUME NEW v \in DOMAIN valueToPhi'
      PROVE  Replaced(v)' /\ valueToPhi'[v] = <<"phi", v[2], v[3]>>
  <2>1. CASE ~IsVoid /\ v = Current.id
    <3>1. at.k \in 1 .. at.k /\ Body(b, at.k).kind # "void" /\ v = Body(b, at.k).id
      BY <1>3, <1>4, <1>5, <2>1 DEF IsVoid
    <3>2. \E c \in F.blocks : HasTail(c) /\ \E i \in 1 .. Done(c)' : Body(c, i).kind # "void" /\ v = Body(c, i).id
      BY <1>1, <3>1
    <3>3. Replaced(v)'
      BY <1>1, <1>2, <3>2 DEF Replaced
    <3>4. PhiId = <<"phi", v[2], v[3]>>
      BY <1>5, <2>1 DEF PhiId, b
    <3> QED
      BY <1>6, <2>1, <3>3, <3>4
  <2>2. CASE ~(~IsVoid /\ v = Current.id)
    <3>1. v \in DOMAIN valueToPhi /\ valueToPhi'[v] = valueToPhi[v]
      BY <1>6, <1>8, <2>2
    <3>2. Replaced(v) /\ valueToPhi[v] = <<"phi", v[2], v[3]>>
      BY <3>1 DEF Mirror, Replacements
    <3>3. PICK c \in F.blocks : HasTail(c) /\ \E i \in 1 .. Done(c) : Body(c, i).kind # "void" /\ v = Body(c, i).id
      BY <3>2 DEF Replaced
    <3>4. \E i \in 1 .. Done(c)' : Body(c, i).kind # "void" /\ v = Body(c, i).id
      BY <1>7, <3>3
    <3>5. Replaced(v)'
      BY <1>1, <1>2, <3>3, <3>4 DEF Replaced
    <3> QED
      BY <3>1, <3>2, <3>5
  <2> QED
    BY <2>1, <2>2
<1>9. ASSUME NEW c \in F.blocks, HasTail(c), NEW i \in 1 .. Done(c)', Body(c, i).kind # "void"
      PROVE  Body(c, i).id \in DOMAIN valueToPhi'
  <2>1. CASE c = b /\ i = at.k
    BY <1>3, <1>5, <1>6, <1>9, <2>1 DEF IsVoid
  <2>2. CASE ~(c = b /\ i = at.k)
    <3>1. i \in 1 .. Done(c)
      <4>1. CASE c = b
        BY <1>1, <1>4, <1>9, <2>2, <4>1
      <4>2. CASE c # b
        BY <1>1, <1>9, <4>2
      <4> QED
        BY <4>1, <4>2
    <3>2. Body(c, i).id \in DOMAIN valueToPhi
      BY <1>9, <3>1 DEF Mirror, Replacements
    <3> QED
      BY <1>6, <3>2
  <2> QED
    BY <2>1, <2>2
<1> QED
  BY <1>1, <1>2, <1>8, <1>9 DEF Replacements

\* What an iteration makes of the instructions of each block.
LEMMA CloneInsides ==
  ASSUME DupInv, Clone, Current.kind # "br", NEW x \in DOMAIN code
  PROVE  /\ code[x] \in Seq(Made) /\ Len(code[x]) \in Nat
         /\ \A i \in 1 .. Len(code[x]) : code[x][i] \in Made
         /\ x \notin {ThenOf(at.b), ElseOf(at.b)} => Len(code'[x]) = Len(code[x])
         /\ x \notin {ThenOf(at.b), ElseOf(at.b), TheTail} =>
              \A i \in 1 .. Len(code[x]) : code'[x][i] = Swapped(code[x][i])
         /\ \A part \in {"then", "else"} : x = Block(part, at.b) =>
              /\ Len(code'[x]) = Len(code[x]) + 1
              /\ \A i \in 1 .. Len(code[x]) : code'[x][i] = Swapped(code[x][i])
              /\ code'[x][Len(code[x]) + 1] = Swapped(Copy(part))
         /\ x = TheTail => \A i \in 1 .. Len(code[x]) :
              code'[x][i] = IF i = at.k /\ ~IsVoid THEN Swapped(NewPhi) ELSE Swapped(code[x][i])
<1>1. code[x] \in Seq(Made) /\ Len(code[x]) \in Nat /\ DOMAIN code[x] = 1 .. Len(code[x])
  BY CurrentIs
<1>2. \A i \in 1 .. Len(code[x]) : code[x][i] \in Made
  BY <1>1
<1>3. /\ Cloned[x] \in Seq(Made) /\ DOMAIN Cloned[x] = 1 .. Len(Cloned[x])
      /\ Len(Cloned[TheTail]) = Len(code[TheTail])
      /\ \A i \in DOMAIN code[TheTail] :
              Cloned[TheTail][i] = IF i = at.k /\ ~IsVoid THEN NewPhi ELSE code[TheTail][i]
      /\ x \notin {ThenOf(at.b), ElseOf(at.b), TheTail} => Cloned[x] = code[x]
  BY ClonedBlocks
<1>4. /\ Len(code'[x]) = Len(Cloned[x])
      /\ \A i \in DOMAIN Cloned[x] : code'[x][i] = Swapped(Cloned[x][i])
  BY CloneBlocks
<1>5. CASE x \notin {ThenOf(at.b), ElseOf(at.b), TheTail}
  <2>1. \A part \in {"then", "else"} : x # Block(part, at.b)
    BY <1>5 DEF ThenOf, ElseOf
  <2>2. Cloned[x] = code[x]
    BY <1>3, <1>5
  <2> QED
    BY <1>1, <1>2, <1>4, <1>5, <2>1, <2>2
<1>6. CASE x = TheTail
  <2>1. \A part \in {"then", "else"} : x # Block(part, at.b)
    BY <1>6, NamesDiffer DEF ThenOf, ElseOf, TheTail
  <2>2. \A i \in 1 .. Len(code[x]) :
          code'[x][i] = Swapped(IF i = at.k /\ ~IsVoid THEN NewPhi ELSE code[x][i])
    BY <1>1, <1>3, <1>4, <1>6
  <2> QED
    BY <1>1, <1>2, <1>3, <1>4, <1>6, <2>1, <2>2
<1>7. ASSUME NEW part \in {"then", "else"}, x = Block(part, at.b)
      PROVE  /\ Len(code'[x]) = Len(code[x]) + 1
             /\ \A i \in 1 .. Len(code[x]) : code'[x][i] = Swapped(code[x][i])
             /\ code'[x][Len(code[x]) + 1] = Swapped(Copy(part))
  <2>1. Cloned[x] = Append(code[x], Copy(part)) /\ Copy(part) \in Made
    <3>1. Copy(part) \in Made
      BY CopyIs
    <3>2. CASE part = "then"
      BY <1>7, <3>1, <3>2, NamesDiffer DEF Cloned, ThenOf, ElseOf
    <3>3. CASE part = "else"
      BY <1>7, <3>1, <3>3, NamesDiffer DEF Cloned, ThenOf, ElseOf
    <3> QED
      BY <3>2, <3>3
  <2> DEFINE s == Append(code[x], Copy(part))
  <2>2. /\ Len(s) = Len(code[x]) + 1 /\ \A i \in DOMAIN code[x] : s[i] = code[x][i]
        /\ s[Len(code[x]) + 1] = Copy(part)
    BY <1>1, <2>1, AppendElems
  <2>3. Cloned[x] = s
    BY <2>1
  <2> HIDE DEF s
  <2>4. /\ DOMAIN Cloned[x] = 1 .. Len(code[x]) + 1
        /\ \A i \in 1 .. Len(code[x]) : i \in 1 .. Len(code[x]) + 1
        /\ Len(code[x]) + 1 \in 1 .. Len(code[x]) + 1
    <3>1. Len(Cloned[x]) = Len(code[x]) + 1
      BY <2>2, <2>3
    <3>2. DOMAIN Cloned[x] = 1 .. Len(code[x]) + 1
      BY <1>3, <3>1
    <3> QED
      BY <1>1, <3>2
  <2> QED
    BY <1>1, <1>4, <2>2, <2>3, <2>4
<1>8. CASE x \in {ThenOf(at.b), ElseOf(at.b)}
  BY <1>1, <1>2, <1>7, <1>8, NamesDiffer DEF TheTail
<1> QED
  BY <1>5, <1>6, <1>8

\* The value chosen for a target is one an instruction of the source may take.
LEMMA ChosenUsable ==
  ASSUME DupInv, Mirror, NEW b \in DOMAIN targets
  PROVE  b \in F.blocks /\ targets[b] \in Usable
<1>1. b \in F.blocks /\ targets[b] \in ReachingValues(F, b)
  BY DEF Mirror, Chosen
<1>2. CodeSound(F) /\ F.sdom \in [F.blocks -> SUBSET F.blocks]
  BY DEF DupInv, Structure, CodeTyped, RIVInv, TypeOK, IsDominatorTree
<1>3. /\ targets[b] \in IntegerTyped
      /\ targets[b] \in Outside(F) \/ \E d \in F.blocks : targets[b] \in F.insts[d]
  BY <1>1, <1>2 DEF ReachingValues, Outside
<1>4. \A d \in F.blocks : F.insts[d] = Ids(F.code[d])
  BY <1>2 DEF CodeSound
<1>5. targets[b] \notin VoidIds(F)
  BY <1>2, <1>3 DEF CodeSound
<1> QED
  BY <1>1, <1>3, <1>4, <1>5 DEF Usable

LEMMA CloneWhole ==
  ASSUME DupInv, Mirror, Clone, Current.kind # "br", NEW c \in F.blocks, ~HasTail(c)
  PROVE  WholeMirrored(c)'
<1> DEFINE x == Original(c)
<1>1. F' = F /\ CodeSound(F)
  BY CloneFrame
<1>2. x \in DOMAIN code /\ x \notin {ThenOf(at.b), ElseOf(at.b), TheTail}
  BY NamesDiffer DEF DupInv, Structure, CodeTyped, TheTail
<1>3. /\ Len(code'[x]) = Len(code[x]) /\ Len(code[x]) \in Nat
      /\ \A i \in 1 .. Len(code[x]) : code[x][i] \in Made /\ code'[x][i] = Swapped(code[x][i])
  BY <1>2, CloneInsides
<1>4. /\ Len(code[x]) = Len(F.code[c])
      /\ \A i \in 1 .. Len(code[x]) : LikePhi(code[x][i], F.code[c][i])
  BY DEF Mirror, WholeBlocks, WholeMirrored
<1>5. ASSUME NEW i \in 1 .. Len(code[x]) PROVE LikePhi(code[x][i], F.code[c][i])'
  <2>1. i \in DOMAIN F.code[c]
    BY <1>1, <1>4, SourceBody
  <2>2. \A j \in DOMAIN F.code[c][i].ops : F.code[c][i].ops[j] \in Usable
    BY <1>1, <2>1, SourceInst
  <2>3. \A z, e : z = Swapped(code[x][i]) /\ e = F.code[c][i] => LikePhi(z, e)'
    <3> SUFFICES ASSUME NEW z, NEW e, NEW y \in Made, y = code[x][i], e = F.code[c][i], z = Swapped(y)
                 PROVE  LikePhi(z, e)'
      BY <1>3
    <3> QED
      BY <1>4, <2>2, LikeSwapped
  <2>4. (F.code[c][i])' = F.code[c][i] /\ (code[x][i])' = Swapped(code[x][i])
    BY <1>1, <1>3
  <2> QED
    BY <2>3, <2>4
<1>6. x' = x
  OBVIOUS
<1> HIDE DEF x
<1> QED
  BY <1>1, <1>3, <1>4, <1>5, <1>6 DEF WholeMirrored, x

LEMMA CloneHead ==
  ASSUME DupInv, Mirror, Clone, Current.kind # "br", NEW c \in F.blocks, HasTail(c)
  PROVE  HeadMirrored(c)'
<1> DEFINE x == Original(c)
           n == Phis(c) + 1
<1>1. F' = F /\ CodeSound(F) /\ targets' = targets
  BY CloneFrame
<1>2. x \in DOMAIN code /\ x \notin {ThenOf(at.b), ElseOf(at.b), TheTail}
  BY NamesDiffer DEF DupInv, Structure, CodeTyped, TheTail
<1>3. /\ Len(code'[x]) = Len(code[x]) /\ Len(code[x]) \in Nat
      /\ \A i \in 1 .. Len(code[x]) : code[x][i] \in Made /\ code'[x][i] = Swapped(code[x][i])
  BY <1>2, CloneInsides
<1>4. c \in DOMAIN targets /\ HeadMirrored(c)
  BY DEF Mirror, Heads
<1>5. /\ Len(code[x]) = n
      /\ \A i \in 1 .. Phis(c) : LikePhi(code[x][i], F.code[c][i])
      /\ code[x][n].id = <<"cond", c, 0>> /\ code[x][n].kind = "isnull"
      /\ code[x][n].ops = <<M(targets[c])>>
  BY <1>4 DEF HeadMirrored
<1>6. Phis(c) \in Nat /\ \A i \in 1 .. Phis(c) : i \in DOMAIN F.code[c]
  BY <1>1, SourceBody
<1>7. n \in 1 .. Len(code[x]) /\ \A i \in 1 .. Phis(c) : i \in 1 .. Len(code[x])
  BY <1>5, <1>6
<1>8. ASSUME NEW i \in 1 .. Phis(c) PROVE LikePhi(code[x][i], F.code[c][i])'
  <2>1. i \in DOMAIN F.code[c]
    BY <1>6
  <2>2. \A j \in DOMAIN F.code[c][i].ops : F.code[c][i].ops[j] \in Usable
    BY <1>1, <2>1, SourceInst
  <2>3. \A z, e : z = Swapped(code[x][i]) /\ e = F.code[c][i] => LikePhi(z, e)'
    <3> SUFFICES ASSUME NEW z, NEW e, NEW y \in Made, y = code[x][i], e = F.code[c][i], z = Swapped(y)
                 PROVE  LikePhi(z, e)'
      BY <1>3, <1>7
    <3> QED
      BY <1>5, <2>2, LikeSwapped
  <2>4. (F.code[c][i])' = F.code[c][i] /\ (code[x][i])' = Swapped(code[x][i])
    BY <1>1, <1>3, <1>7
  <2> QED
    BY <2>3, <2>4
<1>9. /\ code'[x][n].id = <<"cond", c, 0>> /\ code'[x][n].kind = "isnull"
      /\ code'[x][n].ops = <<M(targets[c])'>>
  <2> DEFINE y == code[x][n]
  <2>1. /\ Swapped(y).ops = [j \in DOMAIN y.ops |-> Sw(y.ops[j])]
        /\ Swapped(y).id = y.id /\ Swapped(y).kind = y.kind
    BY <1>3, <1>7, SwappedOps
  <2>2. M(targets[c])' = Sw(M(targets[c]))
    <3>1. \A v \in Usable : M(v)' = Sw(M(v))
      BY CloneWords
    <3>2. targets[c] \in Usable
      BY <1>4, ChosenUsable
    <3>3. M(targets[c])' = Sw(M(targets'[c]))
      BY <1>1, <3>1, <3>2
    <3> QED
      BY <1>1, <3>3
  <2>3. y.ops = <<M(targets[c])>>
    BY <1>5
  <2> HIDE DEF y
  <2>4. Swapped(y).ops = <<Sw(M(targets[c]))>>
    BY <2>1, <2>3
  <2>5. code'[x][n] = Swapped(y)
    BY <1>3, <1>7 DEF y
  <2> QED
    BY <1>5, <2>1, <2>2, <2>4, <2>5 DEF y
<1>10. x' = x /\ Phis(c)' = Phis(c)
  BY <1>1, SameSource
<1> HIDE DEF x
<1> QED
  BY <1>1, <1>3, <1>5, <1>8, <1>9, <1>10 DEF HeadMirrored, x

LEMMA CloneCopy ==
  ASSUME DupInv, Mirror, Clone, Current.kind # "br", NEW c \in F.blocks, HasTail(c),
         NEW part \in {"then", "else"}
  PROVE  CopyMirrored(part, c)'
<1> DEFINE x == Block(part, c)
<1>1. /\ F' = F /\ CodeSound(F) /\ at.b \in F.blocks /\ at.k \in 1 .. Size(at.b) /\ at.k <= Work(at.b)
      /\ Done(at.b) = at.k - 1 /\ \A d : d = at.b => Done(d)' = at.k
      /\ \A d \in F.blocks : d # at.b => Done(d)' = Done(d)
  BY CloneFrame
<1>2. x \in DOMAIN code /\ x # TheTail /\ (c # at.b => x \notin {ThenOf(at.b), ElseOf(at.b)})
  BY NamesDiffer DEF DupInv, Structure, CodeTyped, TheTail, ThenOf, ElseOf
<1>3. CopyMirrored(part, c)
  BY DEF Mirror, BothCopies
<1>4. /\ Len(code[x]) = Done(c)
      /\ \A i \in 1 .. Len(code[x]) : CopyOf(part, c, i, code[x][i])
  BY <1>3 DEF CopyMirrored
<1>5. Size(c) \in Nat /\ Work(c) \in 0 .. Size(c)
  BY <1>1, SourceBody
<1>6. /\ Len(code[x]) \in Nat /\ Len(code'[x]) = Done(c)'
      /\ \A i \in 1 .. Len(code[x]) : code[x][i] \in Made /\ code'[x][i] = Swapped(code[x][i])
      /\ \A i \in 1 .. Len(code'[x]) :
           \/ i \in 1 .. Len(code[x])
           \/ c = at.b /\ i = at.k /\ code'[x][i] = Swapped(Copy(part))
  <2>1. CASE c = at.b
    <3>1. /\ Len(code[x]) \in Nat /\ Len(code'[x]) = Len(code[x]) + 1
          /\ \A i \in 1 .. Len(code[x]) : code[x][i] \in Made /\ code'[x][i] = Swapped(code[x][i])
          /\ code'[x][Len(code[x]) + 1] = Swapped(Copy(part))
      BY <1>2, <2>1, CloneInsides
    <3>2. Len(code[x]) + 1 = at.k /\ Done(c)' = at.k
      BY <1>1, <1>4, <1>5, <2>1
    <3> QED
      BY <2>1, <3>1, <3>2
  <2>2. CASE c # at.b
    BY <1>1, <1>2, <1>4, <2>2, CloneInsides
  <2> QED
    BY <2>1, <2>2
<1>7. \A i \in 1 .. Len(code'[x]) : i \in 1 .. Size(c)
  <2>1. Len(code'[x]) <= Work(c)
    <3>1. CASE c = at.b
      BY <1>1, <1>5, <1>6, <3>1
    <3>2. CASE c # at.b
      <4>1. Len(code'[x]) = Done(c)
        BY <1>1, <1>6, <3>2
      <4>2. ~InWork(c)
        BY <3>2 DEF InWork
      <4> QED
        BY <1>5, <4>1, <4>2 DEF Done, Passed
    <3> QED
      BY <3>1, <3>2
  <2>2. Len(code'[x]) \in Int
    BY <1>1, <1>4, <1>5, <1>6
  <2> QED
    BY <1>5, <2>1, <2>2
<1>8. ASSUME NEW i \in 1 .. Len(code'[x]) PROVE \A z : z = code'[x][i] => CopyOf(part, c, i, z)'
  <2>1. CASE i \in 1 .. Len(code[x])
    <3> SUFFICES ASSUME NEW z, NEW y \in Made, y = code[x][i], z = Swapped(y) PROVE CopyOf(part, c, i, z)'
      BY <1>6, <2>1
    <3> QED
      BY <1>4, <1>7, <2>1, CopySwapped
  <2>2. CASE c = at.b /\ i = at.k /\ code'[x][i] = Swapped(Copy(part))
    <3> SUFFICES ASSUME NEW z, NEW y \in Made, y = Copy(part), z = Swapped(y) PROVE CopyOf(part, c, i, z)'
      BY <2>2, CopyIs
    <3>1. CopyOf(part, c, i, y)
      BY <2>2, CopyMade
    <3> QED
      BY <1>7, <3>1, CopySwapped
  <2> QED
    BY <1>6, <2>1, <2>2
<1>9. x' = x
  OBVIOUS
<1> HIDE DEF x
<1>10. \A i \in 1 .. Len(code'[x]) : CopyOf(part, c, i, code[x][i])'
  BY <1>8, <1>9
<1> QED
  BY <1>6, <1>9, <1>10 DEF CopyMirrored, x

LEMMA CloneClosedTail ==
  ASSUME DupInv, Mirror, Clone, Current.kind # "br", NEW c \in F.blocks, HasTail(c), ~InWork(c)
  PROVE  TailMirrored(c)'
<1> DEFINE x == TailOf(c)
           t == code[x]
           u == code'[x]
<1>1. F' = F /\ CodeSound(F) /\ InWork(at.b)
  BY CloneFrame
<1>2. x \in DOMAIN code /\ x \notin {ThenOf(at.b), ElseOf(at.b), TheTail}
  <2>1. c # at.b
    BY <1>1
  <2> QED
    BY <2>1, NamesDiffer DEF HasTail, TheTail
<1>3. /\ Len(u) = Len(t) /\ Len(t) \in Nat
      /\ \A i \in 1 .. Len(t) : t[i] \in Made /\ u[i] = Swapped(t[i])
  BY <1>2, CloneInsides
<1>4. /\ \A i \in 1 .. Len(t) :
          \/ \E l \in 1 .. Work(c) : Body(c, l).kind # "void" /\ PhiFor(t[i], c, Body(c, l))
          \/ Branches(c) /\ i = Len(t) /\ Like(t[i], Body(c, Size(c)))
      /\ \A l \in 1 .. Work(c) :
           Body(c, l).kind # "void" => \E i \in 1 .. Len(t) : PhiFor(t[i], c, Body(c, l))
      /\ Branches(c) => t # <<>> /\ Like(t[Len(t)], Body(c, Size(c)))
  BY DEF Mirror, ClosedTails, TailMirrored
<1>5. /\ Size(c)' = Size(c) /\ Work(c)' = Work(c) /\ Branches(c)' = Branches(c)
      /\ \A i : Body(c, i)' = Body(c, i)
  BY <1>1, SameSource
<1>6. \A i \in 1 .. Len(t) : \A e : PhiFor(t[i], c, e) => PhiFor(u[i], c, e)
  BY <1>3, PhiForSwapped
<1>7. \A z : z = Body(c, Size(c)) /\ Branches(c) => \A i \in 1 .. Len(t) : Like(t[i], z) =>
        \A y : y = u[i] => Like(y, z)'
  <2> SUFFICES ASSUME NEW z, z = Body(c, Size(c)), Branches(c), NEW i \in 1 .. Len(t), Like(t[i], z),
                      NEW v \in Made, v = t[i], NEW y, y = Swapped(v)
               PROVE  Like(y, z)'
    BY <1>3
  <2>1. Size(c) \in 1 .. Size(c)
    BY <1>1, SourceBody DEF Branches
  <2>2. Phis(c) + Size(c) \in DOMAIN F.code[c]
    BY <1>1, <2>1, SourceBody
  <2>3. \A j \in DOMAIN z.ops : z.ops[j] \in Usable
    BY <1>1, <2>2, SourceInst DEF Body
  <2> QED
    BY <2>3, LikeSwapped
<1>8. \A z : z = Body(c, Size(c)) => \A i \in 1 .. Len(t) : Branches(c) /\ Like(t[i], z) =>
        \A y : y = u[i] => Like(y, z)'
  BY <1>7
<1> HIDE DEF t, u
<1>9. /\ \A i \in 1 .. Len(u) :
          \/ \E l \in 1 .. Work(c) : Body(c, l).kind # "void" /\ PhiFor(u[i], c, Body(c, l))
          \/ Branches(c) /\ i = Len(u) /\ \A y, z : y = u[i] /\ z = Body(c, Size(c)) => Like(y, z)'
      /\ \A l \in 1 .. Work(c) :
           Body(c, l).kind # "void" => \E i \in 1 .. Len(u) : PhiFor(u[i], c, Body(c, l))
      /\ Branches(c) => /\ u # <<>>
                        /\ \A y, z : y = u[Len(u)] /\ z = Body(c, Size(c)) => Like(y, z)'
  <2>1. Branches(c) => u # <<>> /\ Len(t) \in 1 .. Len(t)
    <3>1. Branches(c) => Len(t) # 0
      <4>1. code \in [DOMAIN code -> Seq(Made)]
        BY DEF DupInv, Structure, CodeTyped
      <4>2. t \in Seq(Made)
        BY <1>2, <4>1 DEF t
      <4> QED
        BY <1>4, <4>2
    <3> QED
      BY <1>3, <3>1
  <2>2. \A i \in 1 .. Len(u) :
          \/ \E l \in 1 .. Work(c) : Body(c, l).kind # "void" /\ PhiFor(u[i], c, Body(c, l))
          \/ Branches(c) /\ i = Len(u) /\ \A y, z : y = u[i] /\ z = Body(c, Size(c)) => Like(y, z)'
    BY <1>3, <1>4, <1>6, <1>8
  <2>3. \A l \in 1 .. Work(c) :
           Body(c, l).kind # "void" => \E i \in 1 .. Len(u) : PhiFor(u[i], c, Body(c, l))
    BY <1>3, <1>4, <1>6
  <2>4. Branches(c) => \A y, z : y = u[Len(u)] /\ z = Body(c, Size(c)) => Like(y, z)'
    BY <1>3, <1>4, <1>8, <2>1
  <2> QED
    BY <2>1, <2>2, <2>3, <2>4
<1> QED
  BY <1>1, <1>5, <1>9 DEF TailMirrored, u

LEMMA CloneOpenTail ==
  ASSUME DupInv, Mirror, Clone, Current.kind # "br"
  PROVE  OpenTail'
<1> DEFINE b == at.b
           x == TheTail
           t == code[x]
           u == code'[x]
<1>1. /\ F' = F /\ CodeSound(F) /\ b \in F.blocks /\ at.k \in 1 .. Size(b) /\ at.k <= Work(b)
      /\ Done(b) = at.k - 1 /\ \A d : d = b => Done(d)' = at.k
      /\ at'.b = b /\ at'.k = at.k + 1 /\ Like(Current, TheInst) /\ at # Idle
  BY CloneFrame, CurrentIs
<1>2. at' = [b |-> at.b, k |-> at.k + 1,
             thenVMap |-> Set(at.thenVMap, Key, CopyId("then")),
             elseVMap |-> Set(at.elseVMap, Key, CopyId("else")),
             freeList |-> at.freeList \cup IF IsVoid THEN {at.k} ELSE {}]
  BY CloneStep
<1>3. /\ at'.thenVMap = Set(at.thenVMap, Key, CopyId("then"))
      /\ at'.elseVMap = Set(at.elseVMap, Key, CopyId("else"))
      /\ at'.freeList = at.freeList \cup IF IsVoid THEN {at.k} ELSE {}
  BY <1>2, Working
<1>4. MapMirrored("then", at.thenVMap, at.b)' /\ MapMirrored("else", at.elseVMap, at.b)'
  <2>1. /\ \A m, c : m = Set(at.thenVMap, Key, CopyId("then")) /\ c = at.b => MapMirrored("then", m, c)'
        /\ \A m, c : m = Set(at.elseVMap, Key, CopyId("else")) /\ c = at.b => MapMirrored("else", m, c)'
    <3>1. at.thenVMap = MapOf("then") /\ at.elseVMap = MapOf("else")
      BY DEF MapOf
    <3>2. \A part \in {"then", "else"} : \A m, c :
            m = Set(MapOf(part), Key, CopyId(part)) /\ c = at.b => MapMirrored(part, m, c)'
      BY CloneMap
    <3> QED
      BY <3>1, <3>2
  <2> QED
    BY <1>1, <1>3, <2>1
<1>5. /\ Size(b) \in Nat /\ Work(b) \in 0 .. Size(b)
      /\ \A c : Size(c)' = Size(c) /\ \A i : Body(c, i)' = Body(c, i)
  BY <1>1, SourceBody, SameSource
<1>6. OpenTailMirrored(b)
  BY <1>1 DEF Mirror, OpenTail
<1>7. /\ Len(t) = Size(b)
      /\ \A i \in 1 .. Len(t) :
           IF i <= at.k - 1 /\ Body(b, i).kind # "void" THEN PhiFor(t[i], b, Body(b, i))
           ELSE Like(t[i], Body(b, i))
      /\ at.freeList = {i \in 1 .. at.k - 1 : Body(b, i).kind = "void"}
  BY <1>1, <1>6 DEF OpenTailMirrored, TheTail
<1>8. /\ Len(u) = Len(t)
      /\ \A i \in 1 .. Len(t) : /\ t[i] \in Made
                                /\ u[i] = IF i = at.k /\ ~IsVoid THEN Swapped(NewPhi) ELSE Swapped(t[i])
  BY CurrentIs, CloneInsides, NamesDiffer DEF TheTail
<1>9. IsVoid <=> Body(b, at.k).kind = "void"
  BY <1>1 DEF Like, IsVoid, TheInst
<1>10. NewPhi \in Made /\ PhiFor(NewPhi, b, Body(b, at.k))
  BY NewPhiIs, NewPhiFor DEF TheInst
<1>11. \A i \in 1 .. Size(b) : \A j \in DOMAIN Body(b, i).ops : Body(b, i).ops[j] \in Usable
  <2> SUFFICES ASSUME NEW i \in 1 .. Size(b)
               PROVE  \A j \in DOMAIN Body(b, i).ops : Body(b, i).ops[j] \in Usable
    OBVIOUS
  <2>1. Phis(b) + i \in DOMAIN F.code[b]
    BY <1>1, SourceBody
  <2> QED
    BY <1>1, <2>1, SourceInst DEF Body
<1> HIDE DEF b, t, u, x
<1>12. ASSUME NEW i \in 1 .. Size(b)
       PROVE  IF i <= at.k /\ Body(b, i).kind # "void" THEN PhiFor(u[i], b, Body(b, i))
              ELSE \A y, e : y = u[i] /\ e = Body(b, i) => Like(y, e)'
  <2>1. /\ t[i] \in Made /\ i \in 1 .. Len(t)
        /\ u[i] = IF i = at.k /\ ~IsVoid THEN Swapped(NewPhi) ELSE Swapped(t[i])
    BY <1>7, <1>8
  <2>2. CASE i = at.k /\ ~IsVoid
    <3>1. PhiFor(u[i], b, Body(b, i))
      BY <1>10, <2>1, <2>2, PhiForSwapped
    <3> QED
      BY <1>1, <1>9, <2>2, <3>1
  <2>3. CASE ~(i = at.k /\ ~IsVoid) /\ i <= at.k /\ Body(b, i).kind # "void"
    <3>1. i <= at.k - 1
      BY <1>1, <1>5, <1>9, <2>3
    <3>2. PhiFor(t[i], b, Body(b, i))
      BY <1>7, <2>1, <2>3, <3>1
    <3>3. PhiFor(u[i], b, Body(b, i))
      BY <2>1, <2>3, <3>2, PhiForSwapped
    <3> QED
      BY <2>3, <3>3
  <2>4. CASE ~(i = at.k /\ ~IsVoid) /\ ~(i <= at.k /\ Body(b, i).kind # "void")
    <3>1. ~(i <= at.k - 1 /\ Body(b, i).kind # "void")
      BY <1>1, <1>5, <2>4
    <3>2. Like(t[i], Body(b, i))
      BY <1>7, <2>1, <3>1
    <3>3. \A j \in DOMAIN Body(b, i).ops : Body(b, i).ops[j] \in Usable
      BY <1>11
    <3>4. ASSUME NEW y, NEW e, y = u[i], e = Body(b, i) PROVE Like(y, e)'
      <4>1. \A v \in Made : v = t[i] => Like(y, e)'
        <5> SUFFICES ASSUME NEW v \in Made, v = t[i] PROVE Like(y, e)'
          OBVIOUS
        <5>1. y = Swapped(v) /\ Like(v, e) /\ \A j \in DOMAIN e.ops : e.ops[j] \in Usable
          BY <2>1, <2>4, <3>2, <3>3, <3>4
        <5> QED
          BY <5>1, LikeSwapped
      <4> QED
        BY <2>1, <4>1
    <3> QED
      BY <2>4, <3>4
  <2> QED
    BY <2>2, <2>3, <2>4
<1>13. at'.freeList = {i \in 1 .. at.k : Body(b, i).kind = "void"}
  <2>1. \A i : i \in 1 .. at.k <=> i \in 1 .. at.k - 1 \/ i = at.k
    BY <1>1, <1>5
  <2> QED
    BY <1>3, <1>7, <1>9, <2>1
<1>14. at.k + 1 <= Size(b) + 1
  BY <1>1, <1>5
<1>15. \A c : c = b => OpenTailMirrored(c)'
  <2> SUFFICES ASSUME NEW c, c = b PROVE OpenTailMirrored(c)'
    OBVIOUS
  <2>1. u = code'[TailOf(c)]
    BY DEF TheTail, u, x, b
  <2>2. /\ Len(u) = Size(c) /\ at'.k <= Size(c) + 1
        /\ \A i \in 1 .. Len(u) :
             IF i <= at.k /\ Body(c, i).kind # "void" THEN PhiFor(u[i], c, Body(c, i))
             ELSE \A y, e : y = u[i] /\ e = Body(c, i) => Like(y, e)'
        /\ at'.freeList = {i \in 1 .. at.k : Body(c, i).kind = "void"}
    BY <1>1, <1>7, <1>8, <1>12, <1>13, <1>14
  <2>3. Done(c)' = at.k
    BY <1>1 DEF b
  <2> QED
    BY <1>5, <2>1, <2>2, <2>3 DEF OpenTailMirrored
<1>16. OpenTailMirrored(at.b)'
  BY <1>1, <1>15
<1> QED
  BY <1>4, <1>16 DEF OpenTail

LEMMA CloneWorkMirror ==
  ASSUME DupInv, Mirror, Clone, Current.kind # "br"
  PROVE  Mirror'
<1>1. F' = F /\ targets' = targets /\ todo' = todo /\ \A c : HasTail(c)' <=> HasTail(c)
  BY CloneFrame
<1>2. Chosen'
  BY <1>1 DEF Mirror, Chosen, ReachingValues
<1>3. WholeBlocks'
  BY <1>1, CloneWhole DEF WholeBlocks
<1>4. Heads'
  BY <1>1, CloneHead DEF Mirror, Heads
<1>5. BothCopies'
  BY <1>1, CloneCopy DEF BothCopies
<1>6. ClosedTails'
  <2>1. \A c : InWork(c)' <=> InWork(c)
    BY CloneFrame
  <2> QED
    BY <1>1, <2>1, CloneClosedTail DEF ClosedTails
<1> QED
  BY <1>2, <1>3, <1>4, <1>5, <1>6, CloneReplacements, CloneOpenTail DEF Mirror

\* The terminator stays what it is.
LEMMA CloneBranchMirror ==
  ASSUME DupInv, Mirror, Clone, Current.kind = "br"
  PROVE  Mirror'
<1>1. /\ F' = F /\ code' = code /\ valueToPhi' = valueToPhi /\ targets' = targets /\ todo' = todo
      /\ at' = [at EXCEPT !.k = @ + 1] /\ at # Idle /\ at.b \in F.blocks /\ CodeSound(F)
  BY CloneStep, CurrentIs
<1>2. /\ at'.b = at.b /\ at'.k = at.k + 1 /\ at.k \in 1 .. Size(at.b)
      /\ \A c : InWork(c)' <=> InWork(c)
      /\ \A c \in F.blocks : c # at.b => Done(c)' = Done(c)
      /\ Done(at.b) = Work(at.b) /\ Done(at.b)' = Work(at.b)
  BY CloneFrame
<1>3. /\ at'.thenVMap = at.thenVMap /\ at'.elseVMap = at.elseVMap /\ at'.freeList = at.freeList
  <2>1. at = [b |-> at.b, k |-> at.k, thenVMap |-> at.thenVMap, elseVMap |-> at.elseVMap,
              freeList |-> at.freeList]
    BY <1>1 DEF DupInv, Structure, InTail
  <2>2. at' = [b |-> at.b, k |-> at.k + 1, thenVMap |-> at.thenVMap, elseVMap |-> at.elseVMap,
               freeList |-> at.freeList]
    BY <1>1, <2>1
  <2> QED
    BY <2>2, Working
<1>4. \A c \in F.blocks : Done(c)' = Done(c)
  BY <1>2
<1>5. Replacements' /\ WholeBlocks' /\ Heads' /\ BothCopies' /\ ClosedTails'
  <2>1. \A c \in F.blocks : InWork(c)' = InWork(c)
    BY <1>1, <1>2 DEF InWork
  <2> QED
    BY <1>1, <1>4, <2>1, SameCode
<1>6. Chosen'
  BY <1>1 DEF Mirror, Chosen, ReachingValues
<1>7. OpenTail'
  <2>1. /\ \A y, e : Like(y, e)' = Like(y, e)
        /\ \A part, m : MapMirrored(part, m, at.b)' = MapMirrored(part, m, at.b)
        /\ \A c : Size(c)' = Size(c) /\ \A i : Body(c, i)' = Body(c, i)
    <3>1. DOMAIN code' = DOMAIN code
      BY <1>1
    <3>2. /\ \A y, e : Like(y, e)' = Like(y, e)
          /\ \A part, m : \A c \in F.blocks : MapMirrored(part, m, c)' = MapMirrored(part, m, c)
      BY <1>1, <1>4, <3>1, SameWords
    <3> QED
      BY <1>1, <1>2, <3>2, SameSource
  <2>2. OpenTailMirrored(at.b)'
    <3>1. at.k + 1 <= Size(at.b) + 1
      <4>1. Size(at.b) \in Nat
        BY <1>1, SourceBody
      <4> QED
        BY <1>2, <4>1
    <3> QED
      BY <1>1, <1>2, <1>3, <1>4, <2>1, <3>1 DEF Mirror, OpenTail, OpenTailMirrored
  <2> QED
    BY <1>1, <1>2, <1>3, <2>1, <2>2 DEF Mirror, OpenTail
<1> QED
  BY <1>5, <1>6, <1>7 DEF Mirror

(***************************************************************************)
(* The code mirrors the source at every moment.                            *)
(***************************************************************************)
LEMMA NextMirror == DupInv /\ Mirror /\ [DNext]_<<vars, dvars>> => Mirror'
<1> SUFFICES ASSUME DupInv, Mirror, [DNext]_<<vars, dvars>> PROVE Mirror'
  OBVIOUS
<1>1. CASE Analyse
  <2>1. F' = F /\ UNCHANGED dvars
    BY <1>1 DEF Analyse, Iterate
  <2> QED
    BY <2>1, AnalyseMirror
<1>2. CASE Choose
  BY <1>2, ChooseMirror
<1>3. CASE \E b \in todo : Split(b)
  BY <1>3, SplitMirror
<1>4. CASE Clone
  BY <1>4, CloneWorkMirror, CloneBranchMirror
<1>5. CASE Finish
  BY <1>5, FinishMirror
<1>6. CASE UNCHANGED <<vars, dvars>>
  <2>1. F' = F /\ UNCHANGED dvars
    BY <1>6 DEF vars
  <2> QED
    BY <2>1, AnalyseMirror
<1> QED
  BY <1>1, <1>2, <1>3, <1>4, <1>5, <1>6 DEF DNext

LEMMA MirrorInvariant == DSpec => [](DupInv /\ Mirror)
<1>1. DInit => DupInv /\ Mirror
  BY InitDup, InitMirror
<1>2. DupInv /\ Mirror /\ [DNext]_<<vars, dvars>> => (DupInv /\ Mirror)'
  BY NextDup, NextMirror
<1> QED
  BY <1>1, <1>2, PTL DEF DSpec

(***************************************************************************)
(* Runs, instruction by instruction and block by block.                    *)
(***************************************************************************)
\* What becomes of a run along some of the instructions, in their order.
Executing(insts, run, g, n) ==
  g = [s \in SUBSET (1 .. n) |->
         IF s = {} THEN run ELSE Execute(g[s \ {Max(s)}], insts[Max(s)])]

LEMMA MaxWith ==
  ASSUME NEW n \in Nat, NEW s \in SUBSET (1 .. n + 1), n + 1 \in s
  PROVE  Max(s) = n + 1
<1>1. n + 1 \in s /\ \A y \in s : n + 1 >= y
  OBVIOUS
<1>2. ASSUME NEW x \in s, \A y \in s : x >= y PROVE x = n + 1
  BY <1>2
<1> QED
  BY <1>1, <1>2 DEF Max

LEMMA SomeExecuting ==
  ASSUME NEW insts, NEW run
  PROVE  \A n \in Nat : \E g : Executing(insts, run, g, n)
<1> DEFINE S == {n \in Nat : \E g : Executing(insts, run, g, n)}
<1>1. 0 \in S
  <2> DEFINE g == [s \in SUBSET (1 .. 0) |-> run]
  <2>1. \A s \in SUBSET (1 .. 0) : s = {}
    OBVIOUS
  <2>2. Executing(insts, run, g, 0)
    BY <2>1, Zenon DEF Executing
  <2> QED
    BY <2>2
<1>2. ASSUME NEW n \in Nat, n \in S PROVE n + 1 \in S
  <2>1. PICK g : Executing(insts, run, g, n)
    BY <1>2
  <2> DEFINE h == [s \in SUBSET (1 .. n + 1) |->
                     IF n + 1 \in s THEN Execute(g[s \ {n + 1}], insts[n + 1]) ELSE g[s]]
  <2>2. ASSUME NEW s \in SUBSET (1 .. n)
        PROVE  g[s] = IF s = {} THEN run ELSE Execute(g[s \ {Max(s)}], insts[Max(s)])
    BY <2>1, Zenon DEF Executing
  <2>3. ASSUME NEW s \in SUBSET (1 .. n + 1)
        PROVE  h[s] = IF s = {} THEN run ELSE Execute(h[s \ {Max(s)}], insts[Max(s)])
    <3>1. CASE n + 1 \in s
      <4>1. Max(s) = n + 1
        BY <3>1, MaxWith
      <4>2. s \ {n + 1} \in SUBSET (1 .. n + 1) /\ n + 1 \notin s \ {n + 1}
        OBVIOUS
      <4>3. h[s \ {n + 1}] = g[s \ {n + 1}]
        BY <4>2, Zenon
      <4>4. h[s] = Execute(g[s \ {n + 1}], insts[n + 1])
        BY <3>1, Zenon
      <4>5. s # {}
        BY <3>1
      <4> HIDE DEF h
      <4> QED
        BY <4>1, <4>3, <4>4, <4>5, Zenon
    <3>2. CASE n + 1 \notin s
      <4>1. s \in SUBSET (1 .. n) /\ h[s] = g[s]
        BY <3>2
      <4>2. s \ {Max(s)} \in SUBSET (1 .. n + 1) /\ n + 1 \notin s \ {Max(s)}
        BY <3>2
      <4>3. h[s \ {Max(s)}] = g[s \ {Max(s)}]
        BY <4>2, Zenon
      <4> HIDE DEF h
      <4> QED
        BY <2>2, <4>1, <4>3, Zenon
    <3> QED
      BY <3>1, <3>2
  <2>4. h = [s \in SUBSET (1 .. n + 1) |-> h[s]]
    OBVIOUS
  <2> HIDE DEF h
  <2>5. Executing(insts, run, h, n + 1)
    BY <2>3, <2>4, Zenon DEF Executing
  <2> QED
    BY <2>5
<1>3. Nat \subseteq S
  <2> HIDE DEF S
  <2> QED
    BY <1>1, <1>2, NatSet
<1> QED
  BY <1>3

\* The run behind a list of instructions.
Ran(run, insts) == FoldLeft(Execute, run, insts)

\* The run before and after each instruction.
RunsAlong(h, first, insts, n) ==
  h[0] = first /\ \A k \in 1 .. n : h[k] = Execute(h[k - 1], insts[k])

LEMMA ExecutedAlong ==
  ASSUME NEW insts, NEW run, NEW n \in Nat, DOMAIN insts = 1 .. n
  PROVE  \E h : RunsAlong(h, run, insts, n) /\ Ran(run, insts) = h[n]
<1> DEFINE iter == CHOOSE g : Executing(insts, run, g, n)
           h == [k \in 0 .. n |-> iter[1 .. k]]
<1>1. Executing(insts, run, iter, n)
  BY SomeExecuting, Zenon
<1>2. Ran(run, insts) = iter[1 .. n]
  BY Zenon DEF Ran, FoldLeft, MapThenFoldSet, Executing
<1> HIDE DEF iter
<1>3. \A s \in SUBSET (1 .. n) :
        iter[s] = IF s = {} THEN run ELSE Execute(iter[s \ {Max(s)}], insts[Max(s)])
  BY <1>1, Zenon DEF Executing
<1>4. h[0] = run
  <2>1. 1 .. 0 = {} /\ 1 .. 0 \in SUBSET (1 .. n) /\ 0 \in 0 .. n
    OBVIOUS
  <2> QED
    BY <1>3, <2>1
<1>5. ASSUME NEW k \in 1 .. n PROVE h[k] = Execute(h[k - 1], insts[k])
  <2>1. k - 1 \in Nat /\ (k - 1) + 1 = k /\ k \in 0 .. n /\ k - 1 \in 0 .. n
    OBVIOUS
  <2>2. 1 .. k \in SUBSET (1 .. (k - 1) + 1) /\ (k - 1) + 1 \in 1 .. k
    BY <2>1
  <2>3. Max(1 .. k) = k
    BY <2>1, <2>2, MaxWith
  <2>4. (1 .. k) \ {k} = 1 .. k - 1 /\ 1 .. k # {} /\ 1 .. k \in SUBSET (1 .. n)
    OBVIOUS
  <2>5. iter[1 .. k] = Execute(iter[1 .. k - 1], insts[k])
    BY <1>3, <2>3, <2>4, Zenon
  <2> QED
    BY <2>1, <2>5, Zenon
<1>6. h[n] = iter[1 .. n]
  OBVIOUS
<1> HIDE DEF h
<1>7. RunsAlong(h, run, insts, n)
  BY <1>4, <1>5, Zenon DEF RunsAlong
<1> QED
  BY <1>2, <1>6, <1>7, Zenon

\* What becomes of a run along some of the blocks, in their order.
Entering(steps, run, g, n) ==
  g = [s \in SUBSET (1 .. n) |->
         IF s = {} THEN run ELSE EnterBlock(g[s \ {Max(s)}], steps[Max(s)])]

LEMMA SomeEntering ==
  ASSUME NEW steps, NEW run
  PROVE  \A n \in Nat : \E g : Entering(steps, run, g, n)
<1> DEFINE S == {n \in Nat : \E g : Entering(steps, run, g, n)}
<1>1. 0 \in S
  <2> DEFINE g == [s \in SUBSET (1 .. 0) |-> run]
  <2>1. \A s \in SUBSET (1 .. 0) : s = {}
    OBVIOUS
  <2>2. Entering(steps, run, g, 0)
    BY <2>1, Zenon DEF Entering
  <2> QED
    BY <2>2
<1>2. ASSUME NEW n \in Nat, n \in S PROVE n + 1 \in S
  <2>1. PICK g : Entering(steps, run, g, n)
    BY <1>2
  <2> DEFINE h == [s \in SUBSET (1 .. n + 1) |->
                     IF n + 1 \in s THEN EnterBlock(g[s \ {n + 1}], steps[n + 1]) ELSE g[s]]
  <2>2. ASSUME NEW s \in SUBSET (1 .. n)
        PROVE  g[s] = IF s = {} THEN run ELSE EnterBlock(g[s \ {Max(s)}], steps[Max(s)])
    BY <2>1, Zenon DEF Entering
  <2>3. ASSUME NEW s \in SUBSET (1 .. n + 1)
        PROVE  h[s] = IF s = {} THEN run ELSE EnterBlock(h[s \ {Max(s)}], steps[Max(s)])
    <3>1. CASE n + 1 \in s
      <4>1. Max(s) = n + 1
        BY <3>1, MaxWith
      <4>2. s \ {n + 1} \in SUBSET (1 .. n + 1) /\ n + 1 \notin s \ {n + 1}
        OBVIOUS
      <4>3. h[s \ {n + 1}] = g[s \ {n + 1}]
        BY <4>2, Zenon
      <4>4. h[s] = EnterBlock(g[s \ {n + 1}], steps[n + 1])
        BY <3>1, Zenon
      <4>5. s # {}
        BY <3>1
      <4> HIDE DEF h
      <4> QED
        BY <4>1, <4>3, <4>4, <4>5, Zenon
    <3>2. CASE n + 1 \notin s
      <4>1. s \in SUBSET (1 .. n) /\ h[s] = g[s]
        BY <3>2
      <4>2. s \ {Max(s)} \in SUBSET (1 .. n + 1) /\ n + 1 \notin s \ {Max(s)}
        BY <3>2
      <4>3. h[s \ {Max(s)}] = g[s \ {Max(s)}]
        BY <4>2, Zenon
      <4> HIDE DEF h
      <4> QED
        BY <2>2, <4>1, <4>3, Zenon
    <3> QED
      BY <3>1, <3>2
  <2>4. h = [s \in SUBSET (1 .. n + 1) |-> h[s]]
    OBVIOUS
  <2> HIDE DEF h
  <2>5. Entering(steps, run, h, n + 1)
    BY <2>3, <2>4, Zenon DEF Entering
  <2> QED
    BY <2>5
<1>3. Nat \subseteq S
  <2> HIDE DEF S
  <2> QED
    BY <1>1, <1>2, NatSet
<1> QED
  BY <1>3

\* The run behind a list of blocks.
Entered(run, steps) == FoldLeft(EnterBlock, run, steps)

\* The run before and after each block.
EntersAlong(h, first, steps, n) ==
  h[0] = first /\ \A k \in 1 .. n : h[k] = EnterBlock(h[k - 1], steps[k])

LEMMA EnteredAlong ==
  ASSUME NEW steps, NEW run, NEW n \in Nat, DOMAIN steps = 1 .. n
  PROVE  \E h : EntersAlong(h, run, steps, n) /\ Entered(run, steps) = h[n]
<1> DEFINE iter == CHOOSE g : Entering(steps, run, g, n)
           h == [k \in 0 .. n |-> iter[1 .. k]]
<1>1. Entering(steps, run, iter, n)
  BY SomeEntering, Zenon
<1>2. Entered(run, steps) = iter[1 .. n]
  BY Zenon DEF Entered, FoldLeft, MapThenFoldSet, Entering
<1> HIDE DEF iter
<1>3. \A s \in SUBSET (1 .. n) :
        iter[s] = IF s = {} THEN run ELSE EnterBlock(iter[s \ {Max(s)}], steps[Max(s)])
  BY <1>1, Zenon DEF Entering
<1>4. h[0] = run
  <2>1. 1 .. 0 = {} /\ 1 .. 0 \in SUBSET (1 .. n) /\ 0 \in 0 .. n
    OBVIOUS
  <2> QED
    BY <1>3, <2>1
<1>5. ASSUME NEW k \in 1 .. n PROVE h[k] = EnterBlock(h[k - 1], steps[k])
  <2>1. k - 1 \in Nat /\ (k - 1) + 1 = k /\ k \in 0 .. n /\ k - 1 \in 0 .. n
    OBVIOUS
  <2>2. 1 .. k \in SUBSET (1 .. (k - 1) + 1) /\ (k - 1) + 1 \in 1 .. k
    BY <2>1
  <2>3. Max(1 .. k) = k
    BY <2>1, <2>2, MaxWith
  <2>4. (1 .. k) \ {k} = 1 .. k - 1 /\ 1 .. k # {} /\ 1 .. k \in SUBSET (1 .. n)
    OBVIOUS
  <2>5. iter[1 .. k] = EnterBlock(iter[1 .. k - 1], steps[k])
    BY <1>3, <2>3, <2>4, Zenon
  <2> QED
    BY <2>1, <2>5, Zenon
<1>6. h[n] = iter[1 .. n]
  OBVIOUS
<1> HIDE DEF h
<1>7. EntersAlong(h, run, steps, n)
  BY <1>4, <1>5, Zenon DEF EntersAlong
<1> QED
  BY <1>2, <1>6, <1>7, Zenon

(***************************************************************************)
(* One instruction, executed by two runs.                                  *)
(***************************************************************************)
RunLike(x) == x = [env |-> x.env, prev |-> x.prev, visit |-> x.visit, trace |-> x.trace]
Alike(x, y) == RunLike(x) /\ RunLike(y) /\ x.visit = y.visit /\ x.trace = y.trace
Seen(env, e) == [i \in DOMAIN e.ops |-> Value(env, e.ops[i])]
Entry(env, e) == [block |-> e.id[2], index |-> e.id[3], seen |-> Seen(env, e)]
Result(x, e) == <<"result", e.id[2], e.id[3], x.visit>>

LEMMA ValueSet ==
  ASSUME NEW env, NEW k, NEW result1
  PROVE  \A v : Value(Set(env, k, result1), v) = IF v = k THEN result1 ELSE Value(env, v)
BY DEF Value, Set

Executed(x, e, y) ==
  /\ RunLike(y) /\ y.prev = x.prev /\ y.visit = x.visit
  /\ y.env = Set(x.env, e.id, Result(x, e))
  /\ y.trace = Append(x.trace, Entry(x.env, e))
  /\ \A v : Value(y.env, v) = IF v = e.id THEN Result(x, e) ELSE Value(x.env, v)

LEMMA ExecuteParts ==
  ASSUME NEW x, RunLike(x), NEW e
  PROVE  Executed(x, e, Execute(x, e))
<1> DEFINE y == Execute(x, e)
<1> DEFINE env1 == Set(x.env, e.id, Result(x, e))
           trace1 == Append(x.trace, Entry(x.env, e))
<1>1. y = [x EXCEPT !.trace = trace1, !.env = env1]
  BY DEF Execute, Entry, Seen, Result
<1>2. \A v : Value(env1, v) = IF v = e.id THEN Result(x, e) ELSE Value(x.env, v)
  BY ValueSet
<1>3. x = [env |-> x.env, prev |-> x.prev, visit |-> x.visit, trace |-> x.trace]
  BY DEF RunLike
<1> HIDE DEF env1, trace1
<1>4. y = [env |-> env1, prev |-> x.prev, visit |-> x.visit, trace |-> trace1]
  BY <1>1, <1>3
<1>5. y.env = env1 /\ y.trace = trace1 /\ y.prev = x.prev /\ y.visit = x.visit
  BY <1>4
<1> HIDE DEF y
<1>6. Executed(x, e, y)
  BY <1>2, <1>4, <1>5 DEF Executed, RunLike, env1, trace1
<1> QED
  BY <1>6 DEF y

LEMMA ExecuteAlike ==
  ASSUME NEW x, NEW y, Alike(x, y), NEW e, NEW f, e.id[2] = f.id[2], e.id[3] = f.id[3],
         DOMAIN e.ops = DOMAIN f.ops,
         \A j \in DOMAIN e.ops : Value(x.env, e.ops[j]) = Value(y.env, f.ops[j]),
         NEW u, u = Execute(x, e), NEW w, w = Execute(y, f)
  PROVE  /\ Alike(u, w) /\ u.prev = x.prev /\ w.prev = y.prev
         /\ \A v : Value(u.env, v) = IF v = e.id THEN Result(x, e) ELSE Value(x.env, v)
         /\ \A v : Value(w.env, v) = IF v = f.id THEN Result(x, e) ELSE Value(y.env, v)
<1>0. RunLike(x) /\ RunLike(y) /\ x.visit = y.visit /\ x.trace = y.trace
  BY DEF Alike
<1>1. /\ RunLike(u) /\ u.prev = x.prev /\ u.visit = x.visit
      /\ u.trace = Append(x.trace, Entry(x.env, e))
      /\ \A v : Value(u.env, v) = IF v = e.id THEN Result(x, e) ELSE Value(x.env, v)
  <2>1. Executed(x, e, u)
    BY <1>0, ExecuteParts
  <2> QED
    BY <2>1 DEF Executed
<1>2. /\ RunLike(w) /\ w.prev = y.prev /\ w.visit = y.visit
      /\ w.trace = Append(y.trace, Entry(y.env, f))
      /\ \A v : Value(w.env, v) = IF v = f.id THEN Result(y, f) ELSE Value(y.env, v)
  <2>1. Executed(y, f, w)
    BY <1>0, ExecuteParts
  <2> QED
    BY <2>1 DEF Executed
<1>4. Seen(x.env, e) = Seen(y.env, f)
  BY DEF Seen
<1>5. Entry(x.env, e) = Entry(y.env, f) /\ Result(x, e) = Result(y, f)
  BY <1>0, <1>4 DEF Entry, Result
<1> QED
  BY <1>0, <1>1, <1>2, <1>5 DEF Alike

(***************************************************************************)
(* A block is entered.                                                     *)
(***************************************************************************)
Incoming(phi, prev) == {i \in DOMAIN phi.from : phi.from[i] = prev}
PhiValue(env, phi, prev) ==
  IF Incoming(phi, prev) = {} THEN Undefined ELSE Value(env, phi.ops[Min(Incoming(phi, prev))])

LEMMA EnteredValue ==
  ASSUME NEW env, NEW insts, NEW prev, NEW v
  PROVE  /\ (\A phi \in PhisOf(insts) : phi.id # v) =>
              Value(EnterPhis(env, insts, prev), v) = Value(env, v)
         /\ (\E phi \in PhisOf(insts) : phi.id = v) =>
              \E phi \in PhisOf(insts) :
                phi.id = v /\ Value(EnterPhis(env, insts, prev), v) = PhiValue(env, phi, prev)
<1> DEFINE phis == PhisOf(insts)
           ids == {phi.id : phi \in phis}
           the(w) == CHOOSE p \in phis : p.id = w
           g == [w \in DOMAIN env \cup ids |->
                   IF w \in ids THEN PhiValue(env, the(w), prev) ELSE env[w]]
<1>1. EnterPhis(env, insts, prev) = g
  BY Zenon DEF EnterPhis, PhiValue, Incoming
<1>2. CASE \A phi \in phis : phi.id # v
  <2>1. v \notin ids
    BY <1>2
  <2>2. DOMAIN g = DOMAIN env \cup ids /\ (v \in DOMAIN env => g[v] = env[v])
    BY <2>1
  <2> HIDE DEF g
  <2> QED
    BY <1>1, <1>2, <2>1, <2>2 DEF Value
<1>3. CASE \E phi \in phis : phi.id = v
  <2>1. the(v) \in phis /\ the(v).id = v
    BY <1>3
  <2> HIDE DEF phis
  <2>2. v \in ids
    BY <1>3
  <2> HIDE DEF the
  <2>3. v \in DOMAIN g /\ g[v] = PhiValue(env, the(v), prev)
    BY <2>2
  <2> HIDE DEF g
  <2>4. Value(g, v) = PhiValue(env, the(v), prev)
    BY <2>3 DEF Value
  <2> QED
    BY <1>1, <1>3, <2>1, <2>4 DEF phis
<1> QED
  BY <1>2, <1>3

\* The instructions of a block behind its phis, and the run in front of them.
RestOf(insts) == SubSeq(insts, FirstNonPHI(insts), Len(insts))
Begun(x, step) ==
  [env |-> EnterPhis(x.env, step.insts, x.prev), prev |-> x.prev, visit |-> step.visit,
   trace |-> x.trace]

\* The run of a block, from its first instruction behind the phis on.
BlockRun(h, x, step, n) ==
  /\ RunsAlong(h, Begun(x, step), RestOf(step.insts), n)
  /\ RunLike(h[n]) => \A y : y = EnterBlock(x, step) =>
       /\ RunLike(y) /\ y.env = h[n].env /\ y.trace = h[n].trace
       /\ y.visit = h[n].visit /\ y.prev = step.name

LEMMA EnteredBlock ==
  ASSUME NEW x, RunLike(x), NEW step, NEW n \in Nat, DOMAIN RestOf(step.insts) = 1 .. n
  PROVE  RunLike(Begun(x, step)) /\ \E h : BlockRun(h, x, step, n)
<1> DEFINE begun == [x EXCEPT !.env = EnterPhis(@, step.insts, x.prev)]
           rest == RestOf(step.insts)
<1>1. EnterBlock(x, step)
        = [Ran([begun EXCEPT !.visit = step.visit], rest) EXCEPT !.prev = step.name]
  BY Zenon DEF EnterBlock, RestOf, Ran
<1>2. x = [env |-> x.env, prev |-> x.prev, visit |-> x.visit, trace |-> x.trace]
  BY DEF RunLike
<1>3. [begun EXCEPT !.visit = step.visit] = Begun(x, step)
  <2>1. begun = [env |-> EnterPhis(x.env, step.insts, x.prev), prev |-> x.prev,
                 visit |-> x.visit, trace |-> x.trace]
    BY <1>2
  <2> HIDE DEF begun
  <2> QED
    BY <2>1 DEF Begun
<1>4. RunLike(Begun(x, step))
  BY DEF RunLike, Begun
<1>5. PICK h : RunsAlong(h, Begun(x, step), rest, n) /\ Ran(Begun(x, step), rest) = h[n]
  <2>1. DOMAIN rest = 1 .. n
    OBVIOUS
  <2> HIDE DEF rest
  <2> QED
    BY <2>1, ExecutedAlong
<1>6. ASSUME RunLike(h[n]), NEW y, y = EnterBlock(x, step)
      PROVE  /\ RunLike(y) /\ y.env = h[n].env /\ y.trace = h[n].trace
             /\ y.visit = h[n].visit /\ y.prev = step.name
  <2>1. y = [h[n] EXCEPT !.prev = step.name]
    BY <1>1, <1>3, <1>5, <1>6, Zenon
  <2>2. h[n] = [env |-> h[n].env, prev |-> h[n].prev, visit |-> h[n].visit, trace |-> h[n].trace]
    BY <1>6 DEF RunLike
  <2>3. y = [env |-> h[n].env, prev |-> step.name, visit |-> h[n].visit, trace |-> h[n].trace]
    BY <2>1, <2>2
  <2> QED
    BY <2>3 DEF RunLike
<1>7. BlockRun(h, x, step, n)
  BY <1>5, <1>6, Zenon DEF BlockRun
<1> QED
  BY <1>4, <1>7

(***************************************************************************)
(* A run of the code that follows a run of the source.                     *)
(***************************************************************************)
\* The run y of the code has under m[v] what the run x of the source has under v.
Follows(y, x, m) ==
  Alike(x, y) /\ \A v \in Usable : Value(x.env, v) = Value(y.env, m[v])
\* Instruction f is e for a run that follows under m, and leaves it so under m2.
Repeats(f, e, m, m2) ==
  /\ f.id[2] = e.id[2] /\ f.id[3] = e.id[3] /\ DOMAIN f.ops = DOMAIN e.ops
  /\ \A j \in DOMAIN e.ops : e.ops[j] \in Usable /\ f.ops[j] = m[e.ops[j]]
  /\ \A v \in Usable : IF v = e.id THEN m2[v] = f.id ELSE m2[v] = m[v] /\ m[v] # f.id
Repeated(fs, es, ms, n) == \A k \in 1 .. n : Repeats(fs[k], es[k], ms[k - 1], ms[k])

LEMMA OneRepeated ==
  ASSUME NEW x, NEW y, NEW m, NEW m2, Follows(y, x, m), NEW e, NEW f, Repeats(f, e, m, m2),
         NEW u, u = Execute(x, e), NEW w, w = Execute(y, f)
  PROVE  Follows(w, u, m2) /\ u.visit = x.visit
<1>1. /\ e.id[2] = f.id[2] /\ e.id[3] = f.id[3] /\ DOMAIN e.ops = DOMAIN f.ops
      /\ \A j \in DOMAIN e.ops : Value(x.env, e.ops[j]) = Value(y.env, f.ops[j])
  BY DEF Repeats, Follows
<1>2. Alike(x, y)
  BY DEF Follows
<1>3. /\ Alike(u, w)
      /\ \A v : Value(u.env, v) = IF v = e.id THEN Result(x, e) ELSE Value(x.env, v)
      /\ \A v : Value(w.env, v) = IF v = f.id THEN Result(x, e) ELSE Value(y.env, v)
  BY <1>1, <1>2, ExecuteAlike
<1>4. u.visit = x.visit
  <2>1. Executed(x, e, u)
    BY <1>2, ExecuteParts DEF Alike
  <2> QED
    BY <2>1 DEF Executed
<1>5. \A v \in Usable : Value(u.env, v) = Value(w.env, m2[v])
  BY <1>3 DEF Repeats, Follows
<1> QED
  BY <1>3, <1>4, <1>5 DEF Follows

LEMMA AllRepeated ==
  ASSUME NEW n \in Nat, NEW es, NEW fs, NEW ms, Repeated(fs, es, ms, n),
         NEW x, NEW y, Follows(y, x, ms[0]),
         NEW h, RunsAlong(h, x, es, n), NEW g, RunsAlong(g, y, fs, n)
  PROVE  Follows(g[n], h[n], ms[n]) /\ h[n].visit = x.visit
<1> DEFINE S == {k \in Nat : k <= n => Follows(g[k], h[k], ms[k]) /\ h[k].visit = x.visit}
<1>1. 0 \in S
  BY DEF RunsAlong
<1>2. ASSUME NEW k \in Nat, k \in S PROVE k + 1 \in S
  <2> SUFFICES ASSUME k + 1 <= n
               PROVE  Follows(g[k + 1], h[k + 1], ms[k + 1]) /\ h[k + 1].visit = x.visit
    OBVIOUS
  <2>1. k + 1 \in 1 .. n /\ (k + 1) - 1 = k /\ k <= n
    OBVIOUS
  <2>2. Follows(g[k], h[k], ms[k]) /\ h[k].visit = x.visit
    BY <1>2, <2>1
  <2>3. h[k + 1] = Execute(h[k], es[k + 1]) /\ g[k + 1] = Execute(g[k], fs[k + 1])
    BY <2>1, Zenon DEF RunsAlong
  <2>4. Repeats(fs[k + 1], es[k + 1], ms[k], ms[k + 1])
    BY <2>1, Zenon DEF Repeated
  <2> QED
    BY <2>2, <2>3, <2>4, OneRepeated
<1>3. Nat \subseteq S
  <2> HIDE DEF S
  <2> QED
    BY <1>1, <1>2, NatSet
<1> QED
  BY <1>3

LEMMA RunsSliced ==
  ASSUME NEW n \in Nat, NEW d \in Nat, NEW N \in Nat, d + n <= N, NEW insts, NEW x,
         NEW h, RunsAlong(h, x, insts, N)
  PROVE  RunsAlong([k \in 0 .. n |-> h[d + k]], h[d], [k \in 1 .. n |-> insts[d + k]], n)
<1> DEFINE g == [k \in 0 .. n |-> h[d + k]]
           part == [k \in 1 .. n |-> insts[d + k]]
<1>1. g[0] = h[d]
  OBVIOUS
<1>2. ASSUME NEW k \in 1 .. n PROVE g[k] = Execute(g[k - 1], part[k])
  <2>1. d + k \in 1 .. N /\ (d + k) - 1 = d + (k - 1) /\ k \in 0 .. n /\ k - 1 \in 0 .. n
    OBVIOUS
  <2>2. h[d + k] = Execute(h[d + (k - 1)], insts[d + k])
    BY <2>1, Zenon DEF RunsAlong
  <2>3. g[k] = h[d + k] /\ g[k - 1] = h[d + (k - 1)] /\ part[k] = insts[d + k]
    BY <2>1
  <2> QED
    BY <2>2, <2>3, Zenon
<1> HIDE DEF g, part
<1>3. RunsAlong(g, h[d], part, n)
  BY <1>1, <1>2, Zenon DEF RunsAlong
<1> QED
  BY <1>3 DEF g, part

(***************************************************************************)
(* What uses became, when no block is in work.                             *)
(***************************************************************************)
LEMMA Settled ==
  ASSUME DupInv, at = Idle, NEW b \in F.blocks
  PROVE  CodeSound(F) /\ ~InWork(b) /\ Done(b) = Work(b)
<1>1. CodeSound(F)
  BY DEF DupInv, Structure, CodeTyped
<1>2. Size(b) \in Nat /\ Work(b) \in 0 .. Size(b)
  BY <1>1, SourceBody
<1>3. ~InWork(b) /\ Passed(b) = Size(b)
  BY DEF InWork, Passed
<1> QED
  BY <1>1, <1>2, <1>3 DEF Done

LEMMA UseIs ==
  ASSUME DupInv, Mirror, at = Idle, NEW v \in Usable
  PROVE  \/ v \notin Results(F) /\ M(v) = v
         \/ /\ v = <<"orig", v[2], v[3]>> /\ v \in Results(F)
            /\ M(v) = IF v \in DOMAIN valueToPhi THEN <<"phi", v[2], v[3]>> ELSE v
<1>1. CodeSound(F)
  BY DEF DupInv, Structure, CodeTyped
<1>2. \A w \in DOMAIN valueToPhi : Replaced(w) /\ valueToPhi[w] = <<"phi", w[2], w[3]>>
  BY DEF Mirror, Replacements
<1>3. M(v) = IF v \in DOMAIN valueToPhi THEN <<"phi", v[2], v[3]>> ELSE v
  BY <1>2 DEF M, Mapped
<1>4. ASSUME v \in DOMAIN valueToPhi PROVE v \in Results(F)
  <2>1. PICK b \in F.blocks : \E i \in 1 .. Done(b) : Body(b, i).kind # "void" /\ v = Body(b, i).id
    BY <1>2, <1>4 DEF Replaced
  <2>2. PICK i \in 1 .. Done(b) : v = Body(b, i).id
    BY <2>1
  <2>3. Work(b) \in 0 .. Size(b) /\ Size(b) \in Nat /\ Done(b) = Work(b)
    BY <1>1, SourceBody, Settled
  <2>4. i \in 1 .. Size(b)
    BY <2>2, <2>3
  <2>5. Phis(b) + i \in DOMAIN F.code[b]
    BY <1>1, <2>4, SourceBody
  <2> QED
    BY <1>1, <2>2, <2>5, SourceInst DEF Body
<1> QED
  BY <1>1, <1>3, <1>4, UsableIs

\* The phis, the terminators and all that whole blocks hold stay what they are.
LEMMA UseKept ==
  ASSUME DupInv, Mirror, at = Idle, NEW b \in F.blocks, NEW i \in DOMAIN F.code[b],
         ~HasTail(b) \/ i <= Phis(b) \/ F.code[b][i].kind = "br", NEW v \in Usable
  PROVE  M(v) = F.code[b][i].id <=> v = F.code[b][i].id
<1> DEFINE e == F.code[b][i]
<1>1. CodeSound(F) /\ i \in Nat /\ Phis(b) \in Nat
  BY Settled, SourceBody
<1>2. e.id = <<"orig", b, e.id[3]>> /\ e.id[2] = b /\ e.id \in Results(F) /\ e.id[1] = "orig"
  BY <1>1, SourceInst
<1>3. ASSUME e.id \in DOMAIN valueToPhi PROVE FALSE
  <2>1. Replaced(e.id)
    BY <1>3 DEF Mirror, Replacements
  <2>2. PICK c \in F.blocks : HasTail(c) /\ \E l \in 1 .. Done(c) : e.id = Body(c, l).id
    BY <2>1 DEF Replaced
  <2>3. PICK l \in 1 .. Done(c) : e.id = Body(c, l).id
    BY <2>2
  <2>4. /\ Done(c) = Work(c) /\ Work(c) \in 0 .. Size(c) /\ Size(c) \in Nat
        /\ \A j \in 1 .. Size(c) : /\ j <= Work(c) <=> Body(c, j).kind # "br"
                                   /\ Phis(c) + j \in DOMAIN F.code[c]
    BY <1>1, Settled, SourceBody
  <2>5. l \in 1 .. Size(c) /\ l <= Work(c)
    BY <2>3, <2>4
  <2>6. c = b /\ Phis(c) + l \in DOMAIN F.code[c] /\ Body(c, l).kind # "br"
    <3>1. Phis(c) + l \in DOMAIN F.code[c] /\ Body(c, l).kind # "br"
      BY <2>4, <2>5
    <3>2. Body(c, l).id[2] = c
      BY <1>1, <3>1, SourceInst DEF Body
    <3> QED
      BY <1>2, <2>3, <3>1, <3>2
  <2>7. i = Phis(b) + l
    BY <1>1, <2>3, <2>6 DEF CodeSound, Body
  <2> QED
    BY <1>1, <2>2, <2>6, <2>7 DEF Body
<1> HIDE DEF e
<1>4. M(v) = e.id <=> v = e.id
  BY <1>2, <1>3, UseIs
<1> QED
  BY <1>4 DEF e

\* No use of the source became one of a copy or of a test.
LEMMA UseNoCopy ==
  ASSUME DupInv, Mirror, at = Idle, NEW v \in Usable, NEW part \in {"then", "else", "cond"},
         NEW b \in F.blocks, NEW n \in Nat
  PROVE  M(v) # <<part, b, n>> /\ v # <<part, b, n>>
<1>1. <<part, b, n>> \in Results(F)
  BY DEF Results, Roles
<1> QED
  BY <1>1, UseIs

LEMMA UseReplaced ==
  ASSUME DupInv, Mirror, at = Idle, NEW b \in F.blocks, HasTail(b), NEW l \in 1 .. Work(b),
         Body(b, l).kind # "void", NEW v \in Usable
  PROVE  M(v) = <<"phi", b, Body(b, l).id[3]>> <=> v = Body(b, l).id
<1> DEFINE id == Body(b, l).id
<1>1. CodeSound(F) /\ Done(b) = Work(b) /\ Work(b) \in 0 .. Size(b) /\ Size(b) \in Nat
  BY Settled, SourceBody
<1>2. l \in 1 .. Size(b)
  BY <1>1
<1>3. Phis(b) + l \in DOMAIN F.code[b]
  BY <1>1, <1>2, SourceBody
<1>4. id = <<"orig", b, id[3]>> /\ id \in Results(F) /\ id[3] \in Nat /\ id[2] = b
  BY <1>1, <1>3, SourceInst DEF Body
<1>5. id \in DOMAIN valueToPhi
  BY <1>1 DEF Mirror, Replacements
<1>6. <<"phi", b, id[3]>> \in Results(F)
  BY <1>4 DEF Results, Roles
<1> HIDE DEF id
<1>7. M(v) = <<"phi", b, id[3]>> <=> v = id
  BY <1>4, <1>5, <1>6, UseIs
<1> QED
  BY <1>7 DEF id

(***************************************************************************)
(* The phis of a block.                                                    *)
(***************************************************************************)
UsesOf == [v \in Usable |-> M(v)]
\* The two runs come from the same block of the source, if from any.
Linked(y, x) ==
  \/ x.prev = Undefined /\ y.prev = Undefined
  \/ \E p \in F.blocks : x.prev = Original(p) /\ y.prev = EndOf(Original(p))

LEMMA EndOfIs ==
  ASSUME NEW p
  PROVE  /\ EndOf(Original(p)) = IF HasTail(p) THEN TailOf(p) ELSE Original(p)
         /\ EndOf(Original(p)) # Undefined /\ Original(p) # Undefined
         /\ \A q : EndOf(Original(q)) = EndOf(Original(p)) => q = p
<1>1. \A q : EndOf(Original(q)) = IF HasTail(q) THEN TailOf(q) ELSE Original(q)
  BY DEF EndOf, HasTail, Original
<1>2. TailOf(p) # Undefined /\ Original(p) # Undefined
  BY DEF TailOf, Block, Original, Undefined
<1> QED
  BY <1>1, <1>2, NamesDiffer

LEMMA SameIncoming ==
  ASSUME NEW e, NEW f, \A j \in DOMAIN e.from : \E p \in F.blocks : e.from[j] = Original(p),
         f.from = [j \in DOMAIN e.from |-> EndOf(e.from[j])],
         NEW x, NEW y, Linked(y, x)
  PROVE  Incoming(f, y.prev) = Incoming(e, x.prev)
<1>1. ASSUME NEW j \in DOMAIN e.from PROVE e.from[j] = x.prev <=> EndOf(e.from[j]) = y.prev
  BY EndOfIs DEF Linked
<1>2. DOMAIN f.from = DOMAIN e.from /\ \A j \in DOMAIN e.from : f.from[j] = EndOf(e.from[j])
  OBVIOUS
<1> QED
  BY <1>1, <1>2 DEF Incoming

LEMMA PhiFollows ==
  ASSUME DupInv, Mirror, at = Idle, NEW b \in F.blocks, NEW i \in 1 .. Phis(b),
         NEW f, LikePhi(f, F.code[b][i]),
         NEW x, NEW y, Follows(y, x, UsesOf), Linked(y, x)
  PROVE  PhiValue(y.env, f, y.prev) = PhiValue(x.env, F.code[b][i], x.prev)
<1> DEFINE e == F.code[b][i]
<1>1. CodeSound(F)
  BY Settled
<1>2. i \in DOMAIN F.code[b] /\ IsPhi(e)
  BY <1>1, SourceBody
<1>3. /\ DOMAIN e.ops = 1 .. Len(e.ops) /\ Len(e.ops) \in Nat /\ DOMAIN e.from = DOMAIN e.ops
      /\ \A j \in DOMAIN e.ops : e.ops[j] \in Usable
      /\ \A j \in DOMAIN e.from : \E p \in F.blocks : e.from[j] = Original(p)
  BY <1>1, <1>2, SourceInst
<1>4. /\ f.ops = [j \in DOMAIN e.ops |-> M(e.ops[j])]
      /\ f.from = [j \in DOMAIN e.from |-> EndOf(e.from[j])]
  BY DEF LikePhi, Like
<1> HIDE DEF e
<1>5. Incoming(f, y.prev) = Incoming(e, x.prev)
  <2>1. \A j \in DOMAIN e.from : \E p \in F.blocks : e.from[j] = Original(p)
    BY <1>3
  <2>2. f.from = [j \in DOMAIN e.from |-> EndOf(e.from[j])]
    BY <1>4
  <2> QED
    BY <2>1, <2>2, SameIncoming
<1>6. ASSUME Incoming(e, x.prev) # {}
      PROVE  LET j == Min(Incoming(e, x.prev))
             IN Value(x.env, e.ops[j]) = Value(y.env, f.ops[j])
  <2> DEFINE I == Incoming(e, x.prev)
             j == Min(I)
  <2>1. I \in SUBSET Nat /\ I \subseteq DOMAIN e.ops
    BY <1>3 DEF Incoming
  <2>2. j \in DOMAIN e.ops
    <3> HIDE DEF I
    <3> QED
      BY <1>6, <2>1, MinPlace DEF I
  <2> HIDE DEF I, j
  <2>3. e.ops[j] \in Usable /\ f.ops[j] = M(e.ops[j])
    BY <1>3, <1>4, <2>2
  <2>4. UsesOf[e.ops[j]] = M(e.ops[j])
    BY <2>3 DEF UsesOf
  <2>5. Value(x.env, e.ops[j]) = Value(y.env, f.ops[j])
    BY <2>3, <2>4 DEF Follows
  <2> QED
    BY <2>5 DEF I, j
<1>7. PhiValue(y.env, f, y.prev) = PhiValue(x.env, e, x.prev)
  BY <1>5, <1>6 DEF PhiValue
<1> QED
  BY <1>7 DEF e

LEMMA PhisFollow ==
  ASSUME DupInv, Mirror, at = Idle, NEW b \in F.blocks,
         NEW s, PhisOf(s.insts) = {F.code[b][i] : i \in 1 .. Phis(b)},
         NEW t, PhisOf(t.insts) = {t.insts[i] : i \in 1 .. Phis(b)}, t.visit = s.visit,
         \A i \in 1 .. Phis(b) : LikePhi(t.insts[i], F.code[b][i]),
         NEW x, NEW y, Follows(y, x, UsesOf), Linked(y, x)
  PROVE  Follows(Begun(y, t), Begun(x, s), UsesOf)
<1>1. CodeSound(F)
  BY Settled
<1>2. \A i \in 1 .. Phis(b) : i \in DOMAIN F.code[b]
  BY <1>1, SourceBody
<1>3. \A i, j \in 1 .. Phis(b) : F.code[b][i].id = F.code[b][j].id => i = j
  BY <1>1, <1>2 DEF CodeSound
<1>4. \A i \in 1 .. Phis(b) : t.insts[i].id = F.code[b][i].id
  BY DEF LikePhi, Like
<1>5. \A v \in Usable : \A i \in 1 .. Phis(b) : M(v) = F.code[b][i].id <=> v = F.code[b][i].id
  BY <1>2, UseKept
<1> DEFINE g == EnterPhis(x.env, s.insts, x.prev)
           h == EnterPhis(y.env, t.insts, y.prev)
<1>6. ASSUME NEW v \in Usable PROVE Value(g, v) = Value(h, M(v))
  <2>1. CASE \E i \in 1 .. Phis(b) : F.code[b][i].id = v
    <3>1. PICK i \in 1 .. Phis(b) : F.code[b][i].id = v
      BY <2>1
    <3>2. M(v) = v
      BY <1>5, <3>1
    <3>3. \E phi \in PhisOf(s.insts) : phi.id = v
      BY <3>1
    <3>4. PICK phi \in PhisOf(s.insts) : phi.id = v /\ Value(g, v) = PhiValue(x.env, phi, x.prev)
      BY <3>3, EnteredValue
    <3>5. phi = F.code[b][i]
      BY <1>3, <3>1, <3>4
    <3>6. \E psi \in PhisOf(t.insts) : psi.id = v
      BY <1>4, <3>1
    <3>7. PICK psi \in PhisOf(t.insts) : psi.id = v /\ Value(h, v) = PhiValue(y.env, psi, y.prev)
      BY <3>6, EnteredValue
    <3>8. psi = t.insts[i]
      BY <1>3, <1>4, <3>1, <3>7
    <3>9. PhiValue(y.env, psi, y.prev) = PhiValue(x.env, phi, x.prev)
      <4>1. LikePhi(psi, F.code[b][i])
        BY <3>8
      <4>2. PhiValue(y.env, psi, y.prev) = PhiValue(x.env, F.code[b][i], x.prev)
        BY <4>1, PhiFollows
      <4> QED
        BY <3>5, <4>2
    <3> QED
      BY <3>2, <3>4, <3>7, <3>9
  <2>2. CASE \A i \in 1 .. Phis(b) : F.code[b][i].id # v
    <3>1. \A phi \in PhisOf(s.insts) : phi.id # v
      BY <2>2
    <3>2. \A psi \in PhisOf(t.insts) : psi.id # M(v)
      BY <1>4, <1>5, <2>2
    <3>3. Value(g, v) = Value(x.env, v) /\ Value(h, M(v)) = Value(y.env, M(v))
      BY <3>1, <3>2, EnteredValue
    <3>4. UsesOf[v] = M(v)
      BY DEF UsesOf
    <3> QED
      BY <3>3, <3>4 DEF Follows
  <2> QED
    BY <2>1, <2>2
<1> HIDE DEF g, h
<1>7. /\ Begun(x, s).env = g /\ Begun(x, s).visit = s.visit /\ Begun(x, s).trace = x.trace
      /\ Begun(y, t).env = h /\ Begun(y, t).visit = t.visit /\ Begun(y, t).trace = y.trace
      /\ RunLike(Begun(x, s)) /\ RunLike(Begun(y, t))
  BY DEF Begun, g, h, RunLike
<1>8. x.trace = y.trace
  BY DEF Follows, Alike
<1>9. \A v \in Usable : UsesOf[v] = M(v)
  BY DEF UsesOf
<1> QED
  BY <1>6, <1>7, <1>8, <1>9 DEF Follows, Alike

(***************************************************************************)
(* Blocks that are whole.                                                  *)
(***************************************************************************)
LEMMA PhisUpTo ==
  ASSUME NEW X, NEW s \in Seq(X), NEW n \in 1 .. Len(s) + 1,
         \A i \in 1 .. Len(s) : IsPhi(s[i]) <=> i < n
  PROVE  /\ FirstNonPHI(s) = n
         /\ PhisOf(s) = {s[i] : i \in 1 .. n - 1}
         /\ DOMAIN RestOf(s) = 1 .. Len(s) - (n - 1)
         /\ \A i \in 1 .. Len(s) - (n - 1) : RestOf(s)[i] = s[n - 1 + i]
<1>1. /\ FirstNonPHI(s) \in 1 .. Len(s) + 1
      /\ \A i \in DOMAIN s : i < FirstNonPHI(s) => IsPhi(s[i])
      /\ FirstNonPHI(s) \in DOMAIN s => ~IsPhi(s[FirstNonPHI(s)])
  BY FirstNonPHIPlace
<1>2. Len(s) \in Nat /\ DOMAIN s = 1 .. Len(s)
  OBVIOUS
<1> DEFINE m == FirstNonPHI(s)
<1>3. m = n
  <2> HIDE DEF m
  <2>1. CASE m < n
    <3>1. m \in 1 .. Len(s)
      BY <1>1, <1>2, <2>1 DEF m
    <3> QED
      BY <1>1, <1>2, <2>1, <3>1 DEF m
  <2>2. CASE n < m
    <3>1. n \in 1 .. Len(s) /\ n \in DOMAIN s
      BY <1>1, <1>2, <2>2 DEF m
    <3>2. IsPhi(s[n])
      BY <1>1, <2>2, <3>1 DEF m
    <3>3. ~(n < n)
      BY <3>1
    <3> QED
      BY <3>1, <3>2, <3>3
  <2> QED
    BY <1>1, <1>2, <2>1, <2>2 DEF m
<1>4. RestOf(s) = SubSeq(s, n, Len(s))
  BY <1>3 DEF RestOf
<1>5. /\ DOMAIN RestOf(s) = 1 .. Len(s) - (n - 1)
      /\ \A i \in DOMAIN RestOf(s) : RestOf(s)[i] = s[n - 1 + i]
  BY <1>4, CutSeq
<1>6. PhisOf(s) = {s[i] : i \in 1 .. n - 1}
  <2>1. Elems(s) = {s[i] : i \in 1 .. Len(s)}
    BY <1>2 DEF Elems
  <2>2. \A i : i \in 1 .. n - 1 <=> i \in 1 .. Len(s) /\ i < n
    BY <1>2
  <2> QED
    BY <2>1, <2>2 DEF PhisOf
<1> QED
  BY <1>3, <1>5, <1>6

LEMMA SourceLists ==
  ASSUME CodeSound(F), NEW b \in F.blocks
  PROVE  /\ PhisOf(F.code[b]) = {F.code[b][i] : i \in 1 .. Phis(b)}
         /\ DOMAIN RestOf(F.code[b]) = 1 .. Size(b)
         /\ \A i \in 1 .. Size(b) : RestOf(F.code[b])[i] = Body(b, i)
         /\ \A i \in 1 .. Len(F.code[b]) : IsPhi(F.code[b][i]) <=> i < Phis(b) + 1
<1> DEFINE s == F.code[b]
           n == Phis(b) + 1
<1>1. /\ s \in Seq(Instructions(F)) /\ DOMAIN s = 1 .. Len(s)
      /\ Phis(b) \in Nat /\ Size(b) \in Nat /\ Len(s) = Phis(b) + Size(b)
      /\ \A i \in 1 .. Phis(b) : IsPhi(s[i])
      /\ \A i \in 1 .. Size(b) : ~IsPhi(Body(b, i))
  BY SourceBody
<1>2. \A i : Body(b, i) = s[Phis(b) + i]
  BY DEF Body
<1> HIDE DEF s
<1>3. ASSUME NEW i \in 1 .. Len(s) PROVE IsPhi(s[i]) <=> i < n
  <2>1. CASE i < n
    <3>1. i \in 1 .. Phis(b)
      BY <1>1, <2>1
    <3> QED
      BY <1>1, <2>1, <3>1
  <2>2. CASE ~(i < n)
    <3>1. i - Phis(b) \in 1 .. Size(b) /\ Phis(b) + (i - Phis(b)) = i
      BY <1>1, <2>2
    <3>2. Body(b, i - Phis(b)) = s[i]
      BY <1>2, <3>1
    <3> QED
      BY <1>1, <2>2, <3>1, <3>2
  <2> QED
    BY <2>1, <2>2
<1>4. n \in 1 .. Len(s) + 1 /\ n - 1 = Phis(b) /\ Len(s) - (n - 1) = Size(b)
  <2>1. Phis(b) \in Nat /\ Size(b) \in Nat /\ Len(s) = Phis(b) + Size(b)
    BY <1>1
  <2> QED
    BY <2>1
<1>5. /\ PhisOf(s) = {s[i] : i \in 1 .. n - 1}
      /\ DOMAIN RestOf(s) = 1 .. Len(s) - (n - 1)
      /\ \A i \in 1 .. Len(s) - (n - 1) : RestOf(s)[i] = s[n - 1 + i]
  <2> HIDE DEF n
  <2> QED
    BY <1>1, <1>3, <1>4, PhisUpTo
<1> QED
  BY <1>2, <1>3, <1>4, <1>5 DEF s

LEMMA CodeLists ==
  ASSUME DupInv
  PROVE  \A x \in DOMAIN code : code[x] \in Seq(Made) /\ Len(code[x]) \in Nat
<1>1. code \in [DOMAIN code -> Seq(Made)]
  BY DEF DupInv, Structure, CodeTyped
<1>2. ASSUME NEW x \in DOMAIN code PROVE code[x] \in Seq(Made) /\ Len(code[x]) \in Nat
  <2>1. code[x] \in Seq(Made)
    BY <1>1
  <2> QED
    BY <2>1
<1> QED
  BY <1>2

\* The block in the source, with the test where one is meant.
Step(b, k) == [name |-> Original(b), insts |-> Meant(b), visit |-> k]

LEMMA FollowsOn ==
  ASSUME NEW x, NEW y, NEW m, Follows(y, x, m), NEW u, RunLike(u), NEW w, RunLike(w),
         u.env = x.env, u.trace = x.trace, u.visit = x.visit,
         w.env = y.env, w.trace = y.trace, w.visit = y.visit
  PROVE  Follows(w, u, m)
BY DEF Follows, Alike

LEMMA LikeRepeats ==
  ASSUME DupInv, Mirror, at = Idle, NEW b \in F.blocks, NEW i \in DOMAIN F.code[b],
         ~HasTail(b) \/ F.code[b][i].kind = "br", NEW f, Like(f, F.code[b][i])
  PROVE  Repeats(f, F.code[b][i], UsesOf, UsesOf)
<1> DEFINE e == F.code[b][i]
<1>1. CodeSound(F)
  BY Settled
<1>2. \A j \in DOMAIN e.ops : e.ops[j] \in Usable
  BY <1>1, SourceInst
<1>3. \A v \in Usable : M(v) = e.id <=> v = e.id
  BY UseKept
<1>4. \A v \in Usable : UsesOf[v] = M(v)
  BY DEF UsesOf
<1>5. f.id = e.id /\ f.ops = [j \in DOMAIN e.ops |-> M(e.ops[j])]
  BY DEF Like
<1> HIDE DEF e
<1>6. DOMAIN f.ops = DOMAIN e.ops /\ \A j \in DOMAIN e.ops : f.ops[j] = M(e.ops[j])
  BY <1>5
<1>7. \A v \in Usable : IF v = e.id THEN UsesOf[v] = f.id ELSE UsesOf[v] = UsesOf[v] /\ UsesOf[v] # f.id
  BY <1>3, <1>4, <1>5
<1>8. Repeats(f, e, UsesOf, UsesOf)
  BY <1>2, <1>4, <1>5, <1>6, <1>7 DEF Repeats
<1> QED
  BY <1>8 DEF e

LEMMA WholeFollows ==
  ASSUME DupInv, Mirror, at = Idle, NEW b \in F.blocks, ~HasTail(b),
         NEW x, NEW y, Follows(y, x, UsesOf), Linked(y, x), NEW k,
         NEW u, u = EnterBlock(x, Step(b, k)), NEW w, w = EnterBlock(y, Visit(Original(b), k))
  PROVE  Follows(w, u, UsesOf) /\ Linked(w, u)
<1> DEFINE s == Step(b, k)
           t == Visit(Original(b), k)
           n == Size(b)
<1>1. CodeSound(F) /\ Original(b) \in DOMAIN code
  BY Settled DEF DupInv, Structure, CodeTyped
<1>2. s.insts = F.code[b] /\ t.insts = code[Original(b)] /\ s.visit = k /\ t.visit = k
      /\ s.name = Original(b) /\ t.name = Original(b)
  BY DEF Step, Visit, Meant, HasTail, TailOf
<1>3. /\ n \in Nat /\ Phis(b) \in Nat /\ DOMAIN F.code[b] = 1 .. Len(F.code[b])
      /\ Len(F.code[b]) = Phis(b) + n
  BY <1>1, SourceBody
<1>4. /\ PhisOf(s.insts) = {F.code[b][i] : i \in 1 .. Phis(b)}
      /\ DOMAIN RestOf(s.insts) = 1 .. n
      /\ \A i \in 1 .. n : RestOf(s.insts)[i] = Body(b, i)
      /\ \A i \in 1 .. Len(F.code[b]) : IsPhi(F.code[b][i]) <=> i < Phis(b) + 1
  BY <1>1, <1>2, SourceLists
<1>5. /\ Len(t.insts) = Len(F.code[b])
      /\ \A i \in 1 .. Len(t.insts) : LikePhi(t.insts[i], F.code[b][i])
  BY <1>2 DEF Mirror, WholeBlocks, WholeMirrored
<1>6. t.insts \in Seq(Made)
  BY <1>1, <1>2, CodeLists
<1> HIDE DEF s, t, n
<1>7. \A i \in 1 .. Len(t.insts) : IsPhi(t.insts[i]) <=> i < Phis(b) + 1
  BY <1>4, <1>5 DEF LikePhi, Like, IsPhi
<1>8. /\ PhisOf(t.insts) = {t.insts[i] : i \in 1 .. Phis(b)}
      /\ DOMAIN RestOf(t.insts) = 1 .. n
      /\ \A i \in 1 .. n : RestOf(t.insts)[i] = t.insts[Phis(b) + i]
  <2>1. /\ Phis(b) + 1 \in 1 .. Len(t.insts) + 1 /\ (Phis(b) + 1) - 1 = Phis(b)
        /\ Len(t.insts) - Phis(b) = n
    <3>1. Len(t.insts) = Phis(b) + n /\ Phis(b) \in Nat /\ n \in Nat
      BY <1>3, <1>5
    <3> QED
      BY <3>1
  <2>2. /\ PhisOf(t.insts) = {t.insts[i] : i \in 1 .. (Phis(b) + 1) - 1}
        /\ DOMAIN RestOf(t.insts) = 1 .. Len(t.insts) - ((Phis(b) + 1) - 1)
        /\ \A i \in 1 .. Len(t.insts) - ((Phis(b) + 1) - 1) :
             RestOf(t.insts)[i] = t.insts[(Phis(b) + 1) - 1 + i]
    BY <1>6, <1>7, <2>1, PhisUpTo
  <2> QED
    BY <2>1, <2>2
<1>9. Follows(Begun(y, t), Begun(x, s), UsesOf)
  <2>1. \A i \in 1 .. Phis(b) : LikePhi(t.insts[i], F.code[b][i])
    BY <1>3, <1>5
  <2> QED
    BY <1>2, <1>4, <1>8, <2>1, PhisFollow
<1>10. RunLike(x) /\ RunLike(y)
  BY DEF Follows, Alike
<1>11. PICK h : BlockRun(h, x, s, n)
  BY <1>3, <1>4, <1>10, EnteredBlock
<1>12. PICK g : BlockRun(g, y, t, n)
  BY <1>3, <1>8, <1>10, EnteredBlock
<1> DEFINE ms == [i \in 0 .. n |-> UsesOf]
<1>13. Repeated(RestOf(t.insts), RestOf(s.insts), ms, n)
  <2> SUFFICES ASSUME NEW i \in 1 .. n
               PROVE  Repeats(RestOf(t.insts)[i], RestOf(s.insts)[i], ms[i - 1], ms[i])
    BY Zenon DEF Repeated
  <2>1. ms[i - 1] = UsesOf /\ ms[i] = UsesOf
    BY <1>3
  <2>2. Phis(b) + i \in 1 .. Len(t.insts) /\ Phis(b) + i \in DOMAIN F.code[b]
    BY <1>3, <1>5
  <2>3. Like(t.insts[Phis(b) + i], F.code[b][Phis(b) + i])
    BY <1>5, <2>2 DEF LikePhi
  <2> HIDE DEF ms
  <2>4. Repeats(t.insts[Phis(b) + i], F.code[b][Phis(b) + i], UsesOf, UsesOf)
    BY <2>2, <2>3, LikeRepeats
  <2>5. RestOf(t.insts)[i] = t.insts[Phis(b) + i] /\ RestOf(s.insts)[i] = F.code[b][Phis(b) + i]
    BY <1>4, <1>8 DEF Body
  <2> QED
    BY <2>1, <2>4, <2>5
<1>14. ms[0] = UsesOf /\ ms[n] = UsesOf
  BY <1>3
<1> HIDE DEF ms
<1>15. Follows(g[n], h[n], UsesOf)
  <2>1. Follows(g[n], h[n], ms[n])
    BY <1>3, <1>9, <1>11, <1>12, <1>13, <1>14, AllRepeated DEF BlockRun
  <2> QED
    BY <1>14, <2>1
<1>16. RunLike(g[n]) /\ RunLike(h[n])
  BY <1>15 DEF Follows, Alike
<1>17. /\ RunLike(u) /\ u.env = h[n].env /\ u.trace = h[n].trace /\ u.visit = h[n].visit
       /\ RunLike(w) /\ w.env = g[n].env /\ w.trace = g[n].trace /\ w.visit = g[n].visit
       /\ u.prev = Original(b) /\ w.prev = Original(b)
  BY <1>2, <1>11, <1>12, <1>16 DEF s, t, BlockRun
<1>18. Follows(w, u, UsesOf)
  BY <1>15, <1>17, FollowsOn
<1>19. Linked(w, u)
  BY <1>17, EndOfIs DEF Linked
<1> QED
  BY <1>18, <1>19

(***************************************************************************)
(* Blocks that were duplicated: the head.                                  *)
(***************************************************************************)
TestOf(b) == [id |-> <<"cond", b, 0>>, kind |-> "isnull", ops |-> <<targets[b]>>, from |-> <<>>]

With(a, e, z) == a \o <<e>> \o z

HasAll(s, a, e, z) ==
  /\ Len(s) = Len(a) + 1 + Len(z)
  /\ \A i \in 1 .. Len(a) : s[i] = a[i]
  /\ s[Len(a) + 1] = e
  /\ \A i \in 1 .. Len(z) : s[Len(a) + 1 + i] = z[i]

LEMMA ListWith ==
  ASSUME NEW X, NEW a \in Seq(X), NEW z \in Seq(X), NEW e \in X
  PROVE  With(a, e, z) \in Seq(X) /\ HasAll(With(a, e, z), a, e, z)
<1> DEFINE c == a \o <<e>>
<1>1. c \in Seq(X) /\ Len(c) = Len(a) + 1 /\ Len(a) \in Nat /\ Len(z) \in Nat
  OBVIOUS
<1>2. (\A i \in 1 .. Len(a) : c[i] = a[i]) /\ c[Len(a) + 1] = e
  OBVIOUS
<1> HIDE DEF c
<1> DEFINE s == c \o z
<1>3. s \in Seq(X) /\ Len(s) = Len(c) + Len(z)
  BY <1>1
<1>4. \A i \in 1 .. Len(c) : s[i] = c[i]
  BY <1>1
<1>5. \A i \in 1 .. Len(z) : s[Len(c) + i] = z[i]
  BY <1>1
<1>6. s = With(a, e, z)
  BY DEF With, c
<1> HIDE DEF s
<1>7. HasAll(s, a, e, z)
  BY <1>1, <1>2, <1>3, <1>4, <1>5 DEF HasAll
<1> QED
  BY <1>3, <1>6, <1>7

LEMMA MeantLists ==
  ASSUME CodeSound(F), NEW b \in F.blocks, HasTail(b)
  PROVE  /\ PhisOf(Meant(b)) = {F.code[b][i] : i \in 1 .. Phis(b)}
         /\ DOMAIN RestOf(Meant(b)) = 1 .. Size(b) + 1
         /\ RestOf(Meant(b))[1] = TestOf(b)
         /\ \A i \in 1 .. Size(b) : RestOf(Meant(b))[1 + i] = Body(b, i)
<1> DEFINE l == F.code[b]
           p == Phis(b)
           a == SubSeq(l, 1, p)
           z == SubSeq(l, p + 1, Len(l))
           e == TestOf(b)
           X == Instructions(F) \cup {e}
           s == With(a, e, z)
<1>1. Meant(b) = s
  BY DEF With, Meant, HasTail, TailOf, Phis, TestOf
<1>2. /\ l \in Seq(Instructions(F)) /\ p \in Nat /\ Size(b) \in Nat /\ Len(l) = p + Size(b)
      /\ \A i \in 1 .. Len(l) : IsPhi(l[i]) <=> i < p + 1
  BY SourceBody, SourceLists
<1>3. l \in Seq(X) /\ p + 1 \in 1 .. Len(l) + 1 /\ (p + 1) - 1 = p
  <2>1. p + 1 \in 1 .. Len(l) + 1 /\ (p + 1) - 1 = p
    <3>1. p \in Nat /\ Size(b) \in Nat /\ Len(l) = p + Size(b)
      BY <1>2
    <3> QED
      BY <3>1
  <2> HIDE DEF e, l
  <2>2. l \in Seq(X)
    BY <1>2
  <2> QED
    BY <2>1, <2>2
<1>4. \A i : Body(b, i) = l[p + i]
  BY DEF Body
<1> HIDE DEF l, p, a, z, e, X
<1>5. /\ a \in Seq(X) /\ Len(a) = p /\ \A i \in 1 .. p : a[i] = l[i]
      /\ z \in Seq(X) /\ Len(z) = Size(b) /\ \A i \in 1 .. Size(b) : z[i] = l[p + i]
  <2> DEFINE n == p + 1
  <2>1. /\ SubSeq(l, 1, n - 1) \in Seq(X) /\ Len(SubSeq(l, 1, n - 1)) = n - 1
        /\ \A i \in 1 .. n - 1 : SubSeq(l, 1, n - 1)[i] = l[i]
        /\ SubSeq(l, n, Len(l)) \in Seq(X) /\ Len(SubSeq(l, n, Len(l))) = Len(l) - (n - 1)
        /\ DOMAIN SubSeq(l, n, Len(l)) = 1 .. Len(l) - (n - 1)
        /\ \A i \in DOMAIN SubSeq(l, n, Len(l)) : SubSeq(l, n, Len(l))[i] = l[n - 1 + i]
    <3> HIDE DEF n
    <3>1. n \in 1 .. Len(l) + 1
      BY <1>3 DEF n
    <3> QED
      BY <1>3, <3>1, CutSeq
  <2>2. Len(l) - p = Size(b)
    BY <1>2
  <2> QED
    BY <1>3, <2>1, <2>2 DEF a, z
<1>6. e \in X
  BY DEF X
<1>7. /\ s \in Seq(X) /\ Len(s) = p + 1 + Size(b)
      /\ \A i \in 1 .. p : s[i] = l[i]
      /\ s[p + 1] = e
      /\ \A i \in 1 .. Size(b) : s[p + 1 + i] = l[p + i]
  <2>1. /\ s \in Seq(X) /\ Len(s) = Len(a) + 1 + Len(z)
        /\ \A i \in 1 .. Len(a) : s[i] = a[i]
        /\ s[Len(a) + 1] = e
        /\ \A i \in 1 .. Len(z) : s[Len(a) + 1 + i] = z[i]
    <3>1. a \in Seq(X) /\ z \in Seq(X)
      BY <1>5
    <3> QED
      <4>1. s \in Seq(X) /\ HasAll(s, a, e, z)
        BY <1>6, <3>1, ListWith
      <4> HIDE DEF s
      <4> QED
        BY <4>1 DEF HasAll
  <2> HIDE DEF s
  <2> QED
    BY <1>5, <2>1
<1> HIDE DEF s
<1>8. \A i \in 1 .. Len(s) : IsPhi(s[i]) <=> i < p + 1
  <2> SUFFICES ASSUME NEW i \in 1 .. Len(s) PROVE IsPhi(s[i]) <=> i < p + 1
    OBVIOUS
  <2>0. p \in Nat /\ Size(b) \in Nat /\ Len(l) = p + Size(b) /\ Len(s) = p + 1 + Size(b)
    BY <1>2, <1>7
  <2>1. CASE i < p + 1
    <3>1. i \in 1 .. p /\ i \in 1 .. Len(l)
      BY <2>0, <2>1
    <3> QED
      BY <1>2, <1>7, <2>1, <3>1
  <2>2. CASE i = p + 1
    <3>1. ~IsPhi(e) /\ ~(i < p + 1)
      BY <2>0, <2>2 DEF e, TestOf, IsPhi
    <3> QED
      BY <1>7, <2>2, <3>1
  <2>3. CASE i > p + 1
    <3>1. i - p - 1 \in 1 .. Size(b) /\ p + 1 + (i - p - 1) = i
      BY <2>0, <2>3
    <3>2. p + (i - p - 1) \in 1 .. Len(l) /\ ~(p + (i - p - 1) < p + 1) /\ ~(i < p + 1)
      BY <2>0, <2>3
    <3> QED
      BY <1>2, <1>7, <3>1, <3>2
  <2> QED
    BY <2>0, <2>1, <2>2, <2>3
<1>9. /\ p + 1 \in 1 .. Len(s) + 1 /\ (p + 1) - 1 = p /\ Len(s) - p = Size(b) + 1
      /\ \A i \in 1 .. p : i \in 1 .. p
  <2>0. p \in Nat /\ Size(b) \in Nat /\ Len(s) = p + 1 + Size(b)
    BY <1>2, <1>7
  <2> QED
    BY <2>0
<1>10. /\ PhisOf(s) = {s[i] : i \in 1 .. (p + 1) - 1}
       /\ DOMAIN RestOf(s) = 1 .. Len(s) - ((p + 1) - 1)
       /\ \A i \in 1 .. Len(s) - ((p + 1) - 1) : RestOf(s)[i] = s[(p + 1) - 1 + i]
  BY <1>7, <1>8, <1>9, PhisUpTo
<1>11. /\ PhisOf(s) = {l[i] : i \in 1 .. p} /\ DOMAIN RestOf(s) = 1 .. Size(b) + 1
       /\ \A i \in 1 .. Size(b) + 1 : RestOf(s)[i] = s[p + i]
  <2>1. /\ PhisOf(s) = {s[i] : i \in 1 .. p} /\ DOMAIN RestOf(s) = 1 .. Size(b) + 1
        /\ \A i \in 1 .. Size(b) + 1 : RestOf(s)[i] = s[p + i]
    BY <1>9, <1>10
  <2>2. {s[i] : i \in 1 .. p} = {l[i] : i \in 1 .. p}
    BY <1>7
  <2> QED
    BY <2>1, <2>2
<1>12. /\ RestOf(s)[1] = e
       /\ \A i \in 1 .. Size(b) : RestOf(s)[1 + i] = Body(b, i)
  <2>0. p \in Nat /\ Size(b) \in Nat
    BY <1>2
  <2>1. 1 \in 1 .. Size(b) + 1
    BY <2>0
  <2>2. ASSUME NEW i \in 1 .. Size(b) PROVE RestOf(s)[1 + i] = Body(b, i)
    <3>1. 1 + i \in 1 .. Size(b) + 1 /\ p + (1 + i) = p + 1 + i
      BY <2>0
    <3>2. RestOf(s)[1 + i] = s[p + (1 + i)]
      BY <1>11, <3>1
    <3> QED
      BY <1>4, <1>7, <3>1, <3>2
  <2> QED
    BY <1>7, <1>11, <2>1, <2>2
<1> QED
  BY <1>1, <1>11, <1>12 DEF e, l, p

LEMMA TestRepeats ==
  ASSUME DupInv, Mirror, at = Idle, NEW b \in F.blocks, HasTail(b), NEW f, f.id = <<"cond", b, 0>>,
         f.ops = <<M(targets[b])>>
  PROVE  Repeats(f, TestOf(b), UsesOf, UsesOf)
<1> DEFINE e == TestOf(b)
<1>1. targets[b] \in Usable
  BY ChosenUsable DEF Mirror, Heads
<1>2. e.id = <<"cond", b, 0>> /\ e.ops = <<targets[b]>>
  BY DEF TestOf
<1> HIDE DEF e
<1>3. f.id[2] = e.id[2] /\ f.id[3] = e.id[3]
  BY <1>2
<1>4. DOMAIN f.ops = {1} /\ DOMAIN e.ops = {1} /\ f.ops[1] = M(e.ops[1]) /\ e.ops[1] \in Usable
  BY <1>1, <1>2
<1>5. \A v \in Usable : UsesOf[v] = M(v) /\ M(v) # f.id /\ v # e.id
  BY <1>2, UseNoCopy DEF UsesOf
<1>6. Repeats(f, e, UsesOf, UsesOf)
  BY <1>3, <1>4, <1>5 DEF Repeats
<1> QED
  BY <1>6 DEF e

LEMMA HeadFollows ==
  ASSUME DupInv, Mirror, at = Idle, NEW b \in F.blocks, HasTail(b),
         NEW x, NEW y, Follows(y, x, UsesOf), Linked(y, x), NEW k,
         NEW h, BlockRun(h, x, Step(b, k), Size(b) + 1),
         NEW w, w = EnterBlock(y, Visit(Original(b), k))
  PROVE  Follows(w, h[1], UsesOf) /\ h[1].visit = k
<1> DEFINE s == Step(b, k)
           t == Visit(Original(b), k)
           n == Size(b) + 1
<1>1. CodeSound(F) /\ Original(b) \in DOMAIN code
  BY Settled DEF DupInv, Structure, CodeTyped
<1>2. s.insts = Meant(b) /\ t.insts = code[Original(b)] /\ s.visit = k /\ t.visit = k
  BY DEF Step, Visit
<1>3. /\ Size(b) \in Nat /\ Phis(b) \in Nat /\ DOMAIN F.code[b] = 1 .. Len(F.code[b])
      /\ \A i \in 1 .. Phis(b) : IsPhi(F.code[b][i])
      /\ n \in Nat /\ 1 \in 1 .. n
  BY <1>1, SourceBody
<1>4. /\ PhisOf(s.insts) = {F.code[b][i] : i \in 1 .. Phis(b)}
      /\ RestOf(s.insts)[1] = TestOf(b)
  BY <1>1, <1>2, MeantLists
<1>5. /\ Len(t.insts) = Phis(b) + 1
      /\ \A i \in 1 .. Phis(b) : LikePhi(t.insts[i], F.code[b][i])
      /\ LET test == t.insts[Phis(b) + 1]
         IN test.id = <<"cond", b, 0>> /\ test.kind = "isnull" /\ test.ops = <<M(targets[b])>>
  BY <1>2 DEF Mirror, Heads, HeadMirrored
<1>6. t.insts \in Seq(Made)
  BY <1>1, <1>2, CodeLists
<1> HIDE DEF s, t, n
<1>7. \A i \in 1 .. Len(t.insts) : IsPhi(t.insts[i]) <=> i < Phis(b) + 1
  <2> SUFFICES ASSUME NEW i \in 1 .. Len(t.insts)
               PROVE  IsPhi(t.insts[i]) <=> i < Phis(b) + 1
    OBVIOUS
  <2>1. CASE i \in 1 .. Phis(b)
    <3>1. LikePhi(t.insts[i], F.code[b][i]) /\ IsPhi(F.code[b][i])
      BY <1>3, <1>5, <2>1
    <3>2. i < Phis(b) + 1
      BY <1>3, <2>1
    <3> QED
      BY <3>1, <3>2 DEF LikePhi, Like, IsPhi
  <2>2. CASE i = Phis(b) + 1
    BY <1>3, <1>5, <2>2 DEF IsPhi
  <2> QED
    BY <1>3, <1>5, <2>1, <2>2
<1>8. /\ PhisOf(t.insts) = {t.insts[i] : i \in 1 .. Phis(b)}
      /\ DOMAIN RestOf(t.insts) = 1 .. 1
      /\ RestOf(t.insts)[1] = t.insts[Phis(b) + 1]
  <2>1. /\ Phis(b) + 1 \in 1 .. Len(t.insts) + 1 /\ (Phis(b) + 1) - 1 = Phis(b)
        /\ Len(t.insts) - Phis(b) = 1 /\ 1 \in 1 .. 1
    <3>1. Phis(b) \in Nat /\ Len(t.insts) = Phis(b) + 1
      BY <1>3, <1>5
    <3>2. \A p \in Nat : \A l : l = p + 1 => p + 1 \in 1 .. l + 1 /\ (p + 1) - 1 = p /\ l - p = 1
      OBVIOUS
    <3>3. 1 \in 1 .. 1
      OBVIOUS
    <3> QED
      BY <3>1, <3>2, <3>3
  <2>2. /\ PhisOf(t.insts) = {t.insts[i] : i \in 1 .. (Phis(b) + 1) - 1}
        /\ DOMAIN RestOf(t.insts) = 1 .. Len(t.insts) - ((Phis(b) + 1) - 1)
        /\ \A i \in 1 .. Len(t.insts) - ((Phis(b) + 1) - 1) :
             RestOf(t.insts)[i] = t.insts[(Phis(b) + 1) - 1 + i]
    BY <1>6, <1>7, <2>1, PhisUpTo
  <2> QED
    BY <2>1, <2>2
<1>9. Follows(Begun(y, t), Begun(x, s), UsesOf)
  BY <1>2, <1>4, <1>5, <1>8, PhisFollow
<1>10. RunLike(y)
  BY DEF Follows, Alike
<1>11. PICK g : BlockRun(g, y, t, 1)
  BY <1>8, <1>10, EnteredBlock
<1>12. /\ h[0] = Begun(x, s) /\ h[1] = Execute(h[0], TestOf(b))
       /\ g[0] = Begun(y, t) /\ g[1] = Execute(g[0], t.insts[Phis(b) + 1])
  <2>1. 1 - 1 = 0 /\ 1 \in 1 .. 1
    OBVIOUS
  <2>2. /\ RunsAlong(h, Begun(x, s), RestOf(s.insts), n)
        /\ RunsAlong(g, Begun(y, t), RestOf(t.insts), 1)
    BY <1>11, Zenon DEF BlockRun, s, n
  <2>3. /\ h[1] = Execute(h[1 - 1], RestOf(s.insts)[1])
        /\ g[1] = Execute(g[1 - 1], RestOf(t.insts)[1])
    BY <1>3, <2>1, <2>2, Zenon DEF RunsAlong
  <2> QED
    BY <1>4, <1>8, <2>1, <2>2, <2>3 DEF RunsAlong
<1>13. Repeats(t.insts[Phis(b) + 1], TestOf(b), UsesOf, UsesOf)
  BY <1>5, TestRepeats
<1>14. Follows(g[1], h[1], UsesOf) /\ h[1].visit = h[0].visit
  BY <1>9, <1>12, <1>13, OneRepeated
<1>15. h[1].visit = k
  BY <1>2, <1>12, <1>14 DEF Begun
<1>16. RunLike(g[1]) /\ RunLike(h[1])
  BY <1>14 DEF Follows, Alike
<1>17. RunLike(w) /\ w.env = g[1].env /\ w.trace = g[1].trace /\ w.visit = g[1].visit
  BY <1>11, <1>16 DEF BlockRun, t
<1> QED
  BY <1>14, <1>15, <1>16, <1>17, FollowsOn

(***************************************************************************)
(* Blocks that were duplicated: the copies.                                *)
(***************************************************************************)
CopyUses(part, b, i) == [v \in Usable |-> InCopy(part, b, i, v)]

LEMMA CopyRepeats ==
  ASSUME DupInv, Mirror, at = Idle, NEW b \in F.blocks, HasTail(b), NEW part \in {"then", "else"},
         NEW i \in 1 .. Work(b), NEW f, CopyOf(part, b, i, f)
  PROVE  Repeats(f, Body(b, i), CopyUses(part, b, i), CopyUses(part, b, i + 1))
<1> DEFINE e == Body(b, i)
<1>1. CodeSound(F) /\ Work(b) \in 0 .. Size(b) /\ Size(b) \in Nat /\ i \in 1 .. Size(b)
  BY Settled, SourceBody
<1>2. \A l \in 1 .. i : Phis(b) + l \in DOMAIN F.code[b]
  BY <1>1, SourceBody
<1>3. \A l \in 1 .. i : Body(b, l).id = <<"orig", b, Body(b, l).id[3]>> /\ Body(b, l).id[3] \in Nat
  BY <1>1, <1>2, SourceInst DEF Body
<1>4. /\ \A j \in DOMAIN e.ops : e.ops[j] \in Usable
      /\ e.id = <<"orig", b, e.id[3]>> /\ e.id[3] \in Nat /\ e.id[2] = b
  <2>1. i \in 1 .. i
    BY <1>1
  <2> QED
    BY <1>1, <1>2, <2>1, SourceInst DEF Body
<1>5. /\ f.id = <<part, b, e.id[3]>>
      /\ f.ops = [j \in DOMAIN e.ops |-> InCopy(part, b, i, e.ops[j])]
  BY DEF CopyOf
<1>6. \A v : Above(b, i + 1, v) <=> Above(b, i, v) \/ v = e.id
  <2>1. \A l : l \in 1 .. (i + 1) - 1 <=> l \in 1 .. i - 1 \/ l = i
    BY <1>1
  <2> QED
    BY <2>1 DEF Above
<1>7. ASSUME NEW v \in Usable, Above(b, i, v)
      PROVE  v = <<"orig", b, v[3]>> /\ v # e.id
  <2>1. PICK l \in 1 .. i - 1 : Body(b, l).id = v
    BY <1>7 DEF Above
  <2>2. l \in 1 .. i /\ l \in 1 .. Size(b) /\ l # i
    BY <1>1
  <2>3. v # e.id
    BY <1>1, <2>1, <2>2, SourceBody
  <2> QED
    BY <1>3, <2>1, <2>2, <2>3
<1> HIDE DEF e
<1>8. ASSUME NEW v \in Usable
      PROVE  IF v = e.id THEN InCopy(part, b, i + 1, v) = f.id
             ELSE InCopy(part, b, i + 1, v) = InCopy(part, b, i, v) /\ InCopy(part, b, i, v) # f.id
  <2>1. CASE v = e.id
    BY <1>4, <1>5, <1>6, <2>1 DEF InCopy
  <2>2. CASE v # e.id /\ Above(b, i, v)
    BY <1>4, <1>5, <1>6, <1>7, <2>2 DEF InCopy
  <2>3. CASE v # e.id /\ ~Above(b, i, v)
    <3>1. InCopy(part, b, i + 1, v) = M(v) /\ InCopy(part, b, i, v) = M(v)
      BY <1>6, <2>3 DEF InCopy
    <3>2. M(v) # f.id
      BY <1>4, <1>5, UseNoCopy
    <3> QED
      BY <2>3, <3>1, <3>2
  <2> QED
    BY <2>1, <2>2, <2>3
<1>9. \A v \in Usable : /\ CopyUses(part, b, i)[v] = InCopy(part, b, i, v)
                        /\ CopyUses(part, b, i + 1)[v] = InCopy(part, b, i + 1, v)
  BY DEF CopyUses
<1>10. /\ DOMAIN f.ops = DOMAIN e.ops
       /\ \A j \in DOMAIN e.ops : f.ops[j] = InCopy(part, b, i, e.ops[j])
  BY <1>5
<1>11. f.id[2] = e.id[2] /\ f.id[3] = e.id[3]
  BY <1>4, <1>5
<1> DEFINE m == CopyUses(part, b, i)
           m2 == CopyUses(part, b, i + 1)
<1>12. /\ \A j \in DOMAIN e.ops : e.ops[j] \in Usable /\ f.ops[j] = m[e.ops[j]]
       /\ \A v \in Usable : IF v = e.id THEN m2[v] = f.id ELSE m2[v] = m[v] /\ m[v] # f.id
  BY <1>4, <1>8, <1>9, <1>10
<1> HIDE DEF m, m2
<1>13. Repeats(f, e, m, m2)
  BY <1>10, <1>11, <1>12 DEF Repeats
<1> QED
  BY <1>13 DEF e, m, m2

LEMMA NoPhisFollow ==
  ASSUME NEW x, NEW y, NEW m, Follows(y, x, m), NEW t, PhisOf(t.insts) = {}, t.visit = x.visit,
         NEW m2, \A v \in Usable : m2[v] = m[v]
  PROVE  Follows(Begun(y, t), x, m2)
<1> DEFINE g == EnterPhis(y.env, t.insts, y.prev)
<1>1. \A v : Value(g, v) = Value(y.env, v)
  BY EnteredValue
<1> HIDE DEF g
<1>2. /\ Begun(y, t).env = g /\ Begun(y, t).visit = t.visit /\ Begun(y, t).trace = y.trace
      /\ RunLike(Begun(y, t))
  BY DEF Begun, g, RunLike
<1> QED
  BY <1>1, <1>2 DEF Follows, Alike

LEMMA CopyFollows ==
  ASSUME DupInv, Mirror, at = Idle, NEW b \in F.blocks, HasTail(b), NEW part \in {"then", "else"},
         NEW first, NEW h, RunsAlong(h, first, RestOf(Meant(b)), Size(b) + 1),
         NEW y, Follows(y, h[1], UsesOf), NEW k, h[1].visit = k,
         NEW w, w = EnterBlock(y, Visit(Block(part, b), k))
  PROVE  /\ Follows(w, h[1 + Work(b)], CopyUses(part, b, Work(b) + 1))
         /\ h[1 + Work(b)].visit = k /\ w.prev = Block(part, b)
<1> DEFINE t == Visit(Block(part, b), k)
           n == Work(b)
           es == [i \in 1 .. n |-> RestOf(Meant(b))[1 + i]]
           hs == [i \in 0 .. n |-> h[1 + i]]
           ms == [i \in 0 .. n |-> CopyUses(part, b, i + 1)]
<1>1. CodeSound(F) /\ Block(part, b) \in DOMAIN code /\ Done(b) = n
  BY Settled DEF DupInv, Structure, CodeTyped, ThenOf, ElseOf
<1>2. t.insts = code[Block(part, b)] /\ t.visit = k /\ t.name = Block(part, b)
  BY DEF Visit
<1>3. n \in Nat /\ Size(b) \in Nat /\ n <= Size(b)
  BY <1>1, SourceBody
<1>4. /\ t.insts \in Seq(Made) /\ Len(t.insts) = n
      /\ \A i \in 1 .. n : CopyOf(part, b, i, t.insts[i])
  <2>1. CopyMirrored(part, b)
    BY DEF Mirror, BothCopies
  <2> QED
    BY <1>1, <1>2, <2>1, CodeLists DEF CopyMirrored
<1>5. \A i \in 1 .. n : ~IsPhi(t.insts[i])
  <2>1. \A i \in 1 .. n : i \in 1 .. Size(b)
    BY <1>3
  <2> QED
    BY <1>1, <1>4, <2>1, SourceBody DEF CopyOf, IsPhi
<1> HIDE DEF t
<1>6. /\ PhisOf(t.insts) = {} /\ DOMAIN RestOf(t.insts) = 1 .. n
      /\ \A i \in 1 .. n : RestOf(t.insts)[i] = t.insts[i]
  <2>1. \A i \in 1 .. Len(t.insts) : IsPhi(t.insts[i]) <=> i < 1
    BY <1>3, <1>4, <1>5
  <2>2. 1 \in 1 .. Len(t.insts) + 1
    BY <1>3, <1>4
  <2>3. /\ PhisOf(t.insts) = {t.insts[i] : i \in 1 .. 1 - 1}
        /\ DOMAIN RestOf(t.insts) = 1 .. Len(t.insts) - (1 - 1)
        /\ \A i \in 1 .. Len(t.insts) - (1 - 1) : RestOf(t.insts)[i] = t.insts[1 - 1 + i]
    BY <1>4, <2>1, <2>2, PhisUpTo
  <2>4. 1 .. 1 - 1 = {} /\ Len(t.insts) - (1 - 1) = n /\ \A i \in 1 .. n : 1 - 1 + i = i
    BY <1>3, <1>4
  <2> QED
    BY <2>3, <2>4
<1>7. /\ ms[0] = CopyUses(part, b, 1) /\ ms[n] = CopyUses(part, b, n + 1)
      /\ \A i \in 1 .. n : ms[i - 1] = CopyUses(part, b, i) /\ ms[i] = CopyUses(part, b, i + 1)
  <2>1. 0 \in 0 .. n /\ n \in 0 .. n /\ 0 + 1 = 1
    BY <1>3
  <2>2. \A i \in 1 .. n : i - 1 \in 0 .. n /\ i \in 0 .. n /\ (i - 1) + 1 = i
    BY <1>3
  <2> QED
    BY <2>1, <2>2
<1>8. Follows(Begun(y, t), h[1], ms[0])
  <2>1. \A v \in Usable : CopyUses(part, b, 1)[v] = UsesOf[v]
    <3>1. \A v : ~Above(b, 1, v)
      BY DEF Above
    <3> QED
      BY <3>1 DEF CopyUses, UsesOf, InCopy
  <2> QED
    BY <1>2, <1>6, <1>7, <2>1, NoPhisFollow
<1>9. RunLike(y)
  BY DEF Follows, Alike
<1>10. PICK g : BlockRun(g, y, t, n)
  BY <1>3, <1>6, <1>9, EnteredBlock
<1>11. RunsAlong(hs, h[1], es, n)
  <2>1. 1 \in Nat /\ Size(b) + 1 \in Nat /\ 1 + n <= Size(b) + 1
    BY <1>3
  <2> HIDE DEF n
  <2> QED
    BY <1>3, <2>1, RunsSliced
<1> HIDE DEF ms
<1>12. Repeated(RestOf(t.insts), es, ms, n)
  <2> SUFFICES ASSUME NEW i \in 1 .. n
               PROVE  Repeats(RestOf(t.insts)[i], es[i], ms[i - 1], ms[i])
    BY Zenon DEF Repeated
  <2>1. i \in 1 .. Size(b)
    BY <1>3
  <2>2. es[i] = Body(b, i)
    BY <1>1, <2>1, MeantLists
  <2>3. Repeats(t.insts[i], Body(b, i), CopyUses(part, b, i), CopyUses(part, b, i + 1))
    BY <1>4, CopyRepeats
  <2> QED
    BY <1>6, <1>7, <2>2, <2>3
<1>13. hs[n] = h[1 + n] /\ hs[0] = h[1]
  BY <1>3
<1> HIDE DEF es, hs
<1>14. Follows(g[n], hs[n], ms[n]) /\ hs[n].visit = h[1].visit
  <2>1. RunsAlong(g, Begun(y, t), RestOf(t.insts), n)
    BY <1>10, Zenon DEF BlockRun
  <2> QED
    BY <1>3, <1>8, <1>11, <1>12, <2>1, AllRepeated
<1>15. Follows(g[n], h[1 + n], CopyUses(part, b, n + 1)) /\ h[1 + n].visit = k
  BY <1>7, <1>13, <1>14
<1>16. RunLike(g[n]) /\ RunLike(h[1 + n])
  BY <1>15 DEF Follows, Alike
<1>17. /\ RunLike(w) /\ w.env = g[n].env /\ w.trace = g[n].trace /\ w.visit = g[n].visit
       /\ w.prev = Block(part, b)
  BY <1>2, <1>10, <1>16 DEF BlockRun, t
<1>18. Follows(w, h[1 + n], CopyUses(part, b, n + 1))
  BY <1>15, <1>16, <1>17, FollowsOn
<1> QED
  BY <1>15, <1>17, <1>18

(***************************************************************************)
(* Blocks that were duplicated: the tail.                                  *)
(***************************************************************************)
LEMMA TailLists ==
  ASSUME DupInv, Mirror, at = Idle, NEW b \in F.blocks, HasTail(b)
  PROVE  LET t == code[TailOf(b)]
             n == IF Branches(b) THEN 1 ELSE 0
         IN /\ \A phi \in PhisOf(t) :
                 \E l \in 1 .. Work(b) : Body(b, l).kind # "void" /\ PhiFor(phi, b, Body(b, l))
            /\ \A l \in 1 .. Work(b) : Body(b, l).kind # "void" =>
                 \E phi \in PhisOf(t) : PhiFor(phi, b, Body(b, l))
            /\ DOMAIN RestOf(t) = 1 .. n
            /\ Branches(b) => Like(RestOf(t)[1], Body(b, Size(b)))
<1> DEFINE t == code[TailOf(b)]
           n == IF Branches(b) THEN Len(t) ELSE Len(t) + 1
<1>1. CodeSound(F) /\ TailOf(b) \in DOMAIN code /\ ~InWork(b)
  BY Settled DEF HasTail
<1>2. /\ \A i \in 1 .. Len(t) :
          \/ \E l \in 1 .. Work(b) : Body(b, l).kind # "void" /\ PhiFor(t[i], b, Body(b, l))
          \/ Branches(b) /\ i = Len(t) /\ Like(t[i], Body(b, Size(b)))
      /\ \A l \in 1 .. Work(b) :
           Body(b, l).kind # "void" => \E i \in 1 .. Len(t) : PhiFor(t[i], b, Body(b, l))
      /\ Branches(b) => t # <<>> /\ Like(t[Len(t)], Body(b, Size(b)))
  BY <1>1 DEF Mirror, ClosedTails, TailMirrored
<1>3. t \in Seq(Made) /\ Len(t) \in Nat
  BY <1>1, CodeLists
<1>4. Branches(b) => Body(b, Size(b)).kind = "br"
  BY DEF Branches
<1> HIDE DEF t
<1>5. Branches(b) => Len(t) # 0 /\ ~IsPhi(t[Len(t)])
  <2>1. Branches(b) => Len(t) # 0
    BY <1>2, <1>3
  <2>2. Branches(b) => ~IsPhi(t[Len(t)])
    BY <1>2, <1>4 DEF Like, IsPhi
  <2> QED
    BY <2>1, <2>2
<1>6. \A i \in 1 .. Len(t) : i < n =>
        \E l \in 1 .. Work(b) : Body(b, l).kind # "void" /\ PhiFor(t[i], b, Body(b, l))
  <2> SUFFICES ASSUME NEW i \in 1 .. Len(t), i < n
               PROVE  \E l \in 1 .. Work(b) : Body(b, l).kind # "void" /\ PhiFor(t[i], b, Body(b, l))
    OBVIOUS
  <2>1. ~(Branches(b) /\ i = Len(t))
    BY <1>3
  <2> QED
    BY <1>2, <2>1
<1>7. \A i \in 1 .. Len(t) : IsPhi(t[i]) <=> i < n
  <2> SUFFICES ASSUME NEW i \in 1 .. Len(t) PROVE IsPhi(t[i]) <=> i < n
    OBVIOUS
  <2>1. i < n => IsPhi(t[i])
    BY <1>6 DEF PhiFor, IsPhi
  <2>2. ~(i < n) => Branches(b) /\ i = Len(t)
    BY <1>3
  <2> QED
    BY <1>5, <2>1, <2>2
<1>8. n \in 1 .. Len(t) + 1
  BY <1>3, <1>5
<1>9. Len(t) - (n - 1) = IF Branches(b) THEN 1 ELSE 0
  BY <1>3
<1>10. Branches(b) => n - 1 + 1 = Len(t)
  BY <1>3
<1> HIDE DEF n
<1>11. /\ PhisOf(t) = {t[i] : i \in 1 .. n - 1}
       /\ DOMAIN RestOf(t) = 1 .. Len(t) - (n - 1)
       /\ \A i \in 1 .. Len(t) - (n - 1) : RestOf(t)[i] = t[n - 1 + i]
  BY <1>3, <1>7, <1>8, PhisUpTo
<1>12. Branches(b) => RestOf(t)[1] = t[Len(t)]
  <2> SUFFICES ASSUME Branches(b) PROVE RestOf(t)[1] = t[Len(t)]
    OBVIOUS
  <2>1. 1 \in 1 .. Len(t) - (n - 1)
    BY <1>9
  <2> QED
    BY <1>10, <1>11, <2>1
<1>13. \A i : i \in 1 .. n - 1 <=> i \in 1 .. Len(t) /\ i < n
  BY <1>3, <1>8
<1>14. \A phi \in PhisOf(t) :
         \E l \in 1 .. Work(b) : Body(b, l).kind # "void" /\ PhiFor(phi, b, Body(b, l))
  BY <1>6, <1>11, <1>13
<1>15. ASSUME NEW l \in 1 .. Work(b), Body(b, l).kind # "void"
       PROVE  \E phi \in PhisOf(t) : PhiFor(phi, b, Body(b, l))
  <2>1. PICK i \in 1 .. Len(t) : PhiFor(t[i], b, Body(b, l))
    BY <1>2, <1>15
  <2>2. i < n
    BY <1>7, <2>1 DEF PhiFor, IsPhi
  <2>3. i \in 1 .. n - 1
    BY <1>13, <2>2
  <2> QED
    BY <1>11, <2>1, <2>3
<1> QED
  BY <1>2, <1>9, <1>11, <1>12, <1>14, <1>15 DEF t

LEMMA PhiForValue ==
  ASSUME NEW phi, NEW b, NEW e, PhiFor(phi, b, e), NEW part \in {"then", "else"}, NEW env,
         NEW v, v = <<part, b, e.id[3]>>
  PROVE  PhiValue(env, phi, Block(part, b)) = Value(env, v)
<1> DEFINE prev == Block(part, b)
           i == IF part = "then" THEN 1 ELSE 2
<1>1. /\ phi.ops = <<<<"then", b, e.id[3]>>, <<"else", b, e.id[3]>>>>
      /\ phi.from = <<ThenOf(b), ElseOf(b)>>
  BY DEF PhiFor
<1>2. DOMAIN phi.from = {1, 2} /\ phi.from[1] = ThenOf(b) /\ phi.from[2] = ElseOf(b)
  BY <1>1
<1>3. phi.ops[1] = <<"then", b, e.id[3]>> /\ phi.ops[2] = <<"else", b, e.id[3]>>
  BY <1>1
<1>4. Incoming(phi, prev) = {i}
  <2>1. prev = ThenOf(b) <=> part = "then"
    BY DEF ThenOf, Block
  <2>2. prev = ElseOf(b) <=> part = "else"
    BY DEF ElseOf, Block
  <2> QED
    BY <1>2, <2>1, <2>2 DEF Incoming
<1>5. Min({i}) = i
  <2>1. {i} \in SUBSET Nat /\ {i} # {}
    OBVIOUS
  <2>2. Min({i}) \in {i}
    BY <2>1, MinPlace
  <2> QED
    BY <2>2
<1>6. phi.ops[i] = v
  BY <1>3
<1> HIDE DEF prev, i
<1>7. PhiValue(env, phi, prev) = Value(env, phi.ops[i])
  BY <1>4, <1>5 DEF PhiValue
<1> QED
  BY <1>6, <1>7 DEF prev

LEMMA TailPhisFollow ==
  ASSUME DupInv, Mirror, at = Idle, NEW b \in F.blocks, HasTail(b), NEW part \in {"then", "else"},
         NEW x, NEW y, Follows(y, x, CopyUses(part, b, Work(b) + 1)), y.prev = Block(part, b),
         NEW t, t.insts = code[TailOf(b)], t.visit = x.visit
  PROVE  Follows(Begun(y, t), x, UsesOf)
<1> DEFINE g == EnterPhis(y.env, t.insts, y.prev)
           phis == PhisOf(t.insts)
<1>1. CodeSound(F) /\ Work(b) \in 0 .. Size(b) /\ Size(b) \in Nat
  BY Settled, SourceBody
<1>2. /\ \A phi \in phis :
           \E l \in 1 .. Work(b) : Body(b, l).kind # "void" /\ PhiFor(phi, b, Body(b, l))
      /\ \A l \in 1 .. Work(b) : Body(b, l).kind # "void" => \E phi \in phis : PhiFor(phi, b, Body(b, l))
  BY TailLists
<1>3. \A l \in 1 .. Work(b) : /\ Body(b, l).id = <<"orig", b, Body(b, l).id[3]>>
                              /\ Body(b, l).id \in Results(F)
                              /\ Body(b, l).kind = "void" <=> Body(b, l).id \in VoidIds(F)
  <2> SUFFICES ASSUME NEW l \in 1 .. Work(b)
               PROVE  /\ Body(b, l).id = <<"orig", b, Body(b, l).id[3]>>
                      /\ Body(b, l).id \in Results(F)
                      /\ Body(b, l).kind = "void" <=> Body(b, l).id \in VoidIds(F)
    OBVIOUS
  <2>1. l \in 1 .. Size(b)
    BY <1>1
  <2>2. Phis(b) + l \in DOMAIN F.code[b]
    BY <1>1, <2>1, SourceBody
  <2> QED
    BY <1>1, <2>2, SourceInst DEF Body
<1>4. \A v : Above(b, Work(b) + 1, v) <=> \E l \in 1 .. Work(b) : Body(b, l).id = v
  <2>1. (Work(b) + 1) - 1 = Work(b)
    BY <1>1
  <2> QED
    BY <2>1 DEF Above
<1>5. ASSUME NEW v \in Usable PROVE Value(x.env, v) = Value(g, M(v))
  <2>0. Value(x.env, v) = Value(y.env, InCopy(part, b, Work(b) + 1, v))
    BY DEF Follows, CopyUses
  <2>1. CASE \E l \in 1 .. Work(b) : Body(b, l).id = v
    <3>1. PICK l \in 1 .. Work(b) : Body(b, l).id = v
      BY <2>1
    <3>2. v \notin VoidIds(F)
      <4>1. v \in Results(F)
        BY <1>3, <3>1
      <4> QED
        BY <1>1, <4>1, UsableIs
    <3>3. Body(b, l).kind # "void" /\ v = <<"orig", b, v[3]>>
      BY <1>3, <3>1, <3>2
    <3>4. M(v) = <<"phi", b, v[3]>>
      BY <3>1, <3>3, UseReplaced
    <3>5. \E phi \in phis : phi.id = M(v)
      BY <1>2, <3>1, <3>3, <3>4 DEF PhiFor
    <3>6. PICK phi \in phis : phi.id = M(v) /\ Value(g, M(v)) = PhiValue(y.env, phi, y.prev)
      BY <3>5, EnteredValue
    <3>7. PICK k \in 1 .. Work(b) : PhiFor(phi, b, Body(b, k))
      BY <1>2, <3>6
    <3>8. Body(b, k).id[3] = v[3]
      BY <3>4, <3>6, <3>7 DEF PhiFor
    <3>9. \A w : w = <<part, b, Body(b, k).id[3]>> =>
            PhiValue(y.env, phi, Block(part, b)) = Value(y.env, w)
      BY <3>7, PhiForValue
    <3>10. InCopy(part, b, Work(b) + 1, v) = <<part, v[2], v[3]>> /\ v[2] = b
      <4>1. Above(b, Work(b) + 1, v)
        BY <1>4, <2>1
      <4>2. v[2] = b
        BY <3>3
      <4> QED
        BY <4>1, <4>2 DEF InCopy
    <3> QED
      BY <2>0, <3>6, <3>8, <3>9, <3>10
  <2>2. CASE ~ \E l \in 1 .. Work(b) : Body(b, l).id = v
    <3>1. InCopy(part, b, Work(b) + 1, v) = M(v)
      BY <1>4, <2>2 DEF InCopy
    <3>2. ASSUME NEW phi \in phis PROVE phi.id # M(v)
      <4>1. PICK l \in 1 .. Work(b) : Body(b, l).kind # "void" /\ PhiFor(phi, b, Body(b, l))
        BY <1>2
      <4>2. phi.id = <<"phi", b, Body(b, l).id[3]>>
        BY <4>1 DEF PhiFor
      <4> QED
        BY <2>2, <4>1, <4>2, UseReplaced
    <3>3. Value(g, M(v)) = Value(y.env, M(v))
      BY <3>2, EnteredValue
    <3> QED
      BY <2>0, <3>1, <3>3
  <2> QED
    BY <2>1, <2>2
<1> HIDE DEF g, phis
<1>6. /\ Begun(y, t).env = g /\ Begun(y, t).visit = t.visit /\ Begun(y, t).trace = y.trace
      /\ RunLike(Begun(y, t))
  BY DEF Begun, g, RunLike
<1>7. \A v \in Usable : UsesOf[v] = M(v)
  BY DEF UsesOf
<1> QED
  BY <1>5, <1>6, <1>7 DEF Follows, Alike

LEMMA TailFollows ==
  ASSUME DupInv, Mirror, at = Idle, NEW b \in F.blocks, HasTail(b), NEW part \in {"then", "else"},
         NEW first, NEW h, RunsAlong(h, first, RestOf(Meant(b)), Size(b) + 1),
         NEW y, Follows(y, h[1 + Work(b)], CopyUses(part, b, Work(b) + 1)), y.prev = Block(part, b),
         NEW k, h[1 + Work(b)].visit = k, NEW w, w = EnterBlock(y, Visit(TailOf(b), k))
  PROVE  Follows(w, h[Size(b) + 1], UsesOf) /\ w.prev = TailOf(b)
<1> DEFINE t == Visit(TailOf(b), k)
           n == IF Branches(b) THEN 1 ELSE 0
           x == h[1 + Work(b)]
           l == Size(b) + 1
<1>1. /\ CodeSound(F) /\ Size(b) \in Nat /\ Work(b) \in 0 .. Size(b)
      /\ Branches(b) => Size(b) = Work(b) + 1
      /\ ~Branches(b) => Size(b) = Work(b)
  BY Settled, SourceBody
<1>2. t.insts = code[TailOf(b)] /\ t.visit = k /\ t.name = TailOf(b)
  BY DEF Visit
<1>3. /\ DOMAIN RestOf(t.insts) = 1 .. n /\ n \in Nat
      /\ Branches(b) => Like(RestOf(t.insts)[1], Body(b, Size(b)))
  BY <1>2, TailLists
<1> HIDE DEF t
<1>4. Follows(Begun(y, t), x, UsesOf)
  BY <1>2, TailPhisFollow
<1>5. RunLike(y)
  BY DEF Follows, Alike
<1>6. PICK g : BlockRun(g, y, t, n)
  <2> HIDE DEF n
  <2> QED
    BY <1>3, <1>5, EnteredBlock
<1>7. RunsAlong(g, Begun(y, t), RestOf(t.insts), n)
  BY <1>6, Zenon DEF BlockRun
<1>8. Follows(g[n], h[l], UsesOf)
  <2>1. CASE Branches(b)
    <3>1. n = 1 /\ 1 \in 1 .. 1 /\ 1 - 1 = 0
      BY <2>1
    <3>2. l \in 1 .. Size(b) + 1 /\ l - 1 = 1 + Work(b) /\ Size(b) \in 1 .. Size(b) /\ l = 1 + Size(b)
      BY <1>1, <2>1
    <3>3. h[l] = Execute(x, RestOf(Meant(b))[l])
      BY <3>2, Zenon DEF RunsAlong
    <3>4. RestOf(Meant(b))[l] = Body(b, Size(b))
      BY <1>1, <3>2, MeantLists
    <3>5. RunsAlong(g, Begun(y, t), RestOf(t.insts), 1)
      BY <1>7, <3>1
    <3>6. g[0] = Begun(y, t) /\ g[1] = Execute(g[0], RestOf(t.insts)[1])
      BY <3>1, <3>5, Zenon DEF RunsAlong
    <3>7. Repeats(RestOf(t.insts)[1], Body(b, Size(b)), UsesOf, UsesOf)
      <4> DEFINE i == Phis(b) + Size(b)
      <4>1. i \in DOMAIN F.code[b]
        BY <1>1, <3>2, SourceBody
      <4>2. F.code[b][i].kind = "br" /\ Like(RestOf(t.insts)[1], F.code[b][i])
        BY <1>3, <2>1 DEF Branches, Body
      <4> HIDE DEF i
      <4>3. Repeats(RestOf(t.insts)[1], F.code[b][i], UsesOf, UsesOf)
        BY <4>1, <4>2, LikeRepeats
      <4> QED
        BY <4>3 DEF Body, i
    <3> HIDE DEF x, l, n
    <3>8. Follows(g[1], h[l], UsesOf)
      BY <1>4, <3>3, <3>4, <3>6, <3>7, OneRepeated
    <3> QED
      BY <3>1, <3>8
  <2>2. CASE ~Branches(b)
    <3>1. n = 0 /\ l = 1 + Work(b)
      BY <1>1, <2>2
    <3>2. g[0] = Begun(y, t)
      BY <1>7 DEF RunsAlong
    <3> QED
      BY <1>4, <3>1, <3>2
  <2> QED
    BY <2>1, <2>2
<1>9. RunLike(g[n]) /\ RunLike(h[l])
  BY <1>8 DEF Follows, Alike
<1>10. /\ RunLike(w) /\ w.env = g[n].env /\ w.trace = g[n].trace /\ w.visit = g[n].visit
       /\ w.prev = TailOf(b)
  BY <1>2, <1>6, <1>9 DEF BlockRun, t
<1>11. Follows(w, h[l], UsesOf)
  BY <1>8, <1>9, <1>10, FollowsOn
<1> QED
  BY <1>10, <1>11

\* The three blocks that a target became do what the target did.
LEMMA TargetFollows ==
  ASSUME DupInv, Mirror, at = Idle, NEW b \in F.blocks, HasTail(b), NEW part \in {"then", "else"},
         NEW x, NEW y, Follows(y, x, UsesOf), Linked(y, x), NEW k,
         NEW u, u = EnterBlock(x, Step(b, k)),
         NEW y1, y1 = EnterBlock(y, Visit(Original(b), k)),
         NEW y2, y2 = EnterBlock(y1, Visit(Block(part, b), k)),
         NEW w, w = EnterBlock(y2, Visit(TailOf(b), k))
  PROVE  Follows(w, u, UsesOf) /\ Linked(w, u)
<1> DEFINE s == Step(b, k)
           n == Size(b) + 1
<1>1. CodeSound(F) /\ Size(b) \in Nat /\ n \in Nat
  BY Settled, SourceBody
<1>2. s.insts = Meant(b) /\ s.name = Original(b)
  BY DEF Step
<1>3. DOMAIN RestOf(s.insts) = 1 .. n
  BY <1>1, <1>2, MeantLists
<1>4. RunLike(x)
  BY DEF Follows, Alike
<1> HIDE DEF s, n
<1>5. PICK h : BlockRun(h, x, s, n)
  BY <1>1, <1>3, <1>4, EnteredBlock
<1>6. Follows(y1, h[1], UsesOf) /\ h[1].visit = k
  BY <1>5, HeadFollows DEF s, n
<1>7. RunsAlong(h, Begun(x, s), RestOf(Meant(b)), Size(b) + 1)
  BY <1>2, <1>5 DEF BlockRun, n
<1>8. /\ Follows(y2, h[1 + Work(b)], CopyUses(part, b, Work(b) + 1))
      /\ h[1 + Work(b)].visit = k /\ y2.prev = Block(part, b)
  BY <1>6, <1>7, CopyFollows
<1>9. Follows(w, h[n], UsesOf) /\ w.prev = TailOf(b)
  BY <1>7, <1>8, TailFollows DEF n
<1>10. RunLike(h[n]) /\ RunLike(w)
  BY <1>9 DEF Follows, Alike
<1>11. /\ RunLike(u) /\ u.env = h[n].env /\ u.trace = h[n].trace /\ u.visit = h[n].visit
       /\ u.prev = Original(b)
  BY <1>2, <1>5, <1>10 DEF BlockRun, s
<1>12. Follows(w, u, UsesOf)
  BY <1>9, <1>10, <1>11, FollowsOn
<1>13. Linked(w, u)
  BY <1>9, <1>11, EndOfIs DEF Linked
<1> QED
  BY <1>12, <1>13

(***************************************************************************)
(* Routes through the function.                                            *)
(***************************************************************************)
\* What the code has of block b.
Piece(part, b, k) ==
  IF HasTail(b)
  THEN <<Visit(Original(b), k), Visit(Block(part, b), k), Visit(TailOf(b), k)>>
  ELSE <<Visit(Original(b), k)>>

LEMMA PieceFollows ==
  ASSUME DupInv, Mirror, at = Idle, NEW b \in F.blocks, NEW part \in {"then", "else"},
         NEW x, NEW k, NEW g, NEW d \in Nat, Follows(g[d], x, UsesOf), Linked(g[d], x),
         \A i \in 1 .. Len(Piece(part, b, k)) :
           g[d + i] = EnterBlock(g[(d + i) - 1], Piece(part, b, k)[i]),
         NEW u, u = EnterBlock(x, Step(b, k))
  PROVE  LET w == g[d + Len(Piece(part, b, k))]
         IN Follows(w, u, UsesOf) /\ Linked(w, u)
<1> DEFINE p == Piece(part, b, k)
<1>1. (d + 1) - 1 = d /\ (d + 2) - 1 = d + 1 /\ (d + 3) - 1 = d + 2
  OBVIOUS
<1>2. CASE HasTail(b)
  <2>1. /\ Len(p) = 3 /\ p[1] = Visit(Original(b), k) /\ p[2] = Visit(Block(part, b), k)
        /\ p[3] = Visit(TailOf(b), k)
    BY <1>2 DEF Piece
  <2>2. 1 \in 1 .. 3 /\ 2 \in 1 .. 3 /\ 3 \in 1 .. 3
    OBVIOUS
  <2> HIDE DEF p
  <2>3. /\ g[d + 1] = EnterBlock(g[d], Visit(Original(b), k))
        /\ g[d + 2] = EnterBlock(g[d + 1], Visit(Block(part, b), k))
        /\ g[d + 3] = EnterBlock(g[d + 2], Visit(TailOf(b), k))
    BY <1>1, <2>1, <2>2 DEF p
  <2>4. Follows(g[d + 3], u, UsesOf) /\ Linked(g[d + 3], u)
    BY <1>2, <2>3, TargetFollows
  <2> QED
    BY <2>1, <2>4 DEF p
<1>3. CASE ~HasTail(b)
  <2>1. Len(p) = 1 /\ p[1] = Visit(Original(b), k)
    BY <1>3 DEF Piece
  <2>2. 1 \in 1 .. 1
    OBVIOUS
  <2> HIDE DEF p
  <2>3. g[d + 1] = EnterBlock(g[d], Visit(Original(b), k))
    BY <1>1, <2>1, <2>2 DEF p
  <2>4. Follows(g[d + 1], u, UsesOf) /\ Linked(g[d + 1], u)
    BY <1>3, <2>3, WholeFollows
  <2> QED
    BY <2>1, <2>4 DEF p
<1> QED
  BY <1>2, <1>3

\* The run in front of a route.
Outset ==
  [env |-> [v \in Outside(F) |-> <<"outside", v>>], prev |-> Undefined, visit |-> 0,
   trace |-> <<>>]

LEMMA OutsetFollows ==
  ASSUME DupInv, Mirror, at = Idle
  PROVE  Follows(Outset, Outset, UsesOf) /\ Linked(Outset, Outset)
<1> DEFINE env == [v \in Outside(F) |-> <<"outside", v>>]
<1>1. \A v : Value(env, v) = IF v \in Outside(F) THEN <<"outside", v>> ELSE Undefined
  BY DEF Value
<1>2. CodeSound(F)
  BY DEF DupInv, Structure, CodeTyped
<1>3. Outside(F) \cap Results(F) = {}
  BY <1>2 DEF CodeSound
<1>4. ASSUME NEW v \in Usable PROVE Value(env, v) = Value(env, UsesOf[v])
  <2>1. UsesOf[v] = M(v)
    BY DEF UsesOf
  <2>2. CASE M(v) = v
    BY <2>1, <2>2
  <2>3. CASE M(v) # v
    <3>1. /\ v = <<"orig", v[2], v[3]>> /\ v \in Results(F) /\ M(v) = <<"phi", v[2], v[3]>>
      BY <2>3, UseIs
    <3>2. M(v) \in Results(F)
      BY <3>1 DEF Results, Roles
    <3> QED
      BY <1>1, <1>3, <2>1, <3>1, <3>2
  <2> QED
    BY <2>2, <2>3
<1> HIDE DEF env
<1>5. /\ Outset.env = env /\ Outset.prev = Undefined /\ RunLike(Outset)
  BY DEF Outset, RunLike, env
<1>6. Alike(Outset, Outset)
  BY <1>5 DEF Alike
<1> QED
  BY <1>4, <1>5, <1>6 DEF Follows, Linked

LEMMA RouteIs ==
  ASSUME NEW r \in Routes(Visits)
  PROVE  Visits \in Nat /\ DOMAIN r = 1 .. Visits /\ \A k \in 1 .. Visits : r[k] \in F.blocks
BY VisitsAssumption DEF Routes

LEMMA SameTraces ==
  ASSUME DupInv, Mirror, at = Idle, NEW r \in Routes(Visits),
         NEW sides \in [1 .. Visits -> {"then", "else"}]
  PROVE  Trace(Through(r, sides)) = Trace(Reference(r))
<1> DEFINE n == Visits
           lists == [k \in DOMAIN r |-> Piece(sides[k], r[k], k)]
           X == {Visit(x, k) : x \in Names, k \in 1 .. n}
           ref == Reference(r)
<1>1. n \in Nat /\ DOMAIN r = 1 .. n /\ \A k \in 1 .. n : r[k] \in F.blocks
  BY RouteIs
<1>2. Through(r, sides) = FlattenSeq(lists)
  <2>1. \A k \in DOMAIN r :
          Piece(sides[k], r[k], k)
            = IF Block("tail", r[k]) \notin DOMAIN code THEN <<Visit(Original(r[k]), k)>>
              ELSE <<Visit(Original(r[k]), k), Visit(Block(sides[k], r[k]), k),
                     Visit(Block("tail", r[k]), k)>>
    BY DEF Piece, HasTail, TailOf
  <2>2. lists = [k \in DOMAIN r |->
                   IF Block("tail", r[k]) \notin DOMAIN code THEN <<Visit(Original(r[k]), k)>>
                   ELSE <<Visit(Original(r[k]), k), Visit(Block(sides[k], r[k]), k),
                          Visit(Block("tail", r[k]), k)>>]
    BY <2>1
  <2> HIDE DEF lists
  <2> QED
    BY <2>2, Zenon DEF Through
<1>3. \A k \in 1 .. n : lists[k] = Piece(sides[k], r[k], k)
  BY <1>1
<1>4. \A k \in 1 .. n : lists[k] \in Seq(X)
  <2> SUFFICES ASSUME NEW k \in 1 .. n PROVE Piece(sides[k], r[k], k) \in Seq(X)
    BY <1>3
  <2>1. sides[k] \in {"then", "else"} /\ r[k] \in F.blocks
    BY <1>1
  <2>2. /\ Original(r[k]) \in Names /\ Block(sides[k], r[k]) \in Names /\ TailOf(r[k]) \in Names
    BY <2>1 DEF Names, Parts, Original, Block, TailOf
  <2>3. \A x \in Names : Visit(x, k) \in X
    OBVIOUS
  <2> HIDE DEF X
  <2> QED
    BY <2>2, <2>3 DEF Piece
<1>5. lists \in Seq(Seq(X)) /\ Len(lists) = n
  <2>1. lists = [k \in 1 .. n |-> lists[k]]
    BY <1>1
  <2> HIDE DEF lists, X, n
  <2>2. lists \in Seq(Seq(X))
    BY <1>1, <1>4, <2>1, IsSequence
  <2>3. DOMAIN lists = 1 .. n
    BY <2>1
  <2> QED
    BY <1>1, <2>2, <2>3
<1>6. ref = [k \in 1 .. n |-> Step(r[k], k)]
  BY <1>1 DEF Reference, Step
<1>7. DOMAIN ref = 1 .. n /\ \A k \in 1 .. n : ref[k] = Step(r[k], k)
  BY <1>6
<1> DEFINE flat == FlattenSeq(lists)
           N == Len(flat)
<1> HIDE DEF lists, X, ref, n
<1>8. /\ flat \in Seq(X)
      /\ \E start : Starts(lists, start) /\ Reaches(lists, start, flat, n)
  BY <1>5, Flattened
<1> HIDE DEF flat
<1>9. N \in Nat /\ DOMAIN flat = 1 .. N
  BY <1>8
<1>10. PICK start : Starts(lists, start) /\ Reaches(lists, start, flat, n)
  BY <1>8
<1>11. /\ \A k \in 1 .. n + 1 : start[k] \in Nat
       /\ start[1] = 0
       /\ \A k \in 1 .. n : start[k + 1] = start[k] + Len(lists[k])
       /\ N = start[n + 1]
       /\ \A k \in 1 .. n : \A i \in 1 .. Len(lists[k]) :
            start[k] + i \in 1 .. N /\ flat[start[k] + i] = lists[k][i]
  BY <1>5, <1>10 DEF Starts, Reaches
<1> HIDE DEF N
<1>12. PICK h : EntersAlong(h, Outset, ref, n) /\ Entered(Outset, ref) = h[n]
  BY <1>1, <1>7, EnteredAlong
<1>13. PICK g : EntersAlong(g, Outset, flat, N) /\ Entered(Outset, flat) = g[N]
  BY <1>9, EnteredAlong
<1>14. /\ h[0] = Outset /\ \A k \in 1 .. n : h[k] = EnterBlock(h[k - 1], ref[k])
       /\ g[0] = Outset /\ \A p \in 1 .. N : g[p] = EnterBlock(g[p - 1], flat[p])
  BY <1>12, <1>13, Zenon DEF EntersAlong
<1> DEFINE S == {k \in Nat : k <= n => /\ Follows(g[start[k + 1]], h[k], UsesOf)
                                       /\ Linked(g[start[k + 1]], h[k])}
<1>15. 0 \in S
  <2>1. start[0 + 1] = 0
    BY <1>11
  <2> QED
    BY <1>14, <2>1, OutsetFollows
<1>16. ASSUME NEW k \in Nat, k \in S PROVE k + 1 \in S
  <2> SUFFICES ASSUME k + 1 <= n
               PROVE  /\ Follows(g[start[(k + 1) + 1]], h[k + 1], UsesOf)
                      /\ Linked(g[start[(k + 1) + 1]], h[k + 1])
    OBVIOUS
  <2>1. k + 1 \in 1 .. n /\ (k + 1) - 1 = k /\ k <= n /\ k + 1 \in 1 .. n + 1
    BY <1>1
  <2> DEFINE d == start[k + 1]
             b == r[k + 1]
             part == sides[k + 1]
  <2>2. Follows(g[d], h[k], UsesOf) /\ Linked(g[d], h[k])
    BY <1>16, <2>1
  <2>3. h[k + 1] = EnterBlock(h[k], Step(b, k + 1))
    BY <1>7, <1>14, <2>1
  <2>4. lists[k + 1] = Piece(part, b, k + 1) /\ d \in Nat /\ b \in F.blocks /\ part \in {"then", "else"}
    BY <1>1, <1>3, <1>11, <2>1 DEF n
  <2>5. start[(k + 1) + 1] = d + Len(Piece(part, b, k + 1))
    BY <1>11, <2>1, <2>4
  <2>6. \A i \in 1 .. Len(Piece(part, b, k + 1)) :
          g[d + i] = EnterBlock(g[(d + i) - 1], Piece(part, b, k + 1)[i])
    <3> SUFFICES ASSUME NEW i \in 1 .. Len(lists[k + 1])
                 PROVE  g[d + i] = EnterBlock(g[(d + i) - 1], lists[k + 1][i])
      BY <2>4
    <3>1. d + i \in 1 .. N /\ flat[d + i] = lists[k + 1][i]
      BY <1>11, <2>1
    <3> QED
      BY <1>14, <3>1
  <2> HIDE DEF d, b, part
  <2>7. /\ Follows(g[d + Len(Piece(part, b, k + 1))], h[k + 1], UsesOf)
        /\ Linked(g[d + Len(Piece(part, b, k + 1))], h[k + 1])
    BY <2>2, <2>3, <2>4, <2>6, PieceFollows, ZenonT(40)
  <2> QED
    BY <2>5, <2>7
<1>17. Nat \subseteq S
  <2> HIDE DEF S
  <2> QED
    BY <1>15, <1>16, NatSet
<1>18. Follows(g[N], h[n], UsesOf)
  BY <1>1, <1>11, <1>17
<1>19. Entered(Outset, flat).trace = Entered(Outset, ref).trace
  BY <1>12, <1>13, <1>18 DEF Follows, Alike
<1>20. \A steps : Trace(steps) = Entered(Outset, steps).trace
  BY DEF Trace, Entered, Outset
<1> QED
  BY <1>2, <1>19, <1>20 DEF flat, ref

\* The code executes what the source executes, along every route.
THEOREM SameBehaviourThm == DSpec => []SameBehaviour
<1>1. DupInv /\ Mirror => SameBehaviour
  <2> SUFFICES ASSUME DupInv, Mirror, Quiet, NEW r \in Routes(Visits),
                      NEW source \in {NoTests(Trace(Reference(r)))},
                      NEW sides \in [1 .. Visits -> {"then", "else"}]
               PROVE  NoTests(Trace(Through(r, sides))) = source
    BY DEF SameBehaviour
  <2>1. Trace(Through(r, sides)) = Trace(Reference(r))
    BY SameTraces DEF Quiet
  <2> QED
    BY <2>1
<1> QED
  BY <1>1, MirrorInvariant, PTL

(***************************************************************************)
(* The source computes a value before a test looks at it.                  *)
(***************************************************************************)
\* No test in the trace saw nothing.
Good(trace) ==
  \E X : trace \in Seq(X) /\ \A e \in X : IsTest(e) => e.seen # <<Undefined>>
\* A run that has computed all of D.
Computed(x, D) == RunLike(x) /\ Good(x.trace) /\ \A v \in D : Value(x.env, v) # Undefined
\* What is computed when control leaves b.
Known(b) == Outside(F) \cup UNION {Ids(F.code[d]) : d \in F.sdom[b] \cup {b}}

LEMMA GoodAppend ==
  ASSUME NEW trace, Good(trace), NEW e, IsTest(e) => e.seen # <<Undefined>>
  PROVE  Good(Append(trace, e))
<1>1. PICK X : trace \in Seq(X) /\ \A f \in X : IsTest(f) => f.seen # <<Undefined>>
  BY DEF Good
<1> DEFINE Y == X \cup {e}
<1>2. \A f \in Y : IsTest(f) => f.seen # <<Undefined>>
  BY <1>1
<1>3. trace \in Seq(Y) /\ e \in Y
  BY <1>1
<1> HIDE DEF Y
<1>4. Append(trace, e) \in Seq(Y)
  BY <1>3
<1> QED
  BY <1>2, <1>4 DEF Good

LEMMA OneComputed ==
  ASSUME NEW x, NEW D, Computed(x, D), NEW e,
         e.id[3] = 0 => \E v \in D : e.ops = <<v>>
  PROVE  Computed(Execute(x, e), D \cup {e.id})
<1> DEFINE y == Execute(x, e)
<1>1. Executed(x, e, y)
  BY ExecuteParts DEF Computed
<1> HIDE DEF y
<1>2. /\ RunLike(y) /\ y.trace = Append(x.trace, Entry(x.env, e))
      /\ \A v : Value(y.env, v) = IF v = e.id THEN Result(x, e) ELSE Value(x.env, v)
  BY <1>1 DEF Executed
<1>3. Result(x, e) # Undefined
  BY DEF Result, Undefined
<1>4. \A v \in D \cup {e.id} : Value(y.env, v) # Undefined
  BY <1>2, <1>3 DEF Computed
<1>5. IsTest(Entry(x.env, e)) => Entry(x.env, e).seen # <<Undefined>>
  <2> SUFFICES ASSUME e.id[3] = 0 PROVE Seen(x.env, e) # <<Undefined>>
    BY DEF IsTest, Entry
  <2>1. PICK v \in D : e.ops = <<v>>
    OBVIOUS
  <2>2. Value(x.env, v) # Undefined
    BY DEF Computed
  <2>3. DOMAIN e.ops = {1} /\ e.ops[1] = v
    BY <2>1
  <2>4. Seen(x.env, e)[1] = Value(x.env, v)
    BY <2>3 DEF Seen
  <2>5. <<Undefined>>[1] = Undefined
    OBVIOUS
  <2> QED
    BY <2>2, <2>4, <2>5
<1>6. Good(y.trace)
  BY <1>2, <1>5, GoodAppend DEF Computed
<1>7. Computed(y, D \cup {e.id})
  BY <1>2, <1>4, <1>6 DEF Computed
<1> QED
  BY <1>7 DEF y

LEMMA AllComputed ==
  ASSUME NEW n \in Nat, NEW insts, NEW x, NEW D, Computed(x, D),
         NEW h, RunsAlong(h, x, insts, n),
         \A k \in 1 .. n : insts[k].id[3] = 0 => \E v \in D : insts[k].ops = <<v>>
  PROVE  Computed(h[n], D \cup {insts[k].id : k \in 1 .. n})
<1> DEFINE E(k) == D \cup {insts[j].id : j \in 1 .. k}
           S == {k \in Nat : k <= n => Computed(h[k], E(k))}
<1>1. 0 \in S
  <2>1. \A v : v \in E(0) => v \in D
    OBVIOUS
  <2> HIDE DEF E
  <2>2. Computed(h[0], E(0))
    BY <2>1 DEF Computed, RunsAlong
  <2> QED
    BY <2>2
<1>2. ASSUME NEW k \in Nat, k \in S PROVE k + 1 \in S
  <2> SUFFICES ASSUME k + 1 <= n PROVE Computed(h[k + 1], E(k + 1))
    OBVIOUS
  <2>1. k + 1 \in 1 .. n /\ (k + 1) - 1 = k /\ k <= n
    OBVIOUS
  <2>2. Computed(h[k], E(k))
    BY <1>2, <2>1
  <2>3. h[k + 1] = Execute(h[k], insts[k + 1])
    BY <2>1, Zenon DEF RunsAlong
  <2>4. insts[k + 1].id[3] = 0 => \E v \in E(k) : insts[k + 1].ops = <<v>>
    BY <2>1
  <2>5. \A v : v \in E(k + 1) => v \in E(k) \cup {insts[k + 1].id}
    <3>1. \A j : j \in 1 .. k + 1 => j \in 1 .. k \/ j = k + 1
      OBVIOUS
    <3> QED
      BY <3>1
  <2> HIDE DEF E
  <2>6. Computed(h[k + 1], E(k) \cup {insts[k + 1].id})
    BY <2>2, <2>3, <2>4, OneComputed
  <2> QED
    BY <2>5, <2>6 DEF Computed
<1>3. Nat \subseteq S
  <2> HIDE DEF S
  <2> QED
    BY <1>1, <1>2, NatSet
<1> QED
  BY <1>3

LEMMA MeantIs ==
  ASSUME CodeSound(F), NEW b \in F.blocks
  PROVE  /\ PhisOf(Meant(b)) = {F.code[b][i] : i \in 1 .. Phis(b)}
         /\ \E n \in Nat :
              /\ DOMAIN RestOf(Meant(b)) = 1 .. n
              /\ \A j \in 1 .. n : \/ HasTail(b) /\ RestOf(Meant(b))[j] = TestOf(b)
                                   \/ \E i \in 1 .. Size(b) : RestOf(Meant(b))[j] = Body(b, i)
              /\ \A i \in 1 .. Size(b) : \E j \in 1 .. n : RestOf(Meant(b))[j] = Body(b, i)
<1>1. Size(b) \in Nat
  BY SourceBody
<1>2. CASE HasTail(b)
  <2> DEFINE l == RestOf(Meant(b))
  <2>1. /\ PhisOf(Meant(b)) = {F.code[b][i] : i \in 1 .. Phis(b)}
        /\ DOMAIN l = 1 .. Size(b) + 1 /\ l[1] = TestOf(b)
        /\ \A i \in 1 .. Size(b) : l[1 + i] = Body(b, i)
    BY <1>2, MeantLists
  <2> HIDE DEF l
  <2>2. Size(b) + 1 \in Nat
    BY <1>1
  <2>3. ASSUME NEW j \in 1 .. Size(b) + 1
        PROVE  l[j] = TestOf(b) \/ \E i \in 1 .. Size(b) : l[j] = Body(b, i)
    <3>1. CASE j = 1
      BY <2>1, <3>1
    <3>2. CASE j # 1
      <4>1. j - 1 \in 1 .. Size(b) /\ 1 + (j - 1) = j
        BY <1>1, <3>2
      <4> QED
        BY <2>1, <4>1
    <3> QED
      BY <3>1, <3>2
  <2>4. \A i \in 1 .. Size(b) : \E j \in 1 .. Size(b) + 1 : l[j] = Body(b, i)
    <3>1. \A i \in 1 .. Size(b) : 1 + i \in 1 .. Size(b) + 1
      BY <1>1
    <3> QED
      BY <2>1, <3>1
  <2> QED
    BY <1>2, <2>1, <2>2, <2>3, <2>4 DEF l
<1>3. CASE ~HasTail(b)
  <2>1. Meant(b) = F.code[b]
    BY <1>3 DEF Meant, HasTail, TailOf
  <2>2. /\ PhisOf(F.code[b]) = {F.code[b][i] : i \in 1 .. Phis(b)}
        /\ DOMAIN RestOf(F.code[b]) = 1 .. Size(b)
        /\ \A i \in 1 .. Size(b) : RestOf(F.code[b])[i] = Body(b, i)
    BY SourceLists
  <2> QED
    BY <1>1, <2>1, <2>2
<1> QED
  BY <1>2, <1>3

\* How control may come to b.
Arrived(x, b) ==
  \/ b = F.entry /\ Computed(x, Outside(F))
  \/ \E p \in Reachable(F) : b \in F.succ[p] /\ x.prev = Original(p) /\ Computed(x, Known(p))
\* What is computed when the phis of b have their values.
Before(b) ==
  Outside(F) \cup (UNION {Ids(F.code[d]) : d \in F.sdom[b]})
    \cup {F.code[b][i].id : i \in 1 .. Phis(b)}

LEMMA PhiComputed ==
  ASSUME CodeSound(F), DominanceSound(F), NEW b \in F.blocks, NEW i \in 1 .. Phis(b),
         NEW x, Arrived(x, b)
  PROVE  PhiValue(x.env, F.code[b][i], x.prev) # Undefined
<1> DEFINE e == F.code[b][i]
<1>1. i \in DOMAIN F.code[b] /\ IsPhi(e)
  BY SourceBody
<1>2. e \in PhisOf(F.code[b])
  BY <1>1, SourceLists
<1>3. b # F.entry
  BY <1>2 DEF DominanceSound
<1>4. PICK p \in Reachable(F) : /\ b \in F.succ[p] /\ x.prev = Original(p)
                                /\ Computed(x, Known(p))
  BY <1>3 DEF Arrived
<1>5. p \in F.blocks
  BY DEF Reachable
<1>6. /\ DOMAIN e.ops = 1 .. Len(e.ops) /\ DOMAIN e.from = DOMAIN e.ops
      /\ \E j \in DOMAIN e.from : e.from[j] = Original(p)
  BY <1>1, <1>4, <1>5, SourceInst
<1>7. \A j \in DOMAIN e.from : e.from[j] = Original(p) => e.ops[j] \in Known(p)
  BY <1>2, <1>4 DEF DominanceSound, Known
<1> HIDE DEF e
<1> DEFINE I == Incoming(e, x.prev)
<1>8. I \in SUBSET Nat /\ I # {} /\ \A j \in I : e.ops[j] \in Known(p)
  BY <1>4, <1>6, <1>7 DEF Incoming
<1> HIDE DEF I
<1>9. Min(I) \in I
  BY <1>8, MinPlace
<1>10. Value(x.env, e.ops[Min(I)]) # Undefined
  BY <1>4, <1>8, <1>9 DEF Computed
<1>11. PhiValue(x.env, e, x.prev) # Undefined
  BY <1>8, <1>10 DEF PhiValue, I
<1> QED
  BY <1>11 DEF e

LEMMA PhisComputed ==
  ASSUME CodeSound(F), DominanceSound(F), IsDominatorTree(F), NEW b \in F.blocks,
         NEW x, Arrived(x, b), NEW k
  PROVE  Computed(Begun(x, Step(b, k)), Before(b))
<1> DEFINE s == Step(b, k)
           g == EnterPhis(x.env, s.insts, x.prev)
<1>1. s.insts = Meant(b)
  BY DEF Step
<1>2. PhisOf(s.insts) = {F.code[b][i] : i \in 1 .. Phis(b)}
  BY <1>1, MeantIs
<1>3. Good(x.trace)
  BY DEF Arrived, Computed
<1>4. ASSUME NEW v \in Outside(F) \cup UNION {Ids(F.code[d]) : d \in F.sdom[b]}
      PROVE  Value(x.env, v) # Undefined
  <2>1. CASE b = F.entry /\ Computed(x, Outside(F))
    <3>1. v \in Outside(F)
      BY <1>4, <2>1 DEF IsDominatorTree
    <3> QED
      BY <2>1, <3>1 DEF Computed
  <2>2. ASSUME NEW p \in Reachable(F), b \in F.succ[p], Computed(x, Known(p))
        PROVE  Value(x.env, v) # Undefined
    <3>1. F.sdom[b] \subseteq F.sdom[p] \cup {p}
      BY <2>2 DEF DominanceSound
    <3>2. v \in Known(p)
      BY <1>4, <3>1 DEF Known
    <3> QED
      BY <2>2, <3>2 DEF Computed
  <2> QED
    BY <2>1, <2>2 DEF Arrived
<1>5. ASSUME NEW v \in Before(b) PROVE Value(g, v) # Undefined
  <2>1. CASE \E phi \in PhisOf(s.insts) : phi.id = v
    <3>1. PICK phi \in PhisOf(s.insts) : Value(g, v) = PhiValue(x.env, phi, x.prev)
      BY <2>1, EnteredValue
    <3>2. PICK i \in 1 .. Phis(b) : phi = F.code[b][i]
      BY <1>2, <3>1
    <3> QED
      BY <3>1, <3>2, PhiComputed
  <2>2. CASE \A phi \in PhisOf(s.insts) : phi.id # v
    <3>1. Value(g, v) = Value(x.env, v)
      BY <2>2, EnteredValue
    <3>2. v \in Outside(F) \cup UNION {Ids(F.code[d]) : d \in F.sdom[b]}
      BY <1>2, <1>5, <2>2 DEF Before
    <3> QED
      BY <1>4, <3>1, <3>2
  <2> QED
    BY <2>1, <2>2
<1> HIDE DEF g, s
<1>6. Begun(x, s).env = g /\ Begun(x, s).trace = x.trace /\ RunLike(Begun(x, s))
  BY DEF Begun, g, RunLike
<1>7. Computed(Begun(x, s), Before(b))
  BY <1>3, <1>5, <1>6 DEF Computed
<1> QED
  BY <1>7 DEF s

LEMMA BlockComputed ==
  ASSUME CodeSound(F), DominanceSound(F), IsDominatorTree(F), NEW b \in Reachable(F),
         HasTail(b) => targets[b] \in ReachingValues(F, b),
         NEW x, RunLike(x), Arrived(x, b), NEW k, NEW u, u = EnterBlock(x, Step(b, k))
  PROVE  Computed(u, Known(b)) /\ u.prev = Original(b)
<1> DEFINE s == Step(b, k)
           l == RestOf(Meant(b))
<1>1. b \in F.blocks /\ s.insts = Meant(b) /\ s.name = Original(b)
  BY DEF Step, Reachable
<1>2. PICK n \in Nat :
        /\ DOMAIN l = 1 .. n
        /\ \A j \in 1 .. n : \/ HasTail(b) /\ l[j] = TestOf(b)
                             \/ \E i \in 1 .. Size(b) : l[j] = Body(b, i)
        /\ \A i \in 1 .. Size(b) : \E j \in 1 .. n : l[j] = Body(b, i)
  BY <1>1, MeantIs
<1> HIDE DEF s, l
<1>3. PICK h : BlockRun(h, x, s, n)
  BY <1>1, <1>2, EnteredBlock DEF l
<1>4. RunsAlong(h, Begun(x, s), l, n)
  BY <1>1, <1>3 DEF BlockRun, l
<1>5. Computed(Begun(x, s), Before(b))
  BY <1>1, PhisComputed DEF s
<1>6. ASSUME HasTail(b) PROVE targets[b] \in Before(b)
  <2>1. targets[b] \in F.globals \cup F.args \cup UNION {F.insts[d] : d \in F.sdom[b]}
    BY <1>6 DEF ReachingValues
  <2>2. \A d \in F.sdom[b] : F.insts[d] = Ids(F.code[d])
    BY <1>1 DEF CodeSound, IsDominatorTree
  <2> QED
    BY <2>1, <2>2 DEF Before, Outside
<1>7. ASSUME NEW j \in 1 .. n, l[j].id[3] = 0 PROVE \E v \in Before(b) : l[j].ops = <<v>>
  <2>1. CASE HasTail(b) /\ l[j] = TestOf(b)
    BY <1>6, <2>1 DEF TestOf
  <2>2. ASSUME NEW i \in 1 .. Size(b), l[j] = Body(b, i) PROVE FALSE
    <3>1. Phis(b) + i \in DOMAIN F.code[b]
      BY <1>1, SourceBody
    <3>2. Body(b, i).id[3] \in Nat \ {0}
      BY <1>1, <3>1, SourceInst DEF Body
    <3> QED
      BY <1>7, <2>2, <3>2
  <2> QED
    BY <1>2, <2>1, <2>2
<1>8. Computed(h[n], Before(b) \cup {l[j].id : j \in 1 .. n})
  BY <1>4, <1>5, <1>7, AllComputed
<1>9. ASSUME NEW v \in Known(b) PROVE v \in Before(b) \cup {l[j].id : j \in 1 .. n}
  <2>1. CASE v \in Ids(F.code[b])
    <3>1. PICK i \in DOMAIN F.code[b] : v = F.code[b][i].id
      BY <2>1 DEF Ids
    <3>2. /\ DOMAIN F.code[b] = 1 .. Phis(b) + Size(b) /\ Phis(b) \in Nat /\ Size(b) \in Nat
      BY <1>1, SourceBody
    <3>3. CASE i \in 1 .. Phis(b)
      BY <3>1, <3>3 DEF Before
    <3>4. CASE i \notin 1 .. Phis(b)
      <4>1. i - Phis(b) \in 1 .. Size(b) /\ Phis(b) + (i - Phis(b)) = i
        BY <3>1, <3>2, <3>4
      <4>2. PICK j \in 1 .. n : l[j] = Body(b, i - Phis(b))
        BY <1>2, <4>1
      <4>3. Body(b, i - Phis(b)) = F.code[b][i]
        BY <4>1 DEF Body
      <4> QED
        BY <3>1, <4>2, <4>3
    <3> QED
      BY <3>3, <3>4
  <2>2. CASE v \notin Ids(F.code[b])
    BY <1>9, <2>2 DEF Known, Before
  <2> QED
    BY <2>1, <2>2
<1>10. Computed(h[n], Known(b))
  BY <1>8, <1>9 DEF Computed
<1>11. RunLike(h[n])
  BY <1>10 DEF Computed
<1>12. RunLike(u) /\ u.env = h[n].env /\ u.trace = h[n].trace /\ u.prev = Original(b)
  BY <1>1, <1>3, <1>11 DEF BlockRun, s
<1> QED
  BY <1>10, <1>12 DEF Computed

LEMMA SourceFound ==
  ASSUME DupInv, Mirror, DominanceSound(F), NEW r \in Routes(Visits)
  PROVE  \A k \in DOMAIN Trace(Reference(r)) :
           IsTest(Trace(Reference(r))[k]) => Trace(Reference(r))[k].seen # <<Undefined>>
<1> DEFINE n == Visits
           ref == Reference(r)
<1>1. n \in Nat /\ DOMAIN r = 1 .. n /\ \A k \in 1 .. n : r[k] \in F.blocks
  BY RouteIs
<1>2. /\ n # 0 => r[1] = F.entry
      /\ \A k \in 1 .. n - 1 : r[k + 1] \in F.succ[r[k]]
  BY DEF Routes
<1>3. CodeSound(F) /\ IsDominatorTree(F)
  BY DEF DupInv, Structure, CodeTyped, RIVInv, TypeOK
<1>4. \A b \in F.blocks : HasTail(b) => targets[b] \in ReachingValues(F, b)
  BY DEF Mirror, Heads, Chosen
<1>5. ref = [k \in 1 .. n |-> Step(r[k], k)]
  BY <1>1 DEF Reference, Step
<1>6. DOMAIN ref = 1 .. n /\ \A k \in 1 .. n : ref[k] = Step(r[k], k)
  BY <1>5
<1> HIDE DEF ref, n
<1>7. PICK h : EntersAlong(h, Outset, ref, n) /\ Entered(Outset, ref) = h[n]
  BY <1>1, <1>6, EnteredAlong
<1>8. h[0] = Outset /\ \A k \in 1 .. n : h[k] = EnterBlock(h[k - 1], ref[k])
  BY <1>7, Zenon DEF EntersAlong
<1>9. Computed(Outset, Outside(F))
  <2>1. Good(<<>>)
    <3> DEFINE X == {}
    <3>1. <<>> \in Seq(X) /\ \A e \in X : IsTest(e) => e.seen # <<Undefined>>
      OBVIOUS
    <3> HIDE DEF X
    <3> QED
      BY <3>1 DEF Good
  <2> DEFINE env == [v \in Outside(F) |-> <<"outside", v>>]
  <2>2. \A v \in Outside(F) : Value(env, v) # Undefined
    BY DEF Value, Undefined
  <2> HIDE DEF env
  <2>3. Outset.env = env /\ Outset.trace = <<>> /\ RunLike(Outset)
    BY DEF Outset, RunLike, env
  <2> QED
    BY <2>1, <2>2, <2>3 DEF Computed
<1> DEFINE Left(k) == /\ r[k] \in Reachable(F) /\ h[k].prev = Original(r[k])
                      /\ Computed(h[k], Known(r[k]))
           S == {k \in Nat : k <= n => k = 0 \/ Left(k)}
<1>10. 0 \in S
  OBVIOUS
<1>11. ASSUME NEW k \in Nat, k \in S PROVE k + 1 \in S
  <2> SUFFICES ASSUME k + 1 <= n PROVE Left(k + 1)
    OBVIOUS
  <2>1. k + 1 \in 1 .. n /\ (k + 1) - 1 = k /\ k <= n /\ (k # 0 => k \in 1 .. n - 1)
    BY <1>1
  <2> DEFINE b == r[k + 1]
  <2>2. k = 0 \/ Left(k)
    BY <1>11, <2>1
  <2>3. h[k + 1] = EnterBlock(h[k], Step(b, k + 1))
    BY <1>6, <1>8, <2>1
  <2>4. b \in Reachable(F) /\ Arrived(h[k], b) /\ RunLike(h[k])
    <3>1. CASE k = 0
      <4>1. b = F.entry
        BY <1>1, <1>2, <2>1, <3>1
      <4>2. b \in Reachable(F)
        BY <1>3, <4>1 DEF Reachable, IsDominatorTree
      <4> HIDE DEF b
      <4> QED
        BY <1>8, <1>9, <3>1, <4>1, <4>2 DEF Arrived, Computed
    <3>2. CASE k # 0
      <4>1. b \in F.succ[r[k]] /\ Left(k)
        BY <1>2, <2>1, <2>2, <3>2
      <4>2. b \in Reachable(F)
        BY <4>1 DEF DominanceSound
      <4> HIDE DEF b
      <4> QED
        BY <4>1, <4>2 DEF Arrived, Computed
    <3> QED
      BY <3>1, <3>2
  <2>5. HasTail(b) => targets[b] \in ReachingValues(F, b)
    BY <1>4, <2>4 DEF Reachable
  <2> HIDE DEF b
  <2>6. Computed(h[k + 1], Known(b)) /\ h[k + 1].prev = Original(b)
    BY <1>3, <2>3, <2>4, <2>5, BlockComputed
  <2> QED
    BY <2>4, <2>6 DEF b
<1>12. Nat \subseteq S
  <2> HIDE DEF S
  <2> QED
    BY <1>10, <1>11, NatSet
<1>13. Good(h[n].trace)
  BY <1>1, <1>8, <1>9, <1>12 DEF Computed
<1>14. Trace(ref) = h[n].trace
  BY <1>7 DEF Trace, Entered, Outset
<1>15. ASSUME NEW trace, Good(trace), NEW k \in DOMAIN trace, IsTest(trace[k])
       PROVE  trace[k].seen # <<Undefined>>
  <2>1. PICK X : trace \in Seq(X) /\ \A e \in X : IsTest(e) => e.seen # <<Undefined>>
    BY <1>15 DEF Good
  <2>2. trace[k] \in X
    BY <2>1, ElemsOf
  <2> QED
    BY <1>15, <2>1, <2>2
<1> QED
  BY <1>13, <1>14, <1>15 DEF ref

\* RIV and the pass leave the function alone that they are given.
LEMMA GivenFunction == DSpec => []DominanceSound(F)
<1>1. DInit => DominanceSound(F)
  BY DominanceAssumption DEF DInit, Init
<1>2. DominanceSound(F) /\ [DNext]_<<vars, dvars>> => DominanceSound(F)'
  <2> SUFFICES ASSUME DominanceSound(F), [DNext]_<<vars, dvars>> PROVE DominanceSound(F)'
    OBVIOUS
  <2>1. F' = F
    BY DEF DNext, Analyse, Iterate, Choose, Split, Clone, Finish, vars
  <2> QED
    BY <2>1
<1> QED
  BY <1>1, <1>2, PTL DEF DSpec

\* The test at the head of a target sees the value that was chosen for it,
\* computed before it, and sees in the code what it was to see in the source.
THEOREM TestsTheChosenValueThm == DSpec => []TestsTheChosenValue
<1>1. DupInv /\ Mirror /\ DominanceSound(F) => TestsTheChosenValue
  <2> SUFFICES ASSUME DupInv, Mirror, DominanceSound(F), Quiet, NEW r \in Routes(Visits)
               PROVE  \A source \in {Trace(Reference(r))} :
                        /\ \A k \in DOMAIN source :
                             IsTest(source[k]) => source[k].seen # <<Undefined>>
                        /\ \A sides \in [1 .. Visits -> {"then", "else"}] :
                             Tests(Trace(Through(r, sides))) = Tests(source)
    BY DEF TestsTheChosenValue
  <2>1. \A k \in DOMAIN Trace(Reference(r)) :
          IsTest(Trace(Reference(r))[k]) => Trace(Reference(r))[k].seen # <<Undefined>>
    BY SourceFound
  <2>2. ASSUME NEW sides \in [1 .. Visits -> {"then", "else"}]
        PROVE  Tests(Trace(Through(r, sides))) = Tests(Trace(Reference(r)))
    <3>1. Trace(Through(r, sides)) = Trace(Reference(r))
      BY SameTraces DEF Quiet
    <3> QED
      BY <3>1
  <2> QED
    BY <2>1, <2>2
<1> QED
  BY <1>1, GivenFunction, MirrorInvariant, PTL
=============================================================================
