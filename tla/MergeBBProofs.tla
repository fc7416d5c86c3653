--------------------------- MODULE MergeBBProofs ---------------------------
(***************************************************************************)
(* What MergeBB keeps whatever the function: use lists and operands agree, *)
(* nothing is sent to a condemned block, a block with one user is out of   *)
(* use when it is deleted, and edges are redirected to equivalent blocks.  *)
(***************************************************************************)
EXTENDS MergeBB, ListsProofs

LEMMA ReverseMembers ==
  ASSUME NEW X, NEW list \in Seq(X)
  PROVE  /\ Reverse(list) \in Seq(X)
         /\ ToSet(Reverse(list)) = ToSet(list)
         /\ IsInjective(list) => IsInjective(Reverse(list))
<1> DEFINE r == Reverse(list)
           n == Len(list)
<1>1. /\ n \in Nat /\ DOMAIN list = 1 .. n /\ r \in Seq(X) /\ DOMAIN r = 1 .. n
      /\ \A i \in 1 .. n : r[i] = list[(n - i) + 1] /\ (n - i) + 1 \in 1 .. n
  BY DEF Reverse
<1>2. ToSet(r) = ToSet(list)
  <2>1. ASSUME NEW i \in 1 .. n PROVE list[i] \in ToSet(r)
    <3>1. (n - i) + 1 \in 1 .. n /\ (n - ((n - i) + 1)) + 1 = i
      BY <1>1
    <3> QED
      BY <1>1, <3>1 DEF ToSet
  <2>2. ASSUME NEW i \in 1 .. n PROVE r[i] \in ToSet(list)
    BY <1>1 DEF ToSet
  <2> QED
    BY <1>1, <2>1, <2>2 DEF ToSet
<1>3. ASSUME IsInjective(list) PROVE IsInjective(r)
  <2>1. SUFFICES ASSUME NEW i \in 1 .. n, NEW j \in 1 .. n, r[i] = r[j]
                 PROVE  i = j
    BY <1>1 DEF IsInjective
  <2>2. (n - i) + 1 = (n - j) + 1
    BY <1>1, <1>3, <2>1 DEF IsInjective
  <2> QED
    BY <1>1, <2>2
<1> QED
  BY <1>1, <1>2, <1>3

LEMMA ConcatMembers ==
  ASSUME NEW X, NEW s \in Seq(X), NEW t \in Seq(X)
  PROVE  /\ s \o t \in Seq(X)
         /\ ToSet(s \o t) = ToSet(s) \cup ToSet(t)
         /\ IsInjective(s) /\ IsInjective(t) /\ ToSet(s) \cap ToSet(t) = {}
              => IsInjective(s \o t)
<1> DEFINE m == Len(s)
           n == Len(t)
           c == s \o t
<1>1. /\ m \in Nat /\ n \in Nat /\ DOMAIN s = 1 .. m /\ DOMAIN t = 1 .. n
      /\ c \in Seq(X) /\ DOMAIN c = 1 .. m + n
      /\ \A i \in 1 .. m + n : c[i] = IF i <= m THEN s[i] ELSE t[i - m]
  OBVIOUS
<1>2. ToSet(c) = ToSet(s) \cup ToSet(t)
  <2>1. ASSUME NEW i \in 1 .. m PROVE s[i] \in ToSet(c)
    <3>1. i \in 1 .. m + n /\ c[i] = s[i]
      BY <1>1
    <3> QED
      BY <1>1, <3>1 DEF ToSet
  <2>2. ASSUME NEW i \in 1 .. n PROVE t[i] \in ToSet(c)
    <3>1. m + i \in 1 .. m + n /\ c[m + i] = t[i]
      BY <1>1
    <3> QED
      BY <1>1, <3>1 DEF ToSet
  <2>3. ASSUME NEW i \in 1 .. m + n PROVE c[i] \in ToSet(s) \cup ToSet(t)
    <3>1. CASE i <= m
      BY <1>1, <3>1 DEF ToSet
    <3>2. CASE ~(i <= m)
      <4>1. i - m \in 1 .. n /\ c[i] = t[i - m]
        BY <1>1, <3>2
      <4> QED
        BY <1>1, <4>1 DEF ToSet
    <3> QED
      BY <3>1, <3>2
  <2> QED
    BY <1>1, <2>1, <2>2, <2>3 DEF ToSet
<1>3. ASSUME IsInjective(s), IsInjective(t), ToSet(s) \cap ToSet(t) = {}
      PROVE  IsInjective(c)
  <2>1. SUFFICES ASSUME NEW i \in 1 .. m + n, NEW j \in 1 .. m + n, c[i] = c[j]
                 PROVE  i = j
    BY <1>1 DEF IsInjective
  <2>2. CASE i <= m /\ j <= m
    BY <1>1, <1>3, <2>1, <2>2 DEF IsInjective
  <2>3. CASE ~(i <= m) /\ ~(j <= m)
    <3>1. i - m \in 1 .. n /\ j - m \in 1 .. n /\ t[i - m] = t[j - m]
      BY <1>1, <2>1, <2>3
    <3>2. i - m = j - m
      BY <1>1, <1>3, <3>1 DEF IsInjective
    <3> QED
      BY <1>1, <3>2
  <2>4. ASSUME NEW x \in 1 .. m, NEW y \in 1 .. n, s[x] = t[y] PROVE FALSE
    BY <1>1, <1>3, <2>4 DEF ToSet
  <2>5. CASE i <= m /\ ~(j <= m)
    <3>1. i \in 1 .. m /\ j - m \in 1 .. n /\ s[i] = t[j - m]
      BY <1>1, <2>1, <2>5
    <3> QED
      BY <2>4, <3>1
  <2>6. CASE ~(i <= m) /\ j <= m
    <3>1. j \in 1 .. m /\ i - m \in 1 .. n /\ s[j] = t[i - m]
      BY <1>1, <2>1, <2>6
    <3> QED
      BY <2>4, <3>1
  <2> QED
    BY <2>2, <2>3, <2>5, <2>6
<1> QED
  BY <1>1, <1>2, <1>3

(***************************************************************************)
(* Use lists.  Redirecting the operands of a terminator moves uses from    *)
(* one list to the other and leaves the lists complete.                    *)
(***************************************************************************)
LEMMA InUses ==
  ASSUME NEW t, NEW b, NEW u
  PROVE  u \in UsesOf(t, b) <=>
           \E p \in DOMAIN t : \E i \in DOMAIN t[p] : t[p][i] = b /\ u = <<p, i>>
BY DEF UsesOf

LEMMA PairInUses ==
  ASSUME NEW t, NEW b, NEW p, NEW i
  PROVE  <<p, i>> \in UsesOf(t, b) <=> p \in DOMAIN t /\ i \in DOMAIN t[p] /\ t[p][i] = b
BY InUses

LEMMA WithoutMembers ==
  ASSUME NEW X, NEW list \in Seq(X), NEW p
  PROVE  /\ Without(list, p) \in Seq(X)
         /\ ToSet(Without(list, p)) = {u \in ToSet(list) : u[1] # p}
         /\ IsInjective(list) => IsInjective(Without(list, p))
<1> DEFINE S == {k \in DOMAIN list : list[k][1] # p}
<1>1. S \in SUBSET (DOMAIN list)
  OBVIOUS
<1>2. Without(list, p) = At(list, S)
  BY DEF Without
<1>3. {list[i] : i \in S} = {u \in ToSet(list) : u[1] # p}
  BY DEF ToSet
<1> QED
  BY <1>1, <1>2, <1>3, AtMembers

LEMMA UsesByMembers ==
  ASSUME targets \in [Blocks -> Seq(Blocks)], NEW p \in Blocks
  PROVE  /\ UsesBy(p) \in Seq(Blocks \X Nat)
         /\ ToSet(UsesBy(p)) = {u \in UsesOf(targets, BB) : u[1] = p}
         /\ IsInjective(UsesBy(p))
<1> DEFINE list == [i \in DOMAIN targets[p] |-> <<p, i>>]
           S == {i \in DOMAIN targets[p] : targets[p][i] = BB}
<1>1. list \in Seq(Blocks \X Nat) /\ DOMAIN list = DOMAIN targets[p]
  <2>1. Len(targets[p]) \in Nat /\ DOMAIN targets[p] = 1 .. Len(targets[p])
    OBVIOUS
  <2> QED
    BY <2>1
<1>2. IsInjective(list)
  BY DEF IsInjective
<1>3. S \in SUBSET (DOMAIN list)
  OBVIOUS
<1>4. UsesBy(p) = At(list, S)
  BY DEF UsesBy
<1>5. {list[i] : i \in S} = {u \in UsesOf(targets, BB) : u[1] = p}
  <2>1. ASSUME NEW i \in S PROVE list[i] \in UsesOf(targets, BB) /\ list[i][1] = p
    BY PairInUses
  <2>2. ASSUME NEW u \in UsesOf(targets, BB), u[1] = p
        PROVE  u \in {list[i] : i \in S}
    <3>1. PICK q \in DOMAIN targets : \E i \in DOMAIN targets[q] :
                 targets[q][i] = BB /\ u = <<q, i>>
      BY InUses
    <3>2. PICK i \in DOMAIN targets[q] : targets[q][i] = BB /\ u = <<q, i>>
      BY <3>1
    <3>3. q = p
      BY <2>2, <3>2
    <3>4. i \in S /\ list[i] = u
      BY <3>2, <3>3
    <3> QED
      BY <3>4
  <2> QED
    BY <2>1, <2>2
<1> HIDE DEF list, S
<1>6. /\ At(list, S) \in Seq(Blocks \X Nat)
      /\ ToSet(At(list, S)) = {list[i] : i \in S}
      /\ IsInjective(list) => IsInjective(At(list, S))
  BY <1>1, <1>3, AtMembers
<1> QED
  BY <1>2, <1>4, <1>5, <1>6

LEMMA RedirectUses ==
  ASSUME targets \in [Blocks -> Seq(Blocks)],
         useList \in [Blocks -> Seq(Blocks \X Nat)],
         UseListsComplete(targets, useList),
         BB \in Blocks, retained \in Blocks, retained # BB,
         NEW p \in Blocks, Redirect(p)
  PROVE  /\ targets' \in [Blocks -> Seq(Blocks)]
         /\ \A b \in Blocks : Len(targets'[b]) = Len(targets[b])
         /\ useList' \in [Blocks -> Seq(Blocks \X Nat)]
         /\ UsesOf(targets', BB) = {u \in UsesOf(targets, BB) : u[1] # p}
         /\ UsesOf(targets', retained)
              = {u \in UsesOf(targets, BB) : u[1] = p} \cup UsesOf(targets, retained)
         /\ \A b \in Blocks \ {BB, retained} : UsesOf(targets', b) = UsesOf(targets, b)
         /\ UseListsComplete(targets', useList')
<1> DEFINE moved == {u \in UsesOf(targets, BB) : u[1] = p}
<1>1. /\ targets' = [targets EXCEPT ![p] =
                       [i \in DOMAIN @ |-> IF @[i] = BB THEN retained ELSE @[i]]]
      /\ useList' = [useList EXCEPT ![BB] = Without(@, p),
                                    ![retained] = Reverse(UsesBy(p)) \o @]
  BY DEF Redirect
<1>2. /\ DOMAIN targets' = Blocks
      /\ \A b \in Blocks : DOMAIN targets'[b] = DOMAIN targets[b]
      /\ \A b \in Blocks : \A i \in DOMAIN targets[b] :
           targets'[b][i] = IF b = p /\ targets[b][i] = BB THEN retained
                            ELSE targets[b][i]
  BY <1>1
<1>3. /\ targets' \in [Blocks -> Seq(Blocks)]
      /\ \A b \in Blocks : Len(targets'[b]) = Len(targets[b])
  <2>1. ASSUME NEW b \in Blocks
        PROVE  targets'[b] \in Seq(Blocks) /\ Len(targets'[b]) = Len(targets[b])
    <3>1. Len(targets[b]) \in Nat /\ DOMAIN targets[b] = 1 .. Len(targets[b])
      OBVIOUS
    <3>2. CASE b = p
      <4>1. targets'[b] = [i \in 1 .. Len(targets[b]) |->
                             IF targets[b][i] = BB THEN retained ELSE targets[b][i]]
        BY <1>1, <3>1, <3>2
      <4>2. \A i \in 1 .. Len(targets[b]) : targets[b][i] \in Blocks
        BY <3>1
      <4> QED
        BY <3>1, <4>1, <4>2
    <3>3. CASE b # p
      BY <1>1, <3>3
    <3> QED
      BY <3>2, <3>3
  <2> QED
    BY <1>1, <2>1
<1>4. UsesOf(targets', BB) = UsesOf(targets, BB) \ moved
  <2>1. ASSUME NEW u
        PROVE  u \in UsesOf(targets', BB) <=> u \in UsesOf(targets, BB) /\ u[1] # p
    <3>1. u \in UsesOf(targets', BB) <=> \E q \in Blocks : \E i \in DOMAIN targets[q] :
                                           targets'[q][i] = BB /\ u = <<q, i>>
      BY <1>2, InUses
    <3>2. u \in UsesOf(targets, BB) <=> \E q \in Blocks : \E i \in DOMAIN targets[q] :
                                          targets[q][i] = BB /\ u = <<q, i>>
      BY InUses
    <3> QED
      BY <1>2, <3>1, <3>2
  <2> QED
    BY <2>1
<1>5. UsesOf(targets', retained) = moved \cup UsesOf(targets, retained)
  <2>1. ASSUME NEW u
        PROVE  u \in UsesOf(targets', retained)
                 <=> u \in UsesOf(targets, retained) \/ u \in moved
    <3>1. u \in UsesOf(targets', retained)
            <=> \E q \in Blocks : \E i \in DOMAIN targets[q] :
                  targets'[q][i] = retained /\ u = <<q, i>>
      BY <1>2, InUses
    <3>2. u \in UsesOf(targets, retained)
            <=> \E q \in Blocks : \E i \in DOMAIN targets[q] :
                  targets[q][i] = retained /\ u = <<q, i>>
      BY InUses
    <3>3. u \in UsesOf(targets, BB) <=> \E q \in Blocks : \E i \in DOMAIN targets[q] :
                                          targets[q][i] = BB /\ u = <<q, i>>
      BY InUses
    <3> QED
      BY <1>2, <3>1, <3>2, <3>3
  <2> QED
    BY <2>1
<1>6. ASSUME NEW b \in Blocks \ {BB, retained}
      PROVE  UsesOf(targets', b) = UsesOf(targets, b)
  <2>1. ASSUME NEW u
        PROVE  u \in UsesOf(targets', b) <=> u \in UsesOf(targets, b)
    <3>1. u \in UsesOf(targets', b) <=> \E q \in Blocks : \E i \in DOMAIN targets[q] :
                                          targets'[q][i] = b /\ u = <<q, i>>
      BY <1>2, InUses
    <3>2. u \in UsesOf(targets, b) <=> \E q \in Blocks : \E i \in DOMAIN targets[q] :
                                         targets[q][i] = b /\ u = <<q, i>>
      BY InUses
    <3> QED
      BY <1>2, <3>1, <3>2
  <2> QED
    BY <2>1
<1>7. /\ useList'[BB] = Without(useList[BB], p)
      /\ useList'[retained] = Reverse(UsesBy(p)) \o useList[retained]
      /\ \A b \in Blocks \ {BB, retained} : useList'[b] = useList[b]
      /\ DOMAIN useList' = Blocks
  BY <1>1
<1>8. /\ \A b \in Blocks : /\ useList[b] \in Seq(Blocks \X Nat)
                           /\ ToSet(useList[b]) = UsesOf(targets, b)
                           /\ IsInjective(useList[b])
  BY DEF UseListsComplete
<1>9. /\ useList'[BB] \in Seq(Blocks \X Nat)
      /\ ToSet(useList'[BB]) = UsesOf(targets', BB)
      /\ IsInjective(useList'[BB])
  <2>1. /\ Without(useList[BB], p) \in Seq(Blocks \X Nat)
        /\ ToSet(Without(useList[BB], p)) = {u \in ToSet(useList[BB]) : u[1] # p}
        /\ IsInjective(Without(useList[BB], p))
    BY <1>8, WithoutMembers
  <2> QED
    BY <1>4, <1>7, <1>8, <2>1
<1>10. /\ useList'[retained] \in Seq(Blocks \X Nat)
       /\ ToSet(useList'[retained]) = UsesOf(targets', retained)
       /\ IsInjective(useList'[retained])
  <2> DEFINE r == Reverse(UsesBy(p))
  <2>1. r \in Seq(Blocks \X Nat) /\ ToSet(r) = moved /\ IsInjective(r)
    BY UsesByMembers, ReverseMembers
  <2>2. moved \cap UsesOf(targets, retained) = {}
    <3>1. SUFFICES ASSUME NEW u \in UsesOf(targets, BB), u \in UsesOf(targets, retained)
                   PROVE  FALSE
      OBVIOUS
    <3>2. PICK q \in DOMAIN targets : \E i \in DOMAIN targets[q] :
                 targets[q][i] = BB /\ u = <<q, i>>
      BY InUses
    <3>3. PICK i \in DOMAIN targets[q] : targets[q][i] = BB /\ u = <<q, i>>
      BY <3>2
    <3> QED
      BY <3>1, <3>3, PairInUses
  <2> HIDE DEF r
  <2>3. /\ r \o useList[retained] \in Seq(Blocks \X Nat)
        /\ ToSet(r \o useList[retained]) = ToSet(r) \cup ToSet(useList[retained])
        /\ IsInjective(r \o useList[retained])
    BY <1>8, <2>1, <2>2, ConcatMembers
  <2>4. useList'[retained] = r \o useList[retained]
    BY <1>7 DEF r
  <2> QED
    BY <1>5, <1>8, <2>1, <2>3, <2>4
<1>11. useList' \in [Blocks -> Seq(Blocks \X Nat)]
  <2>1. \A b \in Blocks : useList'[b] \in Seq(Blocks \X Nat)
    BY <1>7, <1>8, <1>9, <1>10
  <2>2. useList' = [b \in Blocks |-> useList'[b]]
    BY <1>1
  <2> QED
    BY <2>1, <2>2
<1>12. UseListsComplete(targets', useList')
  <2>1. ASSUME NEW b \in Blocks
        PROVE  ToSet(useList'[b]) = UsesOf(targets', b) /\ IsInjective(useList'[b])
    BY <1>6, <1>7, <1>8, <1>9, <1>10
  <2> QED
    BY <1>2, <2>1 DEF UseListsComplete
<1> QED
  BY <1>3, <1>4, <1>5, <1>6, <1>11, <1>12

(* Deleting a block takes its operands out of all use lists.               *)
LEMMA DeleteUses ==
  ASSUME targets \in [Blocks -> Seq(Blocks)],
         useList \in [Blocks -> Seq(Blocks \X Nat)],
         UseListsComplete(targets, useList),
         NEW b \in Blocks, Delete(b)
  PROVE  /\ targets' \in [Blocks -> Seq(Blocks)]
         /\ useList' \in [Blocks -> Seq(Blocks \X Nat)]
         /\ \A c \in Blocks : UsesOf(targets', c) = {u \in UsesOf(targets, c) : u[1] # b}
         /\ UseListsComplete(targets', useList')
<1>1. /\ targets' = [targets EXCEPT ![b] = <<>>]
      /\ useList' = [c \in Blocks |-> Without(useList[c], b)]
  BY DEF Delete
<1>2. targets' \in [Blocks -> Seq(Blocks)] /\ DOMAIN targets' = Blocks
  BY <1>1
<1>3. ASSUME NEW c \in Blocks
      PROVE  UsesOf(targets', c) = {u \in UsesOf(targets, c) : u[1] # b}
  <2>1. ASSUME NEW u
        PROVE  u \in UsesOf(targets', c) <=> u \in UsesOf(targets, c) /\ u[1] # b
    <3>1. u \in UsesOf(targets', c) <=> \E q \in Blocks : \E i \in DOMAIN targets'[q] :
                                          targets'[q][i] = c /\ u = <<q, i>>
      BY <1>2, InUses
    <3>2. u \in UsesOf(targets, c) <=> \E q \in Blocks : \E i \in DOMAIN targets[q] :
                                         targets[q][i] = c /\ u = <<q, i>>
      BY InUses
    <3>3. DOMAIN targets'[b] = {} /\ \A q \in Blocks \ {b} : targets'[q] = targets[q]
      BY <1>1
    <3> QED
      BY <3>1, <3>2, <3>3
  <2> QED
    BY <2>1
<1>4. ASSUME NEW c \in Blocks
      PROVE  /\ useList'[c] \in Seq(Blocks \X Nat)
             /\ ToSet(useList'[c]) = UsesOf(targets', c)
             /\ IsInjective(useList'[c])
  <2>1. /\ useList[c] \in Seq(Blocks \X Nat)
        /\ ToSet(useList[c]) = UsesOf(targets, c)
        /\ IsInjective(useList[c])
    BY DEF UseListsComplete
  <2>2. /\ Without(useList[c], b) \in Seq(Blocks \X Nat)
        /\ ToSet(Without(useList[c], b)) = {u \in ToSet(useList[c]) : u[1] # b}
        /\ IsInjective(Without(useList[c], b))
    BY <2>1, WithoutMembers
  <2>3. useList'[c] = Without(useList[c], b)
    BY <1>1
  <2> QED
    BY <1>3, <2>1, <2>2, <2>3
<1>5. useList' \in [Blocks -> Seq(Blocks \X Nat)]
  BY <1>1, <1>4
<1> QED
  BY <1>2, <1>3, <1>4, <1>5 DEF UseListsComplete

(***************************************************************************)
(* The invariant.  The pass condemns blocks in their order, so the block   *)
(* it visits is not condemned yet; the retained block is not condemned     *)
(* either, so an edge never comes back to a condemned block.  As long as   *)
(* the visited block is not counted as shared, all of its uses belong to   *)
(* the terminator at the iterator, and they go in one step.                *)
(***************************************************************************)
Known == /\ TypeOK
         /\ fn \in Functions
Ahead == pc \in {"visit", "walk"} =>
           /\ \A b \in DeleteList : b < BB
           /\ \A b \in Blocks : Len(targets[b]) = Len(fn.targets[b])
RetainedFit ==
  pc = "walk" => retained \in Blocks /\ retained # BB /\ retained \notin DeleteList
OnUse == pc = "walk" /\ at # End =>
           at \in UsesOf(targets, BB) \cup UsesOf(targets, retained)
SoleUser == pc = "walk" /\ BB \notin shared =>
              \A u \in UsesOf(targets, BB) : at # End /\ u[1] = at[1]
OutOfUse == \A b \in DeleteList \ shared : UsesOf(targets, b) = {}

MergeInv == /\ Known /\ Ahead /\ RetainedFit /\ OnUse /\ SoleUser /\ OutOfUse
            /\ SoleUserFreed

LEMMA FunctionTyped ==
  ASSUME fn \in Functions
  PROVE  /\ fn.size \in Nat \ {0}
         /\ Entry \in Blocks
         /\ \A b \in Blocks : b \in Nat \ {0}
         /\ fn.targets \in [Blocks -> Seq(Blocks)]
         /\ fn.useList \in [Blocks -> Seq(Blocks \X Nat)]
         /\ UseListsComplete(fn.targets, fn.useList)
         /\ \A b \in Blocks : fn.term[b] = "br" => Len(fn.targets[b]) = 1
<1>1. Typed(fn) /\ UseListsComplete(fn.targets, fn.useList)
  BY FunctionsAssumption
<1>2. fn.size \in Nat \ {0} /\ Blocks = 1 .. fn.size
  BY <1>1 DEF Typed, Blocks, BlocksOf
<1>3. Entry \in Blocks /\ \A b \in Blocks : b \in Nat \ {0}
  BY <1>2 DEF Entry
<1>4. /\ fn.targets \in [Blocks -> Seq(Blocks)]
      /\ fn.useList \in [Blocks -> Seq(Blocks \X Nat)]
  BY <1>1 DEF Typed, Blocks
<1>5. \A b \in Blocks : fn.term[b] = "br" => Len(fn.targets[b]) = 1
  BY <1>1 DEF Typed, Blocks
<1> QED
  BY <1>1, <1>2, <1>3, <1>4, <1>5

LEMMA InitMerge == Init => MergeInv
<1> SUFFICES ASSUME Init PROVE MergeInv
  OBVIOUS
<1>1. fn \in Functions
  BY DEF Init
<1>2. /\ fn.size \in Nat \ {0}
      /\ Entry \in Blocks
      /\ fn.targets \in [Blocks -> Seq(Blocks)]
      /\ fn.useList \in [Blocks -> Seq(Blocks \X Nat)]
      /\ UseListsComplete(fn.targets, fn.useList)
  BY <1>1, FunctionTyped
<1>3. TypeOK
  BY <1>2 DEF Init, TypeOK
<1> QED
  BY <1>1, <1>3 DEF Init, MergeInv, Known, Ahead, RetainedFit, OnUse, SoleUser,
     OutOfUse, SoleUserFreed

(* The block at which the loop of mergeDuplicatedBlock stops was tested,   *)
(* and if the phi names it, it is a candidate.                             *)
LEMMA StopFit ==
  ASSUME Known, Ahead, pc = "visit", Considered(BB), Stops(BB) # {}
  PROVE  /\ FirstStop(BB) \in Blocks
         /\ FirstStop(BB) \in Predecessors(SuccOf(BB))
         /\ SuccOf(BB) \in Blocks
         /\ IF Named(FirstStop(BB), SuccOf(BB)) THEN Candidate(BB, FirstStop(BB))
            ELSE Tested(BB, FirstStop(BB))
<1> DEFINE succ == SuccOf(BB)
           k == Min(Stops(BB))
<1>1. BB \in Blocks /\ targets \in [Blocks -> Seq(Blocks)]
      /\ useList \in [Blocks -> Seq(Blocks \X Nat)]
  BY DEF Known, TypeOK
<1>2. Len(targets[BB]) = 1
  BY <1>1, FunctionTyped DEF Known, Ahead, Considered, Removable
<1>3. succ \in Blocks
  <2>1. targets[BB] \in Seq(Blocks)
    BY <1>1
  <2>2. targets[BB][1] \in Blocks
    BY <1>2, <2>1
  <2> QED
    BY <2>2 DEF SuccOf
<1>4. useList[succ] \in Seq(Blocks \X Nat)
  BY <1>1, <1>3
<1>5. Stops(BB) \subseteq DOMAIN useList[succ]
  BY DEF Stops
<1>6. k \in Stops(BB)
  <2>1. Stops(BB) \subseteq Nat
    BY <1>4, <1>5
  <2> QED
    BY <2>1, MinPlace
<1>7. /\ k \in DOMAIN useList[succ]
      /\ IF Named(useList[succ][k][1], succ) THEN Candidate(BB, useList[succ][k][1])
         ELSE Tested(BB, useList[succ][k][1])
  BY <1>6 DEF Stops
<1>8. FirstStop(BB) = useList[succ][k][1]
  BY DEF FirstStop
<1>9. useList[succ][k] \in Blocks \X Nat /\ useList[succ][k] \in ToSet(useList[succ])
  BY <1>4, <1>7 DEF ToSet
<1>10. FirstStop(BB) \in Predecessors(succ)
  BY <1>8, <1>9 DEF Predecessors
<1> QED
  BY <1>3, <1>7, <1>8, <1>9, <1>10

LEMMA NextBlockAhead ==
  ASSUME Known, NextBlock, pc' \in {"visit", "walk"}, fn' = fn,
         \A b \in DeleteList' : b \in Nat /\ b <= BB
  PROVE  \A b \in DeleteList' : b < BB'
<1>1. BB \in Nat
  BY FunctionTyped DEF Known, TypeOK
<1>2. BB' = BB + 1
  BY DEF NextBlock
<1> QED
  BY <1>1, <1>2

LEMMA NextBlockTyped ==
  ASSUME Known, NextBlock, fn' = fn
  PROVE  BB' \in Blocks' /\ pc' \in {"visit", "delete"}
<1>1. fn.size \in Nat /\ BB \in 1 .. fn.size /\ Blocks' = 1 .. fn.size
  BY FunctionTyped DEF Known, TypeOK, Blocks, BlocksOf
<1> QED
  BY <1>1 DEF NextBlock

LEMMA KeepMerge == MergeInv /\ Keep => MergeInv'
<1> SUFFICES ASSUME MergeInv, Keep PROVE MergeInv'
  OBVIOUS
<1>1. /\ pc = "visit" /\ NextBlock
      /\ UNCHANGED <<fn, targets, useList, body, retained, at, DeleteList, erased,
                     dangling, shared>>
  BY DEF Keep
<1>2. Known /\ Ahead /\ OutOfUse /\ SoleUserFreed
  BY DEF MergeInv
<1>3. BB' \in Blocks' /\ pc' \in {"visit", "delete"}
  BY <1>1, <1>2, NextBlockTyped
<1>4. Known'
  BY <1>1, <1>2, <1>3 DEF Known, TypeOK, Blocks
<1>5. Ahead'
  <2>1. ASSUME pc' \in {"visit", "walk"} PROVE \A b \in DeleteList' : b < BB'
    <3>1. \A b \in DeleteList : b < BB /\ b \in Nat
      BY <1>1, <1>2, FunctionTyped DEF Known, TypeOK, Ahead
    <3>2. BB \in Nat
      BY <1>2, FunctionTyped DEF Known, TypeOK
    <3>3. \A b \in DeleteList' : b \in Nat /\ b <= BB
      BY <1>1, <3>1, <3>2
    <3> QED
      BY <1>1, <1>2, <2>1, <3>3, NextBlockAhead
  <2> QED
    BY <1>1, <1>2, <2>1 DEF Ahead, Blocks
<1>6. OutOfUse'
  BY <1>1, <1>2 DEF OutOfUse
<1> QED
  BY <1>1, <1>2, <1>3, <1>4, <1>5, <1>6
     DEF MergeInv, RetainedFit, OnUse, SoleUser, SoleUserFreed

LEMMA NotNamedMerge == MergeInv /\ NotNamed => MergeInv'
<1> SUFFICES ASSUME MergeInv, NotNamed PROVE MergeInv'
  OBVIOUS
<1>1. /\ pc' = "exit"
      /\ UNCHANGED <<fn, targets, useList, body, BB, retained, at, DeleteList,
                     erased, dangling, shared>>
  BY DEF NotNamed
<1> QED
  BY <1>1 DEF MergeInv, Known, TypeOK, Blocks, Ahead, RetainedFit, OnUse, SoleUser,
     OutOfUse, SoleUserFreed

LEMMA MergeMerge == MergeInv /\ Merge => MergeInv'
<1> SUFFICES ASSUME MergeInv, Merge PROVE MergeInv'
  OBVIOUS
<1>1. /\ pc = "visit" /\ pc' = "walk"
      /\ Considered(BB) /\ Stops(BB) # {} /\ Named(FirstStop(BB), SuccOf(BB))
      /\ retained' = FirstStop(BB)
      /\ at' = IF useList[BB] = <<>> THEN End ELSE useList[BB][1]
      /\ shared' = IF Cardinality(Predecessors(BB)) > 1 THEN shared \cup {BB}
                   ELSE shared
      /\ UNCHANGED <<fn, targets, useList, body, BB, DeleteList, erased, dangling>>
  BY DEF Merge
<1>2. Known /\ Ahead /\ OutOfUse /\ SoleUserFreed
  BY DEF MergeInv
<1>3. Known'
  BY <1>1, <1>2 DEF Known, TypeOK, Blocks
<1>4. Ahead'
  BY <1>1, <1>2 DEF Ahead, Blocks
<1>5. RetainedFit'
  <2>1. FirstStop(BB) \in Blocks /\ Candidate(BB, FirstStop(BB))
    BY <1>1, <1>2, StopFit
  <2> QED
    BY <1>1, <2>1 DEF RetainedFit, Blocks, Candidate, Tested
<1>6. /\ useList[BB] \in Seq(Blocks \X Nat)
      /\ ToSet(useList[BB]) = UsesOf(targets, BB)
  BY <1>2 DEF Known, TypeOK, UseListsComplete
<1>7. OnUse'
  <2>1. ASSUME useList[BB] # <<>> PROVE useList[BB][1] \in UsesOf(targets, BB)
    BY <1>6, <2>1 DEF ToSet
  <2> QED
    BY <1>1, <2>1 DEF OnUse
<1>8. SoleUser'
  <2>1. SUFFICES ASSUME BB \notin shared', NEW u \in UsesOf(targets, BB)
                 PROVE  at' # End /\ u[1] = at'[1]
    BY <1>1 DEF SoleUser
  <2>2. ~(Cardinality(Predecessors(BB)) > 1)
    BY <1>1, <2>1
  <2>3. useList[BB] # <<>> /\ at' = useList[BB][1] /\ at' \in ToSet(useList[BB])
    BY <1>1, <1>6, <2>1 DEF ToSet
  <2>4. at' \in Blocks \X Nat /\ at' # End
    <3>1. at' \in Blocks \X Nat
      BY <1>6, <2>3 DEF ToSet
    <3> QED
      BY <1>2, <3>1, FunctionTyped DEF End, Known
  <2>5. u[1] \in Predecessors(BB) /\ at'[1] \in Predecessors(BB)
    BY <1>6, <2>1, <2>3 DEF Predecessors
  <2>6. IsFiniteSet(Predecessors(BB)) /\ Cardinality(Predecessors(BB)) \in Nat
    <3>1. Predecessors(BB) \in SUBSET Blocks
      BY <1>6 DEF Predecessors, ToSet
    <3>2. IsFiniteSet(Blocks)
      BY <1>2, FunctionTyped, FS_Interval DEF Known, Blocks, BlocksOf
    <3> QED
      BY <3>1, <3>2, FS_Subset, FS_CardinalityType
  <2>7. Cardinality(Predecessors(BB)) \in {0, 1}
    BY <2>2, <2>6
  <2>8. CASE Cardinality(Predecessors(BB)) = 0
    BY <2>5, <2>6, <2>8, FS_EmptySet
  <2>9. CASE Cardinality(Predecessors(BB)) = 1
    <3>1. PICK x : Predecessors(BB) = {x}
      BY <2>6, <2>9, FS_Singleton
    <3> QED
      BY <2>4, <2>5, <3>1
  <2> QED
    BY <2>7, <2>8, <2>9
<1>9. OutOfUse' /\ SoleUserFreed'
  BY <1>1, <1>2 DEF OutOfUse, SoleUserFreed
<1> QED
  BY <1>3, <1>4, <1>5, <1>7, <1>8, <1>9 DEF MergeInv

LEMMA UpdateMerge == MergeInv /\ UpdateBranchTargets => MergeInv'
<1> SUFFICES ASSUME MergeInv, UpdateBranchTargets PROVE MergeInv'
  OBVIOUS
<1> DEFINE p == at[1]
<1>1. /\ pc = "walk" /\ at # End /\ Redirect(p)
      /\ at' = NextUse(targets', useList', at)
      /\ UNCHANGED <<fn, body, pc, BB, retained, DeleteList, erased, dangling,
                     shared>>
  BY DEF UpdateBranchTargets
<1>2. /\ Known /\ Ahead /\ RetainedFit /\ OnUse /\ SoleUser /\ OutOfUse
      /\ SoleUserFreed
  BY DEF MergeInv
<1>3. /\ targets \in [Blocks -> Seq(Blocks)]
      /\ useList \in [Blocks -> Seq(Blocks \X Nat)]
      /\ UseListsComplete(targets, useList)
      /\ BB \in Blocks /\ retained \in Blocks /\ retained # BB
      /\ retained \notin DeleteList /\ DeleteList \subseteq Blocks
  BY <1>1, <1>2 DEF Known, TypeOK, RetainedFit
<1>4. at \in UsesOf(targets, BB) \cup UsesOf(targets, retained)
  BY <1>1, <1>2 DEF OnUse
<1>5. PICK q \in Blocks, i \in Nat : /\ at = <<q, i>> /\ i \in DOMAIN targets[q]
                                     /\ targets[q][i] \in {BB, retained}
  <2>1. \E q \in DOMAIN targets : \E i \in DOMAIN targets[q] :
          targets[q][i] \in {BB, retained} /\ at = <<q, i>>
    BY <1>4, InUses
  <2>2. \A q \in Blocks : DOMAIN targets[q] \subseteq Nat
    BY <1>3
  <2> QED
    BY <1>3, <2>1, <2>2
<1>6. p \in Blocks
  BY <1>5
<1> HIDE DEF p
<1>7. /\ targets' \in [Blocks -> Seq(Blocks)]
      /\ \A b \in Blocks : Len(targets'[b]) = Len(targets[b])
      /\ useList' \in [Blocks -> Seq(Blocks \X Nat)]
      /\ UsesOf(targets', BB) = {u \in UsesOf(targets, BB) : u[1] # p}
      /\ UsesOf(targets', retained)
           = {u \in UsesOf(targets, BB) : u[1] = p} \cup UsesOf(targets, retained)
      /\ \A b \in Blocks \ {BB, retained} : UsesOf(targets', b) = UsesOf(targets, b)
      /\ UseListsComplete(targets', useList')
  BY <1>1, <1>3, <1>6, RedirectUses
<1>8. Known'
  BY <1>1, <1>2, <1>7 DEF Known, TypeOK, Blocks
<1>9. Ahead'
  BY <1>1, <1>2, <1>7 DEF Ahead, Blocks
<1>10. RetainedFit'
  BY <1>1, <1>2 DEF RetainedFit, Blocks
<1>11. OnUse'
  <2> DEFINE list == useList'[targets'[at[1]][at[2]]]
             k == CHOOSE j \in DOMAIN list : list[j] = at
  <2>1. at \in UsesOf(targets', retained)
    BY <1>4, <1>7, <1>5 DEF p
  <2>2. targets'[at[1]][at[2]] = retained
    BY <1>5, <2>1, PairInUses
  <2>3. list = useList'[retained]
    BY <2>2
  <2>4. /\ list \in Seq(Blocks \X Nat) /\ ToSet(list) = UsesOf(targets', retained)
    <3>1. DOMAIN targets' = Blocks
      BY <1>7
    <3> QED
      BY <1>3, <1>7, <2>3, <3>1 DEF UseListsComplete
  <2>5. \E j \in DOMAIN list : list[j] = at
    BY <2>1, <2>4 DEF ToSet
  <2>6. k \in DOMAIN list
    BY <2>5
  <2>7. at' = IF k = Len(list) THEN End ELSE list[k + 1]
    BY <1>1 DEF NextUse
  <2> HIDE DEF k, list
  <2>8. ASSUME at' # End PROVE at' \in ToSet(list)
    <3>1. k # Len(list) /\ at' = list[k + 1]
      BY <2>7, <2>8
    <3>2. k + 1 \in DOMAIN list
      BY <2>4, <2>6, <3>1
    <3> QED
      BY <3>1, <3>2 DEF ToSet
  <2> QED
    BY <1>1, <2>4, <2>8 DEF OnUse
<1>12. SoleUser'
  <2>1. SUFFICES ASSUME BB \notin shared PROVE UsesOf(targets', BB) = {}
    BY <1>1 DEF SoleUser
  <2>2. \A u \in UsesOf(targets, BB) : u[1] = p
    BY <1>1, <1>2, <2>1 DEF SoleUser, p
  <2> QED
    BY <1>7, <2>2
<1>13. OutOfUse'
  <2>1. \A b \in DeleteList : b \in Blocks \ {BB, retained}
    <3>1. \A b \in DeleteList : b \in Nat /\ b < BB
      BY <1>1, <1>2, FunctionTyped DEF Known, TypeOK, Ahead
    <3>2. BB \in Nat
      BY <1>2, FunctionTyped DEF Known, TypeOK
    <3> QED
      BY <1>3, <3>1, <3>2
  <2> QED
    BY <1>1, <1>2, <1>7, <2>1 DEF OutOfUse
<1>14. SoleUserFreed'
  BY <1>1, <1>2 DEF SoleUserFreed
<1> QED
  BY <1>8, <1>9, <1>10, <1>11, <1>12, <1>13, <1>14 DEF MergeInv

LEMMA MergedMerge == MergeInv /\ Merged => MergeInv'
<1> SUFFICES ASSUME MergeInv, Merged PROVE MergeInv'
  OBVIOUS
<1>1. /\ pc = "walk" /\ at = End /\ NextBlock
      /\ DeleteList' = DeleteList \cup {BB}
      /\ UNCHANGED <<fn, targets, useList, body, retained, at, erased, dangling,
                     shared>>
  BY DEF Merged
<1>2. Known /\ Ahead /\ SoleUser /\ OutOfUse /\ SoleUserFreed
  BY DEF MergeInv
<1>3. BB' \in Blocks' /\ pc' \in {"visit", "delete"}
  BY <1>1, <1>2, NextBlockTyped
<1>4. Known'
  BY <1>1, <1>2, <1>3 DEF Known, TypeOK, Blocks
<1>5. Ahead'
  <2>1. ASSUME pc' \in {"visit", "walk"} PROVE \A b \in DeleteList' : b < BB'
    <3>1. \A b \in DeleteList : b < BB /\ b \in Nat
      BY <1>1, <1>2, FunctionTyped DEF Known, TypeOK, Ahead
    <3>2. BB \in Nat
      BY <1>2, FunctionTyped DEF Known, TypeOK
    <3>3. \A b \in DeleteList' : b \in Nat /\ b <= BB
      BY <1>1, <3>1, <3>2
    <3> QED
      BY <1>1, <1>2, <2>1, <3>3, NextBlockAhead
  <2> QED
    BY <1>1, <1>2, <2>1 DEF Ahead, Blocks
<1>6. OutOfUse'
  <2>1. BB \in shared \/ UsesOf(targets, BB) = {}
    BY <1>1, <1>2 DEF SoleUser
  <2> QED
    BY <1>1, <1>2, <2>1 DEF OutOfUse
<1> QED
  BY <1>1, <1>2, <1>3, <1>4, <1>5, <1>6
     DEF MergeInv, RetainedFit, OnUse, SoleUser, SoleUserFreed

LEMMA DeleteMerge ==
  ASSUME MergeInv, NEW b \in DeleteList, Delete(b)
  PROVE  MergeInv'
<1>1. /\ pc = "delete" /\ pc' \in {"delete", "exit"}
      /\ erased' = erased \cup {b}
      /\ dangling' = IF Predecessors(b) \ {b} = {} THEN dangling
                     ELSE dangling \cup {b}
      /\ UNCHANGED <<fn, BB, retained, at, DeleteList, shared>>
  BY DEF Delete
<1>2. Known /\ OutOfUse /\ SoleUserFreed
  BY DEF MergeInv
<1>3. /\ targets \in [Blocks -> Seq(Blocks)]
      /\ useList \in [Blocks -> Seq(Blocks \X Nat)]
      /\ UseListsComplete(targets, useList)
      /\ DeleteList \subseteq Blocks /\ b \in Blocks
  BY <1>2 DEF Known, TypeOK
<1>4. /\ targets' \in [Blocks -> Seq(Blocks)]
      /\ useList' \in [Blocks -> Seq(Blocks \X Nat)]
      /\ \A c \in Blocks : UsesOf(targets', c) = {u \in UsesOf(targets, c) : u[1] # b}
      /\ UseListsComplete(targets', useList')
  BY <1>3, DeleteUses
<1>5. Known'
  BY <1>1, <1>2, <1>4 DEF Known, TypeOK, Blocks
<1>6. OutOfUse'
  BY <1>1, <1>2, <1>3, <1>4 DEF OutOfUse
<1>7. SoleUserFreed'
  <2>1. CASE b \in shared
    BY <1>1, <1>2, <2>1 DEF SoleUserFreed
  <2>2. CASE b \notin shared
    <3>1. UsesOf(targets, b) = {}
      BY <1>2, <2>2 DEF OutOfUse
    <3>2. Predecessors(b) = {}
      BY <1>3, <3>1 DEF Predecessors, UseListsComplete
    <3> QED
      BY <1>1, <1>2, <3>2 DEF SoleUserFreed
  <2> QED
    BY <2>1, <2>2
<1> QED
  BY <1>1, <1>5, <1>6, <1>7 DEF MergeInv, Ahead, RetainedFit, OnUse, SoleUser

LEMMA NextMerge == MergeInv /\ [Next]_vars => MergeInv'
<1> SUFFICES ASSUME MergeInv, [Next]_vars PROVE MergeInv'
  OBVIOUS
<1>1. CASE Keep
  BY <1>1, KeepMerge
<1>2. CASE Merge
  BY <1>2, MergeMerge
<1>3. CASE NotNamed
  BY <1>3, NotNamedMerge
<1>4. CASE UpdateBranchTargets
  BY <1>4, UpdateMerge
<1>5. CASE Merged
  BY <1>5, MergedMerge
<1>6. ASSUME NEW b \in DeleteList, Delete(b) PROVE MergeInv'
  BY <1>6, DeleteMerge
<1>7. CASE Return
  BY <1>7 DEF Return, MergeInv, Known, TypeOK, Blocks, Ahead, RetainedFit, OnUse,
     SoleUser, OutOfUse, SoleUserFreed
<1>8. CASE UNCHANGED vars
  BY <1>8 DEF vars, MergeInv, Known, TypeOK, Blocks, Ahead, RetainedFit, OnUse,
     SoleUser, OutOfUse, SoleUserFreed
<1> QED
  BY <1>1, <1>2, <1>3, <1>4, <1>5, <1>6, <1>7, <1>8 DEF Next

LEMMA MergeInvariant == Spec => []MergeInv
BY InitMerge, NextMerge, PTL DEF Spec

(* At every step of the pass, inside updateBranchTargets too, each use list *)
(* holds exactly the operands that name its block, each of them once.      *)
THEOREM UseListsThm == Spec => []TypeOK
<1>1. MergeInv => TypeOK
  BY DEF MergeInv, Known
<1> QED
  BY <1>1, MergeInvariant, PTL

(* A block that one terminator named when it was merged away is named by   *)
(* none when it is deleted, whatever merges come in between.               *)
THEOREM SoleUserFreedThm == Spec => []SoleUserFreed
<1>1. MergeInv => SoleUserFreed
  BY DEF MergeInv
<1> QED
  BY <1>1, MergeInvariant, PTL

(* An operand that a step changes names a block that was not condemned:    *)
(* DeleteList.contains keeps a later merge from undoing an earlier one.    *)
THEOREM NeverToCondemnedThm == Spec => NeverToCondemned
<1> DEFINE A == \A b \in Blocks : \A i \in DOMAIN targets'[b] :
                  targets'[b][i] # targets[b][i] => targets'[b][i] \notin DeleteList
<1>1. MergeInv /\ [Next]_vars => [A]_vars
  <2> SUFFICES ASSUME MergeInv, Next PROVE A
    OBVIOUS
  <2>1. CASE UNCHANGED targets
    BY <2>1
  <2>2. CASE UpdateBranchTargets
    <3>1. Redirect(at[1]) /\ retained \notin DeleteList
      BY <2>2 DEF UpdateBranchTargets, MergeInv, RetainedFit
    <3>2. targets \in [Blocks -> Seq(Blocks)]
      BY DEF MergeInv, Known, TypeOK
    <3>3. targets' = [targets EXCEPT ![at[1]] =
                        [i \in DOMAIN @ |-> IF @[i] = BB THEN retained ELSE @[i]]]
      BY <3>1 DEF Redirect
    <3>4. \A b \in Blocks : \A i \in DOMAIN targets'[b] :
            targets'[b][i] \in {targets[b][i], retained}
      BY <3>2, <3>3
    <3> QED
      BY <3>1, <3>4
  <2>3. ASSUME NEW c \in DeleteList, Delete(c) PROVE A
    <3>1. targets \in [Blocks -> Seq(Blocks)]
      BY DEF MergeInv, Known, TypeOK
    <3>2. targets' = [targets EXCEPT ![c] = <<>>]
      BY <2>3 DEF Delete
    <3>3. \A b \in Blocks : targets'[b] = targets[b] \/ DOMAIN targets'[b] = {}
      BY <3>1, <3>2
    <3> QED
      BY <3>3
  <2> QED
    BY <2>1, <2>2, <2>3 DEF Next, Keep, Merge, NotNamed, Merged, Return
<1>2. Spec => [][A]_vars
  BY <1>1, MergeInvariant, PTL DEF Spec
<1> QED
  BY <1>2 DEF NeverToCondemned
(***************************************************************************)
(* Phis and predecessors.  An edge is redirected only away from a block    *)
(* that is condemned or about to be; so a block that stays keeps the edges *)
(* it had until their blocks are erased, and then its phis are told.       *)
(***************************************************************************)
OldPreds(b) == {u[1] : u \in UsesOf(fn.targets, b)}

ErasedStill ==
  /\ pc \in {"visit", "walk"} => erased = {}
  /\ \A p \in Blocks : IF p \in erased THEN DOMAIN targets[p] = {}
                       ELSE DOMAIN targets[p] = DOMAIN fn.targets[p]
LeftCondemned ==
  \A p \in Blocks : \A i \in DOMAIN targets[p] :
    targets[p][i] # fn.targets[p][i] =>
      fn.targets[p][i] \in DeleteList \cup (IF pc = "walk" THEN {BB} ELSE {})
PhisOfStaying ==
  \A b \in Blocks \ DeleteList :
    /\ body[b] \in Seq(Instructions)
    /\ \A k \in DOMAIN body[b] :
         IsPhi(body[b][k]) => /\ Len(body[b][k].vals) = Len(body[b][k].preds)
                              /\ ToSet(body[b][k].preds) = OldPreds(b) \ erased

PhiInv == ErasedStill /\ LeftCondemned /\ PhisOfStaying

LEMMA InOldPreds ==
  ASSUME Known
  PROVE  \A b, p \in Blocks :
           p \in OldPreds(b) <=> \E i \in DOMAIN fn.targets[p] : fn.targets[p][i] = b
<1>1. DOMAIN fn.targets = Blocks
  BY FunctionTyped DEF Known
<1>2. SUFFICES ASSUME NEW b \in Blocks, NEW p \in Blocks
               PROVE  p \in OldPreds(b)
                        <=> \E i \in DOMAIN fn.targets[p] : fn.targets[p][i] = b
  OBVIOUS
<1>3. ASSUME p \in OldPreds(b)
      PROVE  \E i \in DOMAIN fn.targets[p] : fn.targets[p][i] = b
  <2>1. PICK u \in UsesOf(fn.targets, b) : u[1] = p
    BY <1>3 DEF OldPreds
  <2> QED
    BY <2>1, InUses
<1>4. ASSUME NEW i \in DOMAIN fn.targets[p], fn.targets[p][i] = b
      PROVE  p \in OldPreds(b)
  <2>1. <<p, i>> \in UsesOf(fn.targets, b) /\ <<p, i>>[1] = p
    BY <1>1, <1>4, InUses
  <2> QED
    BY <2>1 DEF OldPreds
<1> QED
  BY <1>3, <1>4

LEMMA InitPhi == Init => PhiInv
<1> SUFFICES ASSUME Init PROVE PhiInv
  OBVIOUS
<1>1. Known
  BY InitMerge DEF MergeInv
<1>2. ErasedStill /\ LeftCondemned
  BY DEF Init, ErasedStill, LeftCondemned
<1>3. Typed(fn) /\ PhisSound(fn) /\ body = fn.body /\ erased = {}
  BY <1>1, FunctionsAssumption DEF Known, Init
<1>4. \A b \in Blocks : body[b] \in Seq(Instructions)
  BY <1>3 DEF Typed, Blocks
<1>5. ASSUME NEW b \in Blocks, NEW k \in DOMAIN body[b], IsPhi(body[b][k])
      PROVE  /\ Len(body[b][k].vals) = Len(body[b][k].preds)
             /\ ToSet(body[b][k].preds) = OldPreds(b) \ erased
  <2>1. body[b][k] \in ToSet(fn.body[b])
    BY <1>3 DEF ToSet
  <2> QED
    BY <1>3, <1>5, <2>1 DEF PhisSound, OldPreds, Blocks
<1> QED
  BY <1>2, <1>4, <1>5 DEF PhiInv, PhisOfStaying

LEMMA UpdatePhi == MergeInv /\ PhiInv /\ UpdateBranchTargets => PhiInv'
<1> SUFFICES ASSUME MergeInv, PhiInv, UpdateBranchTargets PROVE PhiInv'
  OBVIOUS
<1>1. /\ pc = "walk" /\ pc' = pc /\ Redirect(at[1])
      /\ UNCHANGED <<fn, body, BB, DeleteList, erased>>
  BY DEF UpdateBranchTargets
<1>2. targets \in [Blocks -> Seq(Blocks)]
  BY DEF MergeInv, Known, TypeOK
<1>3. targets' = [targets EXCEPT ![at[1]] =
                    [i \in DOMAIN @ |-> IF @[i] = BB THEN retained ELSE @[i]]]
  BY <1>1 DEF Redirect
<1>4. \A b \in Blocks : /\ DOMAIN targets'[b] = DOMAIN targets[b]
                        /\ \A i \in DOMAIN targets[b] :
                             targets'[b][i] = targets[b][i] \/ targets[b][i] = BB
  BY <1>2, <1>3
<1>5. ErasedStill'
  BY <1>1, <1>4 DEF PhiInv, ErasedStill, Blocks
<1>6. LeftCondemned'
  BY <1>1, <1>4 DEF PhiInv, LeftCondemned, Blocks
<1>7. PhisOfStaying'
  BY <1>1 DEF PhiInv, PhisOfStaying, OldPreds, Blocks
<1> QED
  BY <1>5, <1>6, <1>7 DEF PhiInv

LEMMA DeletePhi ==
  ASSUME MergeInv, PhiInv, NEW e \in DeleteList, Delete(e)
  PROVE  PhiInv'
<1>1. /\ pc = "delete" /\ e \notin erased
      /\ targets' = [targets EXCEPT ![e] = <<>>]
      /\ erased' = erased \cup {e}
      /\ pc' \in {"delete", "exit"}
      /\ UNCHANGED <<fn, BB, DeleteList>>
  BY DEF Delete
<1>1a. PICK folded \in Foldings(e) : body' = DeadBlockDeleted(e, folded)
  BY DEF Delete
<1>2. /\ Known /\ targets \in [Blocks -> Seq(Blocks)] /\ e \in Blocks
      /\ fn.targets \in [Blocks -> Seq(Blocks)]
  BY FunctionTyped DEF MergeInv, Known, TypeOK
<1>3. DOMAIN targets'[e] = {} /\ \A b \in Blocks \ {e} : targets'[b] = targets[b]
  BY <1>1, <1>2
<1>4. ErasedStill'
  BY <1>1, <1>3 DEF PhiInv, ErasedStill, Blocks
<1>5. LeftCondemned'
  BY <1>1, <1>3 DEF PhiInv, LeftCondemned, Blocks
<1>6. ASSUME NEW b \in Blocks \ DeleteList
      PROVE  /\ body'[b] \in Seq(Instructions)
             /\ \A k \in DOMAIN body'[b] :
                  IsPhi(body'[b][k]) =>
                    /\ Len(body'[b][k].vals) = Len(body'[b][k].preds)
                    /\ ToSet(body'[b][k].preds) = OldPreds(b) \ (erased \cup {e})
  <2>1. b # e
    OBVIOUS
  <2>2. CASE b \in ToSet(targets[e])
    <3>1. body'[b] = WithoutIncoming(body[b], e, folded)
      BY <1>1a, <2>1, <2>2 DEF DeadBlockDeleted
    <3>2. body[b] \in Seq(Instructions)
      BY DEF PhiInv, PhisOfStaying
    <3>3. DOMAIN body'[b] = DOMAIN body[b]
      BY <3>1 DEF WithoutIncoming
    <3>4. ASSUME NEW k \in DOMAIN body[b]
          PROVE  /\ body'[b][k] \in Instructions
                 /\ IsPhi(body'[b][k]) =>
                      /\ Len(body'[b][k].vals) = Len(body'[b][k].preds)
                      /\ ToSet(body'[b][k].preds) = OldPreds(b) \ (erased \cup {e})
      <4> DEFINE inst == body[b][k]
                 keep == {j \in DOMAIN inst.preds : inst.preds[j] # e}
      <4>1. body'[b][k] = IF k \in folded THEN Folded(inst) ELSE IF IsPhi(inst)
              THEN [inst EXCEPT !.preds = At(@, keep), !.vals = At(@, keep)] ELSE inst
        BY <3>1 DEF WithoutIncoming
      <4>2. inst \in Instructions
        BY <3>2
      <4>3. CASE k \in folded
        <5>1. body'[b][k] = [inst EXCEPT !.preds = <<>>, !.vals = <<>>]
          BY <4>1, <4>3 DEF Folded
        <5> HIDE DEF inst, keep
        <5>2. <<>> \in Seq(Nat) /\ <<>> \in Seq(Nat \X Nat)
          OBVIOUS
        <5>3. body'[b][k] \in Instructions
          BY <4>2, <5>1, <5>2 DEF Instructions
        <5>4. body'[b][k].preds = <<>>
          BY <4>2, <5>1 DEF Instructions
        <5> QED
          BY <5>3, <5>4 DEF IsPhi
      <4>4. CASE k \notin folded /\ ~IsPhi(inst)
        <5>1. body'[b][k] = inst
          BY <4>1, <4>4
        <5> QED
          BY <4>2, <4>4, <5>1
      <4>5. CASE k \notin folded /\ IsPhi(inst)
        <5>1. /\ Len(inst.vals) = Len(inst.preds)
              /\ ToSet(inst.preds) = OldPreds(b) \ erased
          BY <4>5 DEF PhiInv, PhisOfStaying
        <5>2. inst.preds \in Seq(Nat) /\ inst.vals \in Seq(Nat \X Nat)
          BY <4>2 DEF Instructions
        <5>3. keep \in SUBSET DOMAIN inst.preds /\ keep \in SUBSET DOMAIN inst.vals
          BY <5>1, <5>2
        <5>4. body'[b][k] = [inst EXCEPT !.preds = At(@, keep), !.vals = At(@, keep)]
          BY <4>1, <4>5
        <5>5. {inst.preds[j] : j \in keep} = ToSet(inst.preds) \ {e}
          BY DEF ToSet
        <5> HIDE DEF inst, keep
        <5>6. /\ At(inst.preds, keep) \in Seq(Nat)
              /\ At(inst.vals, keep) \in Seq(Nat \X Nat)
              /\ Len(At(inst.preds, keep)) = Len(At(inst.vals, keep))
              /\ ToSet(At(inst.preds, keep)) = {inst.preds[j] : j \in keep}
          <6>1. /\ At(inst.preds, keep) \in Seq(Nat)
                /\ Len(At(inst.preds, keep)) = Cardinality(keep)
                /\ ToSet(At(inst.preds, keep)) = {inst.preds[j] : j \in keep}
            BY <5>2, <5>3, AtMembers
          <6>2. /\ At(inst.vals, keep) \in Seq(Nat \X Nat)
                /\ Len(At(inst.vals, keep)) = Cardinality(keep)
            BY <5>2, <5>3, AtMembers
          <6> QED
            BY <6>1, <6>2
        <5>7. /\ body'[b][k] \in Instructions
              /\ body'[b][k].preds = At(inst.preds, keep)
              /\ body'[b][k].vals = At(inst.vals, keep)
          BY <4>2, <5>4, <5>6 DEF Instructions
        <5> QED
          BY <5>1, <5>5, <5>6, <5>7
      <4> QED
        BY <4>3, <4>4, <4>5
    <3>5. body'[b] \in Seq(Instructions)
      <4>1. body'[b] = [k \in DOMAIN body[b] |-> body'[b][k]]
        BY <3>1 DEF WithoutIncoming
      <4>2. Len(body[b]) \in Nat /\ DOMAIN body[b] = 1 .. Len(body[b])
        BY <3>2
      <4>3. \A k \in 1 .. Len(body[b]) : body'[b][k] \in Instructions
        BY <3>4, <4>2
      <4>4. body'[b] = [k \in 1 .. Len(body[b]) |-> body'[b][k]]
        BY <4>1, <4>2
      <4> QED
        BY <4>2, <4>3, <4>4, IsSequence
    <3> QED
      BY <3>3, <3>4, <3>5
  <2>3. CASE b \notin ToSet(targets[e])
    <3>1. body'[b] = body[b]
      BY <1>1a, <2>1, <2>3 DEF DeadBlockDeleted
    <3>2. e \notin OldPreds(b)
      <4> SUFFICES ASSUME e \in OldPreds(b) PROVE FALSE
        OBVIOUS
      <4>1. PICK i \in DOMAIN fn.targets[e] : fn.targets[e][i] = b
        BY <1>2, InOldPreds
      <4>2. i \in DOMAIN targets[e]
        BY <1>1, <1>2, <4>1 DEF PhiInv, ErasedStill
      <4>3. targets[e][i] = b
        BY <1>1, <1>2, <4>1, <4>2 DEF PhiInv, LeftCondemned
      <4> QED
        BY <2>3, <4>2, <4>3 DEF ToSet
    <3> QED
      BY <3>1, <3>2 DEF PhiInv, PhisOfStaying
  <2> QED
    BY <2>2, <2>3
<1>7. PhisOfStaying'
  BY <1>1, <1>6 DEF PhisOfStaying, OldPreds, Blocks
<1> QED
  BY <1>4, <1>5, <1>7 DEF PhiInv

LEMMA NextPhi == MergeInv /\ PhiInv /\ [Next]_vars => PhiInv'
<1> SUFFICES ASSUME MergeInv, PhiInv, [Next]_vars PROVE PhiInv'
  OBVIOUS
<1>1. CASE UpdateBranchTargets
  BY <1>1, UpdatePhi
<1>2. ASSUME NEW e \in DeleteList, Delete(e) PROVE PhiInv'
  BY <1>2, DeletePhi
<1>3. CASE Merged
  <2>1. /\ pc = "walk" /\ pc' \in {"visit", "delete"}
        /\ DeleteList' = DeleteList \cup {BB}
        /\ UNCHANGED <<fn, targets, body, erased>>
    BY <1>3 DEF Merged, NextBlock
  <2> QED
    BY <2>1 DEF PhiInv, ErasedStill, LeftCondemned, PhisOfStaying, OldPreds, Blocks
<1>4. CASE Keep \/ Merge
  <2>1. /\ pc = "visit" /\ pc' \in {"visit", "walk", "delete"}
        /\ UNCHANGED <<fn, targets, body, DeleteList, erased>>
    BY <1>4 DEF Keep, Merge, NextBlock
  <2> QED
    BY <2>1 DEF PhiInv, ErasedStill, LeftCondemned, PhisOfStaying, OldPreds, Blocks
<1>5. CASE NotNamed \/ Return
  <2>1. /\ pc \in {"visit", "delete"} /\ pc' \in {"exit", "done"}
        /\ UNCHANGED <<fn, targets, body, DeleteList, erased>>
    BY <1>5 DEF NotNamed, Return
  <2> QED
    BY <2>1 DEF PhiInv, ErasedStill, LeftCondemned, PhisOfStaying, OldPreds, Blocks
<1>6. CASE UNCHANGED vars
  BY <1>6 DEF vars, PhiInv, ErasedStill, LeftCondemned, PhisOfStaying, OldPreds, Blocks
<1> QED
  BY <1>1, <1>2, <1>3, <1>4, <1>5, <1>6 DEF Next

(* That the pass ends with everything condemned erased.                    *)
AllErased == pc = "done" => DeleteList = erased

LEMMA PhiInvariant == Spec => [](PhiInv /\ AllErased)
<1> DEFINE I == PhiInv /\ AllErased
<1>1. Init => I
  BY InitPhi DEF AllErased, Init
<1>2. MergeInv /\ I /\ [Next]_vars => I'
  <2> SUFFICES ASSUME MergeInv, I, [Next]_vars PROVE I'
    OBVIOUS
  <2>1. AllErased'
    BY DEF AllErased, Next, vars, Keep, Merge, NotNamed, UpdateBranchTargets, Merged,
       NextBlock, Delete, Return
  <2> QED
    BY <2>1, NextPhi
<1> QED
  BY <1>1, <1>2, MergeInvariant, PTL DEF Spec

(* When the pass has ended, the phis of every block that is left, and to   *)
(* which no edge was redirected, name its predecessors and no others,      *)
(* however many merges and deletions there were.                           *)
THEOREM PhisCompleteThm == Spec => []PhisComplete
<1>1. MergeInv /\ PhiInv /\ AllErased => PhisComplete
  <2> SUFFICES ASSUME MergeInv, PhiInv, AllErased, pc = "done",
                      NEW b \in Blocks \ (erased \cup Redirected),
                      NEW phi \in ToSet(Phis(b))
               PROVE  ToSet(phi.preds) = Predecessors(b)
    BY DEF PhisComplete
  <2>1. /\ Known /\ DeleteList = erased
        /\ targets \in [Blocks -> Seq(Blocks)] /\ UseListsComplete(targets, useList)
    BY DEF MergeInv, Known, TypeOK, AllErased
  <2>2. Predecessors(b) = {u[1] : u \in UsesOf(targets, b)}
    BY <2>1 DEF Predecessors, UseListsComplete
  <2>3. ASSUME NEW p \in Blocks
        PROVE  (\E i \in DOMAIN targets[p] : targets[p][i] = b)
                 <=> p \in OldPreds(b) \ erased
    <3>1. ASSUME NEW i \in DOMAIN targets[p], targets[p][i] = b
          PROVE  p \in OldPreds(b) \ erased
      <4>1. fn.targets[p][i] = b
        BY <3>1 DEF Redirected
      <4>2. p \notin erased /\ i \in DOMAIN fn.targets[p]
        BY <3>1 DEF PhiInv, ErasedStill
      <4> QED
        BY <2>1, <4>1, <4>2, InOldPreds
    <3>2. ASSUME p \in OldPreds(b) \ erased
          PROVE  \E i \in DOMAIN targets[p] : targets[p][i] = b
      <4>1. PICK i \in DOMAIN fn.targets[p] : fn.targets[p][i] = b
        BY <2>1, <3>2, InOldPreds
      <4>2. i \in DOMAIN targets[p]
        BY <3>2, <4>1 DEF PhiInv, ErasedStill
      <4>3. targets[p][i] = b
        BY <2>1, <4>1, <4>2 DEF PhiInv, LeftCondemned
      <4> QED
        BY <4>2, <4>3
    <3> QED
      BY <3>1, <3>2
  <2>4. Predecessors(b) = OldPreds(b) \ erased
    <3>1. ASSUME NEW p \in Predecessors(b) PROVE p \in OldPreds(b) \ erased
      <4>1. PICK u \in UsesOf(targets, b) : u[1] = p
        BY <2>2, <3>1
      <4>2. p \in Blocks /\ u[2] \in DOMAIN targets[p] /\ targets[p][u[2]] = b
        BY <2>1, <4>1, InUses
      <4> QED
        BY <2>3, <4>2
    <3>2. ASSUME NEW p \in OldPreds(b) \ erased PROVE p \in Predecessors(b)
      <4>1. p \in Blocks
        <5>1. DOMAIN fn.targets = Blocks
          BY <2>1, FunctionTyped DEF Known
        <5> QED
          BY <5>1, InUses DEF OldPreds
      <4>2. PICK i \in DOMAIN targets[p] : targets[p][i] = b
        BY <2>3, <4>1
      <4>3. <<p, i>> \in UsesOf(targets, b) /\ <<p, i>>[1] = p
        BY <2>1, <4>1, <4>2, InUses
      <4> QED
        BY <2>2, <4>3
    <3> QED
      BY <3>1, <3>2
  <2>5. PICK k \in DOMAIN body[b] : IsPhi(body[b][k]) /\ phi = body[b][k]
    <3> DEFINE S == {k \in DOMAIN body[b] : IsPhi(body[b][k])}
    <3>1. body[b] \in Seq(Instructions)
      BY <2>1 DEF PhiInv, PhisOfStaying
    <3>2. ToSet(At(body[b], S)) = {body[b][k] : k \in S}
      <4>1. S \in SUBSET DOMAIN body[b]
        OBVIOUS
      <4> HIDE DEF S
      <4> QED
        BY <3>1, <4>1, AtMembers
    <3>3. phi \in {body[b][k] : k \in S}
      BY <3>2 DEF Phis, PhisOf
    <3> QED
      BY <3>3
  <2> QED
    BY <2>1, <2>4, <2>5 DEF PhiInv, PhisOfStaying
<1> QED
  BY <1>1, PhiInvariant, MergeInvariant, PTL

-----------------------------------------------------------------------------
(***************************************************************************)
(* MergeBB redirects edges only to blocks that do what the first target    *)
(* did, in every function and after any number of merges.                  *)
(***************************************************************************)

(***************************************************************************)
(* SameFor(f) is what its definition says: each relation is made from the  *)
(* one before it.                                                          *)
(***************************************************************************)
LEMMA NatInd ==
  ASSUME NEW S, 0 \in S, \A n \in Nat : n \in S => n + 1 \in S
  PROVE  Nat \subseteq S
<1>1. SUFFICES ASSUME Nat \ S # {} PROVE FALSE
  OBVIOUS
<1> DEFINE n == Min(Nat \ S)
<1>2. n \in Nat \ S /\ \A k \in Nat \ S : n <= k
  BY <1>1, MinPlace
<1> HIDE DEF n
<1>3. n # 0 /\ n - 1 \in Nat /\ n - 1 \in S
  BY <1>2
<1> QED
  BY <1>2, <1>3

Fits(f, g, n) ==
  \A m \in 0 .. n : g[m] = IF m = 0 THEN BlocksOf(f) \X BlocksOf(f) ELSE InStep(f, g[m - 1])

LEMMA SomeFits ==
  ASSUME NEW f
  PROVE  \A n \in Nat : \E g : Fits(f, g, n)
<1> DEFINE S == {n \in Nat : \E g : Fits(f, g, n)}
<1>1. 0 \in S
  <2> DEFINE g == [m \in 0 .. 0 |-> BlocksOf(f) \X BlocksOf(f)]
  <2>1. Fits(f, g, 0)
    BY DEF Fits
  <2> QED
    BY <2>1
<1>2. ASSUME NEW n \in Nat, n \in S PROVE n + 1 \in S
  <2>1. PICK g : Fits(f, g, n)
    BY <1>2
  <2> DEFINE h == [m \in 0 .. n + 1 |-> IF m = n + 1 THEN InStep(f, g[n]) ELSE g[m]]
  <2>2. Fits(f, h, n + 1)
    <3>1. ASSUME NEW m \in 0 .. n + 1
          PROVE h[m] = IF m = 0 THEN BlocksOf(f) \X BlocksOf(f) ELSE InStep(f, h[m - 1])
      <4>1. CASE m = n + 1
        <5>1. h[m] = InStep(f, g[n]) /\ h[m - 1] = g[n] /\ m # 0
          BY <4>1
        <5> QED
          BY <5>1, Zenon
      <4>2. CASE m # n + 1 /\ m # 0
        <5>1. m \in 0 .. n /\ m - 1 \in 0 .. n /\ h[m] = g[m] /\ h[m - 1] = g[m - 1]
          BY <4>2
        <5>2. g[m] = InStep(f, g[m - 1])
          BY <2>1, <5>1, <4>2, Zenon DEF Fits
        <5> QED
          BY <4>2, <5>1, <5>2, Zenon
      <4>3. CASE m = 0
        <5>1. h[m] = g[m] /\ m \in 0 .. n
          BY <4>3
        <5> QED
          BY <2>1, <4>3, <5>1, Zenon DEF Fits
      <4> QED
        BY <4>1, <4>2, <4>3
    <3> HIDE DEF h
    <3> QED
      BY <3>1, Zenon DEF Fits
  <2> QED
    BY <2>2
<1> HIDE DEF S
<1>3. Nat \subseteq S
  BY <1>1, <1>2, NatInd
<1> QED
  BY <1>3 DEF S

LEMMA FitsAlike ==
  ASSUME NEW f, NEW g, NEW h, NEW a \in Nat, NEW b \in Nat,
         Fits(f, g, a), Fits(f, h, b)
  PROVE  \A n \in Nat : n <= a /\ n <= b => g[n] = h[n]
<1> DEFINE S == {n \in Nat : n <= a /\ n <= b => g[n] = h[n]}
<1>1. 0 \in S
  <2>1. 0 \in 0 .. a /\ 0 \in 0 .. b
    OBVIOUS
  <2>2. g[0] = BlocksOf(f) \X BlocksOf(f) /\ h[0] = BlocksOf(f) \X BlocksOf(f)
    BY <2>1, Zenon DEF Fits
  <2> QED
    BY <2>2
<1>2. ASSUME NEW n \in Nat, n \in S PROVE n + 1 \in S
  <2>1. SUFFICES ASSUME n + 1 <= a, n + 1 <= b PROVE g[n + 1] = h[n + 1]
    OBVIOUS
  <2>2. n + 1 \in 0 .. a /\ n + 1 \in 0 .. b /\ n + 1 # 0 /\ (n + 1) - 1 = n
    BY <2>1
  <2>3. g[n + 1] = InStep(f, g[n]) /\ h[n + 1] = InStep(f, h[n])
    BY <2>2, Zenon DEF Fits
  <2>4. g[n] = h[n]
    BY <1>2, <2>1
  <2> QED
    BY <2>3, <2>4, Zenon
<1> HIDE DEF S
<1>3. Nat \subseteq S
  BY <1>1, <1>2, NatInd
<1> QED
  BY <1>3 DEF S

LEMMA SameForExists ==
  ASSUME NEW f
  PROVE  \E same : same = [n \in Nat |-> IF n = 0 THEN BlocksOf(f) \X BlocksOf(f)
                                         ELSE InStep(f, same[n - 1])]
<1> DEFINE upTo == [n \in Nat |-> CHOOSE g : Fits(f, g, n)]
           same == [n \in Nat |-> upTo[n][n]]
<1>1. ASSUME NEW n \in Nat PROVE Fits(f, upTo[n], n)
  <2>1. \E g : Fits(f, g, n)
    BY SomeFits
  <2>2. upTo[n] = CHOOSE g : Fits(f, g, n)
    OBVIOUS
  <2> QED
    BY <2>1, <2>2, Zenon
<1>2. same[0] = BlocksOf(f) \X BlocksOf(f)
  <2>1. 0 \in 0 .. 0 /\ same[0] = upTo[0][0] /\ Fits(f, upTo[0], 0)
    BY <1>1
  <2> QED
    BY <2>1, Zenon DEF Fits
<1>3. ASSUME NEW n \in Nat, n # 0 PROVE same[n] = InStep(f, same[n - 1])
  <2>1. n - 1 \in Nat /\ n \in 0 .. n /\ same[n] = upTo[n][n] /\ same[n - 1] = upTo[n - 1][n - 1]
    BY <1>3
  <2>2. Fits(f, upTo[n], n) /\ Fits(f, upTo[n - 1], n - 1)
    BY <1>1, <2>1
  <2> HIDE DEF upTo
  <2>3. upTo[n][n] = InStep(f, upTo[n][n - 1])
    BY <1>3, <2>1, <2>2, Zenon DEF Fits
  <2>4. n - 1 <= n /\ n - 1 <= n - 1
    BY <2>1
  <2>5. upTo[n][n - 1] = upTo[n - 1][n - 1]
    BY <2>1, <2>2, <2>4, FitsAlike
  <2> QED
    BY <2>1, <2>3, <2>5, Zenon
<1>4. same = [n \in Nat |-> IF n = 0 THEN BlocksOf(f) \X BlocksOf(f) ELSE InStep(f, same[n - 1])]
  <2>1. ASSUME NEW n \in Nat
        PROVE same[n] = IF n = 0 THEN BlocksOf(f) \X BlocksOf(f) ELSE InStep(f, same[n - 1])
    <3> HIDE DEF same
    <3>1. CASE n = 0
      BY <1>2, <3>1
    <3>2. CASE n # 0
      BY <1>3, <3>2
    <3> QED
      BY <3>1, <3>2
  <2>2. same = [n \in Nat |-> same[n]]
    OBVIOUS
  <2> HIDE DEF same
  <2> QED
    BY <2>1, <2>2, Zenon
<1> QED
  BY <1>4, Zenon

LEMMA SameForStep ==
  ASSUME NEW f
  PROVE  /\ SameFor(f)[0] = BlocksOf(f) \X BlocksOf(f)
         /\ \A n \in Nat : SameFor(f)[n + 1] = InStep(f, SameFor(f)[n])
<1>1. SameFor(f) = [n \in Nat |-> IF n = 0 THEN BlocksOf(f) \X BlocksOf(f)
                                  ELSE InStep(f, SameFor(f)[n - 1])]
  BY SameForExists, Zenon DEF SameFor
<1>2. SameFor(f)[0] = BlocksOf(f) \X BlocksOf(f)
  BY <1>1, Zenon
<1>3. ASSUME NEW n \in Nat PROVE SameFor(f)[n + 1] = InStep(f, SameFor(f)[n])
  <2>1. n + 1 \in Nat /\ n + 1 # 0 /\ (n + 1) - 1 = n
    OBVIOUS
  <2> QED
    BY <1>1, <2>1, Zenon
<1> QED
  BY <1>2, <1>3
(***************************************************************************)
(* Each of these relations is an equivalence.                              *)
(***************************************************************************)
Equivalence(f, R) ==
  /\ R \subseteq BlocksOf(f) \X BlocksOf(f)
  /\ \A b \in BlocksOf(f) : <<b, b>> \in R
  /\ \A b, c \in BlocksOf(f) : <<b, c>> \in R => <<c, b>> \in R
  /\ \A a, b, c \in BlocksOf(f) :
       <<a, b>> \in R /\ <<b, c>> \in R => <<a, c>> \in R

LEMMA BodyTyped ==
  ASSUME NEW f, Typed(f), NEW b \in BlocksOf(f)
  PROVE  /\ f.body[b] \in Seq(Instructions)
         /\ Steps(f, b) \in Seq(Instructions)
         /\ PhisOf(f.body[b]) \in Seq(Instructions)
<1>1. f.body[b] \in Seq(Instructions)
  BY DEF Typed
<1>2. NonDbg(f.body[b]) \in Seq(Instructions)
  BY <1>1, AtMembers DEF NonDbg
<1>3. PhisOf(f.body[b]) \in Seq(Instructions)
  BY <1>1, AtMembers DEF PhisOf
<1> QED
  BY <1>1, <1>2, <1>3 DEF Steps

LEMMA SameStepsSymmetric ==
  ASSUME NEW f, Typed(f), NEW b \in BlocksOf(f), NEW c \in BlocksOf(f),
         SameSteps(f, b, c)
  PROVE  SameSteps(f, c, b)
<1>1. Steps(f, b) \in Seq(Instructions) /\ Steps(f, c) \in Seq(Instructions)
  BY BodyTyped
<1>2. Len(Steps(f, b)) = Len(Steps(f, c)) /\ DOMAIN Steps(f, b) = DOMAIN Steps(f, c)
  BY <1>1 DEF SameSteps
<1>3. ASSUME NEW k \in DOMAIN Steps(f, c)
      PROVE  LET x == Steps(f, b)[k]
                 y == Steps(f, c)[k]
             IN /\ ~IsPhi(x) /\ ~IsPhi(y)
                /\ y.op = x.op /\ Len(y.vals) = Len(x.vals)
                /\ \A j \in DOMAIN y.vals :
                     Slot(f, c, y.vals[j]) = Slot(f, b, x.vals[j])
                /\ x.use # "elsewhere" /\ y.use # "elsewhere"
  <2> DEFINE x == Steps(f, b)[k]
             y == Steps(f, c)[k]
  <2>1. x \in Instructions /\ y \in Instructions
    BY <1>1, <1>2
  <2>2. x.vals \in Seq(Nat \X Nat) /\ y.vals \in Seq(Nat \X Nat)
    BY <2>1 DEF Instructions
  <2>3. /\ ~IsPhi(x) /\ ~IsPhi(y)
        /\ x.op = y.op /\ Len(x.vals) = Len(y.vals)
        /\ \A j \in DOMAIN x.vals :
             Slot(f, b, x.vals[j]) = Slot(f, c, y.vals[j])
        /\ x.use # "elsewhere" /\ y.use # "elsewhere"
    BY <1>2 DEF SameSteps
  <2> HIDE DEF x, y
  <2>4. DOMAIN x.vals = DOMAIN y.vals
    BY <2>2, <2>3
  <2>5. \A j \in DOMAIN y.vals : Slot(f, c, y.vals[j]) = Slot(f, b, x.vals[j])
    BY <2>3, <2>4
  <2> QED
    BY <2>3, <2>5 DEF x, y
<1> QED
  BY <1>2, <1>3 DEF SameSteps

LEMMA SameStepsTransitive ==
  ASSUME NEW f, Typed(f),
         NEW a \in BlocksOf(f), NEW b \in BlocksOf(f), NEW c \in BlocksOf(f),
         SameSteps(f, a, b), SameSteps(f, b, c)
  PROVE  SameSteps(f, a, c)
<1>1. /\ Steps(f, a) \in Seq(Instructions) /\ Steps(f, b) \in Seq(Instructions)
      /\ Steps(f, c) \in Seq(Instructions)
  BY BodyTyped
<1>2. /\ Len(Steps(f, a)) = Len(Steps(f, b)) /\ DOMAIN Steps(f, a) = DOMAIN Steps(f, b)
      /\ Len(Steps(f, b)) = Len(Steps(f, c)) /\ DOMAIN Steps(f, b) = DOMAIN Steps(f, c)
  BY <1>1 DEF SameSteps
<1>3. ASSUME NEW k \in DOMAIN Steps(f, a)
      PROVE  LET x == Steps(f, a)[k]
                 z == Steps(f, c)[k]
             IN /\ ~IsPhi(x) /\ ~IsPhi(z)
                /\ x.op = z.op /\ Len(x.vals) = Len(z.vals)
                /\ \A j \in DOMAIN x.vals :
                     Slot(f, a, x.vals[j]) = Slot(f, c, z.vals[j])
                /\ x.use # "elsewhere" /\ z.use # "elsewhere"
  <2> DEFINE x == Steps(f, a)[k]
             y == Steps(f, b)[k]
             z == Steps(f, c)[k]
  <2>1. x \in Instructions /\ y \in Instructions
    BY <1>1, <1>2
  <2>2. x.vals \in Seq(Nat \X Nat) /\ y.vals \in Seq(Nat \X Nat)
    BY <2>1 DEF Instructions
  <2>3. /\ ~IsPhi(x) /\ x.op = y.op /\ Len(x.vals) = Len(y.vals)
        /\ \A j \in DOMAIN x.vals :
             Slot(f, a, x.vals[j]) = Slot(f, b, y.vals[j])
        /\ x.use # "elsewhere"
    BY <1>2 DEF SameSteps
  <2>4. /\ ~IsPhi(z) /\ y.op = z.op /\ Len(y.vals) = Len(z.vals)
        /\ \A j \in DOMAIN y.vals :
             Slot(f, b, y.vals[j]) = Slot(f, c, z.vals[j])
        /\ z.use # "elsewhere"
    BY <1>2 DEF SameSteps
  <2> HIDE DEF x, y, z
  <2>5. DOMAIN x.vals = DOMAIN y.vals
    BY <2>2, <2>3
  <2>6. \A j \in DOMAIN x.vals : Slot(f, a, x.vals[j]) = Slot(f, c, z.vals[j])
    BY <2>3, <2>4, <2>5
  <2> QED
    BY <2>3, <2>4, <2>6 DEF x, z
<1> QED
  BY <1>2, <1>3 DEF SameSteps

LEMMA SamePhisSymmetric ==
  ASSUME NEW f, Typed(f), NEW b, NEW c,
         NEW s \in BlocksOf(f), NEW t \in BlocksOf(f), SamePhis(f, b, c, s, t)
  PROVE  SamePhis(f, c, b, t, s)
<1>1. PhisOf(f.body[s]) \in Seq(Instructions) /\ PhisOf(f.body[t]) \in Seq(Instructions)
  BY BodyTyped
<1>2. /\ Len(PhisOf(f.body[s])) = Len(PhisOf(f.body[t]))
      /\ DOMAIN PhisOf(f.body[s]) = DOMAIN PhisOf(f.body[t])
  BY <1>1 DEF SamePhis
<1> QED
  BY <1>2 DEF SamePhis

LEMMA SamePhisTransitive ==
  ASSUME NEW f, Typed(f), NEW a, NEW b, NEW c,
         NEW r \in BlocksOf(f), NEW s \in BlocksOf(f), NEW t \in BlocksOf(f),
         SamePhis(f, a, b, r, s), SamePhis(f, b, c, s, t)
  PROVE  SamePhis(f, a, c, r, t)
<1>1. PhisOf(f.body[r]) \in Seq(Instructions) /\ PhisOf(f.body[s]) \in Seq(Instructions)
  BY BodyTyped
<1>2. /\ Len(PhisOf(f.body[r])) = Len(PhisOf(f.body[s]))
      /\ DOMAIN PhisOf(f.body[r]) = DOMAIN PhisOf(f.body[s])
  BY <1>1 DEF SamePhis
<1> QED
  BY <1>2 DEF SamePhis

LEMMA InStepPair ==
  ASSUME NEW f, NEW R, NEW b \in BlocksOf(f), NEW c \in BlocksOf(f)
  PROVE  <<b, c>> \in InStep(f, R)
           <=> \/ b = c
               \/ /\ f.term[b] = "br" /\ f.term[c] = "br"
                  /\ SameSteps(f, b, c)
                  /\ <<f.targets[b][1], f.targets[c][1]>> \in R
                  /\ SamePhis(f, b, c, f.targets[b][1], f.targets[c][1])
BY DEF InStep

LEMMA OnlyTarget ==
  ASSUME NEW f, Typed(f), NEW b \in BlocksOf(f), f.term[b] = "br"
  PROVE  f.targets[b][1] \in BlocksOf(f) /\ DOMAIN f.targets[b] = {1}
<1>1. f.targets[b] \in Seq(BlocksOf(f)) /\ Len(f.targets[b]) = 1
  BY DEF Typed
<1> QED
  BY <1>1

LEMMA InStepEquivalence ==
  ASSUME NEW f, Typed(f), NEW R, Equivalence(f, R)
  PROVE  Equivalence(f, InStep(f, R))
<1>1. InStep(f, R) \subseteq BlocksOf(f) \X BlocksOf(f)
  BY DEF InStep
<1>2. \A b \in BlocksOf(f) : <<b, b>> \in InStep(f, R)
  BY InStepPair
<1>3. ASSUME NEW b \in BlocksOf(f), NEW c \in BlocksOf(f), <<b, c>> \in InStep(f, R)
      PROVE  <<c, b>> \in InStep(f, R)
  <2>1. CASE b = c
    BY <2>1, InStepPair
  <2>2. CASE b # c
    <3>1. /\ f.term[b] = "br" /\ f.term[c] = "br"
          /\ SameSteps(f, b, c)
          /\ <<f.targets[b][1], f.targets[c][1]>> \in R
          /\ SamePhis(f, b, c, f.targets[b][1], f.targets[c][1])
      BY <1>3, <2>2, InStepPair
    <3>2. f.targets[b][1] \in BlocksOf(f) /\ f.targets[c][1] \in BlocksOf(f)
      BY <3>1, OnlyTarget
    <3>3. <<f.targets[c][1], f.targets[b][1]>> \in R
      BY <3>1, <3>2 DEF Equivalence
    <3>4. SameSteps(f, c, b) /\ SamePhis(f, c, b, f.targets[c][1], f.targets[b][1])
      BY <3>1, <3>2, SameStepsSymmetric, SamePhisSymmetric
    <3> QED
      BY <3>1, <3>3, <3>4, InStepPair
  <2> QED
    BY <2>1, <2>2
<1>4. ASSUME NEW a \in BlocksOf(f), NEW b \in BlocksOf(f), NEW c \in BlocksOf(f),
             <<a, b>> \in InStep(f, R), <<b, c>> \in InStep(f, R)
      PROVE  <<a, c>> \in InStep(f, R)
  <2>1. CASE a = b \/ b = c
    BY <1>4, <2>1
  <2>2. CASE a # b /\ b # c
    <3>1. /\ f.term[a] = "br" /\ f.term[b] = "br"
          /\ SameSteps(f, a, b)
          /\ <<f.targets[a][1], f.targets[b][1]>> \in R
          /\ SamePhis(f, a, b, f.targets[a][1], f.targets[b][1])
      BY <1>4, <2>2, InStepPair
    <3>2. /\ f.term[c] = "br"
          /\ SameSteps(f, b, c)
          /\ <<f.targets[b][1], f.targets[c][1]>> \in R
          /\ SamePhis(f, b, c, f.targets[b][1], f.targets[c][1])
      BY <1>4, <2>2, InStepPair
    <3>3. /\ f.targets[a][1] \in BlocksOf(f) /\ f.targets[b][1] \in BlocksOf(f)
          /\ f.targets[c][1] \in BlocksOf(f)
      BY <3>1, <3>2, OnlyTarget
    <3>4. <<f.targets[a][1], f.targets[c][1]>> \in R
      BY <3>1, <3>2, <3>3 DEF Equivalence
    <3>5. SameSteps(f, a, c) /\ SamePhis(f, a, c, f.targets[a][1], f.targets[c][1])
      BY <3>1, <3>2, <3>3, SameStepsTransitive, SamePhisTransitive
    <3> QED
      BY <3>1, <3>2, <3>4, <3>5, InStepPair
  <2> QED
    BY <2>1, <2>2
<1> QED
  BY <1>1, <1>2, <1>3, <1>4 DEF Equivalence

LEMMA SameForEquivalence ==
  ASSUME NEW f, Typed(f)
  PROVE  \A n \in Nat : Equivalence(f, SameFor(f)[n])
<1> DEFINE S == {n \in Nat : Equivalence(f, SameFor(f)[n])}
<1>1. 0 \in S
  BY SameForStep DEF Equivalence
<1>2. ASSUME NEW n \in Nat, n \in S PROVE n + 1 \in S
  <2>1. Equivalence(f, InStep(f, SameFor(f)[n]))
    BY <1>2, InStepEquivalence
  <2>2. SameFor(f)[n + 1] = InStep(f, SameFor(f)[n])
    BY SameForStep
  <2> QED
    BY <2>1, <2>2
<1> HIDE DEF S
<1>3. Nat \subseteq S
  BY <1>1, <1>2, NatInd
<1> QED
  BY <1>3 DEF S
(***************************************************************************)
(* What the tests of mergeDuplicatedBlock say of two blocks that begin     *)
(* with no phi.                                                            *)
(***************************************************************************)
LEMMA FunctionSound ==
  ASSUME NEW f \in Functions
  PROVE  /\ Typed(f) /\ PhisSound(f) /\ OperandsExist(f)
         /\ \A c \in BlocksOf(f) : \A k \in DOMAIN f.body[c] : UseSound(f, c, k)
BY FunctionsAssumption

NonDbgPlaces(f, b) == {k \in DOMAIN f.body[b] : f.body[b][k].op # "dbg"}
PhiPlaces(f, b) == {k \in DOMAIN f.body[b] : IsPhi(f.body[b][k])}

(* The number of an instruction among the steps is how many there are up   *)
(* to it.                                                                  *)
LEMMA SlotOfPlace ==
  ASSUME NEW f \in Functions, NEW b \in BlocksOf(f),
         NEW m \in NonDbgPlaces(f, b), NEW k \in Nat,
         Cardinality(Below(NonDbgPlaces(f, b), m)) = k - 1
  PROVE  Slot(f, b, <<b, m>>) = <<"own", k>>
<1> DEFINE S == NonDbgPlaces(f, b)
<1>1. f.body[b] \in Seq(Instructions)
  BY FunctionSound, BodyTyped
<1>2. Len(f.body[b]) \in Nat /\ S \in SUBSET (1 .. Len(f.body[b])) /\ m \in 1 .. Len(f.body[b])
  BY <1>1 DEF NonDbgPlaces
<1>3. IsFiniteSet(Below(S, m)) /\ m \notin Below(S, m)
  BY <1>2, BelowFinite DEF Below
<1>4. {i \in 1 .. m : f.body[b][i].op # "dbg"} = Below(S, m) \cup {m}
  <2>1. ASSUME NEW i \in {j \in 1 .. m : f.body[b][j].op # "dbg"}
        PROVE  i \in Below(S, m) \cup {m}
    <3>1. i \in 1 .. Len(f.body[b]) /\ i \in DOMAIN f.body[b] /\ (i = m \/ i < m)
      BY <1>1, <1>2
    <3> QED
      BY <3>1 DEF Below, NonDbgPlaces
  <2>2. ASSUME NEW i \in Below(S, m) \cup {m}
        PROVE  i \in 1 .. m /\ f.body[b][i].op # "dbg"
    <3>1. i \in S /\ (i = m \/ i < m)
      BY <2>2 DEF Below
    <3>2. i \in 1 .. m
      BY <1>2, <3>1
    <3> QED
      BY <3>1, <3>2 DEF NonDbgPlaces
  <2> QED
    BY <2>1, <2>2
<1>5. Cardinality(Below(S, m) \cup {m}) = Cardinality(Below(S, m)) + 1
  BY <1>3, FS_AddElement
<1>6. Cardinality({i \in 1 .. m : f.body[b][i].op # "dbg"}) = k
  BY <1>4, <1>5
<1> QED
  BY <1>6 DEF Slot

LEMMA StepPlace ==
  ASSUME NEW f \in Functions, NEW b \in BlocksOf(f), NEW k \in DOMAIN Steps(f, b)
  PROVE  \E m \in NonDbgPlaces(f, b) :
           Steps(f, b)[k] = f.body[b][m] /\ Slot(f, b, <<b, m>>) = <<"own", k>>
<1> DEFINE S == NonDbgPlaces(f, b)
           m == Nth(S, k)
<1>1. f.body[b] \in Seq(Instructions)
  BY FunctionSound, BodyTyped
<1>2. Len(f.body[b]) \in Nat /\ S \in SUBSET (1 .. Len(f.body[b])) /\ S \in SUBSET DOMAIN f.body[b]
  BY <1>1 DEF NonDbgPlaces
<1>3. Steps(f, b) = At(f.body[b], S)
  BY DEF Steps, NonDbg, NonDbgPlaces
<1>4. k \in 1 .. Cardinality(S) /\ Cardinality(S) \in Nat
  BY <1>1, <1>2, <1>3, AtMembers
<1>5. m \in S /\ Cardinality(Below(S, m)) = k - 1
  BY <1>2, <1>4, NthPlace
<1>6. Steps(f, b)[k] = f.body[b][m]
  BY <1>3, <1>4 DEF At
<1> HIDE DEF m
<1>7. Slot(f, b, <<b, m>>) = <<"own", k>>
  BY <1>4, <1>5, SlotOfPlace
<1> QED
  BY <1>5, <1>6, <1>7

LEMMA PlaceStep ==
  ASSUME NEW f \in Functions, NEW b \in BlocksOf(f), NEW m \in NonDbgPlaces(f, b)
  PROVE  \E k \in DOMAIN Steps(f, b) :
           Steps(f, b)[k] = f.body[b][m] /\ Slot(f, b, <<b, m>>) = <<"own", k>>
<1> DEFINE S == NonDbgPlaces(f, b)
<1>1. f.body[b] \in Seq(Instructions)
  BY FunctionSound, BodyTyped
<1>2. Len(f.body[b]) \in Nat /\ S \in SUBSET (1 .. Len(f.body[b])) /\ S \in SUBSET DOMAIN f.body[b]
  BY <1>1 DEF NonDbgPlaces
<1>3. Steps(f, b) = At(f.body[b], S)
  BY DEF Steps, NonDbg, NonDbgPlaces
<1>4. PICK k \in 1 .. Cardinality(S) : Nth(S, k) = m
  BY <1>2, PlaceNth
<1>5. Cardinality(S) \in Nat /\ DOMAIN Steps(f, b) = 1 .. Cardinality(S)
  BY <1>1, <1>2, <1>3, AtMembers
<1>6. Cardinality(Below(S, m)) = k - 1
  BY <1>2, <1>4, NthPlace
<1>7. Steps(f, b)[k] = f.body[b][m]
  BY <1>3, <1>4 DEF At
<1>8. Slot(f, b, <<b, m>>) = <<"own", k>>
  BY <1>4, <1>5, <1>6, SlotOfPlace
<1> QED
  BY <1>4, <1>5, <1>7, <1>8

LEMMA PhiPlace ==
  ASSUME NEW f \in Functions, NEW b \in BlocksOf(f)
  PROVE  /\ \A k \in DOMAIN PhisOf(f.body[b]) :
              \E m \in PhiPlaces(f, b) : PhisOf(f.body[b])[k] = f.body[b][m]
         /\ \A m \in PhiPlaces(f, b) :
              \E k \in DOMAIN PhisOf(f.body[b]) : PhisOf(f.body[b])[k] = f.body[b][m]
         /\ PhisOf(f.body[b]) = <<>> <=> PhiPlaces(f, b) = {}
<1> DEFINE S == PhiPlaces(f, b)
           phis == PhisOf(f.body[b])
<1>1. f.body[b] \in Seq(Instructions) /\ S \in SUBSET DOMAIN f.body[b]
  BY FunctionSound, BodyTyped DEF PhiPlaces
<1>2. phis = At(f.body[b], S)
  BY DEF PhisOf, PhiPlaces
<1>3. phis \in Seq(Instructions) /\ ToSet(phis) = {f.body[b][m] : m \in S}
  BY <1>1, <1>2, AtMembers
<1>4. ToSet(phis) = {phis[k] : k \in DOMAIN phis}
  BY DEF ToSet
<1> HIDE DEF phis, S
<1>5. ASSUME NEW k \in DOMAIN phis PROVE \E m \in S : phis[k] = f.body[b][m]
  <2>1. phis[k] \in {f.body[b][m] : m \in S}
    BY <1>3, <1>4
  <2> QED
    BY <2>1
<1>6. ASSUME NEW m \in S PROVE \E k \in DOMAIN phis : phis[k] = f.body[b][m]
  <2>1. f.body[b][m] \in {phis[k] : k \in DOMAIN phis}
    BY <1>3, <1>4
  <2> QED
    BY <2>1
<1>7. phis = <<>> <=> DOMAIN phis = {}
  BY <1>3
<1> QED
  BY <1>5, <1>6, <1>7 DEF phis, S

(* Two blocks as SameInstructions leaves them.                             *)
Matched(f, b, c) ==
  /\ Len(Steps(f, b)) = Len(Steps(f, c))
  /\ \A k \in DOMAIN Steps(f, b) :
       LET x == Steps(f, b)[k]
           y == Steps(f, c)[k]
       IN /\ x.op = y.op /\ x.vals = y.vals
          /\ \/ x.use = "none" /\ y.use = "none"
             \/ x.use \in {"local", "phi"} /\ y.use \in {"local", "phi"}

LEMMA MatchedDomain ==
  ASSUME NEW f \in Functions, NEW b \in BlocksOf(f), NEW c \in BlocksOf(f),
         Matched(f, b, c)
  PROVE  DOMAIN Steps(f, b) = DOMAIN Steps(f, c)
<1>1. Steps(f, b) \in Seq(Instructions) /\ Steps(f, c) \in Seq(Instructions)
  BY FunctionSound, BodyTyped
<1> QED
  BY <1>1 DEF Matched

LEMMA MatchedSymmetric ==
  ASSUME NEW f \in Functions, NEW b \in BlocksOf(f), NEW c \in BlocksOf(f),
         Matched(f, b, c)
  PROVE  Matched(f, c, b)
BY MatchedDomain DEF Matched

(* Phis are steps, and a step that matches one is one.                     *)
LEMMA MatchedPhis ==
  ASSUME NEW f \in Functions, NEW b \in BlocksOf(f), NEW c \in BlocksOf(f),
         Matched(f, b, c), PhisOf(f.body[b]) = <<>>
  PROVE  PhisOf(f.body[c]) = <<>>
<1>1. SUFFICES ASSUME NEW m \in PhiPlaces(f, c) PROVE FALSE
  BY PhiPlace
<1>2. m \in DOMAIN f.body[c] /\ IsPhi(f.body[c][m]) /\ f.body[c][m].op = "phi"
  BY FunctionSound DEF PhiPlaces, PhisSound, ToSet
<1>3. m \in NonDbgPlaces(f, c)
  BY <1>2 DEF NonDbgPlaces
<1>4. PICK k \in DOMAIN Steps(f, c) : Steps(f, c)[k] = f.body[c][m]
  BY <1>3, PlaceStep
<1>5. k \in DOMAIN Steps(f, b)
  BY <1>4, MatchedDomain
<1>6. PICK q \in NonDbgPlaces(f, b) : Steps(f, b)[k] = f.body[b][q]
  BY <1>5, StepPlace
<1>7. Steps(f, b)[k].op = Steps(f, c)[k].op
  BY <1>5 DEF Matched
<1>8. f.body[b][q].op = "phi" /\ q \in DOMAIN f.body[b]
  BY <1>2, <1>4, <1>6, <1>7 DEF NonDbgPlaces
<1>9. IsPhi(f.body[b][q])
  BY <1>8, FunctionSound DEF PhisSound, ToSet
<1>10. q \in PhiPlaces(f, b)
  BY <1>8, <1>9 DEF PhiPlaces
<1> QED
  BY <1>10, PhiPlace

LEMMA InUsers ==
  ASSUME NEW f, NEW v
  PROVE  /\ \A b \in BlocksOf(f) : \A m \in DOMAIN f.body[b] :
              \A j \in DOMAIN f.body[b][m].vals :
                f.body[b][m].vals[j] = v => <<b, m, j>> \in UsersOf(f, v)
         /\ \A u \in UsersOf(f, v) :
              /\ u[1] \in BlocksOf(f) /\ u[2] \in DOMAIN f.body[u[1]]
              /\ u[3] \in DOMAIN f.body[u[1]][u[2]].vals
              /\ f.body[u[1]][u[2]].vals[u[3]] = v
              /\ u = <<u[1], u[2], u[3]>>
BY DEF UsersOf

(* A result of a matched block has one use at most.                        *)
LEMMA OwnUsedOnce ==
  ASSUME NEW f \in Functions, NEW b \in BlocksOf(f), NEW c \in BlocksOf(f),
         Matched(f, b, c) \/ Matched(f, c, b),
         NEW m \in DOMAIN f.body[b],
         NEW u \in UsersOf(f, <<b, m>>), NEW w \in UsersOf(f, <<b, m>>)
  PROVE  u = w
<1>1. UseSound(f, b, m)
  BY FunctionSound
<1>2. f.body[b][m].op # "dbg" /\ f.body[b][m].use # "none"
  BY <1>1 DEF UseSound
<1>3. m \in NonDbgPlaces(f, b)
  BY <1>2 DEF NonDbgPlaces
<1>4. PICK k \in DOMAIN Steps(f, b) : Steps(f, b)[k] = f.body[b][m]
  BY <1>3, PlaceStep
<1>5. f.body[b][m].use \in {"none", "local", "phi"}
  <2>1. CASE Matched(f, b, c)
    BY <1>4, <2>1 DEF Matched
  <2>2. CASE Matched(f, c, b)
    <3>1. k \in DOMAIN Steps(f, c)
      BY <1>4, <2>2, MatchedDomain
    <3> QED
      BY <1>4, <2>2, <3>1 DEF Matched
  <2> QED
    BY <2>1, <2>2
<1>6. PICK x \in UsersOf(f, <<b, m>>) : UsersOf(f, <<b, m>>) = {x}
  BY <1>1, <1>2, <1>5 DEF UseSound
<1> QED
  BY <1>6

(* An operand that is a result of the block itself.                        *)
LEMMA OwnOperand ==
  ASSUME NEW f \in Functions, NEW b \in BlocksOf(f), NEW m \in DOMAIN f.body[b],
         NEW j \in DOMAIN f.body[b][m].vals,
         NEW c \in BlocksOf(f), f.body[b][m].vals[j][1] = c
  PROVE  /\ f.body[b][m].vals[j] = <<c, f.body[b][m].vals[j][2]>>
         /\ f.body[b][m].vals[j][2] \in DOMAIN f.body[c]
<1> DEFINE v == f.body[b][m].vals[j]
<1>1. f.body[b][m] \in Instructions /\ f.body[b][m] \in ToSet(f.body[b])
  BY FunctionSound, BodyTyped DEF ToSet
<1>2. f.body[b][m].vals \in Seq(Nat \X Nat)
  BY <1>1 DEF Instructions
<1>3. v \in Nat \X Nat /\ v \in ToSet(f.body[b][m].vals)
  BY <1>2 DEF ToSet
<1>4. c \in Nat \ {0}
  BY FunctionSound DEF Typed, BlocksOf
<1>5. v[2] \in DOMAIN f.body[v[1]]
  BY <1>1, <1>3, <1>4, FunctionSound DEF OperandsExist
<1> QED
  BY <1>3, <1>5
LEMMA MatchedSameSteps ==
  ASSUME NEW f \in Functions, NEW b \in BlocksOf(f), NEW c \in BlocksOf(f),
         b # c, Matched(f, b, c), PhisOf(f.body[b]) = <<>>
  PROVE  SameSteps(f, b, c)
<1>1. PhisOf(f.body[c]) = <<>>
  BY MatchedPhis
<1>2. ASSUME NEW k \in DOMAIN Steps(f, b)
      PROVE  LET x == Steps(f, b)[k]
                 y == Steps(f, c)[k]
             IN /\ ~IsPhi(x) /\ ~IsPhi(y)
                /\ x.op = y.op /\ Len(x.vals) = Len(y.vals)
                /\ \A j \in DOMAIN x.vals :
                     Slot(f, b, x.vals[j]) = Slot(f, c, y.vals[j])
                /\ x.use # "elsewhere" /\ y.use # "elsewhere"
  <2> DEFINE x == Steps(f, b)[k]
             y == Steps(f, c)[k]
  <2>1. /\ x.op = y.op /\ x.vals = y.vals
        /\ x.use # "elsewhere" /\ y.use # "elsewhere"
    BY DEF Matched
  <2>2. PICK m \in NonDbgPlaces(f, b) : x = f.body[b][m]
    BY StepPlace
  <2>3. PICK q \in NonDbgPlaces(f, c) : y = f.body[c][q]
    BY MatchedDomain, StepPlace
  <2> HIDE DEF x, y
  <2>4. m \in DOMAIN f.body[b] /\ q \in DOMAIN f.body[c]
    BY DEF NonDbgPlaces
  <2>5. ~IsPhi(x) /\ ~IsPhi(y)
    <3>1. PhiPlaces(f, b) = {} /\ PhiPlaces(f, c) = {}
      BY <1>1, PhiPlace
    <3> QED
      BY <2>2, <2>3, <2>4, <3>1 DEF PhiPlaces
  <2>6. ASSUME NEW j \in DOMAIN x.vals
        PROVE  Slot(f, b, x.vals[j]) = Slot(f, c, y.vals[j])
    <3> DEFINE v == x.vals[j]
    <3>1. y.vals[j] = v /\ j \in DOMAIN y.vals
      BY <2>1
    <3>2. <<b, m, j>> \in UsersOf(f, v) /\ <<c, q, j>> \in UsersOf(f, v)
      BY <2>2, <2>3, <2>4, <3>1, InUsers
    <3>3. ASSUME NEW d \in {b, c}, v[1] = d PROVE FALSE
      <4>1. v = <<d, v[2]>> /\ v[2] \in DOMAIN f.body[d] /\ d \in BlocksOf(f)
        BY <2>2, <2>4, <3>3, OwnOperand
      <4>2. \A u, w \in UsersOf(f, <<d, v[2]>>) : u = w
        BY <4>1, OwnUsedOnce
      <4>3. <<b, m, j>> = <<c, q, j>>
        BY <3>2, <4>1, <4>2
      <4> QED
        BY <4>3
    <3>4. v[1] # b /\ v[1] # c
      BY <3>3
    <3> QED
      BY <3>1, <3>4 DEF Slot
  <2>7. Len(x.vals) = Len(y.vals)
    BY <2>1
  <2> QED
    BY <2>1, <2>5, <2>6, <2>7 DEF x, y
<1> QED
  BY <1>2 DEF SameSteps, Matched

(* The value that a phi holds for a predecessor, and its use there.        *)
LEMMA IncomingOf ==
  ASSUME NEW f \in Functions, NEW b \in BlocksOf(f), f.term[b] = "br",
         NEW t \in BlocksOf(f), f.targets[b][1] = t, NEW m \in PhiPlaces(f, t)
  PROVE  LET phi == f.body[t][m]
         IN \E j \in DOMAIN phi.preds :
              /\ phi.preds[j] = b
              /\ phi.vals[j] = IncomingValue(phi, b)
              /\ j \in DOMAIN phi.vals
              /\ <<t, m, j>> \in UsersOf(f, IncomingValue(phi, b))
<1> DEFINE phi == f.body[t][m]
           P   == {k \in DOMAIN phi.preds : phi.preds[k] = b}
<1>1. m \in DOMAIN f.body[t] /\ IsPhi(phi)
  BY DEF PhiPlaces
<1>2. phi \in Instructions /\ phi \in ToSet(f.body[t])
  BY <1>1, FunctionSound, BodyTyped DEF ToSet
<1>3. /\ ToSet(phi.preds) = {u[1] : u \in UsesOf(f.targets, t)}
      /\ Len(phi.vals) = Len(phi.preds)
  BY <1>1, <1>2, FunctionSound DEF PhisSound
<1>4. <<b, 1>> \in UsesOf(f.targets, t)
  <2>1. Typed(f)
    BY FunctionSound
  <2>2. f.targets \in [BlocksOf(f) -> Seq(BlocksOf(f))]
    BY <2>1 DEF Typed
  <2>3. DOMAIN f.targets[b] = {1}
    BY <2>1, OnlyTarget
  <2>4. b \in DOMAIN f.targets /\ 1 \in DOMAIN f.targets[b]
    BY <2>2, <2>3
  <2> QED
    BY <2>4, InUses
<1>5. b \in ToSet(phi.preds)
  <2>1. <<b, 1>>[1] = b
    OBVIOUS
  <2> QED
    BY <1>3, <1>4, <2>1
<1>6. phi.preds \in Seq(Nat) /\ phi.vals \in Seq(Nat \X Nat)
  BY <1>2 DEF Instructions
<1> HIDE DEF phi
<1>7. P \in SUBSET Nat /\ P # {}
  BY <1>5, <1>6 DEF ToSet
<1>8. Min(P) \in P
  BY <1>7, MinPlace
<1>9. IncomingValue(phi, b) = phi.vals[Min(P)]
  BY DEF IncomingValue
<1>10. DOMAIN phi.vals = DOMAIN phi.preds
  BY <1>3, <1>6
<1> HIDE DEF P
<1>11. /\ Min(P) \in DOMAIN phi.preds /\ phi.preds[Min(P)] = b
       /\ Min(P) \in DOMAIN phi.vals
  BY <1>8, <1>10 DEF P
<1>12. <<t, m, Min(P)>> \in UsersOf(f, IncomingValue(phi, b))
  BY <1>1, <1>9, <1>11, InUsers DEF phi
<1> QED
  BY <1>9, <1>11, <1>12 DEF phi

(* Of two blocks that go on to the same phi, each with a value of its own, *)
(* the values are the same step of either.                                 *)
LEMMA OwnValuesAlike ==
  ASSUME NEW f \in Functions, NEW b \in BlocksOf(f), NEW c \in BlocksOf(f),
         b # c, Matched(f, b, c), PhisOf(f.body[b]) = <<>>,
         f.term[b] = "br", f.term[c] = "br",
         NEW t \in BlocksOf(f), f.targets[b][1] = t, f.targets[c][1] = t,
         NEW r \in PhiPlaces(f, t),
         \A i \in PhiPlaces(f, t) : f.body[t][i] = f.body[t][r],
         IncomingValue(f.body[t][r], b)[1] = b,
         IncomingValue(f.body[t][r], c)[1] = c
  PROVE  Slot(f, b, IncomingValue(f.body[t][r], b))
           = Slot(f, c, IncomingValue(f.body[t][r], c))
<1> DEFINE phi == f.body[t][r]
           v   == IncomingValue(phi, b)
           w   == IncomingValue(phi, c)
<1>1. PICK jb \in DOMAIN phi.preds : /\ phi.preds[jb] = b /\ phi.vals[jb] = v
                                     /\ jb \in DOMAIN phi.vals
                                     /\ <<t, r, jb>> \in UsersOf(f, v)
  BY IncomingOf
<1>2. PICK jc \in DOMAIN phi.preds : /\ phi.preds[jc] = c /\ phi.vals[jc] = w
                                     /\ jc \in DOMAIN phi.vals
                                     /\ <<t, r, jc>> \in UsersOf(f, w)
  BY IncomingOf
<1>3. r \in DOMAIN f.body[t]
  BY DEF PhiPlaces
<1>4. v = <<b, v[2]>> /\ v[2] \in DOMAIN f.body[b]
  <2>1. f.body[t][r].vals[jb] = v /\ jb \in DOMAIN f.body[t][r].vals
    BY <1>1
  <2>2. v[1] = b
    OBVIOUS
  <2> HIDE DEF v, w, phi
  <2>3. f.body[t][r].vals[jb][1] = b
    BY <2>1, <2>2
  <2> QED
    BY <1>3, <2>1, <2>3, OwnOperand
<1>5. w = <<c, w[2]>> /\ w[2] \in DOMAIN f.body[c]
  <2>1. f.body[t][r].vals[jc] = w /\ jc \in DOMAIN f.body[t][r].vals
    BY <1>2
  <2>2. w[1] = c
    OBVIOUS
  <2> HIDE DEF v, w, phi
  <2>3. f.body[t][r].vals[jc][1] = c
    BY <2>1, <2>2
  <2> QED
    BY <1>3, <2>1, <2>3, OwnOperand
<1>6. t # b
  BY PhiPlace
<1> DEFINE m == v[2]
<1>7. UseSound(f, b, m)
  BY <1>4, FunctionSound
<1> HIDE DEF v, w, phi
<1>8. <<t, r, jb>> \in UsersOf(f, <<b, m>>)
  BY <1>1, <1>4
<1>9. f.body[b][m].op # "dbg" /\ f.body[b][m].use # "none"
  BY <1>7, <1>8 DEF UseSound
<1>10. m \in NonDbgPlaces(f, b)
  BY <1>4, <1>9 DEF NonDbgPlaces
<1>11. PICK k \in DOMAIN Steps(f, b) : /\ Steps(f, b)[k] = f.body[b][m]
                                       /\ Slot(f, b, <<b, m>>) = <<"own", k>>
  BY <1>10, PlaceStep
<1>12. k \in DOMAIN Steps(f, c) /\ Steps(f, c)[k].use \in {"local", "phi"}
  BY <1>9, <1>11, MatchedDomain DEF Matched
<1>13. PICK q \in NonDbgPlaces(f, c) : /\ Steps(f, c)[k] = f.body[c][q]
                                       /\ Slot(f, c, <<c, q>>) = <<"own", k>>
  BY <1>12, StepPlace
<1>14. q \in DOMAIN f.body[c] /\ f.body[c][q].use \in {"local", "phi"}
  BY <1>12, <1>13 DEF NonDbgPlaces
<1>15. UseSound(f, c, q)
  BY <1>14, FunctionSound
<1>16. PICK u \in UsersOf(f, <<c, q>>) : UsersOf(f, <<c, q>>) = {u}
  BY <1>14, <1>15 DEF UseSound
<1> DEFINE user == f.body[u[1]][u[2]]
<1>17. /\ u[1] \in BlocksOf(f) /\ u[2] \in DOMAIN f.body[u[1]]
       /\ u[3] \in DOMAIN user.vals /\ user.vals[u[3]] = <<c, q>>
       /\ u = <<u[1], u[2], u[3]>>
  <2> SUFFICES ASSUME NEW x, x \in UsersOf(f, <<c, q>>)
               PROVE  /\ x[1] \in BlocksOf(f) /\ x[2] \in DOMAIN f.body[x[1]]
                      /\ x[3] \in DOMAIN f.body[x[1]][x[2]].vals
                      /\ f.body[x[1]][x[2]].vals[x[3]] = <<c, q>>
                      /\ x = <<x[1], x[2], x[3]>>
    BY <1>16
  <2> DEFINE res == <<c, q>>
  <2>1. x \in UsersOf(f, res)
    OBVIOUS
  <2> HIDE DEF res
  <2>2. /\ x[1] \in BlocksOf(f) /\ x[2] \in DOMAIN f.body[x[1]]
        /\ x[3] \in DOMAIN f.body[x[1]][x[2]].vals
        /\ f.body[x[1]][x[2]].vals[x[3]] = res
        /\ x = <<x[1], x[2], x[3]>>
    BY <2>1, InUsers
  <2> QED
    BY <2>2 DEF res
<1>18. f.body[c][q].use # "local"
  <2> SUFFICES ASSUME f.body[c][q].use = "local" PROVE FALSE
    OBVIOUS
  <2>1. u[1] = c
    BY <1>15, <1>16 DEF UseSound
  <2>2. u[2] \in DOMAIN f.body[c] /\ user = f.body[c][u[2]]
    BY <1>17, <2>1
  <2> HIDE DEF user
  <2>3. user \in ToSet(f.body[c])
    BY <2>2 DEF ToSet
  <2>4. user.op # "dbg"
    BY <1>17, <2>3, FunctionSound, SMTT(30) DEF OperandsExist
  <2>5. u[2] \in NonDbgPlaces(f, c)
    BY <2>2, <2>4 DEF NonDbgPlaces
  <2>6. PICK l \in DOMAIN Steps(f, c) : Steps(f, c)[l] = f.body[c][u[2]]
    BY <2>5, PlaceStep
  <2>7. l \in DOMAIN Steps(f, b) /\ Steps(f, b)[l].vals = Steps(f, c)[l].vals
    BY <2>6, MatchedDomain DEF Matched
  <2>8. PICK p \in NonDbgPlaces(f, b) : Steps(f, b)[l] = f.body[b][p]
    BY <2>7, StepPlace
  <2>9. f.body[b][p].vals = user.vals /\ p \in DOMAIN f.body[b]
    BY <2>2, <2>6, <2>7, <2>8 DEF NonDbgPlaces
  <2>10. <<b, p, u[3]>> \in UsersOf(f, <<c, q>>)
    BY <1>17, <2>9, InUsers
  <2>11. u[1] = b
    <3>1. <<b, p, u[3]>> = u
      BY <1>16, <2>10
    <3> QED
      BY <3>1
  <2> QED
    BY <2>1, <2>11
<1>19. IsPhi(user) /\ u[1] = t /\ user.preds[u[3]] = c
  BY <1>14, <1>15, <1>16, <1>18 DEF UseSound
<1>20. u[2] \in PhiPlaces(f, t) /\ user = phi
  <2>1. u[2] \in PhiPlaces(f, t)
    BY <1>17, <1>19 DEF PhiPlaces
  <2> QED
    BY <1>19, <2>1 DEF phi
<1>21. w = <<c, q>>
  <2>1. phi \in Instructions /\ phi \in ToSet(f.body[t]) /\ IsPhi(phi)
    BY <1>3, <1>19, <1>20, FunctionSound, BodyTyped DEF phi, ToSet
  <2>2. phi.preds \in Seq(Nat) /\ phi.vals \in Seq(Nat \X Nat)
    BY <2>1 DEF Instructions
  <2>3. /\ Len(phi.vals) = Len(phi.preds)
        /\ \A i, j \in DOMAIN phi.preds :
             phi.preds[i] = phi.preds[j] => phi.vals[i] = phi.vals[j]
    BY <2>1, FunctionSound DEF PhisSound
  <2>4. u[3] \in DOMAIN phi.preds
    BY <1>17, <1>20, <2>2, <2>3
  <2>5. phi.vals[u[3]] = phi.vals[jc]
    BY <1>2, <1>19, <1>20, <2>3, <2>4
  <2> QED
    BY <1>2, <1>17, <1>20, <2>5
<1>22. Slot(f, b, v) = Slot(f, c, w)
  BY <1>4, <1>11, <1>13, <1>21
<1> QED
  BY <1>22 DEF v, w, phi

LEMMA MatchedSamePhis ==
  ASSUME NEW f \in Functions, NEW b \in BlocksOf(f), NEW c \in BlocksOf(f),
         b # c, Matched(f, b, c), PhisOf(f.body[b]) = <<>>,
         f.term[b] = "br", f.term[c] = "br",
         NEW t \in BlocksOf(f), f.targets[b][1] = t, f.targets[c][1] = t,
         Len(PhisOf(f.body[t])) <= 1,
         \A phi \in ToSet(PhisOf(f.body[t])) :
           LET v == IncomingValue(phi, b)
               w == IncomingValue(phi, c)
           IN v = w \/ (v[1] = b /\ w[1] = c)
  PROVE  SamePhis(f, b, c, t, t)
<1>1. SUFFICES ASSUME NEW k \in DOMAIN PhisOf(f.body[t])
               PROVE  Slot(f, b, IncomingValue(PhisOf(f.body[t])[k], b))
                        = Slot(f, c, IncomingValue(PhisOf(f.body[t])[k], c))
  BY DEF SamePhis
<1>2. PICK r \in PhiPlaces(f, t) : PhisOf(f.body[t])[k] = f.body[t][r]
  BY PhiPlace
<1> DEFINE phi == f.body[t][r]
           v   == IncomingValue(phi, b)
           w   == IncomingValue(phi, c)
<1>3. v = w \/ (v[1] = b /\ w[1] = c)
  BY <1>2 DEF ToSet
<1>4. CASE v[1] = b /\ w[1] = c
  <2>1. PhisOf(f.body[t]) \in Seq(Instructions)
    BY FunctionSound, BodyTyped
  <2>2. \A l \in DOMAIN PhisOf(f.body[t]) : l = k
    BY <2>1
  <2>3. \A i \in PhiPlaces(f, t) : f.body[t][i] = f.body[t][r]
    BY <1>2, <2>2, PhiPlace
  <2>4. Slot(f, b, v) = Slot(f, c, w)
    BY <1>4, <2>3, OwnValuesAlike
  <2> QED
    BY <1>2, <2>4
<1>5. CASE v = w
  <2>1. PICK jb \in DOMAIN phi.preds : /\ phi.preds[jb] = b /\ phi.vals[jb] = v
                                       /\ jb \in DOMAIN phi.vals
                                       /\ <<t, r, jb>> \in UsersOf(f, v)
    BY IncomingOf
  <2>2. PICK jc \in DOMAIN phi.preds : /\ phi.preds[jc] = c
                                       /\ <<t, r, jc>> \in UsersOf(f, w)
    BY IncomingOf
  <2>3. r \in DOMAIN f.body[t]
    BY DEF PhiPlaces
  <2> HIDE DEF v, w
  <2>4. ASSUME NEW d \in {b, c}, v[1] = d PROVE FALSE
    <3>1. v = <<d, v[2]>> /\ v[2] \in DOMAIN f.body[d] /\ d \in BlocksOf(f)
      <4>1. d \in BlocksOf(f)
        OBVIOUS
      <4>2. f.body[t][r].vals[jb] = v /\ jb \in DOMAIN f.body[t][r].vals
        BY <2>1
      <4>3. f.body[t][r].vals[jb][1] = d
        BY <2>4, <4>2
      <4> QED
        BY <2>3, <4>1, <4>2, <4>3, OwnOperand
    <3>2. \A x, y \in UsersOf(f, <<d, v[2]>>) : x = y
      BY <3>1, OwnUsedOnce
    <3>3. <<t, r, jb>> = <<t, r, jc>>
      BY <1>5, <2>1, <2>2, <3>1, <3>2
    <3> QED
      BY <2>1, <2>2, <3>3
  <2>5. Slot(f, b, v) = Slot(f, c, w)
    BY <1>5, <2>4 DEF Slot
  <2> QED
    BY <1>2, <2>5 DEF v, w
<1> QED
  BY <1>3, <1>4, <1>5
(***************************************************************************)
(* The inductive invariant: every edge goes to a block similar to the one  *)
(* it went to first.                                                       *)
(***************************************************************************)
Similar(was, now) ==
  /\ PhisOf(fn.body[was]) = <<>> <=> PhisOf(fn.body[now]) = <<>>
  /\ PhisOf(fn.body[was]) = <<>> => \A n \in Nat : <<was, now>> \in SameFor(fn)[n]

BodyKept == pc \in {"visit", "walk"} => body = fn.body
EdgesSimilar ==
  \A b \in Blocks : \A i \in DOMAIN targets[b] :
    Similar(fn.targets[b][i], targets[b][i])
RetainedSimilar == pc = "walk" => Similar(BB, retained)

EdgeInv == BodyKept /\ EdgesSimilar /\ RetainedSimilar

LEMMA SimilarEquivalence ==
  ASSUME Known
  PROVE  /\ \A b \in Blocks : Similar(b, b)
         /\ \A a, b, c \in Blocks : Similar(a, b) /\ Similar(b, c) => Similar(a, c)
         /\ \A a, b, c \in Blocks : Similar(a, b) /\ Similar(c, b) => Similar(a, c)
<1>1. \A n \in Nat : Equivalence(fn, SameFor(fn)[n])
  BY FunctionSound, SameForEquivalence DEF Known
<1>2. \A n \in Nat :
        /\ \A b \in Blocks : <<b, b>> \in SameFor(fn)[n]
        /\ \A b, c \in Blocks : <<b, c>> \in SameFor(fn)[n] => <<c, b>> \in SameFor(fn)[n]
        /\ \A a, b, c \in Blocks :
             <<a, b>> \in SameFor(fn)[n] /\ <<b, c>> \in SameFor(fn)[n]
               => <<a, c>> \in SameFor(fn)[n]
  BY <1>1 DEF Equivalence, Blocks
<1>3. \A b \in Blocks : Similar(b, b)
  BY <1>2 DEF Similar
<1>4. ASSUME NEW a \in Blocks, NEW b \in Blocks, NEW c \in Blocks,
             Similar(a, b), Similar(b, c)
      PROVE  Similar(a, c)
  BY <1>2, <1>4 DEF Similar
<1>5. ASSUME NEW a \in Blocks, NEW b \in Blocks, NEW c \in Blocks,
             Similar(a, b), Similar(c, b)
      PROVE  Similar(a, c)
  BY <1>2, <1>5 DEF Similar
<1> QED
  BY <1>3, <1>4, <1>5

(* A candidate matches the block it is to stand for.                       *)
LEMMA CandidateMatched ==
  ASSUME Known, body = fn.body, NEW b \in Blocks, NEW c \in Blocks, Candidate(b, c)
  PROVE  Matched(fn, b, c)
<1>1. /\ Len(NonDbg(body[b])) = Len(NonDbg(body[c]))
      /\ SameInstructions(b, c)
  BY DEF Candidate, Tested
<1>2. Steps(fn, b) = NonDbg(body[b]) /\ Steps(fn, c) = NonDbg(body[c])
  BY DEF Steps
<1>3. ASSUME NEW k \in DOMAIN Steps(fn, b)
      PROVE  LET x == Steps(fn, b)[k]
                 y == Steps(fn, c)[k]
             IN /\ x.op = y.op /\ x.vals = y.vals
                /\ \/ x.use = "none" /\ y.use = "none"
                   \/ x.use \in {"local", "phi"} /\ y.use \in {"local", "phi"}
  <2>1. identicalInstructions(b, Steps(fn, b)[k], c, Steps(fn, c)[k])
    BY <1>1, <1>2 DEF SameInstructions
  <2> QED
    BY <2>1 DEF identicalInstructions, canRemoveInst
<1> QED
  BY <1>1, <1>2, <1>3 DEF Matched

(* An unconditional branch of before the pass is one now.                  *)
LEMMA OneTarget ==
  ASSUME Known, Ahead, pc \in {"visit", "walk"}, NEW b \in Blocks, fn.term[b] = "br"
  PROVE  /\ SuccOf(b) \in Blocks
         /\ DOMAIN targets[b] = {1}
         /\ fn.targets[b][1] \in Blocks
         /\ DOMAIN fn.targets[b] = {1}
<1>1. Len(fn.targets[b]) = 1 /\ Len(targets[b]) = 1
  BY FunctionTyped DEF Known, Ahead
<1>2. fn.targets[b] \in Seq(Blocks) /\ targets[b] \in Seq(Blocks)
  BY FunctionTyped DEF Known, TypeOK
<1> QED
  BY <1>1, <1>2 DEF SuccOf

(* The phi of a block names a predecessor: it went there before the pass.  *)
LEMMA NamedTarget ==
  ASSUME Known, Ahead, pc = "visit", body = fn.body,
         NEW b \in Blocks, fn.term[b] = "br",
         NEW t \in Blocks, PhisOf(fn.body[t]) # <<>>, Named(b, t)
  PROVE  fn.targets[b][1] = t
<1>1. PICK m \in PhiPlaces(fn, t) : TRUE
  BY PhiPlace DEF Known, Blocks
<1>2. PICK k \in DOMAIN PhisOf(fn.body[t]) : PhisOf(fn.body[t])[k] = fn.body[t][m]
  BY PhiPlace DEF Known, Blocks
<1> DEFINE phi == fn.body[t][m]
<1>3. b \in ToSet(phi.preds)
  <2>1. phi \in ToSet(Phis(t))
    BY <1>2 DEF Phis, ToSet
  <2> QED
    BY <2>1 DEF Named
<1>4. phi \in ToSet(fn.body[t]) /\ IsPhi(phi)
  BY <1>1 DEF PhiPlaces, ToSet
<1>5. ToSet(phi.preds) = {u[1] : u \in UsesOf(fn.targets, t)}
  BY <1>4, FunctionSound DEF Known, PhisSound, Blocks
<1>6. PICK u \in UsesOf(fn.targets, t) : u[1] = b
  BY <1>3, <1>5
<1>7. u[2] \in DOMAIN fn.targets[b] /\ fn.targets[b][u[2]] = t
  BY <1>6, InUses
<1> QED
  BY <1>7, OneTarget

(* A block is similar to the one it is merged into.                        *)
LEMMA CandidateSimilar ==
  ASSUME Known, Ahead, BodyKept, EdgesSimilar, pc = "visit",
         Considered(BB), NEW c \in Blocks, Candidate(BB, c),
         c \in Predecessors(SuccOf(BB)),
         Named(BB, SuccOf(BB)), Named(c, SuccOf(BB))
  PROVE  Similar(BB, c)
<1> DEFINE t == SuccOf(BB)
           s == fn.targets[BB][1]
           r == fn.targets[c][1]
<1>1. body = fn.body /\ BB \in Blocks /\ fn \in Functions /\ Typed(fn)
  BY FunctionSound DEF BodyKept, Known, TypeOK
<1>2. BB # c /\ fn.term[BB] = "br" /\ fn.term[c] = "br"
  BY DEF Candidate, Tested, Considered, Removable
<1>3. /\ t \in Blocks /\ DOMAIN targets[BB] = {1} /\ s \in Blocks
      /\ SuccOf(c) \in Blocks /\ DOMAIN targets[c] = {1} /\ r \in Blocks
  BY <1>1, <1>2, OneTarget
<1>4. SuccOf(c) = t
  <2>1. ToSet(useList[t]) = UsesOf(targets, t)
    BY <1>3 DEF Known, TypeOK, UseListsComplete
  <2>2. PICK u \in UsesOf(targets, t) : u[1] = c
    BY <2>1 DEF Predecessors
  <2>3. u[2] \in DOMAIN targets[c] /\ targets[c][u[2]] = t
    BY <2>2, InUses
  <2> QED
    BY <1>3, <2>3 DEF SuccOf
<1>5. Similar(s, t) /\ Similar(r, t)
  BY <1>1, <1>3, <1>4 DEF EdgesSimilar, SuccOf
<1>6. Matched(fn, BB, c)
  BY <1>1, CandidateMatched
<1>7. PhisOf(fn.body[BB]) = <<>> <=> PhisOf(fn.body[c]) = <<>>
  <2>1. Matched(fn, c, BB)
    BY <1>1, <1>6, MatchedSymmetric DEF Blocks
  <2> QED
    BY <1>1, <1>6, <2>1, MatchedPhis DEF Blocks
<1> HIDE DEF s, r, t
<1>8. ASSUME PhisOf(fn.body[BB]) = <<>>, NEW n \in Nat
      PROVE  <<BB, c>> \in SameFor(fn)[n]
  <2>1. ASSUME NEW l \in Nat PROVE <<s, r>> \in SameFor(fn)[l] /\ SamePhis(fn, BB, c, s, r)
    <3>1. CASE PhisOf(fn.body[t]) = <<>>
      <4>1. PhisOf(fn.body[s]) = <<>> /\ PhisOf(fn.body[r]) = <<>>
        BY <1>5, <3>1 DEF Similar
      <4>2. Similar(s, r)
        BY <1>3, <1>5, SimilarEquivalence
      <4>3. <<s, r>> \in SameFor(fn)[l]
        BY <4>1, <4>2 DEF Similar
      <4> QED
        BY <4>1, <4>3 DEF SamePhis
    <3>2. CASE PhisOf(fn.body[t]) # <<>>
      <4>1. s = t /\ r = t
        BY <1>1, <1>2, <1>3, <3>2, NamedTarget DEF s, r, t
      <4>2. Equivalence(fn, SameFor(fn)[l])
        BY <1>1, SameForEquivalence
      <4>3. <<t, t>> \in SameFor(fn)[l]
        BY <1>3, <4>2 DEF Equivalence, Blocks
      <4>4. Len(PhisOf(fn.body[t])) <= 1
        BY <1>1 DEF Considered, Phis, t
      <4>5. \A phi \in ToSet(PhisOf(fn.body[t])) :
              LET v == IncomingValue(phi, BB)
                  w == IncomingValue(phi, c)
              IN v = w \/ (v[1] = BB /\ w[1] = c)
        BY <1>1 DEF Candidate, SameIncoming, Phis, t
      <4>6. fn.targets[BB][1] = t /\ fn.targets[c][1] = t
        BY <4>1 DEF s, r
      <4>7. SamePhis(fn, BB, c, t, t)
        BY <1>1, <1>2, <1>3, <1>6, <1>8, <4>4, <4>5, <4>6, MatchedSamePhis DEF Blocks
      <4> QED
        BY <4>1, <4>3, <4>7
    <3> QED
      BY <3>1, <3>2
  <2>2. BB \in BlocksOf(fn) /\ c \in BlocksOf(fn)
    BY <1>1 DEF Blocks
  <2>3. CASE n = 0
    BY <2>2, <2>3, SameForStep
  <2>4. CASE n # 0
    <3>1. n - 1 \in Nat /\ (n - 1) + 1 = n
      BY <2>4
    <3>2. SameFor(fn)[n] = InStep(fn, SameFor(fn)[n - 1])
      <4>1. SameFor(fn)[(n - 1) + 1] = InStep(fn, SameFor(fn)[n - 1])
        BY <3>1, SameForStep
      <4> QED
        BY <3>1, <4>1
    <3>3. SameSteps(fn, BB, c)
      BY <1>1, <1>2, <1>6, <1>8, <2>2, MatchedSameSteps
    <3>4. /\ <<fn.targets[BB][1], fn.targets[c][1]>> \in SameFor(fn)[n - 1]
          /\ SamePhis(fn, BB, c, fn.targets[BB][1], fn.targets[c][1])
      BY <2>1, <3>1 DEF s, r
    <3>5. <<BB, c>> \in InStep(fn, SameFor(fn)[n - 1])
      BY <1>2, <2>2, <3>3, <3>4, InStepPair
    <3> QED
      BY <3>2, <3>5
  <2> QED
    BY <2>3, <2>4
<1> QED
  BY <1>7, <1>8 DEF Similar

LEMMA InitEdge == Init => EdgeInv
<1> SUFFICES ASSUME Init PROVE EdgeInv
  OBVIOUS
<1>1. Known
  BY InitMerge DEF MergeInv
<1>2. fn.targets \in [Blocks -> Seq(Blocks)] /\ targets = fn.targets
  BY <1>1, FunctionTyped DEF Known, Init
<1>3. \A b \in Blocks : \A i \in DOMAIN targets[b] : targets[b][i] \in Blocks
  BY <1>2
<1>4. EdgesSimilar
  BY <1>1, <1>2, <1>3, SimilarEquivalence DEF EdgesSimilar
<1> QED
  BY <1>4 DEF Init, EdgeInv, BodyKept, RetainedSimilar

LEMMA MergeEdge == MergeInv /\ EdgeInv /\ Merge => EdgeInv'
<1> SUFFICES ASSUME MergeInv, EdgeInv, Merge PROVE EdgeInv'
  OBVIOUS
<1>1. /\ pc = "visit" /\ pc' = "walk"
      /\ Considered(BB) /\ Named(BB, SuccOf(BB)) /\ Stops(BB) # {}
      /\ Named(FirstStop(BB), SuccOf(BB))
      /\ retained' = FirstStop(BB)
      /\ UNCHANGED <<fn, targets, body, BB>>
  BY DEF Merge
<1>2. Known /\ Ahead /\ BodyKept /\ EdgesSimilar
  BY DEF MergeInv, EdgeInv
<1>3. /\ FirstStop(BB) \in Blocks /\ FirstStop(BB) \in Predecessors(SuccOf(BB))
      /\ Candidate(BB, FirstStop(BB))
  BY <1>1, <1>2, StopFit
<1>4. Similar(BB, FirstStop(BB))
  BY <1>1, <1>2, <1>3, CandidateSimilar
<1>5. RetainedSimilar'
  BY <1>1, <1>4 DEF RetainedSimilar, Similar
<1> QED
  BY <1>1, <1>2, <1>5 DEF EdgeInv, BodyKept, EdgesSimilar, Similar, Blocks

LEMMA UpdateEdge == MergeInv /\ EdgeInv /\ UpdateBranchTargets => EdgeInv'
<1> SUFFICES ASSUME MergeInv, EdgeInv, UpdateBranchTargets PROVE EdgeInv'
  OBVIOUS
<1>1. /\ pc = "walk" /\ pc' = pc /\ Redirect(at[1])
      /\ UNCHANGED <<fn, body, BB, retained>>
  BY DEF UpdateBranchTargets
<1>2. Known /\ Ahead /\ RetainedFit /\ BodyKept /\ EdgesSimilar /\ Similar(BB, retained)
  BY <1>1 DEF MergeInv, EdgeInv, RetainedSimilar
<1>3. /\ targets \in [Blocks -> Seq(Blocks)] /\ BB \in Blocks /\ retained \in Blocks
      /\ fn.targets \in [Blocks -> Seq(Blocks)]
  BY <1>1, <1>2, FunctionTyped DEF Known, TypeOK, RetainedFit
<1>4. targets' = [targets EXCEPT ![at[1]] =
                    [i \in DOMAIN @ |-> IF @[i] = BB THEN retained ELSE @[i]]]
  BY <1>1 DEF Redirect
<1>5. \A b \in Blocks : /\ DOMAIN targets'[b] = DOMAIN targets[b]
                        /\ \A i \in DOMAIN targets[b] :
                             \/ targets'[b][i] = targets[b][i]
                             \/ targets[b][i] = BB /\ targets'[b][i] = retained
  BY <1>3, <1>4
<1>6. ASSUME NEW b \in Blocks, NEW i \in DOMAIN targets[b]
      PROVE  Similar(fn.targets[b][i], targets'[b][i])
  <2>1. Similar(fn.targets[b][i], targets[b][i])
    BY <1>2 DEF EdgesSimilar
  <2>2. fn.targets[b][i] \in Blocks
    <3>1. Len(targets[b]) = Len(fn.targets[b])
      BY <1>1, <1>2 DEF Ahead
    <3>2. fn.targets[b] \in Seq(Blocks) /\ targets[b] \in Seq(Blocks)
      BY <1>3
    <3> QED
      BY <3>1, <3>2
  <2>3. CASE targets'[b][i] = targets[b][i]
    BY <2>1, <2>3
  <2>4. CASE targets[b][i] = BB /\ targets'[b][i] = retained
    BY <1>2, <1>3, <2>1, <2>2, <2>4, SimilarEquivalence
  <2> QED
    BY <1>5, <2>3, <2>4
<1>7. EdgesSimilar'
  BY <1>1, <1>5, <1>6 DEF EdgesSimilar, Similar, Blocks
<1> QED
  BY <1>1, <1>2, <1>7 DEF EdgeInv, BodyKept, RetainedSimilar, Similar

LEMMA DeleteEdge ==
  ASSUME MergeInv, EdgeInv, NEW c \in DeleteList, Delete(c)
  PROVE  EdgeInv'
<1>1. /\ targets' = [targets EXCEPT ![c] = <<>>]
      /\ pc' \in {"delete", "exit"}
      /\ UNCHANGED fn
  BY DEF Delete
<1>2. targets \in [Blocks -> Seq(Blocks)]
  BY DEF MergeInv, Known, TypeOK
<1>3. \A b \in Blocks : targets'[b] = targets[b] \/ DOMAIN targets'[b] = {}
  BY <1>1, <1>2
<1>4. EdgesSimilar'
  BY <1>1, <1>3 DEF EdgeInv, EdgesSimilar, Similar, Blocks
<1> QED
  BY <1>1, <1>4 DEF EdgeInv, BodyKept, RetainedSimilar

LEMMA NextEdge == MergeInv /\ EdgeInv /\ [Next]_vars => EdgeInv'
<1> SUFFICES ASSUME MergeInv, EdgeInv, [Next]_vars PROVE EdgeInv'
  OBVIOUS
<1>1. CASE Merge
  BY <1>1, MergeEdge
<1>2. CASE UpdateBranchTargets
  BY <1>2, UpdateEdge
<1>3. ASSUME NEW c \in DeleteList, Delete(c) PROVE EdgeInv'
  BY <1>3, DeleteEdge
<1>4. CASE Keep \/ Merged
  <2>1. /\ pc \in {"visit", "walk"} /\ pc' \in {"visit", "delete"}
        /\ UNCHANGED <<fn, targets, body>>
    BY <1>4 DEF Keep, Merged, NextBlock
  <2> QED
    BY <2>1 DEF EdgeInv, BodyKept, EdgesSimilar, RetainedSimilar, Similar, Blocks
<1>5. CASE NotNamed \/ Return
  <2>1. pc' \in {"exit", "done"} /\ UNCHANGED <<fn, targets, body>>
    BY <1>5 DEF NotNamed, Return
  <2> QED
    BY <2>1 DEF EdgeInv, BodyKept, EdgesSimilar, RetainedSimilar, Similar, Blocks
<1>6. CASE UNCHANGED vars
  BY <1>6 DEF vars, EdgeInv, BodyKept, EdgesSimilar, RetainedSimilar, Similar, Blocks
<1> QED
  BY <1>1, <1>2, <1>3, <1>4, <1>5, <1>6 DEF Next

LEMMA EdgeInvariant == Spec => []EdgeInv
<1>1. MergeInv /\ EdgeInv /\ [Next]_vars => EdgeInv'
  BY NextEdge
<1> QED
  BY <1>1, InitEdge, MergeInvariant, PTL DEF Spec

(* In every function, after any number of merges and in the middle of one, *)
(* a redirected edge leads to a block that does what the block did to      *)
(* which it led before the pass, and goes on to blocks that do, as far as  *)
(* the paths lead.  Edges to blocks with phis are left out.                *)
THEOREM EdgesEquivalentThm == Spec => []EdgesEquivalent
<1>1. MergeInv /\ EdgeInv => EdgesEquivalent
  <2> SUFFICES ASSUME MergeInv, EdgeInv PROVE EdgesEquivalent
    OBVIOUS
  <2>1. fn.size \in Nat
    BY FunctionTyped DEF MergeInv, Known
  <2> QED
    BY <2>1 DEF EdgeInv, EdgesSimilar, Similar, EdgesEquivalent, Equivalent
<1> QED
  BY <1>1, EdgeInvariant, MergeInvariant, PTL
=============================================================================
