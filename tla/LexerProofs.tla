---------------------------- MODULE LexerProofs ----------------------------
(***************************************************************************)
(* The lexer loses no character, for any text over any alphabet.           *)
(***************************************************************************)
EXTENDS Lexer, ListsProofs

Positions == 0 .. Len(text) + 1

(***************************************************************************)
(* After and LineEnd find what they look for, at the end of the input if   *)
(* nowhere else.                                                           *)
(***************************************************************************)
LEMMA AfterPlace ==
  ASSUME Len(text) \in Nat, NEW S, "eof" \notin S, NEW i \in Positions
  PROVE  /\ After(S, i) \in i .. Len(text) + 1 /\ Char(After(S, i)) \notin S
         /\ \A k \in i .. After(S, i) - 1 : Char(k) \in S
<1> DEFINE out == {k \in i .. Len(text) + 1 : Char(k) \notin S}
           first == Min(out)
<1>1. Len(text) + 1 \in out
  <2>1. Len(text) + 1 # 0 /\ ~(Len(text) + 1 <= Len(text)) /\ Len(text) + 1 \in i .. Len(text) + 1
    BY DEF Positions
  <2>2. Char(Len(text) + 1) = "eof"
    BY <2>1 DEF Char
  <2> QED
    BY <2>1, <2>2
<1>2. out \in SUBSET Nat
  BY DEF Positions
<1>3. first \in out /\ \A k \in out : first <= k
  BY <1>1, <1>2, MinPlace
<1> HIDE DEF first
<1>4. first \in i .. Len(text) + 1 /\ Char(first) \notin S
  BY <1>3
<1>5. ASSUME NEW k \in i .. first - 1 PROVE Char(k) \in S
  <2>1. k \in i .. Len(text) + 1 /\ ~(first <= k)
    BY <1>2, <1>3, <1>4 DEF Positions
  <2> QED
    BY <1>3, <2>1
<1> HIDE DEF out
<1>6. \E j \in i .. Len(text) + 1 :
        Char(j) \notin S /\ \A k \in i .. j - 1 : Char(k) \in S
  BY <1>4, <1>5
<1> QED
  BY <1>6, Zenon DEF After

LEMMA LineEndPlace ==
  ASSUME Len(text) \in Nat, NEW i \in Positions
  PROVE  /\ LineEnd(i) \in i .. Len(text) + 1
         /\ Char(LineEnd(i)) \in LineEnds \cup {"eof"}
         /\ \A k \in i .. LineEnd(i) - 1 : Char(k) \notin LineEnds \cup {"eof"}
<1> DEFINE ends == {k \in i .. Len(text) + 1 : Char(k) \in LineEnds \cup {"eof"}}
           first == Min(ends)
<1>1. Len(text) + 1 \in ends
  <2>1. Len(text) + 1 # 0 /\ ~(Len(text) + 1 <= Len(text)) /\ Len(text) + 1 \in i .. Len(text) + 1
    BY DEF Positions
  <2>2. Char(Len(text) + 1) = "eof"
    BY <2>1 DEF Char
  <2> QED
    BY <2>1, <2>2
<1>2. ends \in SUBSET Nat
  BY DEF Positions
<1>3. first \in ends /\ \A k \in ends : first <= k
  BY <1>1, <1>2, MinPlace
<1> HIDE DEF first
<1>4. first \in i .. Len(text) + 1 /\ Char(first) \in LineEnds \cup {"eof"}
  BY <1>3
<1>5. ASSUME NEW k \in i .. first - 1 PROVE Char(k) \notin LineEnds \cup {"eof"}
  <2>1. k \in i .. Len(text) + 1 /\ ~(first <= k)
    BY <1>2, <1>3, <1>4 DEF Positions
  <2> QED
    BY <1>3, <2>1
<1> HIDE DEF ends
<1>6. \E j \in i .. Len(text) + 1 :
        /\ Char(j) \in LineEnds \cup {"eof"}
        /\ \A k \in i .. j - 1 : ~(Char(k) \in LineEnds \cup {"eof"})
  BY <1>4, <1>5
<1>7. LineEnd(i) = CHOOSE j \in i .. Len(text) + 1 :
        /\ Char(j) \in LineEnds \cup {"eof"}
        /\ \A k \in i .. j - 1 : ~(Char(k) \in LineEnds \cup {"eof"})
  BY Zenon DEF LineEnd
<1> QED
  BY <1>6, <1>7, Zenon

(***************************************************************************)
(* A function on 0 .. N whose value at a place is given or is its value at *)
(* a place further on.                                                     *)
(***************************************************************************)
Onward(g, N, go, next, here, from) ==
  g = [k \in 0 .. N |-> IF k < from THEN 0 ELSE IF go[k] THEN g[next[k]] ELSE here[k]]

LEMMA SomeOnward ==
  ASSUME NEW N \in Nat, NEW go, NEW next, NEW here,
         \A k \in 0 .. N : go[k] => next[k] \in k + 1 .. N
  PROVE  \E g : Onward(g, N, go, next, here, 0)
<1> DEFINE S == {n \in Nat : n <= N => \E g : Onward(g, N, go, next, here, N - n)}
<1>1. 0 \in S
  <2> DEFINE g == [k \in 0 .. N |-> IF k < N THEN 0 ELSE here[k]]
  <2>1. \A k \in 0 .. N : g[k] = IF k < N THEN 0 ELSE IF go[k] THEN g[next[k]] ELSE here[k]
    OBVIOUS
  <2>2. g = [k \in 0 .. N |-> g[k]]
    OBVIOUS
  <2> HIDE DEF g
  <2>3. N - 0 = N
    OBVIOUS
  <2>4. Onward(g, N, go, next, here, N)
    BY <2>1, <2>2 DEF Onward
  <2> QED
    BY <2>3, <2>4
<1>2. ASSUME NEW n \in Nat, n \in S PROVE n + 1 \in S
  <2>1. SUFFICES ASSUME n + 1 <= N PROVE \E g : Onward(g, N, go, next, here, N - (n + 1))
    OBVIOUS
  <2> DEFINE m == N - (n + 1)
  <2>2. m \in 0 .. N /\ N - n = m + 1
    BY <2>1
  <2>3. PICK g : Onward(g, N, go, next, here, m + 1)
    BY <1>2, <2>1, <2>2
  <2> HIDE DEF m
  <2> DEFINE h == [k \in 0 .. N |->
                     IF k = m THEN IF go[k] THEN g[next[k]] ELSE here[k] ELSE g[k]]
  <2>4. \A k \in 0 .. N :
          g[k] = IF k < m + 1 THEN 0 ELSE IF go[k] THEN g[next[k]] ELSE here[k]
    BY <2>3 DEF Onward
  <2>5. ASSUME NEW k \in 0 .. N
        PROVE  h[k] = IF k < m THEN 0 ELSE IF go[k] THEN h[next[k]] ELSE here[k]
    <3>1. CASE k < m
      BY <2>2, <2>4, <3>1
    <3>2. CASE ~(k < m)
      <4>1. h[k] = IF go[k] THEN g[next[k]] ELSE here[k]
        BY <2>2, <2>4, <3>2
      <4>2. go[k] => h[next[k]] = g[next[k]]
        BY <2>2, <3>2
      <4> QED
        BY <3>2, <4>1, <4>2
    <3> QED
      BY <3>1, <3>2
  <2>6. h = [k \in 0 .. N |-> h[k]]
    OBVIOUS
  <2> HIDE DEF h
  <2>7. Onward(h, N, go, next, here, m)
    BY <2>5, <2>6 DEF Onward
  <2> QED
    BY <2>7 DEF m
<1> HIDE DEF S
<1>3. N \in S
  BY <1>1, <1>2, NatSet
<1>4. N - N = 0 /\ N <= N
  OBVIOUS
<1> QED
  BY <1>3, <1>4 DEF S

(***************************************************************************)
(* Begin is what its definition says: the search starts again after each   *)
(* comment, and further on.                                                *)
(***************************************************************************)
LEMMA CommentEnds ==
  ASSUME Len(text) \in Nat, LexerAssumption, NEW i \in Positions
  PROVE  /\ After(Spaces, i) \in i .. Len(text) + 1
         /\ \A k \in i .. After(Spaces, i) - 1 : Char(k) \in Spaces
         /\ Char(After(Spaces, i)) = "#" =>
              /\ LineEnd(After(Spaces, i)) \in After(Spaces, i) + 1 .. Len(text) + 1
              /\ Char(LineEnd(After(Spaces, i))) \in LineEnds \cup {"eof"}
              /\ \A k \in After(Spaces, i) .. LineEnd(After(Spaces, i)) - 1 :
                   Char(k) \notin LineEnds
<1> DEFINE j == After(Spaces, i)
           l == LineEnd(j)
<1>1. /\ j \in i .. Len(text) + 1 /\ \A k \in i .. j - 1 : Char(k) \in Spaces
  BY AfterPlace DEF LexerAssumption
<1>2. j \in Positions
  BY <1>1 DEF Positions
<1>3. /\ l \in j .. Len(text) + 1 /\ Char(l) \in LineEnds \cup {"eof"}
      /\ \A k \in j .. l - 1 : Char(k) \notin LineEnds \cup {"eof"}
  BY <1>2, LineEndPlace
<1>4. "#" \notin LineEnds \cup {"eof"}
  BY DEF LexerAssumption
<1> HIDE DEF j, l
<1>5. Char(j) = "#" => l # j
  BY <1>3, <1>4
<1>6. j \in Nat /\ l \in Nat
  BY <1>1, <1>3 DEF Positions
<1> QED
  BY <1>1, <1>3, <1>5, <1>6 DEF j, l

LEMMA BeginStep ==
  ASSUME Len(text) \in Nat, LexerAssumption, NEW i \in Positions
  PROVE  Begin(i) = IF Char(After(Spaces, i)) = "#" THEN Begin(LineEnd(After(Spaces, i)))
                                                   ELSE After(Spaces, i)
<1> DEFINE N == Len(text) + 1
           Rule(f) == [k \in 0 .. N |->
             IF Char(After(Spaces, k)) = "#" THEN f[LineEnd(After(Spaces, k))]
                                             ELSE After(Spaces, k)]
           begin == CHOOSE f : f = Rule(f)
<1>1. \E f : f = Rule(f)
  <2> DEFINE go == [k \in 0 .. N |-> Char(After(Spaces, k)) = "#"]
             next == [k \in 0 .. N |-> LineEnd(After(Spaces, k))]
             here == [k \in 0 .. N |-> After(Spaces, k)]
  <2>1. \A k \in 0 .. N : go[k] => next[k] \in k + 1 .. N
    <3> SUFFICES ASSUME NEW k \in 0 .. N, Char(After(Spaces, k)) = "#"
                 PROVE  LineEnd(After(Spaces, k)) \in k + 1 .. N
      OBVIOUS
    <3>1. k \in Positions
      BY DEF Positions
    <3>2. /\ After(Spaces, k) \in k .. Len(text) + 1
          /\ LineEnd(After(Spaces, k)) \in After(Spaces, k) + 1 .. Len(text) + 1
      BY <3>1, CommentEnds
    <3> QED
      BY <3>2
  <2>2. N \in Nat
    OBVIOUS
  <2>3. \A k \in 0 .. N : /\ go[k] <=> Char(After(Spaces, k)) = "#"
                          /\ next[k] = LineEnd(After(Spaces, k))
                          /\ here[k] = After(Spaces, k)
    OBVIOUS
  <2> HIDE DEF go, next, here
  <2>4. PICK g : Onward(g, N, go, next, here, 0)
    BY <2>1, <2>2, SomeOnward
  <2>5. \A k \in 0 .. N : ~(k < 0)
    OBVIOUS
  <2>6. g = Rule(g)
    BY <2>3, <2>4, <2>5 DEF Onward
  <2> QED
    BY <2>6
<1>2. begin = Rule(begin)
  BY <1>1, Zenon
<1>3. \A k : Begin(k) = begin[k]
  BY Zenon DEF Begin
<1> HIDE DEF begin
<1>4. i \in 0 .. N
  BY DEF Positions
<1>5. begin[i] = IF Char(After(Spaces, i)) = "#" THEN begin[LineEnd(After(Spaces, i))]
                                                ELSE After(Spaces, i)
  BY <1>2, <1>4, Zenon
<1> QED
  BY <1>3, <1>5, Zenon

(***************************************************************************)
(* What stands between two places is white space and comments, and the     *)
(* second one is in none of them: EveryCharacter of any two places.        *)
(***************************************************************************)
InComment(a, p) ==
  \E h \in a .. p : Char(h) = "#" /\ \A k \in h .. p : Char(k) \notin LineEnds
Covered(a, b) ==
  /\ \A p \in a .. b - 1 : Char(p) \in Spaces \/ InComment(a, p)
  /\ Char(b) # "eof" => ~InComment(a, b)

LEMMA CoveredBySpaces ==
  ASSUME LexerAssumption, NEW a \in Nat, NEW b \in Nat, a <= b,
         \A k \in a .. b - 1 : Char(k) \in Spaces, Char(b) # "#"
  PROVE  Covered(a, b)
<1>1. "#" \notin Spaces
  BY DEF LexerAssumption
<1>2. \A h \in a .. b : Char(h) # "#"
  <2> SUFFICES ASSUME NEW h \in a .. b PROVE Char(h) # "#"
    OBVIOUS
  <2>1. h = b \/ h \in a .. b - 1
    OBVIOUS
  <2> QED
    BY <1>1, <2>1
<1> QED
  BY <1>2 DEF Covered, InComment

LEMMA CoveredAcross ==
  ASSUME LexerAssumption, NEW a \in Nat, NEW j \in Nat, NEW l \in Nat, NEW b \in Nat,
         a <= j, j < l, l <= b,
         \A k \in a .. j - 1 : Char(k) \in Spaces, Char(j) = "#",
         Char(l) \in LineEnds \/ (Char(l) = "eof" /\ b = l),
         \A k \in j .. l - 1 : Char(k) \notin LineEnds, Covered(l, b)
  PROVE  Covered(a, b)
<1>1. ASSUME NEW p \in a .. b - 1 PROVE Char(p) \in Spaces \/ InComment(a, p)
  <2>1. CASE p < j
    <3>1. p \in a .. j - 1
      BY <2>1
    <3> QED
      BY <3>1
  <2>2. CASE j <= p /\ p < l
    <3>1. j \in a .. p /\ \A k \in j .. p : k \in j .. l - 1
      BY <2>2
    <3>2. \A k \in j .. p : Char(k) \notin LineEnds
      BY <3>1
    <3> QED
      BY <3>1, <3>2 DEF InComment
  <2>3. CASE l <= p
    <3>1. p \in l .. b - 1 /\ \A h \in l .. p : h \in a .. p
      BY <2>3
    <3>2. Char(p) \in Spaces \/ InComment(l, p)
      BY <3>1 DEF Covered
    <3> QED
      BY <3>1, <3>2 DEF InComment
  <2>4. p \in Nat
    OBVIOUS
  <2> QED
    BY <2>1, <2>2, <2>3, <2>4
<1>2. ASSUME Char(b) # "eof", InComment(a, b) PROVE FALSE
  <2>1. PICK h \in a .. b : Char(h) = "#" /\ \A k \in h .. b : Char(k) \notin LineEnds
    BY <1>2 DEF InComment
  <2>2. CASE h <= l
    <3>1. l \in h .. b
      BY <2>2
    <3>2. Char(l) \notin LineEnds
      BY <2>1, <3>1
    <3> QED
      BY <1>2, <3>2
  <2>3. CASE ~(h <= l)
    <3>1. h \in l .. b
      BY <2>3
    <3>2. InComment(l, b)
      BY <2>1, <3>1 DEF InComment
    <3> QED
      BY <1>2, <3>2 DEF Covered
  <2> QED
    BY <2>2, <2>3
<1> QED
  BY <1>1, <1>2 DEF Covered

\* Where the input ends, no token begins before it.
LEMMA BeginAtEof ==
  ASSUME Len(text) \in Nat, LexerAssumption, NEW i \in Positions, Char(i) = "eof"
  PROVE  Begin(i) = i
<1> DEFINE j == After(Spaces, i)
<1>1. j \in i .. Len(text) + 1 /\ \A k \in i .. j - 1 : Char(k) \in Spaces
  BY CommentEnds
<1>2. Char(i) \notin Spaces
  BY DEF LexerAssumption
<1>3. Begin(i) = IF Char(j) = "#" THEN Begin(LineEnd(j)) ELSE j
  BY BeginStep
<1> HIDE DEF j
<1>4. j = i
  <2>1. i \in Nat /\ j \in Nat /\ i <= j
    BY <1>1 DEF Positions
  <2>2. i \notin i .. j - 1
    BY <1>1, <1>2
  <2> QED
    BY <2>1, <2>2
<1>5. Char(j) # "#"
  BY <1>4
<1> QED
  BY <1>3, <1>4, <1>5

LEMMA BeginCovers ==
  ASSUME Len(text) \in Nat, LexerAssumption
  PROVE  \A i \in Positions : Begin(i) \in i .. Len(text) + 1 /\ Covered(i, Begin(i))
<1> DEFINE N == Len(text) + 1
           S == {n \in Nat : \A i \in Positions :
                   N - i <= n => Begin(i) \in i .. N /\ Covered(i, Begin(i))}
<1>0. N \in Nat /\ Positions = 0 .. N
  BY DEF Positions
<1> HIDE DEF N
<1>1. ASSUME NEW n \in Nat, NEW i \in Positions, N - i <= n,
             \A l \in Positions : l > i => Begin(l) \in l .. N /\ Covered(l, Begin(l))
      PROVE  Begin(i) \in i .. N /\ Covered(i, Begin(i))
  <2> DEFINE j == After(Spaces, i)
             l == LineEnd(j)
  <2>1. /\ j \in i .. N /\ \A k \in i .. j - 1 : Char(k) \in Spaces
        /\ Char(j) = "#" => /\ l \in j + 1 .. N /\ Char(l) \in LineEnds \cup {"eof"}
                            /\ \A k \in j .. l - 1 : Char(k) \notin LineEnds
    BY CommentEnds DEF N
  <2>2. Begin(i) = IF Char(j) = "#" THEN Begin(l) ELSE j
    BY BeginStep
  <2> HIDE DEF j, l
  <2>3. i \in Nat /\ j \in Nat /\ i <= j /\ j <= N
    BY <1>0, <2>1
  <2>4. CASE Char(j) # "#"
    <3>1. Covered(i, j)
      BY <2>1, <2>3, <2>4, CoveredBySpaces
    <3> QED
      BY <2>2, <2>3, <2>4, <3>1, <1>0
  <2>5. CASE Char(j) = "#"
    <3>1. l \in Nat /\ j < l /\ l <= N /\ l \in Positions /\ l > i
      BY <1>0, <2>1, <2>3, <2>5
    <3>2. Begin(l) \in l .. N /\ Covered(l, Begin(l))
      BY <1>1, <3>1
    <3>3. Char(l) \in LineEnds \/ (Char(l) = "eof" /\ Begin(l) = l)
      BY <2>1, <2>5, <3>1, BeginAtEof
    <3>4. Begin(l) \in Nat /\ l <= Begin(l)
      BY <1>0, <3>1, <3>2
    <3>5. Covered(i, Begin(l))
      BY <2>1, <2>3, <2>5, <3>1, <3>2, <3>3, <3>4, CoveredAcross
    <3>6. Begin(l) \in i .. N
      BY <1>0, <2>3, <3>1, <3>2
    <3> QED
      BY <2>2, <2>5, <3>5, <3>6
  <2> QED
    BY <2>4, <2>5
<1>2. 0 \in S
  <2>1. ASSUME NEW i \in Positions, N - i <= 0 PROVE ~(\E l \in Positions : l > i)
    BY <1>0, <2>1
  <2> QED
    BY <1>1, <2>1
<1>3. ASSUME NEW n \in Nat, n \in S PROVE n + 1 \in S
  <2> SUFFICES ASSUME NEW i \in Positions, N - i <= n + 1
               PROVE  Begin(i) \in i .. N /\ Covered(i, Begin(i))
    OBVIOUS
  <2>1. ASSUME NEW l \in Positions, l > i PROVE N - l <= n
    BY <1>0, <2>1
  <2>2. \A l \in Positions : l > i => Begin(l) \in l .. N /\ Covered(l, Begin(l))
    BY <1>3, <2>1
  <2>3. n + 1 \in Nat
    OBVIOUS
  <2> QED
    BY <1>1, <2>2, <2>3
<1> HIDE DEF S
<1>4. N \in S
  BY <1>0, <1>2, <1>3, NatSet
<1>5. \A i \in Positions : N - i <= N
  BY <1>0
<1> QED
  BY <1>4, <1>5 DEF S, N

(***************************************************************************)
(* The invariant: what getTok has read ahead is inside the text or its end.*)
(***************************************************************************)
LexInv == source \in Texts /\ lastChar_ \in Positions /\ EveryCharacter

LEMMA GapCovered == EveryCharacter <=> Covered(gap[1], gap[2])
BY Zenon DEF EveryCharacter, Covered, InComment

LEMMA TextLength ==
  ASSUME LexerAssumption, source \in Texts
  PROVE  Len(text) \in Nat
<1>1. text \in Seq(STRING)
  BY DEF LexerAssumption, text
<1> QED
  BY <1>1

LEMMA LexInitInv == LexInit => LexInv
<1> SUFFICES ASSUME LexInit PROVE LexInv
  OBVIOUS
<1>1. source \in Texts /\ lastChar_ = 0 /\ gap = <<0, 0>>
  BY DEF LexInit
<1>2. Len(text) \in Nat
  BY <1>1, LexerAssumption, TextLength
<1>3. Covered(0, 0)
  <2>1. Char(0) = " "
    BY DEF Char
  <2>2. \A h \in 0 .. 0 : h = 0
    OBVIOUS
  <2>3. ~(\E p : p \in 0 .. 0 - 1)
    OBVIOUS
  <2> QED
    BY <2>1, <2>2, <2>3 DEF Covered, InComment
<1> QED
  BY <1>1, <1>2, <1>3, GapCovered DEF LexInv, Positions

LEMMA LexNextInv == LexInv /\ [getTok]_lexVars => LexInv'
<1> SUFFICES ASSUME LexInv, [getTok]_lexVars PROVE LexInv'
  OBVIOUS
<1>1. source \in Texts /\ Len(text) \in Nat /\ lastChar_ \in Positions
  BY LexerAssumption, TextLength DEF LexInv
<1>2. CASE UNCHANGED lexVars
  BY <1>2 DEF LexInv, lexVars, EveryCharacter, Char, text, Positions
<1>3. CASE getTok
  <2> DEFINE i == Begin(lastChar_)
  <2>1. i \in lastChar_ .. Len(text) + 1 /\ Covered(lastChar_, i)
    BY <1>1, LexerAssumption, BeginCovers
  <2>2. i \in Positions
    BY <1>1, <2>1 DEF Positions
  <2>3. Char(i) # "eof" => i + 1 \in Positions
    <3>1. i = Len(text) + 1 => Char(i) = "eof"
      <4>1. Len(text) + 1 # 0 /\ ~(Len(text) + 1 <= Len(text))
        BY <1>1
      <4> QED
        BY <4>1 DEF Char
    <3> QED
      BY <1>1, <2>2, <3>1 DEF Positions
  <2>4. /\ source' = source /\ gap' = <<lastChar_, i>>
        /\ \/ lastChar_' \in {Word(i), i + 1} /\ Char(i) # "eof"
           \/ lastChar_' = Number(i) /\ Char(i) # "eof"
           \/ lastChar_' = i
    BY <1>3, LexerAssumption DEF getTok, Deliver, Numeric, LexerAssumption
  <2> HIDE DEF i
  <2>5. "eof" \notin Alphanumeric /\ "eof" \notin Numeric
    BY LexerAssumption DEF LexerAssumption, Alphanumeric, Numeric
  <2>6. Char(i) # "eof" => Word(i) \in Positions /\ Number(i) \in Positions
    <3> SUFFICES ASSUME Char(i) # "eof" PROVE Word(i) \in Positions /\ Number(i) \in Positions
      OBVIOUS
    <3>1. i + 1 \in Positions
      BY <2>3
    <3>2. /\ After(Alphanumeric, i + 1) \in i + 1 .. Len(text) + 1
          /\ After(Numeric, i + 1) \in i + 1 .. Len(text) + 1
      BY <1>1, <2>5, <3>1, AfterPlace
    <3> QED
      BY <1>1, <3>1, <3>2 DEF Word, Number, Positions
  <2>7. lastChar_' \in Positions
    BY <2>2, <2>3, <2>4, <2>6
  <2>8. text' = text /\ Positions' = Positions /\ \A p : Char(p)' = Char(p)
    BY <2>4 DEF text, Positions, Char
  <2>9. EveryCharacter'
    <3>1. gap'[1] = lastChar_ /\ gap'[2] = i
      BY <2>4
    <3>2. EveryCharacter' <=> Covered(gap'[1], gap'[2])
      BY <2>8 DEF EveryCharacter, Covered, InComment
    <3> QED
      BY <2>1, <3>1, <3>2
  <2> QED
    BY <1>1, <2>4, <2>7, <2>8, <2>9 DEF LexInv
<1> QED
  BY <1>2, <1>3

\* getTok loses no character: between two tokens of any text there are only
\* white space and comments, and no token begins inside of a comment.
THEOREM EveryCharacterThm == LexSpec => []EveryCharacter
<1>1. LexInv => EveryCharacter
  BY DEF LexInv
<1> QED
  BY <1>1, LexInitInv, LexNextInv, PTL DEF LexSpec
=============================================================================
