----------------------------- MODULE MCMergeBB -----------------------------
(***************************************************************************)
(* Functions of five blocks: an entry that branches or switches, blocks 2  *)
(* to 4 that may duplicate each other, and a block 5 that returns; and two *)
(* functions for what these cannot show.                                   *)
(***************************************************************************)
EXTENDS MergeBB

CONSTANTS Entries, Seconds, Thirds, Fourths, Bodies, Incomings

Inst(op, use) == [op |-> op, preds |-> <<>>, use |-> use,
                  vals |-> IF op = "dbg" THEN <<>> ELSE <<<<0, 0>>>>]
BodyOf == [add   |-> <<Inst("add", "none")>>,
           debug |-> <<Inst("dbg", "none"), Inst("add", "none")>>,
           toPhi |-> <<Inst("add", "phi")>>,
           debugToPhi |-> <<Inst("dbg", "none"), Inst("add", "phi")>>,
           away  |-> <<Inst("dbg", "none"), Inst("add", "elsewhere")>>]
ToPhi == {"toPhi", "debugToPhi"}
Phi(preds, vals) == [op |-> "phi", vals |-> vals, preds |-> preds,
                     use |-> "none"]

Br(t)     == [term |-> "br", targets |-> <<t>>]
Cbr(t, e) == [term |-> "cbr", targets |-> <<t, e>>]
Invoke(t) == [term |-> "invoke", targets |-> <<t>>]
Switch(s) == [term |-> "switch", targets |-> s]
Ret       == [term |-> "ret", targets |-> <<>>]

\* The uses in S by block and operand, of which there are four at most.
AllUses == [k \in 1 .. 24 |-> <<(k + 3) \div 4, ((k + 3) % 4) + 1>>]
Ascending(S) == SelectSeq(AllUses, LAMBDA u : u \in S)

Build(terms, bodies, up, phi) ==
  LET ts    == [b \in 1 .. 5 |-> terms[b].targets]
      uses  == [b \in 1 .. 5 |-> IF b \in up THEN Ascending(UsesOf(ts, b))
                                 ELSE Reverse(Ascending(UsesOf(ts, b)))]
      preds(b) == [k \in DOMAIN uses[b] |-> uses[b][k][1]]
      \* what block p hands to the phi of block 5
      value(p) == IF p \in 2 .. 4 /\ bodies[p] \in ToPhi
                  THEN <<p, Len(BodyOf[bodies[p]])>>
                  ELSE IF phi = "same" THEN <<0, 0>> ELSE <<0, p>>
      insts(b) ==
        IF preds(b) = <<>> THEN <<>>
        ELSE IF b = 5 /\ phi # "none"
        THEN <<Phi(preds(b), [k \in DOMAIN preds(b) |-> value(preds(b)[k])])>>
        ELSE IF b # 5 /\ bodies[b] = "phi"
        THEN <<Phi(preds(b), [k \in DOMAIN preds(b) |-> <<0, 0>>])>>
        ELSE <<>>
  IN [size |-> 5, targets |-> ts, useList |-> uses,
      term |-> [b \in 1 .. 5 |-> terms[b].term],
      body |-> [b \in 1 .. 5 |->
                  insts(b) \o (IF b \in 2 .. 4 /\ bodies[b] # "phi"
                               THEN BodyOf[bodies[b]] ELSE <<>>)]]

\* Only a block that jumps to the phi has a result used by the phi.
Sensible(terms, bodies, phi) ==
  \A b \in 2 .. 4 : bodies[b] \in ToPhi => terms[b] = Br(5) /\ phi # "none"

Shapes == {x \in Entries \X Seconds \X Thirds \X Fourths \X {Ret}
                   \X [2 .. 4 -> Bodies] \X {{}, {3, 5}} \X Incomings :
             Sensible(SubSeq(x, 1, 5), x[6], x[8])}
AllFunctions == {Build(SubSeq(x, 1, 5), x[6], x[7], x[8]) : x \in Shapes}

(* What takes more than three blocks of the same kind, or phis of phis.     *)
Assemble(terms, insts) ==
  LET ts == [b \in DOMAIN terms |-> terms[b].targets]
  IN [size |-> Len(terms), targets |-> ts, body |-> insts,
      term |-> [b \in DOMAIN terms |-> terms[b].term],
      useList |-> [b \in DOMAIN terms |-> Ascending(UsesOf(ts, b))]]
Zeros(preds) == Phi(preds, [k \in DOMAIN preds |-> <<0, 0>>])

\* Block 2 is condemned before the block 4 to which it jumps; its edge is then
\* sent to block 5, whose phi does not name it.
Condemned ==
  Assemble(<<Switch(<<2, 3, 5, 5>>), Br(4), Br(4), Br(6), Br(6), Ret>>,
           <<<<>>, <<>>, <<>>, <<Zeros(<<2, 3>>)>>, <<Zeros(<<1, 1>>)>>, <<>>>>)

\* Without block 2 or 3 the phi of block 5 has a number and another phi left.
PhiOfPhi ==
  Assemble(<<Switch(<<2, 3, 4, 4>>), Br(5), Br(5), Br(5), Ret>>,
           <<<<>>, <<>>, <<>>, <<[Zeros(<<1, 1>>) EXCEPT !.use = "phi"]>>,
             <<Phi(<<2, 3, 4>>, <<<<0, 0>>, <<0, 0>>, <<4, 1>>>>)>>>>)

MoreFunctions == AllFunctions \cup {Condemned, PhiOfPhi}

ManyEntries == {Switch(<<2, 3, 4>>), Switch(<<2, 3, 3>>), Cbr(2, 4)}
ManySeconds == {Br(5), Cbr(3, 4), Invoke(3)}
ManyThirds  == {Br(5), Br(4)}
ManyFourths == {Br(5), Br(3), Br(2)}
=============================================================================
