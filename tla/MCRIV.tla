------------------------------- MODULE MCRIV -------------------------------
(***************************************************************************)
(* The control flow graphs of n blocks with at most two successors each    *)
(* and no edge back to the entry.  Dominance is computed from its          *)
(* definition: d dominates b if b is out of reach once d is removed.       *)
(***************************************************************************)
EXTENDS RIV, FiniteSets, TLC, SequencesExt

B(n) == 1 .. n
Graphs2(n) == [B(n) -> {S \in SUBSET (B(n) \ {1}) : Cardinality(S) <= 2}]

\* The blocks within reach of the entry when the blocks in X are removed.
Reach(n, succ, X) ==
  LET step[k \in 0 .. n] ==
        IF k = 0 THEN {1} \ X
        ELSE step[k - 1] \cup ((UNION {succ[b] : b \in step[k - 1]}) \ X)
  IN step[n]

Live(n, succ) == Reach(n, succ, {})
Tree(n, succ) ==
  LET live == Live(n, succ)
      away == [d \in B(n) |-> Reach(n, succ, {d})]
      sdom == [b \in B(n) |-> IF b \in live
                              THEN {d \in live \ {b} : b \notin away[d]} ELSE {}]
  IN [sdom |-> sdom,
      kids |-> [d \in B(n) |-> SetToSeq({c \in live \ {1} : d \in live
                                          /\ sdom[c] = sdom[d] \cup {d}})]]
=============================================================================
