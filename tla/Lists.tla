------------------------------- MODULE Lists -------------------------------
(***************************************************************************)
(* Parts of the lists of instructions and uses that LLVM keeps.            *)
(***************************************************************************)
EXTENDS Integers, FiniteSets, Sequences

\* The members of a list at the places in S, in their order.
Nth(S, k) == CHOOSE i \in S : Cardinality({j \in S : j < i}) = k - 1
At(list, S) == [k \in 1 .. Cardinality(S) |-> list[Nth(S, k)]]
=============================================================================
