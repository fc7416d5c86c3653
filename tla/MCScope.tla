------------------------------ MODULE MCScope ------------------------------
(* Instances of Scope for TLC. *)
EXTENDS Scope

CONSTANTS a, b

Distinct == {<<a>>, <<b>>, <<a, b>>, <<b, a>>}
Repeated == Distinct \cup {<<a, a>>}
=============================================================================
