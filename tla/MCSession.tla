----------------------------- MODULE MCSession -----------------------------
(* Instances of Session for TLC. *)
EXTENDS Session

CONSTANTS f, g, sin, bang, colon, putchard

Parity == [n \in Named |-> IF n \in Binary THEN {2} ELSE {1}]
\* f may be declared with one and with two parameters.
TwoArities == [Parity EXCEPT ![f] = {1, 2}]

\* Sessions in which no body fails, and in which a function is defined before
\* any other declaration of its name is read.
DefinedFirst ==
  /\ failed' = {}
  /\ \A n \in Named : FunctionProtos'[n] # FunctionProtos[n] =>
       IF cur' = n THEN FunctionProtos[n] = NoProto
                   ELSE MainJD[n].kind = "defined"
DefinedFirstSpec == Init /\ [][Next /\ DefinedFirst]_vars
=============================================================================
