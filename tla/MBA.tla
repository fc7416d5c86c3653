-------------------------------- MODULE MBA --------------------------------
(***************************************************************************)
(* The arithmetic behind the passes MBAAdd and MBASub: what the operations *)
(* they emit compute on integers of a fixed width, and the two expressions *)
(* they put in the place of an addition and a subtraction.                 *)
(***************************************************************************)
EXTENDS Integers

M8 == 256
Bytes == 0 .. 255

\* The bit of a byte that weighs w, and the bytes made of bits.
Bit(a, w) == (a \div w) % 2
Weights == {1, 2, 4, 8, 16, 32, 64, 128}
Byte(b) == b[1] + 2 * (b[2] + 2 * (b[4] + 2 * (b[8] + 2 * (b[16]
             + 2 * (b[32] + 2 * (b[64] + 2 * b[128]))))))
And(a, b) == Byte([w \in Weights |-> Bit(a, w) * Bit(b, w)])
Xor(a, b) == Byte([w \in Weights |-> (Bit(a, w) + Bit(b, w)) % 2])

\* add, sub, mul and not (xor with all ones) modulo m.
AddM(m, a, b) == (a + b) % m
SubM(m, a, b) == (a - b) % m
MulM(m, a, b) == (a * b) % m
NotM(m, a) == m - 1 - a

\* MBAAdd: a + b = (a ^ b) + 2 * (a & b), then the linear map 39x + 23 and
\* its inverse 151x + 111.
LinearMap(x) == AddM(M8, MulM(M8, x, 39), 23)
InverseMap(x) == AddM(M8, MulM(M8, x, 151), 111)
AddReplaced(a, b) ==
  InverseMap(LinearMap(AddM(M8, Xor(a, b), MulM(M8, 2, And(a, b)))))

\* MBASub: a - b = a + ~b + 1.
SubReplaced(m, a, b) == AddM(m, AddM(m, a, NotM(m, b)), 1)
=============================================================================
