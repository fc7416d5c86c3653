\* A function, a unary and a binary operator, of one
\* arity each, whose definitions may fail.
SPECIFICATION Spec
CONSTANTS
  f = f
  g = g
  sin = sin
  bang = bang
  colon = colon
  putchard = putchard
  Anon = Anon
  User = {f, bang, colon}
  Host = {}
  Process = {}
  Unary = {bang}
  Binary = {colon}
  MaxArity = 2
  MaxCalls = 1
  Sig <- Parity
  Externable = {bang}
INVARIANTS
  LinkSafe
  MissingExplained
  ParsedOperatorsHaveProtos
CHECK_DEADLOCK FALSE
