\* A failed definition leaves a prototype; nothing is declared extern.
SPECIFICATION Spec
CONSTANTS
  f = f
  g = g
  sin = sin
  bang = bang
  colon = colon
  putchard = putchard
  Anon = Anon
  User = {f, g}
  Host = {}
  Process = {}
  Unary = {}
  Binary = {}
  MaxArity = 2
  MaxCalls = 1
  Sig <- Parity
  Externable = {}
INVARIANTS
  UndefinedCallsRefused
CHECK_DEADLOCK FALSE
