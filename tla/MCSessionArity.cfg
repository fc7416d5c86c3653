\* f is defined with one number of parameters, and then an extern of another
\* replaces its prototype.
SPECIFICATION DefinedFirstSpec
CONSTANTS
  f = f
  g = g
  sin = sin
  bang = bang
  colon = colon
  putchard = putchard
  Anon = Anon
  User = {f, g}
  Host = {}
  Process = {}
  Unary = {}
  Binary = {}
  MaxArity = 2
  MaxCalls = 1
  Sig <- TwoArities
  Externable = {f}
INVARIANTS
  ArgumentsChecked
CHECK_DEADLOCK FALSE
