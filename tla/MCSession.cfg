\* A function with two arities, a library function.
SPECIFICATION Spec
CONSTANTS
  f = f
  g = g
  sin = sin
  bang = bang
  colon = colon
  putchard = putchard
  Anon = Anon
  User = {f, sin}
  Host = {}
  Process = {sin}
  Unary = {}
  Binary = {}
  MaxArity = 2
  MaxCalls = 2
  Sig <- TwoArities
  Externable = {f, sin}
INVARIANTS
  TypeOK
  BodiesHandedOver
  AnonNeverResident
  ErasureSafe
  ModuleClosed
PROPERTIES
  Refinement
CHECK_DEADLOCK FALSE
