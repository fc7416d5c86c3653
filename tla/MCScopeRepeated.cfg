\* A name twice in a var list.
SPECIFICATION Spec
CONSTANTS
  a = a
  b = b
  Names = {a, b}
  VarLists <- Repeated
  MaxFunctions = 2
  MaxDepth = 3
  MaxAllocas = 5
INVARIANTS
  LocalVariablesLocal
CHECK_DEADLOCK FALSE
