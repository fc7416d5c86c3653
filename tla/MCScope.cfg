\* Two functions, nesting of three, no name twice in a var list.
SPECIFICATION Spec
CONSTANTS
  a = a
  b = b
  Names = {a, b}
  VarLists <- Distinct
  MaxFunctions = 2
  MaxDepth = 3
  MaxAllocas = 5
INVARIANTS
  LexicallyScoped
  NoForeignSlot
CHECK_DEADLOCK FALSE
