\* RIV on all graphs of four blocks, DuplicateBB on graphs of three.
SPECIFICATION DSpec
CONSTANTS
  Functions <- MCFunctions
  IntegerTyped <- Ints
  PassOn <- MCPassOn
  Visits = 3
INVARIANTS
  Sound
  Exact
  SameBehaviour
  TestsTheChosenValue
  WellFormed
PROPERTIES
  Termination
CHECK_DEADLOCK FALSE
