\* Bodies of up to three operations, for two arguments; loops of up to eight
\* rounds.
SPECIFICATION Spec
CONSTANTS
  Names = {"x", "y", "z", "a", "b", "c", "i"}
  Functions <- Chosen
  Arities <- Signatures
  Returns <- Results
  MaxTrips = 8
  MaxBlocks = 30
INVARIANTS
  AcceptedExactly
  Verified
  ResultRight
  DetachedEmpty
PROPERTIES
  Termination
CHECK_DEADLOCK FALSE
