\* Every pipeline of at most three passes on one program.
SPECIFICATION Spec
CONSTANTS
  Source <- MCSource
  Order <- MCOrder
  Inputs <- MCInputs
  MaxPasses = 3
INVARIANTS
  NoErasedOperand
  ResultsKept
  ComparisonsKept
  CacheFresh
  InstrumentationRight
CHECK_DEADLOCK FALSE
