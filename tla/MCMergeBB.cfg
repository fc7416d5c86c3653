\* Duplicates in every position, with and without a phi in the successor.
SPECIFICATION FairSpec
CONSTANTS
  Functions <- MoreFunctions
  Entries <- ManyEntries
  Seconds <- ManySeconds
  Thirds <- ManyThirds
  Fourths <- ManyFourths
  Bodies = {"add", "debug", "toPhi", "debugToPhi", "away", "phi"}
  Incomings = {"none", "same", "different"}
INVARIANTS
  TypeOK
  EdgesEquivalent
  SoleUserFreed
  PhisComplete
PROPERTIES
  NeverToCondemned
  Termination
CHECK_DEADLOCK FALSE
