\* Two predecessors, one duplicate.
SPECIFICATION FairSpec
CONSTANTS
  Functions <- AllFunctions
  Entries <- ManyEntries
  Seconds <- ManySeconds
  Thirds <- ManyThirds
  Fourths <- ManyFourths
  Bodies = {"add"}
  Incomings = {"none"}
INVARIANTS
  PredecessorsRewritten
CHECK_DEADLOCK FALSE
