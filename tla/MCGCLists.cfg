CONSTANTS
  NumObjs = 3
  NumWorkers = 2
  Heaps <- AllHeaps
SPECIFICATION Spec
INVARIANTS ExactSplit WellLinked ScanInvariant
