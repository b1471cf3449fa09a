CONSTANTS
  MaxWorkers = 3
  NumObjs = 3
  Heaps <- AllHeaps
SPECIFICATION FairSpec
INVARIANTS ExactlyUnreachable PositiveIsReachable MarkingCounted
PROPERTIES Terminates
