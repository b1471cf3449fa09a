CONSTANTS
  c1 = c1
  c2 = c2
  f1 = f1
  f2 = f2
  f3 = f3
  NULL = NULL
  Compute = {c1, c2}
  Future = {f1, f2, f3}
SPECIFICATION FairSpec
CHECK_DEADLOCK FALSE
INVARIANTS OneComputation ResultsAgree NobodyForgotten
PROPERTY WaitersServed
