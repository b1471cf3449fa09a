CONSTANTS
  Functions = {f1, f2}
  Codes = {c1, c2}
  Artifacts = {a1, a2}
  None = None
  MaxDepth = 1
  MaxDeferred = 1
  Reentrant <- MCReentrant
SPECIFICATION Spec
SYMMETRY Symmetry
INVARIANT NoDeferredAnchors
