CONSTANTS
  a = a
  b = b
  c = c
  w = w
  NONE = NONE
  Obj = {a, b, c, w}
  Finalizable = {a, b}
  LegacyDel = {c}
  NoClear = {b}
  WeakRef = {w}
  Heaps <- CycleHeaps
  MaxCollections = 2
  MaxMutations = 2
SPECIFICATION Spec
CHECK_DEADLOCK FALSE
INVARIANTS ClearedIsTrash LegacyKeepsAlive TrashIsHidden FinalizedOnce CollectionSettled
