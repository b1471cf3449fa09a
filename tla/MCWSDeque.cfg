CONSTANTS
  Thieves = {t1, t2}
  InitSize = 1
  Word = 16
  MaxPush = 4
SPECIFICATION Spec
SYMMETRY Symmetry
INVARIANTS NothingLost Inv
PROPERTIES ImplementsDeque
