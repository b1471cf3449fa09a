CONSTANTS
  Thieves = {t1}
  InitSize = 1
  Word = 16
  MaxPush = 2
  StoreOrders = {"partial"}
  GrowOn = {"partial"}
SPECIFICATION WSpec
SYMMETRY Symmetry
INVARIANTS WinnerHoldsElement
