CONSTANTS
  Thieves = {t1, t2}
  InitSize = 2
  Word = 16
  MaxPush = 3
  StoreOrders = {"total", "partial"}
  GrowOn = {"total"}
SPECIFICATION WSpec
SYMMETRY Symmetry
INVARIANTS WinnerHoldsElement NoDuplicate
