CONSTANTS
  f = f
  g = g
  h = h
  F = F
  C = C
  t1 = t1
  t2 = t2
  td = td
  plain = plain
  descr = descr
  w1 = w1
  w2 = w2
  k = k
  NULL = NULL
  Interpreted = Interpreted
  Lazy = Lazy
  Func <- MCFunc
  Code <- MCCode
  MaxArts <- MCMaxArts
  Art <- MCArt
  CodeOf <- MCCodeOf
  NestedIn <- MCNestedIn
  Receivers <- MCReceivers
  DescrOf <- MCDescrOf
  Shapes <- MCShapes
  Programs <- MCPrograms
  Type = {t1, t2, td}
  Value = {plain, descr}
  Worker = {w1, w2}
  Cache = {k}
  Fallible = {C}
  MaxEntries = 2
SYMMETRY MCSymmetry
SPECIFICATION Spec
INVARIANTS RegistriesLive ChecksHold LostSlotIsPatched CachesFresh BatchSettled
