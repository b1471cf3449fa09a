CONSTANTS
  builtins = builtins
  globals = globals
  Dict = {builtins, globals}
  Name = {x, y}
  Value = {v1, v2}
  NULL = NULL
  LAZY = LAZY
  Pair <- Pairs
  MaxCells = 3
  LazyImports = FALSE
  BuiltinsFreed = FALSE
SPECIFICATION Spec
INVARIANTS CacheIsLookup ChecksHold RegistriesLive
PROPERTIES ForgottenStaysNull
