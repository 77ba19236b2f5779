CONSTANTS
  m = m
  a = a
  b = b
  f = f
  g = g
  Threads = {m, a, b}
  AppThreads = {m, a}
  Fns = {f, g}
  MaxDepth = 1
  None = None
  SpuriousWakeups = TRUE
  LastIdShared = TRUE
SPECIFICATION Spec
INVARIANTS RequestIntact
SYMMETRY FnSymmetry
