CONSTANTS
  m = m
  a = a
  b = b
  f = f
  g = g
  Threads = {m, a}
  AppThreads = {m}
  Fns = {f}
  MaxDepth = 1
  None = None
  SpuriousWakeups = TRUE
  LastIdShared = FALSE
SPECIFICATION Spec
INVARIANT WokenWhenReady
