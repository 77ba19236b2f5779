CONSTANTS
  m = m
  a = a
  b = b
  f = f
  g = g
  Threads = {m, a, b}
  AppThreads = {m}
  Fns = {f}
  MaxDepth = 2
  None = None
  SpuriousWakeups = FALSE
  LastIdShared = TRUE
SPECIFICATION Spec
INVARIANTS TypeOK InfoOutlivesChild NoLostWakeup MutexDiscipline OwnThreadId
