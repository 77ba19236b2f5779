CONSTANTS
  m = m
  a = a
  b = b
  f = f
  g = g
  Threads = {m, a}
  AppThreads = {m}
  Fns = {f, g}
  MaxDepth = 2
  None = None
  SpuriousWakeups = FALSE
  LastIdShared = FALSE
SPECIFICATION FairSpec
INVARIANTS StackPairing AnswerBeforeResume
PROPERTIES ExitNeverReturns ImplementsCrossCall CreatorResumes CreatedStarts
