CONSTANTS
  Widths = {3, 40}
  Batches <- MCBatches
  Reduced <- MCReduced
  Listed = {"r1"}
  GuardName <- MCNames
  DeclOf <- MCDecls
  MaxReruns = 1
SPECIFICATION Spec
INVARIANTS PlainCallsReplaced DeclaredBeforeUse PartsAreCommands AllGuarded
