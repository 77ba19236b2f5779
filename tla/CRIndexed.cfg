CONSTANTS
  Widths = {3, 40}
  Batches <- MCIndexed
  Reduced <- MCReduced
  Listed = {"r1"}
  GuardName <- MCNames
  DeclOf <- MCDecls
  MaxReruns = 1
SPECIFICATION Spec
INVARIANT CallSitesReplaced
