CONSTANTS
  top = top
  mid = mid
  low = low
  side = side
  cmp = cmp
  visit = visit
  Libs = {top, mid, low, side}
  Sigs = {cmp, visit}
  Needs <- MCNeeds
  Registers <- MCSigs
  Guards <- MCSigs
  MaxRefs = 2
  None = None
SPECIFICATION Spec
INVARIANT ThunksFound
