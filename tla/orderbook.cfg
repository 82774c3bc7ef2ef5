CONSTANTS
  o1 = o1
  o2 = o2
  o3 = o3
  c1 = c1
  c2 = c2
  j1 = j1
  j2 = j2
  None = None
  Orders = {o1, o2, o3}
  Closers = {c1}
  Matchers = {j1}
  Prices = {1, 2}
  MaxFaults = 1
CONSTANT PriceOf <- MCPriceOf
CONSTANT Size <- MCSize
CONSTANT Wanted <- MCWanted
SPECIFICATION Spec
INVARIANT TypeOK
INVARIANT BookAgrees
INVARIANT NoEmptyLevel
INVARIANT EachAmountOnce
