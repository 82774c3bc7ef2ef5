CONSTANTS
  o1 = o1
  o2 = o2
  o3 = o3
  c1 = c1
  f1 = f1
  None = None
  Orders = {o1, o2, o3}
  Closers = {c1}
  Fills = {f1}
  Credits = {"base"}
  Initial = 3
  MaxRequests = 2
  MaxFaults = 1
CONSTANT SideOf <- MCSideOf
CONSTANT Size <- MCSize
SPECIFICATION Spec
INVARIANT TypeOK
INVARIANT LockedIsBacked
INVARIANT RefundIsTheOnlyDrift
PROPERTY AcceptedIsServed
