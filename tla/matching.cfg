CONSTANTS
  alice = alice
  bob = bob
  carol = carol
  m1 = m1
  m2 = m2
  m3 = m3
  j1 = j1
  j2 = j2
  NoUser = NoUser
  Users = {alice, bob, carol}
  Makers = {m1, m2, m3}
  Jobs = {j1, j2}
  Scale = 2
  MaxFaults = 1
CONSTANT MakerOrders <- MCMakerOrders
CONSTANT JobOrders <- MCJobOrders
SPECIFICATION Spec
INVARIANT TypeOK
INVARIANT LockedIsReserved
INVARIANT Conserved
INVARIANT LedgerExplainsBalance
INVARIANT PricePriority
INVARIANT RoundingRestIsSmall
