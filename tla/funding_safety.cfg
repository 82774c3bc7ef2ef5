CONSTANTS
  funding = funding
  spot = spot
  k1 = k1
  k2 = k2
  c1 = c1
  c2 = c2
  w1 = w1
  w2 = w2
  t1 = t1
  t2 = t2
  t3 = t3
  NoOne = NoOne
  Accounts = {funding, spot}
  Keys = {k1}
  Consumers = {c1, c2}
  Withdrawals = {w1}
  Transfers = {t1, t2, t3}
  MaxFaults = 1
CONSTANT DepositTo <- MCDepositTo
CONSTANT WithdrawFrom <- MCWithdrawFrom
CONSTANT From <- MCFrom
CONSTANT To <- MCTo
CONSTANT Amount <- MCAmount
CONSTANT Opening <- MCOpening
CONSTANT FeeMins <- MCFeeMins
SPECIFICATION Spec
INVARIANT TypeOK
INVARIANT NeverNegative
INVARIANT BalanceMatchesLedger
INVARIANT RefundOnlyIfRefusedOrDisputed
INVARIANT DebitBeforeAsking
INVARIANT AnnouncedAsStored
INVARIANT NoticeAtMostOnce
INVARIANT LedgerExplained
PROPERTY ImplementsSettlement
