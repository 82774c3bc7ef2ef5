CONSTANTS
  funding = funding
  spot = spot
  k1 = k1
  k2 = k2
  c1 = c1
  c2 = c2
  w1 = w1
  w2 = w2
  t1 = t1
  t2 = t2
  t3 = t3
  NoOne = NoOne
  Accounts = {funding, spot}
  Keys = {k1}
  Consumers = {c1}
  Withdrawals = {w1}
  Transfers = {t2}
  MaxFaults = 1
CONSTANT DepositTo <- MCDepositTo
CONSTANT WithdrawFrom <- MCWithdrawFrom
CONSTANT From <- MCFrom
CONSTANT To <- MCTo
CONSTANT Amount <- MCAmount
CONSTANT Opening <- MCOpeningBoth
CONSTANT FeeMins <- MCFeeMins
SPECIFICATION Spec
PROPERTY RefundOnlyAfterChainFailure
