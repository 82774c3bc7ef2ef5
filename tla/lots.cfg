CONSTANTS
  Sales <- MCSales
  Buys <- MCBuys
  FirstLots <- MCFirstLots
  Amounts = {1, 3}
  MaxJobs = 2
  MaxCalls = 2
  MaxDeaths = 1
SPECIFICATION LotsSpec
INVARIANT LotsTypeOK
INVARIANT LotsMatchHoldings
INVARIANT PnlOncePerSale
