CONSTANTS
  Sales <- MCSales
  Buys <- MCBuys
  FirstLots <- MCFirstLots
  Amounts = {1, 3}
  MaxJobs = 2
  MaxCalls = 0
  MaxDeaths = 0
SPECIFICATION LotsSpec
INVARIANT SoldLotsAreDeleted
